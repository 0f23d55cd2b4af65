CONSTANTS
    Inodes <- MCLinks
    super <- MCSuper
    Word <- MCWord
    Half <- MCHalf
    Garbage <- MCGarbage
SPECIFICATION Spec
INVARIANT OkMeansTargetAsStored
