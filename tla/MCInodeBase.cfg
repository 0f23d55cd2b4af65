CONSTANTS
    Inodes <- MCPlain
    super <- MCSuper
    Word <- MCWord
    Half <- MCHalf
    Garbage <- MCGarbage
SPECIFICATION Spec
INVARIANT OkMeansBaseAsStored
