CONSTANTS
    Inodes <- MCExtendedDirectories
    super <- MCSuper
    Word <- MCWord
    Half <- MCHalf
    Garbage <- MCGarbage
SPECIFICATION Spec
INVARIANT OkMeansDirectoryAsStored
