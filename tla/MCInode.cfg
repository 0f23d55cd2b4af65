CONSTANTS
    Inodes <- MCInodes
    super <- MCSuper
    Word <- MCWord
    Half <- MCHalf
    Garbage <- MCGarbage
SPECIFICATION Spec
INVARIANTS TypeOK HoldsExactly  ReaderStaysInList SoundInodeIsReadable
