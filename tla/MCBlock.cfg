CONSTANTS
    Stored <- MCStored
    Built <- MCBuilt
    MetadataSize <- MCMetadataSize
    BlockSize <- MCBlockSize
SPECIFICATION FairSpec
INVARIANTS TypeOK HoldsExactly OkMeansWholeBlock SoundBlockIsRead
PROPERTY ReadReturns
