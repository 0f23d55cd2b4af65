CONSTANTS
    Images <- MCImages
    GarbageItems <- MCGarbageItems
    FirstCapacity <- MCFirstCapacity
    NameMax <- MCNameMax
    Word <- MCWord
    Paths <- MCPaths
    LongNames <- MCLongNames
    VisitedCapacity <- MCVisitedCapacity
SPECIFICATION FairSpec
INVARIANT TypeOK
INVARIANT HoldsExactly
INVARIANT SoundDirectoryOpens
INVARIANT LookupIsExact
INVARIANT ListedUnlessCut
PROPERTY ImplementsStream
PROPERTY CallReturns
