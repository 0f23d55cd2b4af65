CONSTANTS
    Images <- MCImages
    HostTrees <- MCHostTrees
    Targets <- MCTargets
SPECIFICATION FairSpec
INVARIANTS DirTypeOK HoldsExactly NoReentry CompleteUnlessCut
PROPERTIES FailureStops Terminates
CHECK_DEADLOCK FALSE
