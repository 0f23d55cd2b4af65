CONSTANTS
    Images <- MCImages
    Built <- MCBuilt
    Shift <- MCShift
SPECIFICATION FairSpec
INVARIANTS TypeOK HoldsExactly FragmentTableComplete SoundImageOpens
PROPERTY OpenReturns
