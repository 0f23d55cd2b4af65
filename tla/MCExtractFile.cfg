CONSTANTS
    Images <- MCImages
    HostTrees <- MCHostTrees
    Targets <- MCTargets
SPECIFICATION FileSpec
INVARIANTS FileTypeOK FileReleasesAll DeliveredUnlessUnflushed
PROPERTY OverwritesOnlyWithAFile
