\* Up to two frames in transit; everything may go wrong at any time.
SPECIFICATION FairSpec
CONSTANT
    MaxFrames = 2
INVARIANTS
    OkMeansComplete
    EndHasCause
PROPERTIES
    EndReachesUser
    ReturnReleasesReader
CHECK_DEADLOCK FALSE
