\* More sizes than the queue holds before the remote terminal takes one.
SPECIFICATION FairSpec
CONSTANTS
    Keys = Keys
    Capacity = 2
    MaxFrames = 2
    MaxSizes = 6
PROPERTY
    LastSizeArrives
