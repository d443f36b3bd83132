\* One connection whose user drags the window.
SPECIFICATION FairSpec
CONSTANTS
    Keys = Keys
    Capacity = 2
    MaxFrames = 2
    MaxSizes = 6
INVARIANT
    TypeOK
PROPERTIES
    SizesInOrder
    UserIsNeverHeldUp
    QuietUserIsObeyed
