\* A command that reads no input.
SPECIFICATION FairSpec
CONSTANT
    Capacity = 1
PROPERTY
    DisconnectClosesStream
CHECK_DEADLOCK FALSE
