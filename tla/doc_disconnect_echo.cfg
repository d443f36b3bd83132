\* A user who writes and does not read, and leaves.
SPECIFICATION EchoFairSpec
CONSTANT
    Capacity = 1
PROPERTY
    DisconnectClosesStream
CHECK_DEADLOCK FALSE
