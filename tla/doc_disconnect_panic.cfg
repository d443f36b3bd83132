\* A command that prints.
SPECIFICATION Spec
CONSTANT
    Capacity = 1
INVARIANT
    DisconnectCleansStream
CHECK_DEADLOCK FALSE
