\* The connection drops.
SPECIFICATION Spec
CONSTANT
    MaxFrames = 1
INVARIANT
    DroppedIsReported
CHECK_DEADLOCK FALSE
