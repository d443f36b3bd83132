\* The user types while the gateway closes the connection.
SPECIFICATION Spec
CONSTANT
    MaxFrames = 1
INVARIANT
    OutputForwarded
CHECK_DEADLOCK FALSE
