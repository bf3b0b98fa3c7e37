SPECIFICATION Spec
CONSTANT MaxTranscoders = 5
INVARIANTS
    OneProcess
    SocketsClosed
    CrashedIsReplaced
CHECK_DEADLOCK FALSE
