SPECIFICATION Spec
CONSTANTS
    KeepEvery = 4
    AliveAfter = 6
    Timeout = 50
    MaxLag = 2
    CloseLengths = {4, 8}
INVARIANT CloseIsOrderly
CHECK_DEADLOCK FALSE
