SPECIFICATION Spec
CONSTANTS
    Client = {c1, c2}
    Jpeg <- SomeJpegs
    MaxPayload = 2
    SeqSpace = 3
    TsSpace = 2
    SeqStarts = {1}
    TsStarts = {1}
    MaxFrames = 2
    MaxRelayed = 3
SYMMETRY Symmetric
INVARIANTS
    PicturesWhole
    SequenceUnbroken
    ReportsTrue
    FramesReachAll
    NothingLostOverTcp
CHECK_DEADLOCK FALSE
