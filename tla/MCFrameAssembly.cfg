SPECIFICATION Spec
CONSTANTS
    IdSpace = 5
    FirstIds = {0, 2}
    Packets = 6
    Window = 2
    Streams <- AllStreams
INVARIANTS
    HolesAreSpliced
    OnlyFirstIsHeadless
    LossInsideNoticed
    NothingSkippedUntilWrap
PROPERTY ShownInOrder
CHECK_DEADLOCK FALSE
