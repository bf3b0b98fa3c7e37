SPECIFICATION CaptureSpec
CONSTANT Camera = {c1, c2, c3, c4}
INVARIANT OnePicture
PROPERTIES
    CaptureKeepsLife
    EndsAfterPicture
CHECK_DEADLOCK FALSE
