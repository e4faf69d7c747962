\* length_field_base_frame_decoder(6, 1, 2, -3, 4, false): frames below the header, below the strip, with and without content, and too long.
SPECIFICATION Spec
CONSTANTS
    MaxFrameLength = 6
    Offset = 1
    FieldLength = 2
    Adjustment <- HeaderCounted
    Strip = 4
    BigEndian = FALSE
    Claims = {2, 3, 4, 6, 8}
    MaxFrames = 3
INVARIANTS
    TypeOK
    FramesInOrder
    NoneLeftBehind
PROPERTY
    TooLongBlocks
\* The peer stops sending.
CHECK_DEADLOCK FALSE
