CONSTANTS
    Originals <- Faithful
    LZFX_MAX_LIT = 2
    MAX_REF_FORMAT_1 = 2
    OffsetWidth = 2
    LengthWidth = 2
    CacheSize = 16
SPECIFICATION Spec
INVARIANT FirstBufferAsWritten
CHECK_DEADLOCK FALSE
