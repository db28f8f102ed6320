CONSTANTS
    WRITE_GRANULARITY = 4
    ADDRESSING_GRANULARITY = 1
    Size = 16
    Gaps = {0}
SPECIFICATION Spec
INVARIANT MisalignedIsKept
