CONSTANTS
    WRITE_GRANULARITY = 4
    ADDRESSING_GRANULARITY = 2
    Size = 16
    Gaps = {0,1,2}
SPECIFICATION Spec
INVARIANT NothingLost
