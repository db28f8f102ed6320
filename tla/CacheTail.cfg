CONSTANTS
    WRITE_GRANULARITY = 4
    ADDRESSING_GRANULARITY = 2
    Size = 16
    Gaps = {0}
SPECIFICATION Spec
INVARIANT CommandsAreWritten
