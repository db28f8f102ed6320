SPECIFICATION Spec
CONSTANTS
    Blocks = {0, 1}
    BlockSize = 4
    WordSize = 64
    Blank = 63
    Headers <- MCHeaders
    NoHeader = NoHeader
    FactoryVersion = 1
    FactoryChallenge = 11
    Zero = 0
    Valid = 37
    OldImage <- MCImage
    Junk = 60
    NullReads = {TRUE}
    LossAt = {"start", "run", "conclude", "switch", "app"}
    MaxLosses = 1
INVARIANT VersionNeedsImage
