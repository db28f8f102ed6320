CONSTANTS
    BlockSize = 2
    NbBlocks = 4
    CacheBlock = 8
    MaxSkipLength = 1
    BlockUseThreshold = 3
    BlockSizeBit = 1
    BlockIDSpace = 2
    RebaseLengthBits = 2
    MaxSkipLengthBits = 1
    QwordBits = 9
    Targets <- HighSwap
SPECIFICATION PayloadSpec
INVARIANT PlanIsEncoded
