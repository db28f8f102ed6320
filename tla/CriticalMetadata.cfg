SPECIFICATION Spec
CONSTANTS
    Headers <- MCHeaders
    NoHeader = NoHeader
    FactoryVersion = 1
    FactoryChallenge = 101
    BlockSize = 4
    Blank = Blank
    Zero = Zero
    Valid = Valid
    CacheWord = CacheWord
    CachePages <- MCCachePages
    MaxCounter = 2
    MaxLosses = 2
INVARIANTS CriticalRecoverable StartedIsRemembered
PROPERTIES AtomicVersion RequestedIsInstalled
