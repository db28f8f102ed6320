SPECIFICATION Spec
CONSTANTS
    Blocks = {0, 1, 2}
    BlockSize = 4
    WordSize = 16
    Blank = 15
    Junk = 0
    Programs <- MCPrograms
    OldImage <- MCImage
    NullReads = {TRUE}
    MaxLosses = 3
    LossDuringBackup = FALSE
INVARIANTS ImageInstalled BackupIsIntact CounterIsStep
PROPERTY Finishes
