SPECIFICATION Spec
CONSTANTS
    Blocks = {0, 1, 2}
    BlockSize = 3
    WordSize = 32
    Blank = 31
    Patches <- MCPatches
    Starts = {0, 1}
    Images <- MCImages
    StepsBefore = {0, 2, 4}
    MaxLosses = 0
INVARIANT DeltaApplied
