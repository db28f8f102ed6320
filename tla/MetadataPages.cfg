SPECIFICATION Spec
CONSTANTS
    Locations = {l1, l2}
    Factory = l1
    Blank = Blank
    Slots = 4
    MaxCounter = 3
    MaxMultiplier = 1
INVARIANTS TypeOK OneValid NoLostIncrement FastForwardWithinCounter
PROPERTY RecordSpec
