SPECIFICATION Spec
CONSTANTS
    Locations = {l1}
    Factory = l1
    Blank = Blank
    Slots = 4
    MaxCounter = 6
    MaxMultiplier = 2
INVARIANT OneValid
