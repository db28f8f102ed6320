SPECIFICATION Spec
CONSTANTS
    MaxChunks = 4
    MaxRequests = 3
    MaxErrors = 1
INVARIANTS ReadIntact EverythingRead
PROPERTIES QueueSpec RequestEnds
