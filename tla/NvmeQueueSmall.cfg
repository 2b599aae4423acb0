SPECIFICATION Spec
CONSTANTS
    SqSize = 2
    CqSize = 3
    CqDevice = 2
    MaxChunks = 3
    MaxCalls = 4
    NoCommand = NoCommand
INVARIANTS WaitsForOwed
CHECK_DEADLOCK FALSE
