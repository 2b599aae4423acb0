SPECIFICATION Spec
CONSTANTS
    SqSize = 3
    CqSize = 3
    CqDevice = 3
    MaxChunks = 3
    MaxCalls = 4
    NoCommand = NoCommand
INVARIANTS SuccessMeansDone CommandsIntact WaitsForOwed
PROPERTIES SyncServed
CHECK_DEADLOCK FALSE
