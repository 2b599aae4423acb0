CONSTANTS
    Boards <- VerifiedOnly
    MaxVersion = 1
SPECIFICATION Spec
INVARIANTS HandoffSafe FailureRecorded CleanupBounded
PROPERTIES NoHandoffAfterFailure ExitCompletes
CHECK_DEADLOCK FALSE
