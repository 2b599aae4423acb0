CONSTANTS
    Boards <- LegacyBoards
    MaxVersion = 1
SPECIFICATION Spec
INVARIANT LockedAtHandoff
CHECK_DEADLOCK FALSE
