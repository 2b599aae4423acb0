CONSTANTS
    Boards <- MCBoards
    Heap = 4
SPECIFICATION Spec
INVARIANTS
    ExitRuns
CHECK_DEADLOCK FALSE
