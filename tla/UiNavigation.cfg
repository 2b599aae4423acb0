CONSTANTS
    Boards <- MCBoards
    Heap = 3
SPECIFICATION Spec
INVARIANTS StackSound PresenceConfirmed TimerStaysOff KeyOnItsScreen
PROPERTIES BootsWhenReady UnattendedBoots
CHECK_DEADLOCK FALSE
