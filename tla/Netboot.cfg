SPECIFICATION Spec
CONSTANTS
    Servers = {s1, s2}
    Xids = {x1, x2}
    Sends = 2
    MaxConns = 2
    None = None
    Files = {"bootfile", "ramdisk", "args"}
    Blocks <- MCBlocks
    EmptyEnd = {"ramdisk"}
    Modulus = 3
    Life = 1
    Tids = {t1, t2}
    NoPort = NoPort
    Room = 5
    ArgsRoom = 1
INVARIANTS AddressHeld FilesWhole ConnectionsHeld
PROPERTIES ReadsEnd
CHECK_DEADLOCK FALSE
