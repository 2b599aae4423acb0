SPECIFICATION Spec
CONSTANTS
    Servers = {s1}
    Xids = {x1, x2}
    Sends = 3
    MaxConns = 2
    None = None
    Files = {"bootfile", "ramdisk", "args"}
    Blocks <- MCBlocksArgs
    EmptyEnd = {}
    Modulus = 3
    Life = 1
    Tids = {t1}
    NoPort = NoPort
    Room = 6
    ArgsRoom = 2
INVARIANTS ArgsFallBack
CHECK_DEADLOCK FALSE
