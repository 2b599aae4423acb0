SPECIFICATION RequestSpec
CONSTANTS
    Servers = {s1}
    Xids = {x1, x2}
    Sends = 3
    MaxConns = 10
    None = None
    Files = {"bootfile", "ramdisk", "args"}
    Blocks <- MCBlocks
    EmptyEnd = {}
    Modulus = 3
    Life = 1
    Tids = {t1}
    NoPort = NoPort
    Room = 6
    ArgsRoom = 2
PROPERTIES RetriesSucceed
CHECK_DEADLOCK FALSE
