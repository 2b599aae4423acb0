CONSTANTS
    Byte = {"a1", "a2", "b", "c", "d", "e", "f", "g", "h", "o", "t1", "t2", "u", "v", "w", "x", "y", "z"}
    BlockSize = 4
    Word = 2
    FileHeader = 1
    ChunkHeader = 1
    EraseMax = 4
    FreshBlocks <- TestFresh
    Layout <- TestLayout
    Attributes = {"a1", "a2"}
    Images <- TestImages
    MiscWrites <- TestMisc
    FirstDisk <- TestDisk
    MaxCommands = 3
    MaxFailures = 1
SPECIFICATION DiskSpec
INVARIANTS OkayMeansImage
CHECK_DEADLOCK FALSE
