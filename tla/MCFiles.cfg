SPECIFICATION Spec
CONSTANTS
    NULL = NULL
    GARBAGE = GARBAGE
    DevSize = 8
    Word = 16
    Tables <- MCTables
    FsStart = 2
    MaxDepth = 4
    File = {"prog", "data"}
    Exec = "prog"
    Start <- MCStart
    Length <- MCLength
    SectorSize = 2
    Chunk = 2
    Buffers <- MCBuffers
    Sizes <- MCSizes
    Positions <- MCPositions
    MaxFd = 4
    LowMemory = TRUE
CHECK_DEADLOCK FALSE
INVARIANT TableExact DiskKept
PROPERTY FilesImplementByteFiles
