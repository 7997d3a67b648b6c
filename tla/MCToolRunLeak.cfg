CONSTANTS
    StdinUnits = 4
    Chunk = 2
    InCap = 2
    OutCap = 3
    Commands = {"cat", "echo"}
    MaxEmptyFrames = 0
    Interactive = FALSE
    None = None
    UploadMayFail = TRUE
SPECIFICATION RunSpec
INVARIANTS CleanupOnExit
CHECK_DEADLOCK FALSE
