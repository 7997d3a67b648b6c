CONSTANTS
    StdinUnits = 4
    Chunk = 2
    InCap = 2
    OutCap = 3
    Commands = {"cat", "echo"}
    MaxEmptyFrames = 0
    Interactive = FALSE
    None = None
    UploadMayFail = FALSE
SPECIFICATION RunSpec
INVARIANTS ExitStatusTruthful CleanupOnExit
CHECK_DEADLOCK FALSE
