CONSTANTS
    StdinUnits = 4
    Chunk = 2
    InCap = 2
    OutCap = 3
    Commands = {"cat", "echo"}
    MaxEmptyFrames = 1
    Interactive = FALSE
    None = None
    UploadMayFail = FALSE
SPECIFICATION RunSpec
INVARIANTS ExitStatusTruthful
CHECK_DEADLOCK FALSE
