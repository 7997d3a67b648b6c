CONSTANTS
    StdinUnits = 3
    Chunk = 2
    InCap = 1
    OutCap = 2
    Commands = {"cat", "echo"}
    MaxEmptyFrames = 0
    Interactive = FALSE
    None = None
SPECIFICATION Spec
INVARIANTS SuccessNotCrashed
CHECK_DEADLOCK FALSE
