CONSTANTS
    StdinUnits = 12
    Chunk = 2
    InCap = 2
    OutCap = 3
    Commands = {"cat", "echo"}
    MaxEmptyFrames = 1
    Interactive = FALSE
    None = None
SPECIFICATION Spec
INVARIANTS TypeOK
PROPERTIES ExitEndsLoop
CHECK_DEADLOCK FALSE
