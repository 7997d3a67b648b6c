CONSTANTS
    StdinUnits = 2
    Chunk = 2
    InCap = 2
    OutCap = 2
    Commands = {"cat"}
    MaxEmptyFrames = 0
    Interactive = TRUE
    None = None
SPECIFICATION Spec
PROPERTIES ExecTerminates
CHECK_DEADLOCK FALSE
