CONSTANTS
    StdinUnits = 10
    Chunk = 2
    InCap = 2
    OutCap = 3
    Commands = {"cat"}
    MaxEmptyFrames = 0
    Interactive = FALSE
    None = None
SPECIFICATION Spec
PROPERTIES ExecTerminates
CHECK_DEADLOCK FALSE
