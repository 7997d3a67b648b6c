CONSTANTS
    p1 = p1
    p2 = p2
    d1 = d1
    d2 = d2
    Paths = {p1, p2}
    Digests = {d1, d2}
    Empty = Empty
    RecordedDigests = {d1, d2}
    Disks <- MCFixedDisk
    MaxEntries = 2
    Appends = 0
    NewEntries = {}
    MaxFiles = 2
    MaxMatched = 1
    RecursionLimit = 2
    ComprehensionFrames = 1
    Queries <- MCQueries
SPECIFICATION Spec
PROPERTIES QueryCompletes
CHECK_DEADLOCK FALSE
