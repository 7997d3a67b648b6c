CONSTANTS
    p1 = p1
    p2 = p2
    d1 = d1
    d2 = d2
    Paths = {p1, p2}
    Digests = {d1, d2}
    Empty = Empty
    RecordedDigests = {d1, d2}
    Disks <- MCFixedDisk
    MaxEntries = 2
    Appends = 1
    NewEntries <- MCNewEntries
    MaxFiles = 2
    MaxMatched = 1
    RecursionLimit = 10
    ComprehensionFrames = 1
    Queries <- MCQueries
SPECIFICATION Spec
INVARIANTS TypeOK FanResultExact RenderExact

CHECK_DEADLOCK FALSE
