\* Shutdown before Run has taken the lock.
SPECIFICATION Spec
CONSTANTS
    Keys = {k1}
    RequestId = {r1}
    Posters = {p1}
    Streams = {s1}
    BufferSize = 1
    RunFirst = FALSE
    MaxPosts = 1
    MaxDeletes = 1
SYMMETRY MCSymmetry
CHECK_DEADLOCK FALSE
INVARIANTS
    ShutdownStopsRouter
