\* Accepted requests are applied, and Shutdown ends everything.
SPECIFICATION FairSpec
CONSTANTS
    Keys = {k1, k2}
    RequestId = {r1}
    Posters = {p1}
    Streams = {s1}
    BufferSize = 1
    RunFirst = TRUE
    MaxPosts = 2
    MaxDeletes = 1
CHECK_DEADLOCK FALSE
PROPERTIES
    AcceptedIsApplied
    ShutdownStopsAll
