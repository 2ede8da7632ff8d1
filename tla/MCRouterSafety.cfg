\* Concurrent handlers, a buffer that fills up, registration, subscription, Run
\* and Shutdown in any order the chain allows.
SPECIFICATION Spec
CONSTANTS
    Keys = {k1, k2}
    RequestId = {r1}
    Posters = {p1, p2}
    Streams = {s1}
    BufferSize = 2
    RunFirst = TRUE
    MaxPosts = 3
    MaxDeletes = 1
SYMMETRY MCSymmetry
CHECK_DEADLOCK FALSE
INVARIANTS
    TypeOK
    RouterSurvives
    LastAcceptedWins
    ArbitratorsStarted
    OpenStreamsServed
PROPERTIES
    KeepsPromise
    DeletedForGood
