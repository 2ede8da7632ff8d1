\* Liveness: slow subscribers hold nothing up, and those who read are told.
SPECIFICATION FairSpec
CONSTANTS
    RequestId = {r1}
    NoWindow = NoWindow
    Subs = {s1}
    NoSub = NoSub
    Deleters = {}
    Windows <- MCFewWindows
    MaxTime = 2
    MaxClockSteps = 1
    MaxUpserts = 1
CHECK_DEADLOCK FALSE
PROPERTIES
    ReconcileCompletes
    GoroutinesExit
    ShutdownCompletes
    FeedEventuallyFresh
    StreamsConverge
    StreamsEnd
