\* Two streams against one request: the channels, cancellation and Shutdown.
SPECIFICATION Spec
CONSTANTS
    RequestId = {r1}
    NoWindow = NoWindow
    Subs = {s1, s2}
    NoSub = NoSub
    Deleters = {d1}
    Windows <- MCFewWindows
    MaxTime = 2
    MaxClockSteps = 0
    MaxUpserts = 2
SYMMETRY MCSymmetry
CHECK_DEADLOCK FALSE
INVARIANTS
    NoLostWakeup
    NoChannelPanic
    ShutdownClosesStreams
PROPERTIES
    NothingPublishedAfterShutdown
    ImplementsFeed
