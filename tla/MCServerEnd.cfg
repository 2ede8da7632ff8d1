\* A signal at any time, failures, and the timeout.
SPECIFICATION FairSpec
CONSTANTS
    Handlers = {h1, h2}
    Streams = {s1, s2}
    BufferSize = 1
CHECK_DEADLOCK FALSE
INVARIANTS
    NobodyCutOff
    EveryWaitEnds
PROPERTIES
    NoneAcceptedInVain
    EndsByItself
    TimeoutEnds
    FailureEnds
