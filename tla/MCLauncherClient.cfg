\* Calls that take longer than the interval, the shortest duration for them, and
\* a server whose clock is set once: back, to about the same time, or far ahead.
SPECIFICATION Spec
CONSTANTS
    RequestId = {}
    NoWindow = NoWindow
    Absent = Absent
    Refused = Refused
    Interval = 1
    Duration = 6
    MaxLatency = 2
    BufferSize = 1
    MaxTime = 11
    MaxClockSteps = 1
    SetTo = {0, 5, 30}
CHECK_DEADLOCK FALSE
INVARIANTS
    NoLapse
