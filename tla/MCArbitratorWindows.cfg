\* Two requests, every kind of window, and a wall clock that is set once.
SPECIFICATION Spec
CONSTANTS
    RequestId = {r1, r2}
    NoWindow = NoWindow
    Subs = {s1}
    NoSub = NoSub
    Deleters = {d1}
    Windows <- MCWindows
    MaxTime = 3
    MaxClockSteps = 1
    MaxUpserts = 2
SYMMETRY MCSymmetry
CHECK_DEADLOCK FALSE
INVARIANTS
    TypeOK
    FreshUntilNextEvent
