\* Three calls and a poll around one ScaledObject and one request id.
SPECIFICATION Spec
CONSTANTS
    c1 = c1
    c2 = c2
    c3 = c3
    q1 = q1
    k1 = k1
    r1 = r1
    Calls = {c1, c2, c3}
    Polls = {q1}
    Keys = {k1}
    RequestId = {r1}
    Operations <- MCOperations
    Blank = Blank
    None = None
    NoWindow = NoWindow
    Absent = Absent
    Refused = Refused
    BufferSize = 1
    MaxTime = 1
SYMMETRY Symmetry
CHECK_DEADLOCK FALSE
INVARIANTS
    TypeOK
    ErrorsAreHarmless
    AcceptedAsReported
    DeletedAsReported
    PollAccurate
PROPERTIES
    KnownIsLaunchable
