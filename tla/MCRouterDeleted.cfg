\* A deletion overtakes an accepted request.
SPECIFICATION Spec
CONSTANTS
    Keys = {k1}
    RequestId = {r1}
    Posters = {p1}
    Streams = {}
    BufferSize = 1
    RunFirst = TRUE
    MaxPosts = 2
    MaxDeletes = 1
SYMMETRY MCSymmetry
CHECK_DEADLOCK FALSE
INVARIANTS
    DeletedStaysDeleted
