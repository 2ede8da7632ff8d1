\* All launch requests over four instants and all environments of a launcher.
SPECIFICATION Spec
CONSTANTS
    RequestId = {}
    NoWindow = NoWindow
    Absent = Absent
    Refused = Refused
    Unset = Unset
    Garbage = Garbage
    Rejected = Rejected
    Nothing = Nothing
    MaxInstant = 3
CHECK_DEADLOCK FALSE
INVARIANTS
    AcceptedAsAsked
    RefusedForReason
    ConfiguredLaunchAccepted
    EndpointUnderBase
    EndpointResolved
