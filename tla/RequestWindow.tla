---------------------------- MODULE RequestWindow ----------------------------
(***************************************************************************)
(* The request windows of internal/server/arbitrator/arbitrator.go and the *)
(* pure functions the arbitrator computes from its request table.          *)
(*                                                                         *)
(* A window is the closed interval start..end of instants of the wall      *)
(* clock: the code compares with the strict Before and After, so the       *)
(* instant EndAt itself is still inside (arbitrator.go:30-36).  The Go map *)
(* requests is a function that is total on RequestId, with NoWindow for an *)
(* absent key; the id and the ScaledObject a window repeats are left out.  *)
(***************************************************************************)
EXTENDS Integers

CONSTANTS
    RequestId,   \* the request ids clients use
    NoWindow     \* "no entry under this id", not a window

Time   == Nat
Window == [start : Time, end : Time]

ASSUME NoWindowAssumption == NoWindow \notin Window

Requests == [RequestId -> Window \cup {NoWindow}]

notYetStarted(w, t)  == t < w.start
alreadyEnded(w, t)   == t > w.end
shouldActivate(w, t) == ~notYetStarted(w, t) /\ ~alreadyEnded(w, t)

Present(requests) == {id \in RequestId : requests[id] # NoWindow}

isActiveLocked(requests, t) ==
    \E id \in Present(requests) : shouldActivate(requests[id], t)

pruneExpiredRequests(requests, t) ==
    [id \in RequestId |->
        IF id \in Present(requests) /\ alreadyEnded(requests[id], t)
        THEN NoWindow
        ELSE requests[id]]

\* Faulty: a window in force is given its start once more.
NextEventsStartOnly(requests, t) ==
    {requests[id].start : id \in {i \in Present(requests) :
                                     ~alreadyEnded(requests[i], t)}}

\* The instants the next timer is chosen from: the start of each window still
\* to come and the end of each window in force.
NextEvents(requests, t) ==
    {requests[id].start : id \in {i \in Present(requests) :
                                     notYetStarted(requests[i], t)}}
    \cup
    {requests[id].end : id \in {i \in Present(requests) :
                                   shouldActivate(requests[i], t)}}

IsEarliest(e, events) == e \in events /\ \A other \in events : e <= other
=============================================================================
