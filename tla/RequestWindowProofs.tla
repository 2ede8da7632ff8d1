------------------------- MODULE RequestWindowProofs -------------------------
(***************************************************************************)
(* What the arbitrator relies on in the pure functions of RequestWindow.   *)
(***************************************************************************)
EXTENDS RequestWindow, TLAPS

\* A present entry of a well-typed table is a window of two instants.
LEMMA PresentWindow ==
    ASSUME NEW reqs \in Requests, NEW id \in Present(reqs)
    PROVE  /\ id \in RequestId
           /\ reqs[id] \in Window
           /\ reqs[id].start \in Nat /\ reqs[id].end \in Nat
BY DEF Requests, Present, Window, Time

\* Pruning keeps the table well-typed, keeps exactly the windows that have not
\* ended, and changes none of them (pruneExpiredRequests, arbitrator.go:217-231).
LEMMA PruneKeepsTheRest ==
    ASSUME NEW reqs \in Requests, NEW t \in Time
    PROVE  /\ pruneExpiredRequests(reqs, t) \in Requests
           /\ Present(pruneExpiredRequests(reqs, t)) =
                 {id \in Present(reqs) : ~alreadyEnded(reqs[id], t)}
           /\ \A id \in Present(pruneExpiredRequests(reqs, t)) :
                 pruneExpiredRequests(reqs, t)[id] = reqs[id]
BY DEF Requests, Present, pruneExpiredRequests

\* Pruning never changes the answer, now or later: a window that has ended
\* stays ended.
LEMMA PruneKeepsActivity ==
    ASSUME NEW reqs \in Requests, NEW t \in Time, NEW u \in Time, t <= u
    PROVE  isActiveLocked(pruneExpiredRequests(reqs, t), u) <=> isActiveLocked(reqs, u)
<1> DEFINE pruned == pruneExpiredRequests(reqs, t)
<1>1. \A id \in Present(reqs) : shouldActivate(reqs[id], u) => ~alreadyEnded(reqs[id], t)
  BY PresentWindow DEF shouldActivate, alreadyEnded, Time
<1>2. /\ Present(pruned) = {id \in Present(reqs) : ~alreadyEnded(reqs[id], t)}
      /\ \A id \in Present(pruned) : pruned[id] = reqs[id]
  BY PruneKeepsTheRest
<1> QED  BY <1>1, <1>2 DEF isActiveLocked

\* Every next event is an instant, and not a past one.
LEMMA NextEventsAhead ==
    ASSUME NEW reqs \in Requests, NEW t \in Time, NEW e \in NextEvents(reqs, t)
    PROVE  e \in Nat /\ t <= e
<1>1. CASE \E id \in Present(reqs) : notYetStarted(reqs[id], t) /\ e = reqs[id].start
  BY <1>1, PresentWindow DEF notYetStarted, Time
<1>2. CASE \E id \in Present(reqs) : shouldActivate(reqs[id], t) /\ e = reqs[id].end
  BY <1>2, PresentWindow DEF shouldActivate, alreadyEnded, Time
<1> QED  BY <1>1, <1>2 DEF NextEvents

\* A pruned table without a next event is empty, so that not arming a timer
\* forgets nothing (arbitrator.go:198-214).
LEMMA NoEventsNoWindows ==
    ASSUME NEW reqs \in Requests, NEW t \in Time,
           \A id \in Present(reqs) : ~alreadyEnded(reqs[id], t),
           NextEvents(reqs, t) = {}
    PROVE  Present(reqs) = {}
BY DEF NextEvents, shouldActivate

\* Nothing happens before the next event: the answer stays what it was.
LEMMA ActivityConstant ==
    ASSUME NEW reqs \in Requests, NEW t \in Time, NEW u \in Time, t <= u,
           \A e \in NextEvents(reqs, t) : u < e
    PROVE  isActiveLocked(reqs, u) <=> isActiveLocked(reqs, t)
<1> SUFFICES ASSUME NEW id \in Present(reqs)
             PROVE  shouldActivate(reqs[id], u) <=> shouldActivate(reqs[id], t)
  BY DEF isActiveLocked
<1>1. reqs[id].start \in Nat /\ reqs[id].end \in Nat /\ t \in Nat /\ u \in Nat
  BY PresentWindow DEF Time
<1>2. CASE notYetStarted(reqs[id], t)
  <2>1. u < reqs[id].start
    BY <1>2 DEF NextEvents
  <2> QED  BY <1>1, <1>2, <2>1 DEF shouldActivate, notYetStarted
<1>3. CASE shouldActivate(reqs[id], t)
  <2>1. u < reqs[id].end
    BY <1>3 DEF NextEvents
  <2> QED  BY <1>1, <1>3, <2>1 DEF shouldActivate, notYetStarted, alreadyEnded
<1>4. CASE alreadyEnded(reqs[id], t)
  BY <1>1, <1>4 DEF shouldActivate, alreadyEnded
<1> QED  BY <1>2, <1>3, <1>4 DEF shouldActivate
=============================================================================
