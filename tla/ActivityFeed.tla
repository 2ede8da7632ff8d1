---------------------------- MODULE ActivityFeed ----------------------------
(***************************************************************************)
(* What one arbitrator promises its subscribers, without goroutines, lock, *)
(* channels or timer.  Every member of the feed has a view, the answer it  *)
(* holds or will read next.  A publication gives all members the same      *)
(* answer at once, and that answer is the true one at that instant; a new  *)
(* member starts with the true answer; nothing else ever changes a view.   *)
(***************************************************************************)
EXTENDS RequestWindow

CONSTANT Subs

VARIABLES
    clock,     \* the wall clock
    requests,  \* the request table
    up,        \* the arbitrator runs and has not been told to stop
    members,   \* the subscriptions it serves
    view       \* the answer each member has or will read next

feedVars == <<clock, requests, up, members, view>>

NoView == "none"
Answer(reqs, t) == IF isActiveLocked(reqs, t) THEN "active" ELSE "inactive"

Init ==
    /\ clock \in Time
    /\ requests = [id \in RequestId |-> NoWindow]
    /\ up = FALSE
    /\ members = {}
    /\ view = [s \in Subs |-> NoView]

PassTime == clock' \in Time /\ UNCHANGED <<requests, up, members, view>>

\* A request is added, replaced or deleted.
Change ==
    /\ \E id \in RequestId :
          /\ requests'[id] \in Window \cup {NoWindow}
          /\ requests' = [requests EXCEPT ![id] = requests'[id]]
    /\ UNCHANGED <<clock, up, members, view>>

\* Start, or be told to stop.
Switch == up' \in BOOLEAN /\ UNCHANGED <<clock, requests, members, view>>

\* The table may lose the windows that have ended, and no others.
Publish ==
    /\ requests' = pruneExpiredRequests(requests, clock)
    /\ view' = [s \in Subs |-> IF s \in members THEN Answer(requests, clock) ELSE NoView]
    /\ UNCHANGED <<clock, up, members>>

Join(s) ==
    /\ s \notin members
    /\ members' = members \cup {s}
    /\ view' = [view EXCEPT ![s] = Answer(requests, clock)]
    /\ UNCHANGED <<clock, requests, up>>

\* One member, or all of them, are dropped.
Leave(leaving) ==
    /\ leaving \subseteq members
    /\ members' = members \ leaving
    /\ view' = [s \in Subs |-> IF s \in leaving THEN NoView ELSE view[s]]
    /\ UNCHANGED <<clock, requests, up>>

Next ==
    \/ PassTime \/ Change \/ Switch \/ Publish
    \/ \E s \in Subs : Join(s)
    \/ \E leaving \in SUBSET members : Leave(leaving)

Spec == Init /\ [][Next]_feedVars

Stale(s) == s \in members /\ view[s] # Answer(requests, clock)

\* While the arbitrator is up, no view stays wrong.
EventuallyFresh == \A s \in Subs : (up /\ Stale(s)) ~> (~up \/ ~Stale(s))
=============================================================================
