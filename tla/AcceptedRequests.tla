-------------------------- MODULE AcceptedRequests --------------------------
(***************************************************************************)
(* What a 202 promises, without channels, goroutines or router.  A request *)
(* that was accepted is pending until it takes effect; those of one        *)
(* ScaledObject take effect in the order of acceptance, and those of       *)
(* different ones do not wait for each other.  None is lost until the      *)
(* router is told to stop.  Apart from that, requests are only removed     *)
(* from the tables.                                                        *)
(***************************************************************************)
EXTENDS Naturals

CONSTANTS Keys, RequestId

VARIABLES
    accepted,   \* how many requests were accepted
    pending,    \* those that have not taken effect
    table,      \* the number of the request in effect per key and id, 0 if none
    stopping    \* the router was told to stop

promiseVars == <<accepted, pending, table, stopping>>

Init ==
    /\ accepted = 0 /\ pending = {} /\ stopping = FALSE
    /\ table = [key \in Keys |-> [id \in RequestId |-> 0]]

Accept(key, id) ==
    /\ accepted' = accepted + 1
    /\ pending' = pending \cup {[seq |-> accepted + 1, key |-> key, id |-> id]}
    /\ UNCHANGED <<table, stopping>>

TakeEffect(request) ==
    /\ \A other \in pending : other.key = request.key => request.seq <= other.seq
    /\ pending' = pending \ {request}
    /\ table' = [table EXCEPT ![request.key][request.id] = request.seq]
    /\ UNCHANGED <<accepted, stopping>>

\* Deleted by a client, or pruned when its window has ended.
Remove(key, id) ==
    /\ table' = [table EXCEPT ![key][id] = 0]
    /\ UNCHANGED <<accepted, pending, stopping>>

Stop == stopping' = TRUE /\ UNCHANGED <<accepted, pending, table>>

Lose(request) ==
    /\ stopping
    /\ pending' = pending \ {request}
    /\ UNCHANGED <<accepted, table, stopping>>

Next ==
    \/ \E key \in Keys, id \in RequestId : Accept(key, id) \/ Remove(key, id)
    \/ \E request \in pending : TakeEffect(request) \/ Lose(request)
    \/ Stop

Spec == Init /\ [][Next]_promiseVars
=============================================================================
