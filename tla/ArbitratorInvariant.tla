------------------------- MODULE ArbitratorInvariant -------------------------
(***************************************************************************)
(* The inductive invariant of Arbitrator, in five parts.  None of its      *)
(* safety invariants is inductive by itself: NoLostWakeup says nothing of  *)
(* the states in which a wake-up is under way, so what the steps from      *)
(* there rely on has to be said as well.                                   *)
(***************************************************************************)
EXTENDS Arbitrator

\* A subscription is in the map exactly until its channel is closed, once.
Registration ==
    /\ \A s \in Subs :
          /\ closes[s] \in {0, 1}
          /\ s \in subscriptions => closes[s] = 0 /\ stream[s] \in {"open", "cancel"}
          /\ stream[s] = "new" => closes[s] = 0
          /\ stream[s] \in {"open", "cancel"} /\ s \notin subscriptions => closes[s] = 1
    /\ shutdown = "done" => subscriptions = {}

\* The notification loop only holds subscriptions that are in the map.
LoopPosition ==
    /\ toNotify \subseteq subscriptions
    /\ target \notin toNotify
    /\ MuFree => toNotify = {}
    /\ reconciler \in {"drain", "resend"} => target \in subscriptions
    /\ reconciler \notin {"drain", "resend"} => target = NoSub
    /\ reconciler = "resend" => chan[target] = Empty

\* Until the lock is released, the decision matches the table, which has been
\* pruned, and whoever the loop has served holds it.
Published ==
    ~MuFree =>
        /\ active = isActiveLocked(requests, now)
        /\ \A id \in Present(requests) : ~alreadyEnded(requests[id], now)
        /\ \A s \in subscriptions \ (toNotify \cup {target}) : View(s) = Value(active)

\* With neither signal nor timer left, there is nothing left to happen.
NothingAhead ==
    Resting /\ timer = Unarmed /\ shutdown # "done" =>
        /\ Present(requests) = {}
        /\ \A s \in subscriptions : View(s) = Value(FALSE)

\* The wall clock does not run behind the last reconciliation.
ClockMonotone == clockSteps = 0 => now <= clock

IInv ==
    /\ TypeOK /\ Registration /\ LoopPosition /\ Published /\ NothingAhead
    /\ ClockMonotone /\ FreshUntilNextEvent
=============================================================================
