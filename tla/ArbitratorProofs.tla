-------------------------- MODULE ArbitratorProofs --------------------------
(***************************************************************************)
(* The safety of the arbitrator for every set of subscribers, deleting     *)
(* handlers, requests and windows, and every bound: IInv is inductive, the *)
(* safety invariants follow from it, and every step is one of the abstract *)
(* feed or invisible to it.                                                *)
(***************************************************************************)
EXTENDS ArbitratorInvariant, RequestWindowProofs

\* A delay that is waited for is never negative, whichever window it is for.
LEMMA DelayType ==
    ASSUME TypeOK, NEW e \in NextEvents(requests, now)
    PROVE  e - now \in Nat /\ e \in Nat /\ now \in Nat
<1>1. requests \in Requests /\ now \in Time
  BY DEF TypeOK
<1>2. e \in Nat /\ now <= e
  BY <1>1, NextEventsAhead
<1> QED  BY <1>1, <1>2 DEF Time

\* A new arbitrator is well-typed (newArbitrator, arbitrator.go:54-70).
LEMMA TypeInit == Init => TypeOK
<1> SUFFICES ASSUME Init PROVE TypeOK
  OBVIOUS
<1>1. requests \in Requests
  BY DEF Init, Requests
<1>2. clock \in Time /\ clockSteps \in 0..MaxClockSteps /\ upserts \in 0..MaxUpserts /\ now \in Time
  BY BoundsAssumption DEF Init, Time
<1>3. /\ deleter \in [Deleters -> {"idle", "signal"}]
      /\ chan \in [Subs -> Values \cup {Empty}]
      /\ closes \in [Subs -> Nat]
      /\ stream \in [Subs -> {"new", "open", "cancel", "ended"}]
      /\ seen \in [Subs -> Values \cup {Empty}]
  BY DEF Init
<1> QED  BY <1>1, <1>2, <1>3 DEF Init, TypeOK

\* Every step of every goroutine keeps the types; only pruning and the arithmetic
\* of the delay need more than the types themselves.
LEMMA TypeStep == TypeOK /\ [Next]_vars => TypeOK'
<1> SUFFICES ASSUME TypeOK, [Next]_vars PROVE TypeOK'
  OBVIOUS
<1> USE DEF Values, Empty, Holding, Unarmed, Time
<1>1. CASE UNCHANGED vars
  BY <1>1 DEF TypeOK, vars, timeVars, tableVars, localVars, streamVars, stopVars
<1>2. CASE Tick \/ ClockStep
  BY <1>2, BoundsAssumption
     DEF TypeOK, Tick, ClockStep, tableVars, localVars, streamVars, stopVars
<1>3. CASE CancelContext \/ Run \/ ShutdownNotify
  BY <1>3 DEF TypeOK, CancelContext, Run, ShutdownNotify, timeVars, tableVars,
              localVars, streamVars, stopVars
<1>4. ASSUME NEW id \in RequestId, NEW w \in Windows, Upsert(id, w) PROVE TypeOK'
  <2>1. requests' \in Requests
    BY <1>4, WindowsAssumption DEF TypeOK, Upsert, Requests
  <2> QED
    BY <1>4, <2>1, BoundsAssumption DEF TypeOK, Upsert, timeVars, localVars, streamVars, stopVars
<1>5. CASE UpsertSignal \/ IntakeExit
  BY <1>5 DEF TypeOK, UpsertSignal, IntakeExit, timeVars, tableVars, localVars,
              streamVars, stopVars
<1>6. ASSUME NEW d \in Deleters, NEW id \in RequestId, Delete(d, id) PROVE TypeOK'
  <2>1. requests' \in Requests
    BY <1>6 DEF TypeOK, Delete, Requests
  <2> QED
    BY <1>6, <2>1 DEF TypeOK, Delete, timeVars, localVars, streamVars, stopVars
<1>7. ASSUME NEW d \in Deleters, DeleteSignal(d) PROVE TypeOK'
  BY <1>7 DEF TypeOK, DeleteSignal, timeVars, tableVars, localVars, streamVars, stopVars
<1>8. CASE TakeChange \/ TakeTimer \/ ReconcilerExit
  BY <1>8 DEF TypeOK, TakeChange, TakeTimer, ReconcilerExit, timeVars, tableVars,
              localVars, streamVars, stopVars
<1>9. CASE BeginReconcile
  <2>1. requests' \in Requests
    BY <1>9, PruneKeepsTheRest DEF TypeOK, BeginReconcile
  <2>2. active' \in BOOLEAN
    BY <1>9 DEF BeginReconcile, isActiveLocked
  <2> QED
    BY <1>9, <2>1, <2>2 DEF TypeOK, BeginReconcile, timeVars, streamVars, stopVars
<1>10. ASSUME NEW s \in Subs, Notify(s) PROVE TypeOK'
  BY <1>10 DEF TypeOK, Notify, Value, timeVars, tableVars, stopVars
<1>11. CASE Drain \/ Resend
  BY <1>11 DEF TypeOK, Drain, Resend, Value, timeVars, tableVars, localVars, stopVars
<1>12. CASE ArmTimer
  <2>1. timer' \in Nat \cup {Unarmed}
    BY <1>12, DelayType DEF ArmTimer, IsEarliest
  <2> QED
    BY <1>12, <2>1 DEF TypeOK, ArmTimer, timeVars, tableVars, streamVars, stopVars
<1>13. ASSUME NEW s \in Subs, Subscribe(s) PROVE TypeOK'
  BY <1>13 DEF TypeOK, Subscribe, Value, timeVars, tableVars, localVars, stopVars
<1>14. ASSUME NEW s \in Subs, Receive(s) \/ ReceiveClosed(s) \/ StreamDone(s) PROVE TypeOK'
  BY <1>14 DEF TypeOK, Receive, ReceiveClosed, StreamDone, timeVars, tableVars,
               localVars, stopVars
<1>15. ASSUME NEW s \in Subs, Cancel(s) PROVE TypeOK'
  BY <1>15 DEF TypeOK, Cancel, timeVars, tableVars, localVars, stopVars
<1>16. CASE ShutdownLocked
  BY <1>16 DEF TypeOK, ShutdownLocked, closeSubscriptionsLocked, timeVars, tableVars, localVars
<1> QED
  BY <1>1, <1>2, <1>3, <1>4, <1>5, <1>6, <1>7, <1>8, <1>9, <1>10, <1>11, <1>12,
     <1>13, <1>14, <1>15, <1>16 DEF Next

\* Every variable keeps its type; in particular no timer is armed with a negative
\* delay (arbitrator.go:213).
THEOREM TypeCorrect == Spec => []TypeOK
<1>1. Init => TypeOK
  BY TypeInit
<1>2. TypeOK /\ [Next]_vars => TypeOK'
  BY TypeStep
<1> QED  BY <1>1, <1>2, PTL DEF Spec

-----------------------------------------------------------------------------
(* The inductive invariant. *)

\* Reading the channel moves the value a subscriber holds, and does not change it.
LEMMA ReceiveKeepsViews ==
    ASSUME TypeOK, NEW s \in Subs, Receive(s), NEW r \in Subs
    PROVE  View(r)' = View(r)
BY DEF TypeOK, Receive, View

\* What the steps of the environment and of the other goroutines leave alone.
LEMMA QuietSteps ==
    ASSUME \/ UNCHANGED vars \/ Tick \/ ClockStep \/ CancelContext \/ Run
           \/ \E id \in RequestId, w \in Windows : Upsert(id, w)
           \/ UpsertSignal \/ IntakeExit
           \/ \E d \in Deleters : DeleteSignal(d) \/ \E id \in RequestId : Delete(d, id)
           \/ TakeChange \/ TakeTimer \/ ReconcilerExit \/ ShutdownNotify
    PROVE  /\ UNCHANGED <<localVars, streamVars>>
           /\ reconciler' # reconciler => MuFree /\ MuFree'
           /\ requests' # requests => MuFree /\ MuFree'
           /\ shutdown' = "done" => shutdown = "done"
BY DEF vars, timeVars, tableVars, localVars, streamVars, stopVars, MuFree, Holding,
       Tick, ClockStep, CancelContext, Run, Upsert, UpsertSignal, IntakeExit,
       DeleteSignal, Delete, TakeChange, TakeTimer, ReconcilerExit, ShutdownNotify

\* The invariant holds of a new arbitrator: no windows, no subscriptions, no timer.
LEMMA InitInvariant == Init => IInv
<1> SUFFICES ASSUME Init PROVE IInv
  OBVIOUS
<1>1. TypeOK
  BY TypeInit
<1>2. Registration /\ LoopPosition /\ Published
  BY DEF Init, Registration, LoopPosition, Published, MuFree, Holding
<1>3. Present(requests) = {}
  BY DEF Init, Present
<1>4. NothingAhead /\ ClockMonotone
  BY <1>1, <1>3 DEF Init, NothingAhead, ClockMonotone, TypeOK, Time
<1>5. FreshUntilNextEvent
  BY <1>3 DEF Init, FreshUntilNextEvent, NextEvents
<1> QED  BY <1>1, <1>2, <1>4, <1>5 DEF IInv

\* Subscribe opens a channel, and cancel or Shutdown, whichever comes first, takes it
\* out of the map and closes it (arbitrator.go:233-261).
LEMMA RegistrationStep == IInv /\ [Next]_vars => Registration'
<1> SUFFICES ASSUME IInv, [Next]_vars PROVE Registration'
  OBVIOUS
<1> USE DEF IInv, Registration
<1>1. CASE UNCHANGED <<closes, subscriptions, stream>> /\ (shutdown' = "done" => shutdown = "done")
  BY <1>1
<1>2. ASSUME NEW s \in Subs, Subscribe(s) PROVE Registration'
  BY <1>2 DEF Subscribe, TypeOK, stopVars
<1>3. ASSUME NEW s \in Subs, ReceiveClosed(s) \/ StreamDone(s) PROVE Registration'
  BY <1>3 DEF ReceiveClosed, StreamDone, TypeOK, stopVars
<1>4. ASSUME NEW s \in Subs, Cancel(s) PROVE Registration'
  BY <1>4 DEF Cancel, TypeOK, stopVars
<1>5. CASE ShutdownLocked
  BY <1>5 DEF ShutdownLocked, closeSubscriptionsLocked, TypeOK
<1>6. ASSUME NEW s \in Subs, Notify(s) \/ Receive(s) PROVE Registration'
  BY <1>1, <1>6 DEF Notify, Receive, stopVars
<1>7. CASE BeginReconcile \/ Drain \/ Resend \/ ArmTimer
  BY <1>1, <1>7 DEF BeginReconcile, Drain, Resend, ArmTimer, streamVars, stopVars
<1> QED
  BY <1>1, <1>2, <1>3, <1>4, <1>5, <1>6, <1>7, QuietSteps DEF Next, streamVars

\* The map cannot lose a subscription under the loop, which holds the lock, and only
\* the reader touches a drained channel (arbitrator.go:179-192).
LEMMA LoopPositionStep == IInv /\ [Next]_vars => LoopPosition'
<1> SUFFICES ASSUME IInv, [Next]_vars PROVE LoopPosition'
  OBVIOUS
<1> USE DEF IInv, LoopPosition
<1>1. CASE /\ UNCHANGED <<toNotify, target, subscriptions, chan>>
           /\ reconciler' # reconciler => MuFree /\ MuFree'
  BY <1>1 DEF MuFree, Holding
<1>2. CASE BeginReconcile
  BY <1>2, NoSubAssumption DEF BeginReconcile, MuFree, Holding, TypeOK, streamVars
<1>3. ASSUME NEW s \in Subs, Notify(s) PROVE LoopPosition'
  BY <1>3, NoSubAssumption DEF Notify, MuFree, Holding, TypeOK
<1>4. CASE Drain
  BY <1>4 DEF Drain, MuFree, Holding, TypeOK, localVars
<1>5. CASE Resend
  BY <1>5, NoSubAssumption DEF Resend, MuFree, Holding, TypeOK
<1>6. CASE ArmTimer
  BY <1>6 DEF ArmTimer, MuFree, Holding, streamVars
<1>7. ASSUME NEW s \in Subs, Subscribe(s) PROVE LoopPosition'
  BY <1>7 DEF Subscribe, MuFree, Holding, localVars
<1>8. ASSUME NEW s \in Subs, Receive(s) PROVE LoopPosition'
  BY <1>8 DEF Receive, MuFree, Holding, TypeOK, localVars
<1>9. ASSUME NEW s \in Subs, ReceiveClosed(s) \/ StreamDone(s) PROVE LoopPosition'
  BY <1>1, <1>9 DEF ReceiveClosed, StreamDone, localVars
<1>10. ASSUME NEW s \in Subs, Cancel(s) PROVE LoopPosition'
  BY <1>10 DEF Cancel, MuFree, Holding, localVars
<1>11. CASE ShutdownLocked
  BY <1>11 DEF ShutdownLocked, closeSubscriptionsLocked, MuFree, Holding, localVars
<1> QED
  BY <1>1, <1>2, <1>3, <1>4, <1>5, <1>6, <1>7, <1>8, <1>9, <1>10, <1>11, QuietSteps
  DEF Next, localVars, streamVars

\* Whoever the loop has served holds its decision, even if a reader empties the
\* channel between the drain and the second send (arbitrator.go:178-192).
LEMMA PublishedStep == IInv /\ [Next]_vars => Published'
<1> SUFFICES ASSUME IInv, [Next]_vars, ~MuFree' PROVE Published'
  BY DEF Published
<1> USE DEF IInv
<1>1. CASE BeginReconcile
  <2>1. /\ requests' = pruneExpiredRequests(requests, clock) /\ now' = clock
        /\ requests \in Requests /\ clock \in Time
        /\ active' = isActiveLocked(requests', now')
        /\ toNotify' = subscriptions'
    BY <1>1 DEF BeginReconcile, TypeOK, streamVars
  <2>2. \A id \in Present(requests') : ~alreadyEnded(requests'[id], now')
    BY <2>1, PruneKeepsTheRest
  <2> QED  BY <2>1, <2>2 DEF Published, Present
<1>2. CASE UNCHANGED <<requests, reconciler, localVars, streamVars>>
  BY <1>2 DEF Published, MuFree, localVars, streamVars, View, Present
<1>3. ASSUME NEW s \in Subs, Notify(s) PROVE Published'
  <2>1. ~MuFree /\ UNCHANGED <<requests, now, active, subscriptions, seen>>
    BY <1>3 DEF Notify, MuFree, Holding, tableVars
  <2>2. \A r \in Subs \ {s} : View(r)' = View(r)
    BY <1>3 DEF Notify, TypeOK, View
  <2>3. s \notin toNotify' \cup {target'} => View(s)' = Value(active)
    BY <1>3 DEF Notify, TypeOK, View, Value, Empty
  <2>4. toNotify \cup {target} \subseteq toNotify' \cup {target', s, NoSub}
    BY <1>3 DEF Notify, LoopPosition
  <2> QED  BY <2>1, <2>2, <2>3, <2>4, NoSubAssumption DEF Published, Present, TypeOK
<1>4. CASE Drain
  <2>1. ~MuFree /\ UNCHANGED <<requests, now, active, toNotify, target, subscriptions>>
    BY <1>4 DEF Drain, MuFree, Holding, tableVars, localVars
  <2>2. \A r \in Subs \ {target} : View(r)' = View(r)
    BY <1>4 DEF Drain, TypeOK, View
  <2> QED  BY <2>1, <2>2 DEF Published, Present, TypeOK
<1>5. CASE Resend
  <2>1. ~MuFree /\ UNCHANGED <<requests, now, active, toNotify, subscriptions>>
    BY <1>5 DEF Resend, MuFree, Holding, tableVars
  <2>2. \A r \in Subs \ {target} : View(r)' = View(r)
    BY <1>5 DEF Resend, TypeOK, View
  <2>3. \A r \in Subs : r = target => View(r)' = Value(active)
    BY <1>5 DEF Resend, LoopPosition, TypeOK, View, Value, Empty
  <2> QED  BY <2>1, <2>2, <2>3 DEF Published, Present, TypeOK
<1>6. ASSUME NEW s \in Subs, Receive(s) PROVE Published'
  <2>1. /\ UNCHANGED <<requests, reconciler, now, active, toNotify, target, subscriptions>>
        /\ MuFree = MuFree'
    BY <1>6 DEF Receive, MuFree, tableVars, localVars
  <2>2. \A r \in Subs : View(r)' = View(r)
    BY <1>6, ReceiveKeepsViews
  <2> QED  BY <2>1, <2>2 DEF Published, Present, TypeOK
<1>7. ASSUME NEW s \in Subs, ReceiveClosed(s) \/ StreamDone(s) PROVE Published'
  BY <1>7 DEF ReceiveClosed, StreamDone, Published, MuFree, View, Present, tableVars, localVars
<1>8. ~(ArmTimer \/ ShutdownLocked \/ \E s \in Subs : Subscribe(s) \/ Cancel(s))
  BY DEF ArmTimer, ShutdownLocked, Subscribe, Cancel, MuFree, Holding
<1> QED
  BY <1>1, <1>2, <1>3, <1>4, <1>5, <1>6, <1>7, <1>8, QuietSteps DEF Next

\* now was read from the wall clock, which only ClockStep turns back.
LEMMA ClockStepMonotone == IInv /\ [Next]_vars => ClockMonotone'
<1> SUFFICES ASSUME IInv, [Next]_vars PROVE ClockMonotone'
  OBVIOUS
<1>1. clock \in Nat /\ now \in Nat /\ clockSteps \in Nat
  BY BoundsAssumption DEF IInv, TypeOK, Time
<1>2. CASE UNCHANGED <<clock, clockSteps, now>>
  BY <1>2 DEF IInv, ClockMonotone
<1>3. CASE Tick \/ ClockStep \/ BeginReconcile
  BY <1>1, <1>3 DEF IInv, ClockMonotone, Tick, ClockStep, BeginReconcile, timeVars, localVars
<1> QED
  BY <1>2, <1>3 DEF Next, vars, timeVars, localVars, CancelContext, Run, Upsert,
     UpsertSignal, IntakeExit, DeleteSignal, Delete, TakeChange, TakeTimer, Notify,
     Drain, Resend, ArmTimer, ReconcilerExit, Subscribe, Receive, ReceiveClosed,
     StreamDone, Cancel, ShutdownNotify, ShutdownLocked

\* At rest, only a few kinds of step lead to a state at rest.
LEMMA RestingStep ==
    ASSUME IInv, [Next]_vars, Resting'
    PROVE  \/ ArmTimer
           \/ /\ Resting
              /\ \/ Tick
                 \/ ClockStep /\ UNCHANGED <<timer, now, requests, streamVars>>
                 \/ \E s \in Subs : Subscribe(s) \/ Receive(s) \/ Cancel(s)
                 \/ ShutdownLocked
                 \/ UNCHANGED <<timeVars, timer, now, requests, subscriptions, chan, seen>>
<1>1. TypeOK /\ LoopPosition
  BY DEF IInv
<1>2. CASE UNCHANGED vars
  BY <1>2 DEF vars, timeVars, tableVars, localVars, streamVars, stopVars, Resting, MuFree, Signalled
<1>3. CASE Tick \/ ClockStep \/ CancelContext \/ Run \/ ShutdownNotify \/ IntakeExit \/ ReconcilerExit
  BY <1>3 DEF timeVars, tableVars, localVars, streamVars, stopVars, Resting, MuFree, Signalled,
     Holding, Tick, ClockStep, CancelContext, Run, ShutdownNotify, IntakeExit, ReconcilerExit
<1>4. ~ \/ \E id \in RequestId, w \in Windows : Upsert(id, w)
        \/ UpsertSignal
        \/ \E d \in Deleters : DeleteSignal(d) \/ \E id \in RequestId : Delete(d, id)
        \/ TakeChange \/ TakeTimer \/ BeginReconcile \/ Drain \/ Resend
        \/ \E s \in Subs : Notify(s)
  BY <1>1 DEF Resting, MuFree, Signalled, Holding, TypeOK, Upsert, UpsertSignal, DeleteSignal,
     Delete, TakeChange, TakeTimer, BeginReconcile, Drain, Resend, Notify
<1>5. ASSUME NEW s \in Subs, \/ Subscribe(s) \/ Receive(s) \/ ReceiveClosed(s)
                             \/ StreamDone(s) \/ Cancel(s)
      PROVE  Resting /\ UNCHANGED <<timeVars, timer, now, requests>>
  BY <1>5 DEF Resting, MuFree, Signalled, Subscribe, Receive, ReceiveClosed, StreamDone, Cancel,
     tableVars, localVars
<1>6. ASSUME NEW s \in Subs, ReceiveClosed(s) \/ StreamDone(s)
      PROVE  UNCHANGED <<subscriptions, chan, seen>>
  BY <1>6 DEF ReceiveClosed, StreamDone
<1>7. CASE ShutdownLocked
  BY <1>7 DEF Resting, MuFree, Signalled, ShutdownLocked
<1> QED  BY <1>2, <1>3, <1>4, <1>5, <1>6, <1>7 DEF Next

\* Shutdown happens once.
LEMMA ShutdownIsFinal == [Next]_vars /\ shutdown = "done" => shutdown' = "done"
BY DEF Next, vars, stopVars, Tick, ClockStep, CancelContext, Run, Upsert, UpsertSignal,
   IntakeExit, DeleteSignal, Delete, TakeChange, TakeTimer, BeginReconcile, Notify, Drain,
   Resend, ArmTimer, ReconcilerExit, Subscribe, Receive, ReceiveClosed, StreamDone, Cancel,
   ShutdownNotify, ShutdownLocked

\* A reconciliation that arms no timer has found the table empty and has told
\* everybody so, and nothing but a signalled change can end that.
LEMMA NothingAheadStep == IInv /\ [Next]_vars => NothingAhead'
<1> SUFFICES ASSUME IInv, [Next]_vars, Resting', timer' = Unarmed, shutdown' # "done"
             PROVE  /\ Present(requests') = {}
                    /\ \A s \in subscriptions' : View(s)' = Value(FALSE)
  BY DEF NothingAhead, Present
<1>1. TypeOK /\ TypeOK' /\ LoopPosition
  BY TypeStep DEF IInv
<1>2. shutdown # "done"
  BY ShutdownIsFinal
<1>3. CASE ArmTimer
  <2>1. /\ NextEvents(requests, now) = {}
        /\ ~MuFree /\ toNotify = {} /\ target = NoSub
        /\ UNCHANGED <<requests, subscriptions, chan, seen>>
    BY <1>1, <1>3, DelayType DEF ArmTimer, IsEarliest, LoopPosition, MuFree, Holding, Unarmed,
       tableVars, streamVars
  <2>2. Present(requests) = {}
    BY <1>1, <2>1, NoEventsNoWindows DEF IInv, Published, TypeOK
  <2>3. active = FALSE /\ \A s \in subscriptions : View(s) = Value(active)
    BY <1>1, <2>1, <2>2, NoSubAssumption DEF IInv, Published, isActiveLocked, TypeOK
  <2> QED  BY <2>1, <2>2, <2>3 DEF View
<1>4. ASSUME Resting, timer = Unarmed
      PROVE  Present(requests) = {} /\ \A s \in subscriptions : View(s) = Value(FALSE)
  BY <1>2, <1>4 DEF IInv, NothingAhead
<1>5. CASE Resting /\ Tick
  <2>1. timer = Unarmed /\ UNCHANGED <<requests, subscriptions, chan, seen>>
    BY <1>1, <1>5 DEF Tick, TypeOK, Unarmed, tableVars, streamVars
  <2> QED  BY <1>4, <1>5, <2>1 DEF View
<1>6. CASE Resting /\ UNCHANGED <<timer, requests, subscriptions, chan, seen>>
  BY <1>4, <1>6 DEF View
<1>7. ASSUME Resting, NEW s \in Subs, Subscribe(s) \/ Receive(s) \/ Cancel(s)
      PROVE  /\ Present(requests') = {}
             /\ \A r \in subscriptions' : View(r)' = Value(FALSE)
  <2>1. timer = Unarmed /\ requests' = requests
    BY <1>7 DEF Subscribe, Receive, Cancel, tableVars
  <2>2. CASE Subscribe(s)
    <3>1. chan'[s] = Value(FALSE) /\ Value(FALSE) # Empty
      BY <1>1, <1>4, <1>7, <2>1, <2>2 DEF Subscribe, TypeOK, isActiveLocked, Value, Empty
    <3> QED  BY <1>1, <1>4, <1>7, <2>1, <2>2, <3>1 DEF Subscribe, TypeOK, View
  <2>3. CASE Receive(s)
    BY <1>1, <1>4, <1>7, <2>1, <2>3, ReceiveKeepsViews DEF Receive, TypeOK
  <2>4. CASE Cancel(s)
    BY <1>1, <1>4, <1>7, <2>1, <2>4 DEF Cancel, TypeOK, View
  <2> QED  BY <1>7, <2>2, <2>3, <2>4
<1>8. ~ShutdownLocked
  BY DEF ShutdownLocked
<1> QED  BY <1>3, <1>5, <1>6, <1>7, <1>8, RestingStep DEF streamVars

\* A delay computed from now covers all that is left until the earliest event, and
\* until that event no view can become wrong.
LEMMA FreshStep == IInv /\ [Next]_vars => FreshUntilNextEvent'
<1> SUFFICES ASSUME IInv, [Next]_vars, Resting', shutdown' # "done",
                    clockSteps' = 0, clock' < MaxTime
             PROVE  /\ timer' = Unarmed => NextEvents(requests', now') = {}
                    /\ timer' # Unarmed =>
                          \E e \in NextEvents(requests', now') : ArmedFor(e)'
  BY DEF FreshUntilNextEvent, ArmedFor, NextEvents, IsEarliest
<1>1. TypeOK /\ TypeOK' /\ LoopPosition
  BY TypeStep DEF IInv
<1>2. /\ clock \in Nat /\ now \in Nat /\ timer \in Nat \cup {Unarmed} /\ MaxTime \in Nat
      /\ clock \in Time /\ now \in Time /\ requests \in Requests
      /\ clockSteps \in Nat
  BY <1>1, BoundsAssumption DEF TypeOK, Time
<1>3. timer' = Unarmed => NextEvents(requests', now') = {}
  BY NothingAheadStep DEF NothingAhead, NextEvents, Present
<1>4. CASE ArmTimer
  <2> SUFFICES ASSUME NEW e \in NextEvents(requests, now), timer' = e - now,
                      IsEarliest(e, NextEvents(requests, now))
               PROVE  ArmedFor(e)'
    BY <1>3, <1>4 DEF ArmTimer, tableVars
  <2>1. /\ ~MuFree /\ toNotify = {} /\ target = NoSub
        /\ UNCHANGED <<clock, clockSteps, now, requests, subscriptions, chan, seen>>
    BY <1>1, <1>4 DEF ArmTimer, LoopPosition, MuFree, Holding, timeVars, tableVars, streamVars
  <2>2. e \in Nat /\ now <= clock
    BY <1>1, <2>1, DelayType DEF IInv, ClockMonotone
  <2>3. timer' <= e - now' /\ clock' + timer' >= e
    BY <1>2, <2>1, <2>2
  <2>4. ASSUME clock < e
        PROVE  \A s \in subscriptions : View(s) = Value(isActiveLocked(requests, clock))
    <3>1. \A other \in NextEvents(requests, now) : clock < other
      BY <1>2, <2>2, <2>4, NextEventsAhead DEF IsEarliest
    <3>2. isActiveLocked(requests, clock) <=> isActiveLocked(requests, now)
      BY <1>2, <2>2, <3>1, ActivityConstant
    <3>3. \A s \in subscriptions : View(s) = Value(isActiveLocked(requests, now))
      BY <1>1, <2>1, NoSubAssumption DEF IInv, Published, TypeOK
    <3> QED  BY <3>2, <3>3 DEF Value
  <2> QED  BY <2>1, <2>3, <2>4 DEF ArmedFor, View, checkIfActive
<1> SUFFICES ASSUME ~ArmTimer, timer' # Unarmed
             PROVE  \E e \in NextEvents(requests', now') : ArmedFor(e)'
  BY <1>3, <1>4
<1>5. ASSUME NEW e \in NextEvents(requests, now), ArmedFor(e), Tick
      PROVE  \E f \in NextEvents(requests', now') : ArmedFor(f)'
  <2>1. UNCHANGED <<now, requests, subscriptions, chan, seen, clockSteps>>
    BY <1>5 DEF Tick, tableVars, localVars, streamVars
  <2>2. /\ clock' = clock + 1 /\ timer \in Nat
        /\ timer' = IF timer > 0 THEN timer - 1 ELSE timer
    BY <1>2, <1>5 DEF Tick, Unarmed
  <2>3. e \in Nat /\ now <= clock
    BY <1>1, <2>1, DelayType DEF IInv, ClockMonotone
  <2>4. timer' <= e - now' /\ clock' + timer' >= e
    BY <1>2, <1>5, <2>1, <2>2, <2>3 DEF ArmedFor
  <2>5. ASSUME clock' < e
        PROVE  isActiveLocked(requests, clock') <=> isActiveLocked(requests, clock)
    <3>1. clock < e /\ now <= clock' /\ clock' \in Time
      BY <1>2, <2>2, <2>3, <2>5 DEF Time
    <3>2. \A other \in NextEvents(requests, now) : clock < other /\ clock' < other
      BY <1>2, <1>5, <2>2, <2>3, <2>5, NextEventsAhead DEF ArmedFor, IsEarliest
    <3>3. /\ isActiveLocked(requests, clock) <=> isActiveLocked(requests, now)
          /\ isActiveLocked(requests, clock') <=> isActiveLocked(requests, now)
      BY <1>2, <2>3, <3>1, <3>2, ActivityConstant
    <3> QED  BY <3>3
  <2>6. clock' < e => clock < e
    BY <1>2, <2>2, <2>3
  <2>7. clock' < e => \A s \in subscriptions : View(s) = Value(isActiveLocked(requests, clock'))
    BY <1>5, <2>5, <2>6 DEF ArmedFor, checkIfActive, Value
  <2> QED  BY <1>5, <2>1, <2>4, <2>7 DEF ArmedFor, View, checkIfActive
<1>6. ASSUME NEW e \in NextEvents(requests, now), ArmedFor(e),
             UNCHANGED <<clock, timer, now, requests>>,
             \A s \in subscriptions' : \/ s \in subscriptions /\ View(s)' = View(s)
                                       \/ View(s)' = Value(isActiveLocked(requests, clock))
      PROVE  \E f \in NextEvents(requests', now') : ArmedFor(f)'
  BY <1>6 DEF ArmedFor, checkIfActive
<1>7. ASSUME NEW s \in Subs, Subscribe(s) \/ Receive(s) \/ Cancel(s)
      PROVE  /\ UNCHANGED <<clock, clockSteps, timer, now, requests>>
             /\ \A r \in subscriptions' : \/ r \in subscriptions /\ View(r)' = View(r)
                                          \/ View(r)' = Value(isActiveLocked(requests, clock))
  <2>1. UNCHANGED <<clock, clockSteps, timer, now, requests>>
    BY <1>7 DEF Subscribe, Receive, Cancel, timeVars, tableVars, localVars
  <2>2. CASE Subscribe(s)
    <3>1. chan'[s] = Value(isActiveLocked(requests, clock)) /\ chan'[s] # Empty
      BY <1>1, <2>2 DEF Subscribe, TypeOK, Value, Empty
    <3> QED  BY <1>1, <2>1, <2>2, <3>1 DEF Subscribe, TypeOK, View
  <2>3. CASE Receive(s)
    BY <1>1, <2>1, <2>3, ReceiveKeepsViews DEF Receive, TypeOK
  <2>4. CASE Cancel(s)
    BY <1>1, <2>1, <2>4 DEF Cancel, TypeOK, View
  <2> QED  BY <1>7, <2>1, <2>2, <2>3, <2>4
<1>8. ~ClockStep /\ ~ShutdownLocked
  BY <1>2 DEF ClockStep, ShutdownLocked
<1>9. Resting /\ shutdown # "done"
  BY RestingStep, ShutdownIsFinal
<1>10. timer # Unarmed /\ clockSteps = 0 /\ clock < MaxTime
  BY <1>2, <1>7, <1>8, RestingStep DEF Tick, Unarmed, timeVars
<1>11. PICK e \in NextEvents(requests, now) : ArmedFor(e)
  BY <1>9, <1>10 DEF IInv, FreshUntilNextEvent
<1>12. CASE \E s \in Subs : Subscribe(s) \/ Receive(s) \/ Cancel(s)
  BY <1>6, <1>7, <1>11, <1>12
<1>13. CASE UNCHANGED <<timeVars, timer, now, requests, subscriptions, chan, seen>>
  BY <1>6, <1>11, <1>13 DEF View, timeVars
<1> QED  BY <1>5, <1>8, <1>11, <1>12, <1>13, RestingStep

-----------------------------------------------------------------------------
(* The theorems. *)

\* Every step preserves the invariant.
LEMMA InvariantStep == IInv /\ [Next]_vars => IInv'
BY TypeStep, RegistrationStep, LoopPositionStep, PublishedStep, NothingAheadStep,
   ClockStepMonotone, FreshStep DEF IInv

\* The invariant, for every value of the constants.
THEOREM InvariantHolds == Spec => []IInv
<1>1. Init => IInv
  BY InitInvariant
<1>2. IInv /\ [Next]_vars => IInv'
  BY InvariantStep
<1> QED  BY <1>1, <1>2, PTL DEF Spec

\* No wake-up is lost: with neither signal nor timer left, what every subscriber has
\* is what IsActive answers (arbitrator.go:263-322).
THEOREM WakeupsNotLost == Spec => []NoLostWakeup
<1>1. IInv => NoLostWakeup
  <2> SUFFICES ASSUME IInv, Resting, timer = Unarmed, NEW s \in subscriptions
               PROVE  View(s) = Value(checkIfActive(clock))
    BY DEF NoLostWakeup
  <2>1. shutdown # "done"
    BY DEF IInv, Registration
  <2> QED  BY <2>1 DEF IInv, NothingAhead, checkIfActive, isActiveLocked
<1> QED  BY <1>1, InvariantHolds, PTL

\* The timer is enough: at rest it is armed for the earliest event, on time, and until
\* then every view is right (arbitrator.go:194-214).
THEOREM TimerSuffices == Spec => []FreshUntilNextEvent
<1>1. IInv => FreshUntilNextEvent
  BY DEF IInv
<1> QED  BY <1>1, InvariantHolds, PTL

\* Subscription channels are never closed twice and never sent to once closed, so
\* neither cancel, Shutdown nor the loop panics (arbitrator.go:178-192, 241-261).
THEOREM ChannelsNeverPanic == Spec => []NoChannelPanic
<1>1. IInv => NoChannelPanic
  BY DEF IInv, NoChannelPanic, Registration, LoopPosition, TypeOK
<1> QED  BY <1>1, InvariantHolds, PTL

\* Every stream call that is open after Shutdown finds its channel closed
\* (arbitrator.go:126-147).
THEOREM ShutdownReachesStreams == Spec => []ShutdownClosesStreams
<1>1. IInv => ShutdownClosesStreams
  BY DEF IInv, ShutdownClosesStreams, Registration
<1> QED  BY <1>1, InvariantHolds, PTL

\* A reconciliation that select lets in after Shutdown puts nothing into any channel
\* (arbitrator.go:103-118).
THEOREM SilenceAfterShutdown == Spec => NothingPublishedAfterShutdown
<1>1. IInv /\ [Next]_vars =>
         [shutdown = "done" => \A s \in Subs : chan'[s] \in {chan[s], Empty}]_vars
  <2> SUFFICES ASSUME IInv, [Next]_vars, shutdown = "done"
               PROVE  \A s \in Subs : chan'[s] \in {chan[s], Empty}
    OBVIOUS
  <2>1. TypeOK /\ subscriptions = {}
    BY DEF IInv, Registration
  <2>2. ~Resend /\ \A s \in Subs : ~Notify(s) /\ ~Subscribe(s)
    BY <2>1 DEF IInv, LoopPosition, Resend, Notify, Subscribe
  <2>3. CASE UNCHANGED chan
    BY <2>3
  <2>4. CASE Drain \/ \E s \in Subs : Receive(s) \/ Cancel(s)
    BY <2>1, <2>4 DEF Drain, Receive, Cancel, TypeOK
  <2> QED
    BY <2>2, <2>3, <2>4, QuietSteps DEF Next, streamVars, BeginReconcile, ArmTimer,
       ReceiveClosed, StreamDone, ShutdownLocked, closeSubscriptionsLocked
<1> QED  BY <1>1, InvariantHolds, PTL DEF Spec, NothingPublishedAfterShutdown

-----------------------------------------------------------------------------
\* The arbitrator implements ActivityFeed: each step is one step of the feed or changes
\* nothing a subscriber of the feed could tell.

up == reconciler \notin {"idle", "done"} /\ ~Stopping

\* The feed computes its answers as the arbitrator does.
LEMMA SameAnswer ==
    ASSUME NEW reqs, NEW t
    PROVE  /\ Feed!Answer(reqs, t) = Value(isActiveLocked(reqs, t))
           /\ Feed!pruneExpiredRequests(reqs, t) = pruneExpiredRequests(reqs, t)
BY DEF Feed!Answer, Feed!isActiveLocked, Feed!Present, Feed!shouldActivate, Feed!notYetStarted,
   Feed!alreadyEnded, Feed!pruneExpiredRequests, Value, isActiveLocked, Present, shouldActivate,
   notYetStarted, alreadyEnded, pruneExpiredRequests

\* A new arbitrator maps to an empty feed.
LEMMA FeedInit == Init => Feed!Init
<1> SUFFICES ASSUME Init PROVE Feed!Init
  OBVIOUS
<1>1. \A s \in Subs : PublishedView(s) = Empty
  BY DEF Init, PublishedView
<1> QED  BY <1>1 DEF Init, Feed!Init, Feed!NoView, Feed!Time, Empty

\* A step that keeps the table, the clock, the subscriptions and every
\* subscription's published view is one of the feed's switches, or nothing.
LEMMA SilentStep ==
    ASSUME UNCHANGED <<clock, requests, subscriptions>>,
           \A s \in Subs : PublishedView(s)' = PublishedView(s)
    PROVE  Feed!Next
<1>1. Feed!Switch
  BY DEF Feed!Switch
<1> QED  BY <1>1 DEF Feed!Next

\* Once the lock is free, what was published is what the subscribers hold.
LEMMA PublishedAtRest ==
    ASSUME IInv, MuFree
    PROVE  \A s \in Subs : PublishedView(s) = IF s \in subscriptions THEN View(s) ELSE Empty
BY NoSubAssumption DEF IInv, LoopPosition, MuFree, Holding, PublishedView, TypeOK

\* While the loop runs its decision already counts as published, so draining,
\* resending and reading are steps the feed does not see.
LEMMA LoopStep ==
    ASSUME IInv, \/ Drain \/ Resend \/ ArmTimer
                 \/ \E s \in Subs : Notify(s) \/ Receive(s) \/ ReceiveClosed(s) \/ StreamDone(s)
    PROVE  Feed!Next
<1>1. TypeOK /\ LoopPosition
  BY DEF IInv
<1>2. CASE Drain
  BY <1>1, <1>2, SilentStep DEF Drain, TypeOK, PublishedView, View, timeVars, tableVars, localVars
<1>3. CASE Resend
  <2>1. UNCHANGED <<clock, requests, subscriptions>>
    BY <1>3 DEF Resend, timeVars, tableVars
  <2>2. \A s \in Subs : PublishedView(s)' = PublishedView(s)
    BY <1>1, <1>3, NoSubAssumption
       DEF Resend, LoopPosition, TypeOK, PublishedView, View, Value, Empty
  <2> QED  BY <2>1, <2>2, SilentStep
<1>4. CASE ArmTimer
  BY <1>1, <1>4, SilentStep, NoSubAssumption DEF ArmTimer, LoopPosition, TypeOK, PublishedView, View,
     timeVars, tableVars, streamVars
<1>5. ASSUME NEW s \in Subs, Notify(s) PROVE Feed!Next
  <2>1. UNCHANGED <<clock, requests, subscriptions>>
    BY <1>5 DEF Notify, timeVars, tableVars
  <2>2. \A r \in Subs : PublishedView(r)' = PublishedView(r)
    BY <1>1, <1>5, NoSubAssumption
       DEF Notify, LoopPosition, TypeOK, PublishedView, View, Value, Empty
  <2> QED  BY <2>1, <2>2, SilentStep
<1>6. ASSUME NEW s \in Subs, Receive(s) PROVE Feed!Next
  <2>1. UNCHANGED <<clock, requests, subscriptions, toNotify, target, active>>
    BY <1>6 DEF Receive, timeVars, tableVars, localVars
  <2> QED  BY <1>1, <1>6, <2>1, SilentStep, ReceiveKeepsViews DEF PublishedView
<1>7. ASSUME NEW s \in Subs, ReceiveClosed(s) \/ StreamDone(s) PROVE Feed!Next
  BY <1>7, SilentStep DEF ReceiveClosed, StreamDone, PublishedView, View, timeVars, tableVars, localVars
<1> QED  BY <1>2, <1>3, <1>4, <1>5, <1>6, <1>7

\* BeginReconcile is the publication: every subscription's view becomes the answer at once.
LEMMA PublishStep ==
    ASSUME IInv, BeginReconcile
    PROVE  Feed!Next
<1>1. /\ requests' = pruneExpiredRequests(requests, clock)
      /\ active' = isActiveLocked(requests', clock)
      /\ toNotify' = subscriptions
      /\ UNCHANGED <<clock, subscriptions>>
      /\ up' = up
  BY DEF BeginReconcile, timeVars, streamVars, stopVars, up, Stopping
<1>2. requests \in Requests /\ clock \in Time
  BY DEF IInv, TypeOK
<1>3. Value(active') = Value(isActiveLocked(requests, clock))
  <2>1. active' <=> isActiveLocked(requests, clock)
    BY <1>1, <1>2, PruneKeepsActivity DEF Time
  <2> QED  BY <2>1 DEF Value
<1>4. \A s \in Subs : PublishedView(s)' = IF s \in subscriptions
                                          THEN Feed!Answer(requests, clock) ELSE Empty
  BY <1>1, <1>3, SameAnswer DEF PublishedView, Value
<1>5. Feed!Publish
  BY <1>1, <1>4, SameAnswer DEF Feed!Publish, Feed!NoView, Empty, up, Stopping
<1> QED  BY <1>5 DEF Feed!Next

\* Subscribing is joining, with the answer of that instant in the new channel.
LEMMA JoinStep ==
    ASSUME IInv, NEW s \in Subs, Subscribe(s)
    PROVE  Feed!Next
<1>1. /\ MuFree /\ MuFree' /\ s \notin subscriptions
      /\ subscriptions' = subscriptions \cup {s}
      /\ UNCHANGED <<clock, requests, toNotify, target, active, seen>>
      /\ up' = up
  BY DEF IInv, Registration, Subscribe, MuFree, timeVars, tableVars, localVars, stopVars, up, Stopping
<1>2. /\ chan'[s] = Value(isActiveLocked(requests, clock)) /\ chan'[s] # Empty
      /\ \A r \in Subs \ {s} : chan'[r] = chan[r]
  BY DEF IInv, TypeOK, Subscribe, Value, Empty
<1>3. s \notin toNotify \cup {target} /\ \A r \in toNotify \cup {target} : r \notin Subs
  BY <1>1, NoSubAssumption DEF IInv, LoopPosition, MuFree, Holding
<1>4. /\ PublishedView(s)' = Feed!Answer(requests, clock)
      /\ \A r \in Subs \ {s} : PublishedView(r)' = PublishedView(r)
  BY <1>1, <1>2, <1>3, SameAnswer DEF PublishedView, View
<1>5. Feed!Join(s)
  BY <1>1, <1>4 DEF Feed!Join, up, Stopping
<1> QED  BY <1>5 DEF Feed!Next

\* Whoever leaves the map, by cancelling or by Shutdown, leaves the feed, and
\* the others' views stay.
LEMMA LeaveStep ==
    ASSUME IInv, ShutdownLocked \/ \E s \in Subs : Cancel(s)
    PROVE  Feed!Next
<1> DEFINE leaving == subscriptions \ subscriptions'
<1>1. /\ MuFree /\ MuFree' /\ subscriptions' \subseteq subscriptions
      /\ UNCHANGED <<clock, requests, toNotify, target, active>>
      /\ up' = up
  BY DEF Cancel, ShutdownLocked, closeSubscriptionsLocked, MuFree, timeVars, tableVars,
     localVars, stopVars, up, Stopping
<1>2. \A r \in Subs : r \in subscriptions' => View(r)' = View(r)
  BY DEF IInv, TypeOK, Cancel, ShutdownLocked, closeSubscriptionsLocked, View
<1>3. \A r \in toNotify \cup {target} : r \notin Subs
  BY <1>1, NoSubAssumption DEF IInv, LoopPosition, MuFree, Holding
<1>4. \A r \in Subs : PublishedView(r)' = IF r \in leaving THEN Empty ELSE PublishedView(r)
  BY <1>1, <1>2, <1>3 DEF PublishedView
<1>5. Feed!Leave(leaving)
  BY <1>1, <1>4 DEF Feed!Leave, Feed!NoView, Empty, up, Stopping
<1> QED  BY <1>1, <1>5 DEF Feed!Next

\* The steps that touch neither a view nor the lock.
LEMMA QuietStep ==
    ASSUME IInv,
           \/ UNCHANGED vars \/ Tick \/ ClockStep \/ CancelContext \/ Run
           \/ \E id \in RequestId, w \in Windows : Upsert(id, w)
           \/ UpsertSignal \/ IntakeExit
           \/ \E d \in Deleters : DeleteSignal(d) \/ \E id \in RequestId : Delete(d, id)
           \/ TakeChange \/ TakeTimer \/ ReconcilerExit \/ ShutdownNotify
    PROVE  Feed!Next
<1>1. UNCHANGED <<localVars, streamVars>>
  BY QuietSteps
<1>2. \A s \in Subs : PublishedView(s)' = PublishedView(s)
  BY <1>1 DEF PublishedView, View, localVars, streamVars
<1>3. CASE UNCHANGED <<clock, requests>>
  BY <1>1, <1>2, <1>3, SilentStep DEF streamVars
<1>4. CASE Tick \/ ClockStep
  <2>1. clock' \in Time /\ requests' = requests /\ up' = up
    BY <1>4, BoundsAssumption DEF IInv, TypeOK, Time, Tick, ClockStep, tableVars, stopVars, up, Stopping
  <2>2. Feed!PassTime
    BY <1>1, <1>2, <2>1 DEF Feed!PassTime, Feed!Time, Time, streamVars, up, Stopping
  <2> QED  BY <2>2 DEF Feed!Next
<1>5. ASSUME NEW id \in RequestId,
             NEW entry \in Window \cup {NoWindow},
             requests' = [requests EXCEPT ![id] = entry],
             clock' = clock, up' = up
      PROVE  Feed!Next
  <2>1. requests'[id] = entry
    BY <1>5 DEF IInv, TypeOK, Requests
  <2>2. Feed!Change
    BY <1>1, <1>2, <1>5, <2>1 DEF Feed!Change, Feed!Window, Feed!Time, Window, Time, streamVars,
       up, Stopping
  <2> QED  BY <2>2 DEF Feed!Next
<1>6. ASSUME NEW id \in RequestId, NEW w \in Windows, Upsert(id, w) PROVE Feed!Next
  BY <1>5, <1>6, WindowsAssumption DEF Upsert, timeVars, stopVars, up, Stopping
<1>7. ASSUME NEW d \in Deleters, NEW id \in RequestId, Delete(d, id) PROVE Feed!Next
  BY <1>5, <1>7 DEF Delete, timeVars, stopVars, up, Stopping
<1> QED
  BY <1>3, <1>4, <1>6, <1>7 DEF vars, timeVars, tableVars, CancelContext, Run, UpsertSignal,
     IntakeExit, DeleteSignal, TakeChange, TakeTimer, ReconcilerExit, ShutdownNotify

\* Every behaviour of the arbitrator is one of the feed.
THEOREM ArbitratorImplementsFeed == Spec => ImplementsFeed
<1>1. Init => Feed!Init
  BY FeedInit
<1>2. IInv /\ [Next]_vars => Feed!Next
  BY LoopStep, PublishStep, JoinStep, LeaveStep, QuietStep DEF Next
<1> QED  BY <1>1, <1>2, InvariantHolds, PTL DEF Spec, ImplementsFeed, Feed!Spec
=============================================================================
