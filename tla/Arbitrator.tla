----------------------------- MODULE Arbitrator -----------------------------
(***************************************************************************)
(* One Arbitrator of internal/server/arbitrator/arbitrator.go: the request *)
(* table of one ScaledObject, the two goroutines of Run (intake and        *)
(* reconciler), HTTP handlers that delete requests, the StreamIsActive     *)
(* subscribers of internal/server/scaler/service.go, and Shutdown.         *)
(*                                                                         *)
(* The mutex a.mu: a critical section that only reads and writes the       *)
(* arbitrator's own fields is one action, guarded by MuFree.               *)
(* reconcileAndNotify talks to the subscribers' channels, which are read   *)
(* without the lock, so it is split at every channel operation, and MuFree *)
(* is false from its Lock to its deferred Unlock.  The signal on changedCh *)
(* comes after the Unlock and is a step of its own.                        *)
(*                                                                         *)
(* Time: clock is the wall clock, which the windows and time.Now() use.    *)
(* The timer counts down monotonic ticks and does not notice when the wall *)
(* clock is stepped.                                                       *)
(***************************************************************************)
EXTENDS RequestWindow, FiniteSets

CONSTANTS
    Windows,        \* the windows clients ask for
    Subs,           \* stream calls, each with its own subscription
    Deleters,       \* HTTP handlers that delete a request
    NoSub,          \* "no subscriber", not a member of Subs
    MaxTime,        \* bound: the wall clock stands still there
    MaxClockSteps,  \* bound: how often the wall clock is set
    MaxUpserts      \* bound: how many requests arrive

ASSUME WindowsAssumption == Windows \subseteq Window
ASSUME NoSubAssumption   == NoSub \notin Subs
ASSUME BoundsAssumption  == MaxTime \in Nat /\ MaxClockSteps \in Nat /\ MaxUpserts \in Nat

VARIABLES
    clock,          \* the wall clock
    clockSteps,     \* how often it has been set
    upserts,        \* how many requests have arrived
    requests,       \* a.requests
    changed,        \* TRUE iff changedCh, of capacity 1, holds its token
    timer,          \* ticks until nextEventTimer.C is readable, or Unarmed
    intake,         \* where the intake goroutine is
    reconciler,     \* where the reconcile goroutine is
    now,            \* time.Now() of the last reconcileAndNotify
    active,         \* isActive of the running reconcileAndNotify
    toNotify,       \* subscriptions its loop has not reached
    target,         \* the subscription whose full channel it is refreshing
    deleter,        \* where each deleting handler is
    subscriptions,  \* the keys of a.subscriptions
    chan,           \* each subscription's channel, of capacity 1
    closes,         \* how often each channel has been closed
    stream,         \* where each StreamIsActive call is
    seen,           \* the value each call last sent to KEDA
    shutdown,       \* how far Shutdown has got
    ctxDone         \* the context given to Run is cancelled

timeVars   == <<clock, clockSteps>>
tableVars  == <<upserts, requests>>
localVars  == <<now, active, toNotify, target>>
streamVars == <<subscriptions, chan, closes, stream, seen>>
stopVars   == <<shutdown, ctxDone>>
vars == <<timeVars, tableVars, changed, timer, intake, reconciler, localVars,
          deleter, streamVars, stopVars>>

-----------------------------------------------------------------------------
Unarmed  == -1  \* no timer yet, stopped, or its tick already received
Empty    == "none"
Value(b) == IF b THEN "active" ELSE "inactive"
Values   == {"active", "inactive"}

Holding == {"notify", "drain", "resend"}
MuFree  == reconciler \notin Holding

Stopping == ctxDone \/ shutdown # "no"

checkIfActive(t) == isActiveLocked(requests, t)

TypeOK ==
    /\ clock \in Time /\ clockSteps \in 0..MaxClockSteps
    /\ upserts \in 0..MaxUpserts
    /\ requests \in Requests
    /\ changed \in BOOLEAN
    /\ timer \in Nat \cup {Unarmed}
    /\ intake \in {"idle", "select", "signal", "done"}
    /\ reconciler \in {"idle", "select", "lock", "done"} \cup Holding
    /\ now \in Time /\ active \in BOOLEAN
    /\ toNotify \subseteq Subs /\ target \in Subs \cup {NoSub}
    /\ deleter \in [Deleters -> {"idle", "signal"}]
    /\ subscriptions \subseteq Subs
    /\ chan \in [Subs -> Values \cup {Empty}]
    /\ closes \in [Subs -> Nat]
    /\ stream \in [Subs -> {"new", "open", "cancel", "ended"}]
    /\ seen \in [Subs -> Values \cup {Empty}]
    /\ shutdown \in {"no", "notified", "done"}
    /\ ctxDone \in BOOLEAN

Init ==
    /\ clock = 0 /\ clockSteps = 0
    /\ upserts = 0
    /\ requests = [id \in RequestId |-> NoWindow]
    /\ changed = FALSE
    /\ timer = Unarmed
    /\ intake = "idle" /\ reconciler = "idle"
    /\ now = clock /\ active = FALSE /\ toNotify = {} /\ target = NoSub
    /\ deleter = [d \in Deleters |-> "idle"]
    /\ subscriptions = {}
    /\ chan = [s \in Subs |-> Empty]
    /\ closes = [s \in Subs |-> 0]
    /\ stream = [s \in Subs |-> "new"]
    /\ seen = [s \in Subs |-> Empty]
    /\ shutdown = "no" /\ ctxDone = FALSE

-----------------------------------------------------------------------------
(* The environment. *)

\* At the horizon the wall clock stands still, and a timer still runs out.
Tick ==
    /\ clock < MaxTime \/ timer > 0
    /\ clock' = IF clock < MaxTime THEN clock + 1 ELSE clock
    /\ timer' = IF timer > 0 THEN timer - 1 ELSE timer
    /\ UNCHANGED <<clockSteps, tableVars, changed, intake, reconciler, localVars,
                   deleter, streamVars, stopVars>>

\* An administrator or NTP sets the wall clock.  Every window notices: those whose
\* times clients gave, and those whose start was filled in, since http.go:95 passes
\* time.Now().UTC(), and UTC() drops the monotonic reading.  The timer does not.
ClockStep ==
    /\ clockSteps < MaxClockSteps
    /\ clockSteps' = clockSteps + 1
    /\ clock' \in (0..MaxTime) \ {clock}
    /\ UNCHANGED <<tableVars, changed, timer, intake, reconciler, localVars,
                   deleter, streamVars, stopVars>>

CancelContext ==
    /\ ~ctxDone
    /\ ctxDone' = TRUE
    /\ UNCHANGED <<timeVars, tableVars, changed, timer, intake, reconciler,
                   localVars, deleter, streamVars, shutdown>>

\* The router starts both goroutines of Run.
Run ==
    /\ intake = "idle" /\ reconciler = "idle"
    /\ intake' = "select" /\ reconciler' = "select"
    /\ UNCHANGED <<timeVars, tableVars, changed, timer, localVars, deleter,
                   streamVars, stopVars>>

-----------------------------------------------------------------------------
(* The intake goroutine.  Receiving from inputCh and upsert's critical       *)
(* section are one action: nobody observes the request between the two.      *)

Upsert(id, w) ==
    /\ intake = "select" /\ MuFree
    /\ upserts < MaxUpserts
    /\ upserts' = upserts + 1
    /\ requests' = [requests EXCEPT ![id] = w]
    /\ intake' = "signal"
    /\ UNCHANGED <<timeVars, changed, timer, reconciler, localVars, deleter,
                   streamVars, stopVars>>

\* Faulty: changedCh unbuffered, so only a reconciler already waiting gets it.
UpsertSignalUnbuffered ==
    /\ intake = "signal"
    /\ \/ reconciler = "select" /\ changed' = TRUE
       \/ UNCHANGED changed
    /\ intake' = "select"
    /\ UNCHANGED <<timeVars, tableVars, timer, reconciler, localVars, deleter,
                   streamVars, stopVars>>

UpsertSignal ==
    /\ intake = "signal"
    /\ changed' = TRUE
    /\ intake' = "select"
    /\ UNCHANGED <<timeVars, tableVars, timer, reconciler, localVars, deleter,
                   streamVars, stopVars>>

IntakeExit ==
    /\ intake = "select" /\ Stopping
    /\ intake' = "done"
    /\ UNCHANGED <<timeVars, tableVars, changed, timer, reconciler, localVars,
                   deleter, streamVars, stopVars>>

-----------------------------------------------------------------------------
(* A handler that deletes a request.  An absent request changes nothing.     *)

Delete(d, id) ==
    /\ deleter[d] = "idle" /\ MuFree
    /\ id \in Present(requests)
    /\ requests' = [requests EXCEPT ![id] = NoWindow]
    /\ deleter' = [deleter EXCEPT ![d] = "signal"]
    /\ UNCHANGED <<timeVars, upserts, changed, timer, intake, reconciler,
                   localVars, streamVars, stopVars>>

\* Faulty: delete wakes nobody.
DeleteSignalForgotten(d) ==
    /\ deleter[d] = "signal"
    /\ deleter' = [deleter EXCEPT ![d] = "idle"]
    /\ UNCHANGED <<timeVars, tableVars, changed, timer, intake, reconciler,
                   localVars, streamVars, stopVars>>

DeleteSignal(d) ==
    /\ deleter[d] = "signal"
    /\ changed' = TRUE
    /\ deleter' = [deleter EXCEPT ![d] = "idle"]
    /\ UNCHANGED <<timeVars, tableVars, timer, intake, reconciler, localVars,
                   streamVars, stopVars>>

-----------------------------------------------------------------------------
(* The reconcile goroutine. *)

TakeChange ==
    /\ reconciler = "select" /\ changed
    /\ changed' = FALSE
    /\ reconciler' = "lock"
    /\ UNCHANGED <<timeVars, tableVars, timer, intake, localVars, deleter,
                   streamVars, stopVars>>

TakeTimer ==
    /\ reconciler = "select" /\ timer = 0
    /\ timer' = Unarmed
    /\ reconciler' = "lock"
    /\ UNCHANGED <<timeVars, tableVars, changed, intake, localVars, deleter,
                   streamVars, stopVars>>

\* Lock, read the time, prune, decide, and start over the subscriptions.
BeginReconcile ==
    /\ reconciler = "lock"
    /\ now' = clock
    /\ requests' = pruneExpiredRequests(requests, clock)
    /\ active' = isActiveLocked(requests', clock)
    /\ toNotify' = subscriptions
    /\ reconciler' = "notify"
    /\ UNCHANGED <<timeVars, upserts, changed, timer, intake, target, deleter,
                   streamVars, stopVars>>

\* Faulty: the send blocks while the channel is full.
NotifyBlocking(s) ==
    /\ reconciler = "notify" /\ s \in toNotify
    /\ chan[s] = Empty
    /\ toNotify' = toNotify \ {s}
    /\ chan' = [chan EXCEPT ![s] = Value(active)]
    /\ UNCHANGED <<timeVars, tableVars, changed, timer, intake, reconciler, now,
                   active, target, deleter, subscriptions, closes, stream, seen,
                   stopVars>>

\* Faulty: a full channel keeps the value it holds.
NotifyWithoutDrain(s) ==
    /\ reconciler = "notify" /\ s \in toNotify
    /\ toNotify' = toNotify \ {s}
    /\ chan' = [chan EXCEPT ![s] = IF @ = Empty THEN Value(active) ELSE @]
    /\ UNCHANGED <<timeVars, tableVars, changed, timer, intake, reconciler, now,
                   active, target, deleter, subscriptions, closes, stream, seen,
                   stopVars>>

\* The first, non-blocking send of the loop's body.
Notify(s) ==
    /\ reconciler = "notify" /\ s \in toNotify
    /\ toNotify' = toNotify \ {s}
    /\ \/ /\ chan[s] = Empty
          /\ chan' = [chan EXCEPT ![s] = Value(active)]
          /\ UNCHANGED <<reconciler, target>>
       \/ /\ chan[s] # Empty
          /\ reconciler' = "drain" /\ target' = s
          /\ UNCHANGED chan
    /\ UNCHANGED <<timeVars, tableVars, changed, timer, intake, now, active,
                   deleter, subscriptions, closes, stream, seen, stopVars>>

\* Take the stale value out, unless its reader has just done so.
Drain ==
    /\ reconciler = "drain"
    /\ chan' = [chan EXCEPT ![target] = Empty]
    /\ reconciler' = "resend"
    /\ UNCHANGED <<timeVars, tableVars, changed, timer, intake, localVars,
                   deleter, subscriptions, closes, stream, seen, stopVars>>

\* Faulty: the stale value is taken out and nothing is put in its place.
ResendForgotten ==
    /\ reconciler = "resend"
    /\ target' = NoSub
    /\ reconciler' = "notify"
    /\ UNCHANGED <<timeVars, tableVars, changed, timer, intake, now, active,
                   toNotify, deleter, streamVars, stopVars>>

\* The second send is non-blocking too: a full channel keeps its value.
Resend ==
    /\ reconciler = "resend"
    /\ chan' = [chan EXCEPT ![target] = IF @ = Empty THEN Value(active) ELSE @]
    /\ target' = NoSub
    /\ reconciler' = "notify"
    /\ UNCHANGED <<timeVars, tableVars, changed, timer, intake, now, active,
                   toNotify, deleter, subscriptions, closes, stream, seen, stopVars>>

\* Stop the old timer, arm one for the earliest event after now, unlock.  The
\* clock may have moved on since now was read.
ArmTimer ==
    /\ reconciler = "notify" /\ toNotify = {}
    /\ LET events == NextEvents(requests, now) IN
       \/ events = {} /\ timer' = Unarmed
       \/ \E e \in events : IsEarliest(e, events) /\ timer' = e - now
    /\ active' = FALSE
    /\ reconciler' = "select"
    /\ UNCHANGED <<timeVars, tableVars, changed, intake, now, toNotify, target,
                   deleter, streamVars, stopVars>>

\* Faulty: the reconciler does not watch notifyShutdownCh.
ReconcilerExitOnContext ==
    /\ reconciler = "select" /\ ctxDone
    /\ reconciler' = "done"
    /\ UNCHANGED <<timeVars, tableVars, changed, timer, intake, localVars,
                   deleter, streamVars, stopVars>>

\* select picks among the ready cases at random, so it may keep working for a
\* while after the context is cancelled or Shutdown has begun.
ReconcilerExit ==
    /\ reconciler = "select" /\ Stopping
    /\ reconciler' = "done"
    /\ UNCHANGED <<timeVars, tableVars, changed, timer, intake, localVars,
                   deleter, streamVars, stopVars>>

-----------------------------------------------------------------------------
(* A StreamIsActive call and its subscription. *)

\* The router refuses subscriptions from the moment it starts to shut down.
Subscribe(s) ==
    /\ stream[s] = "new" /\ MuFree /\ shutdown = "no"
    /\ stream' = [stream EXCEPT ![s] = "open"]
    /\ chan' = [chan EXCEPT ![s] = Value(isActiveLocked(requests, clock))]
    /\ subscriptions' = subscriptions \cup {s}
    /\ UNCHANGED <<timeVars, tableVars, changed, timer, intake, reconciler,
                   localVars, deleter, closes, seen, stopVars>>

\* Reading the channel takes no lock, and a closed channel gives up what it
\* still holds first.
Receive(s) ==
    /\ stream[s] = "open" /\ chan[s] # Empty
    /\ seen' = [seen EXCEPT ![s] = chan[s]]
    /\ chan' = [chan EXCEPT ![s] = Empty]
    /\ UNCHANGED <<timeVars, tableVars, changed, timer, intake, reconciler,
                   localVars, deleter, subscriptions, closes, stream, stopVars>>

\* Faulty: the zero value of a closed channel is taken for an update.
ReceiveClosedAsValue(s) ==
    /\ stream[s] = "open" /\ chan[s] = Empty /\ closes[s] > 0
    /\ seen' = [seen EXCEPT ![s] = Value(FALSE)]
    /\ UNCHANGED <<timeVars, tableVars, changed, timer, intake, reconciler,
                   localVars, deleter, subscriptions, chan, closes, stream, stopVars>>

ReceiveClosed(s) ==
    /\ stream[s] = "open" /\ chan[s] = Empty /\ closes[s] > 0
    /\ stream' = [stream EXCEPT ![s] = "cancel"]
    /\ UNCHANGED <<timeVars, tableVars, changed, timer, intake, reconciler,
                   localVars, deleter, subscriptions, chan, closes, seen, stopVars>>

\* The call's context ends, or Send fails.
StreamDone(s) ==
    /\ stream[s] = "open"
    /\ stream' = [stream EXCEPT ![s] = "cancel"]
    /\ UNCHANGED <<timeVars, tableVars, changed, timer, intake, reconciler,
                   localVars, deleter, subscriptions, chan, closes, seen, stopVars>>

\* Faulty: the subscription is not looked up before its channel is closed.
CancelUnchecked(s) ==
    /\ stream[s] = "cancel" /\ MuFree
    /\ stream' = [stream EXCEPT ![s] = "ended"]
    /\ subscriptions' = subscriptions \ {s}
    /\ closes' = [closes EXCEPT ![s] = @ + 1]
    /\ chan' = [chan EXCEPT ![s] = Empty]
    /\ seen' = [seen EXCEPT ![s] = Empty]
    /\ UNCHANGED <<timeVars, tableVars, changed, timer, intake, reconciler,
                   localVars, deleter, stopVars>>

\* The deferred cancel of the subscription.  With the call gone, what it had
\* seen and what its channel still holds are gone too.
Cancel(s) ==
    /\ stream[s] = "cancel" /\ MuFree
    /\ stream' = [stream EXCEPT ![s] = "ended"]
    /\ \/ /\ s \in subscriptions
          /\ subscriptions' = subscriptions \ {s}
          /\ closes' = [closes EXCEPT ![s] = @ + 1]
       \/ s \notin subscriptions /\ UNCHANGED <<subscriptions, closes>>
    /\ chan' = [chan EXCEPT ![s] = Empty]
    /\ seen' = [seen EXCEPT ![s] = Empty]
    /\ UNCHANGED <<timeVars, tableVars, changed, timer, intake, reconciler,
                   localVars, deleter, stopVars>>

-----------------------------------------------------------------------------
(* Shutdown, once: later callers wait for the first inside shutdownOnce. *)

ShutdownNotify ==
    /\ shutdown = "no"
    /\ shutdown' = "notified"
    /\ UNCHANGED <<timeVars, tableVars, changed, timer, intake, reconciler,
                   localVars, deleter, streamVars, ctxDone>>

\* Faulty: the subscriptions are forgotten but their channels stay open.
forgetSubscriptions ==
    /\ subscriptions' = {}
    /\ UNCHANGED <<closes, chan, stream, seen>>

\* Faulty: the channels are closed but stay in the map.
closeOnly ==
    /\ closes' = [s \in Subs |-> IF s \in subscriptions THEN closes[s] + 1
                                                        ELSE closes[s]]
    /\ UNCHANGED <<subscriptions, chan, stream, seen>>

closeSubscriptionsLocked ==
    /\ subscriptions' = {}
    /\ closes' = [s \in Subs |-> IF s \in subscriptions THEN closes[s] + 1
                                                        ELSE closes[s]]
    /\ UNCHANGED <<chan, stream, seen>>

ShutdownLocked ==
    /\ shutdown = "notified" /\ MuFree
    /\ closeSubscriptionsLocked
    /\ timer' = Unarmed
    /\ shutdown' = "done"
    /\ UNCHANGED <<timeVars, tableVars, changed, intake, reconciler, localVars,
                   deleter, ctxDone>>

-----------------------------------------------------------------------------
Next ==
    \/ Tick \/ ClockStep \/ CancelContext \/ Run
    \/ \E id \in RequestId, w \in Windows : Upsert(id, w)
    \/ UpsertSignal \/ IntakeExit
    \/ \E d \in Deleters : DeleteSignal(d) \/ \E id \in RequestId : Delete(d, id)
    \/ TakeChange \/ TakeTimer \/ BeginReconcile
    \/ \E s \in Subs : Notify(s)
    \/ Drain \/ Resend \/ ArmTimer \/ ReconcilerExit
    \/ \E s \in Subs : \/ Subscribe(s) \/ Receive(s) \/ ReceiveClosed(s)
                       \/ StreamDone(s) \/ Cancel(s)
    \/ ShutdownNotify \/ ShutdownLocked

Spec == Init /\ [][Next]_vars

\* The goroutines of the program itself.  Go's select chooses at random among
\* the ready cases and sync.Mutex hands a starving waiter the lock, hence the
\* strong fairness of the steps that others can keep disabling.
GoroutineFairness ==
    /\ WF_vars(Tick) /\ WF_vars(Run)
    /\ WF_vars(UpsertSignal) /\ SF_vars(IntakeExit)
    /\ \A d \in Deleters : WF_vars(DeleteSignal(d))
    /\ WF_vars(TakeChange \/ TakeTimer) /\ WF_vars(BeginReconcile)
    /\ \A s \in Subs : WF_vars(Notify(s))
    /\ WF_vars(Drain) /\ WF_vars(Resend) /\ WF_vars(ArmTimer)
    /\ SF_vars(ReconcilerExit)
    /\ \A s \in Subs : SF_vars(Cancel(s))
    /\ SF_vars(ShutdownLocked)

\* Stream calls that keep reading: KEDA is not slow for ever.  A call waiting
\* in its select is handed the value by the send itself, so a reconciliation
\* that keeps draining the channel does not starve it.
ReaderFairness ==
    \A s \in Subs : SF_vars(Receive(s)) /\ WF_vars(ReceiveClosed(s))

FairSpec == Spec /\ GoroutineFairness

-----------------------------------------------------------------------------
(* Safety. *)

\* A signal on changedCh is there or on its way, or has just been taken.
Signalled ==
    \/ changed \/ intake = "signal" \/ reconciler = "lock"
    \/ \E d \in Deleters : deleter[d] = "signal"

\* What a subscriber has, or will read next from its channel.
View(s) == IF chan[s] = Empty THEN seen[s] ELSE chan[s]

\* Nothing but the timer can start a reconciliation, and none is running.
Resting == MuFree /\ ~Signalled

\* No wake-up is lost: whenever nothing is left that could start another
\* reconciliation, neither signal nor timer, every subscription's view is what
\* IsActive would answer, whatever happened between the unlock and the signal
\* of upsert and delete (arbitrator.go:267-294, 305-319).
NoLostWakeup ==
    Resting /\ timer = Unarmed =>
        \A s \in subscriptions : View(s) = Value(checkIfActive(clock))

\* The timer is armed for event e: it is not due before e, nor later than the
\* delay computed for it, and every view is right until then.
ArmedFor(e) ==
    /\ IsEarliest(e, NextEvents(requests, now))
    /\ timer <= e - now /\ clock + timer >= e
    /\ clock < e => \A s \in subscriptions : View(s) = Value(checkIfActive(clock))

\* The timer is enough: at rest, with a wall clock that was never set, it is
\* armed for the earliest event after the last reconciliation, and until that
\* event every view is what IsActive would answer (arbitrator.go:194-214).  At
\* MaxTime the model's wall clock stands still.
FreshUntilNextEvent ==
    Resting /\ shutdown # "done" /\ clockSteps = 0 /\ clock < MaxTime =>
        /\ timer = Unarmed => NextEvents(requests, now) = {}
        /\ timer # Unarmed => \E e \in NextEvents(requests, now) : ArmedFor(e)

\* Cancel, Shutdown and a reconciliation in progress never close a channel
\* twice and never send on a closed one; Go panics on either
\* (arbitrator.go:179-192, 241-251, 256-261).
NoChannelPanic ==
    /\ \A s \in Subs : closes[s] <= 1
    /\ reconciler = "notify" => \A s \in toNotify : closes[s] = 0
    /\ reconciler \in {"drain", "resend"} =>
           \A s \in toNotify \cup {target} : closes[s] = 0

\* Once Shutdown is through, every stream call that is still open will find
\* its channel closed and return, so that the gRPC server can stop gracefully
\* (arbitrator.go:126-147).
ShutdownClosesStreams ==
    shutdown = "done" => \A s \in Subs : stream[s] = "open" => closes[s] = 1

\* After Shutdown is through, a reconciliation that select still lets in
\* (arbitrator.go:103-118) puts nothing into any channel.
NothingPublishedAfterShutdown ==
    [][shutdown = "done" => \A s \in Subs : chan'[s] \in {chan[s], Empty}]_vars

-----------------------------------------------------------------------------
(* Liveness. *)

\* A subscriber that does not read never holds up the others: a
\* reconciliation that has begun ends (arbitrator.go:179-192; the steering
\* notes, go-architecture.md:61-65).  No reader is assumed to make progress.
ReconcileCompletes == (reconciler \in Holding) ~> (reconciler = "select")

\* Cancelling the context or shutting down ends both goroutines of Run.
GoroutinesExit ==
    Stopping /\ reconciler # "idle" ~> (intake = "done" /\ reconciler = "done")

\* Shutdown gets the lock and finishes.
ShutdownCompletes == shutdown = "notified" ~> shutdown = "done"

\* While the arbitrator keeps running, every call that stays open and reads ends up
\* having told KEDA what the request windows say at the horizon, however
\* requests, deletions, timers and clock steps interleaved before.
StreamsConverge ==
    ReaderFairness =>
        <>[](\A s \in Subs : stream[s] = "open" /\ ~Stopping =>
                seen[s] = Value(checkIfActive(clock)))

\* No stream call that reads outlives Shutdown.
StreamsEnd ==
    ReaderFairness =>
        \A s \in Subs : shutdown = "done" /\ stream[s] = "open" ~> stream[s] = "ended"

-----------------------------------------------------------------------------
(* The arbitrator implements ActivityFeed.  A publication happens when       *)
(* BeginReconcile has decided: from there on, a subscription the loop has    *)
(* not served yet already counts as holding the new answer.                  *)

PublishedView(s) ==
    IF s \notin subscriptions THEN Empty
    ELSE IF s \in toNotify \cup {target} THEN Value(active) ELSE View(s)

Feed == INSTANCE ActivityFeed WITH
    up      <- reconciler \notin {"idle", "done"} /\ ~Stopping,
    members <- subscriptions,
    view    <- [s \in Subs |-> PublishedView(s)]

\* Draining and resending, subscribing, cancelling and shutting down in the
\* middle of things never give a subscriber an answer that was not published
\* to all (arbitrator.go:166-261).
ImplementsFeed == Feed!Spec

\* A view that is wrong does not stay wrong while the arbitrator runs.
FeedEventuallyFresh == Feed!EventuallyFresh
=============================================================================
