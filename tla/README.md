# keda-launcher-scaler: verification

keda-launcher-scaler is an external scaler for KEDA.  Clients post *request windows*
("keep this ScaledObject active from t1 to t2") over HTTP; KEDA asks over gRPC whether a
ScaledObject is active, or opens a stream on which it is told.  This directory holds TLA+
models of the program, the TLC configurations that check them on small instances, and
proofs, checked by TLAPS, of the safety of its core for every instance.  Source paths are
relative to the repository, line numbers are those of the commit the models were written from.

## 1. Inventory

| component | state | operations | in |
|---|---|---|---|
| **Arbitrator** `internal/server/arbitrator/arbitrator.go` | request table, subscriptions (a channel of capacity 1 each), `changedCh` (capacity 1), one timer, shutdown latch, mutex | two goroutines of `Run` (intake, reconciler), `upsert`, `delete`, `subscribe` and its cancel, `checkIfActive`, `Shutdown` | `RequestWindow`, `Arbitrator` |
| **ArbitratorRouter** `arbitrator/router.go` | status, `runCtx` and `runCancel`, map key -> arbitrator and its unbuffered `inputCh` | `EnsureScaledObject`, `HasScaledObject`, `Subscribe`, `DeleteRequest`, `Run` with `route`, `Shutdown`; `IsActive`, `ListScaledObjects` | `ArbitratorRouter`; the last two in `ServiceApi` |
| **HTTP receiver** `receiver/http/http.go` | sending end of `requestCh`, `http.Server` | `PostRequests`, `DeleteScaledObjectRequest`, `ListScaledObjects`; `Receive`, `Shutdown` | `ServiceApi`, `ArbitratorRouter`; `ServerLifecycle` |
| **Request normalization** `receiver/request.go` | none | `NormalizeRequest` | `RequestNormalization` |
| **Receiver wrapper** `receiver/receiver.go` | none | `Run`, `Shutdown`, delegated | `ServerLifecycle` |
| **External scaler service** `scaler/service.go` | none of its own; per stream call its subscription | `IsActive`, `GetMetricSpec`, `GetMetrics`; `StreamIsActive` | `ServiceApi`; `Arbitrator`, `ArbitratorRouter` |
| **gRPC server lifecycle** `scaler/server.go` | `grpc.Server` | `Run`, `Shutdown` (graceful stop against a timeout) | `ServerLifecycle` |
| **Server process** `cmd/keda-launcher-scaler/main.go` | signal context, component chain | start, signal, `chain.Shutdown` with timeout, end after a failure | `ServerLifecycle` |
| **Launcher client** `cmd/keda-launcher-client/main.go` | ticker | `launchRequest`; post, wait for the tick, post again | `Configuration`; `LauncherClient` |
| **Client library** `pkg/client` | none | `Launch`, `ListScaledObjects`, `DeleteRequest`, conversions; endpoints | `ServiceApi`, `LauncherClient`, `RequestNormalization`; `Configuration` |
| **Client configuration** `internal/client/config` | none | `Load`, `normalizeReceiverURL` | `Configuration` |
| **Server configuration** `internal/server/config` | none | `Load` | not modelled |
| **Generated OpenAPI code** `openapi.gen.go` of receiver and client | none | JSON, request URLs, sending, dispatch, responses | `RequestNormalization`, `Configuration`, `ServiceApi` |
| observability `internal/common` | none that matters here | whether `NewLogger` takes a level; logging and tracing | the first in `Configuration` |

How they interact.  A POST is validated, its key looked up (`HasScaledObject`), and sent to
`requestCh`, a channel shared by all ScaledObjects.  The router's `Run` takes requests out
one at a time and hands each to its arbitrator over an unbuffered channel.  The arbitrator's
intake goroutine puts it into the table and then, with the lock released, signals
`changedCh`; the reconciler goroutine wakes on the signal or on the timer, prunes the table,
decides whether the ScaledObject is active, pushes the decision into every subscription's
channel, and arms the timer for the next start or end of a window.  A DELETE goes past the
channel straight to the arbitrator.  A gRPC call registers its key first, so KEDA's interest
is what makes a key known; a stream call reads its channel without the lock.  `Shutdown`
reaches the router from the component chain and goes on to every arbitrator, whose closed
subscriptions end the stream calls, which lets the gRPC server stop gracefully.

What is hard here.

* The unlock of `upsert` and `delete` comes before their signal, signals are merged in a
  channel of capacity 1, and the reconciler reads the table later: a lost wake-up would leave
  KEDA with a wrong answer for good.
* The reconciler replaces a stale value in a full channel (drain, then send again) while the
  reader of that channel may be emptying it.
* There is one timer for all windows; ends are inclusive, so it can fire when the window is
  still in force; it counts monotonic time while windows are wall-clock times.
* `select` picks at random, so loops may go on for a while after they were told to stop, and
  cancel, Shutdown and the notification loop meet on the same channels.
* A request passes through four hands, and a deletion or a shutdown passes by them.
* `Run`, `Shutdown`, registration and subscription may come in many orders.
* A call may fail for its caller while its handler lives on; KEDA's answer combines a time
  and a table that need not be of one moment.
* Windows are instants of the server's wall clock, which may be set while they are in force.
* A component may fail while another's shutdown, or a handler, waits for what it provided.

What makes each component correct.

* Arbitrator: no wake-up is lost, the timer is armed for the earliest event and is on time,
  subscribers hold the answer the table gives, channels are never misused, slow subscribers
  hold nobody up, Shutdown ends goroutines and streams.
* Router: each arbitrator is started exactly once; requests of one ScaledObject take effect
  in the order they were accepted; no request can end the router; no subscription is left
  without somebody to close it; Shutdown ends everything.
* Service: what a caller is told agrees with what the server did and will do; KEDA's answers
  are right for every window that covers the call; nothing KEDA was answered about is unknown.
* Normalization: every accepted window is one the arbitrator's logic is right for.
* Configuration: what is accepted works, and what is refused is refused at the start.
* Process: a graceful end cuts nobody off and needs no timeout; nothing withstands the
  timeout; the failure of a component ends the process.
* Launcher client: the window it keeps alive does not lapse while posts succeed in time, and
  is soon right again after the server's clock was set.

`PROJECT.json` lists under `hazards` each of these at its line, with the properties that
would show it going wrong.

## 2. Modules

    RequestWindow          windows and the pure functions of the request table
      RequestWindowProofs  lemmas about the pure functions
      Arbitrator           the goroutines, channels, lock and timer of one arbitrator
        ArbitratorInvariant    its inductive invariant
          ArbitratorProofs         safety and the refinement, proved
        MCArbitrator           instances for TLC
      ActivityFeed         what an arbitrator promises its subscribers (abstract)
      RequestNormalization from launch request through JSON to window, or refusal
        RequestNormalizationProofs   correct for every request
        Configuration        the launcher's environment, endpoints
          MCRequests           all small requests and environments
            RequestsProofs         what they show, for every horizon
        ServiceApi           the service as HTTP clients and a polling KEDA see it
          ServiceApiProofs       its safety, proved
          MCServiceApi           instance for TLC
        LauncherClient       the launcher's loop against the receiver
          LauncherClientProofs     the window never lapses, proved
          MCLauncherClient         instance for TLC
    AcceptedRequests       what a 202 promises (abstract)
    ArbitratorRouter       router, HTTP handlers, registration, Run and Shutdown
      ArbitratorRouterProofs   its inductive invariant, safety and refinement, proved
      MCArbitratorRouter       instances for TLC
    ServerLifecycle        the process from its start to its end
      ServerLifecycleProofs    its safety, proved
      MCServerLifecycle        instance for TLC

How they compose: the router's `KeepsPromise` says that channel, router and intake goroutines
amount to requests that take effect one by one, those of one ScaledObject in the order of
acceptance, and this is what `ServiceApi` and `LauncherClient` take as a single action, `Apply`:
in `ServiceApi` it takes any accepted request that has none of its ScaledObject before it.  `OpenStreamsServed` of
the router is what `Arbitrator` presupposes of `Subscribe`; `ImplementsFeed` of the
arbitrator is what a stream's caller may rely on.  `RunFirst` of the router is an order of
calls that only the chain can keep; `ServerLifecycle` leaves it open, and `EndsByItself` has it
as a premise.

### RequestWindow

`Window` is the closed interval between two instants.  The Go map `requests` is a function
that is total on `RequestId`, with `NoWindow` for an absent key.  `NextEvents` is the set
the code's loop looks for the minimum of: starts to come, and ends of the windows in force.

### Arbitrator

One action per critical section or channel operation.  A critical section that only touches
the arbitrator's fields is one action, guarded by `MuFree`.  `reconcileAndNotify` holds the
lock across channel operations, which the readers see, so it is split at each of them:
`BeginReconcile`, then for each subscription in any order (Go's map order) `Notify` and
perhaps `Drain` and `Resend`, then `ArmTimer`, which also unlocks.  `Upsert` and
`UpsertSignal`, `Delete` and `DeleteSignal` are separate steps because the unlock lies
between them.  `TakeChange` and `TakeTimer` are the reconciler's select; the lock is taken
by `BeginReconcile`.

| TLA+ | Go |
|---|---|
| `requests`, `subscriptions` | the two maps |
| `changed` | `changedCh` holds its token |
| `timer` | monotonic ticks until `nextEventTimer.C` is readable; `Unarmed` for none, stopped or received (the module requires a Go version whose `Stop` leaves no stale tick behind: go.mod says 1.26) |
| `chan`, `closes` | each subscription's channel: its content, and how often it was closed |
| `intake`, `reconciler`, `deleter`, `stream` | program counters of the goroutines |
| `now`, `active`, `toNotify`, `target` | locals of `reconcileAndNotify` |
| `seen` | what a stream call last sent to KEDA; not a variable of the program |
| `shutdown`, `ctxDone` | how far `Shutdown` is; the context given to `Run` |

`Subscribe` needs `shutdown = "no"`: that is the router's doing (`router.go:166`, checked
under the lock its Shutdown takes first), and `OpenStreamsServed` of `ArbitratorRouter`
shows that the router keeps its word when the chain does not call Shutdown before Run.

### ActivityFeed

The abstract specification: members with views, publications that give all members the true
answer at once, new members that start with the true answer, and nothing else that changes a
view.  `Arbitrator` is mapped to it by `PublishedView`: from `BeginReconcile` on, a
subscription the loop has not served yet already counts as holding the new answer.

### ArbitratorRouter

Of each arbitrator it keeps what the router can tell: whether and how often `Run` was
started, the intake goroutine, the table, and whether Shutdown has closed its subscriptions.
A request is the number of its POST in the order in which `requestCh` accepted them, so
order can be stated; times are left out and `Prune` may remove a window at any moment.  No
operation of the router holds `a.mu` across a channel operation, hence each critical section
is one action.  `RunBegin`, `RunReceive`, `Route`, `RunStop` and `RunReturn` are `Run`;
`ShutdownBegin`, `ShutdownCancel`, `ShutdownArbitrator` (one goroutine of the errgroup) and
`ShutdownReturn` are `Shutdown`.  `deleted` is not a variable of the program: it remembers
what was deleted and not asked for again; the promise `DeletedForGood` is about it, and is what
remains of the one that the run `router_deleted` refutes.

### AcceptedRequests

The abstract specification of a 202: a request that was accepted is pending until it takes
effect; those of one ScaledObject take effect in the order of acceptance; none is lost before
the router is told to stop, invented or repeated.  `ArbitratorRouter` is mapped to it by
`UnderWay`, the requests in the channel, in Run's hand and at the intake goroutines, and by
`cancelled`.  It says nothing of ScaledObjects waiting for each other, which they do: the
liveness of that is `AcceptedIsApplied`.

The constant `RunFirst` of `ArbitratorRouter` names the one thing this model assumes of the
component chain, or does not: whether Shutdown can only be called once `Run` has been through
its first critical section.

### RequestNormalization

`FromDomainLaunchRequest` is the client's conversion (a duration of zero is no duration),
`MarshalJSON`, `OapiRequestValidator` and `UnmarshalJSON` are the way to the handler (absent
fields are left out; the schema wants texts that are not empty and one of `duration` and
`endAt`), `NormalizeRequest` the server's defaults and checks, `Launched` all of it.  It is
compared with `AsksFor`, the instants a launch request asks for read off its fields alone,
and `Unambiguous`.  Request id and ScaledObject are reduced to given or blank; texts that do
not parse as a time or a duration are left out: the client library cannot send them, and the
handler refuses them before it looks at anything else.

### Configuration

The launcher's `Load` over records of environment variables, `launchRequest`, and what
`normalizeReceiverURL`, `NewClient` and the generated request builders make of a URL: `basePath` is
what is left of the URL's path as the base of a relative reference, `Parse` that with its dot
segments resolved, as Go resolves the merged path, and `resolvePath` what each segment of the
reference makes of it.  An empty variable counts as one that is not set, as the decoder has it.
Reading the code for it brought up three things, which no document denies and the properties
therefore state as they are: a receiver URL with a query or a fragment loses the last segment of
its path; dot segments of the URL's own path vanish (`EndpointResolved` says what they lead to);
and a request whose id is `.` or `..` can be launched but not deleted, because dot segments are
resolved, though no other request is deleted in its place (`EndpointUnderBase`).

### ServiceApi

A call of the client library goes from `Begin` over the handler's steps to `Return`; `GiveUp`
ends it for the caller alone, at any moment, and `Lose` before it arrives.  `PostRequests`
reads the clock and computes the window, `PostCheck` looks the key up, `PostSend` and
`PostCancelled` are the select.  KEDA's unary calls register their key
(`EnsureScaledObject`), then `IsActive` reads the time under the router's lock, and
`CheckIfActive` the table once the arbitrator's lock is there; `MuFree` keeps registrations
out in between.  `GetMetricSpec` only registers; `StreamIsActive` stands for the registration
a stream call begins with.  The table holds the launch that brought a window, so deletions
can be told apart by what they removed.  `begun`, `acceptedAt`, `applied`, `removed`, `seen`
and `steady` are history: no action reads them.  A refused reference (`RefuseRef`) registers
nothing.  Cancellation of the router is left to `ArbitratorRouter` and `ServerLifecycle`, and
steps of the wall clock to `Arbitrator` and `LauncherClient`.

### LauncherClient

The loop of `runClient` with its ticker (capacity 1, full means dropped), the posts' handlers
on the server (`Normalize` reads the wall clock, `Accept` is the send to `requestCh`),
`Apply`, the window that replaces its predecessor in the table, and `Prune`.  Router and intake are one
step, which `LastAcceptedWins` justifies.  A call may fail for the client at any moment while
its handler lives on.  A ghost, `kept`, is true from the application of a post until a call
fails: the code promises nothing after that until the next success.

The code has no timeout on a call, so nothing holds without an assumption about lateness:
`MaxLatency` L bounds the time from a call to its return and to the application of its post,
and a client that waits takes a tick at once.  With interval I and duration D, `NoLapse` needs
max(I, L) + 2L <= D, which is `LatencyAssumption`; the configuration only demands D > I
(`validConfig`).  The bound is tight: with I = 2, D = 3, L = 1 and with I = 1, D = 5, L = 2
the ScaledObject goes inactive between two successful posts.  One L is for the post that is
in force having been early, one for the next being late, and max(I, L) for the interval or
for a call that outlasts it.

There are two clocks.  `clock` is real time, which the client's ticker and all latencies go by;
`wall` is the server's wall clock, which windows go by: `http.go:95` passes
`time.Now().UTC()`, and `UTC()` drops the monotonic reading, so `Add`, `Before` and `After` use
wall-clock time.  `PassTime` advances both, `ClockStep` sets `wall`, forward or back.  A step can
end the window in the table at once or put its start into the future, and can do the same to the
windows of posts already under way; nothing in the code notices before the next post.  `NoLapse`
says how long this lasts: there is no gap without a step, and after one, however far, the
ScaledObject is active again within `Recovery` = max(I, L) + 2L.  This bound is tight as well:
with `Recovery` less by one, I = 1, D = 6 and L = 2, a step far ahead leaves it inactive longer.

### ServerLifecycle

Each component has the state of its `Run` and of its `Shutdown`; `main` is `runScaler`.
`ReceiverShutdown` and `ReceiverDrained` are the two halves of `http.Server.Shutdown`,
`RouterShutdown` and `ArbitratorsShutdown` those of the router's, `ServerShutdown` with
`GracefulStop` or `Stop` the gRPC server's.  POST handlers are in `posting` while they wait
for room in `requestCh`; a stream call may be inside `Send`, which returns when KEDA reads.
A component may fail (`RunFails`: the address is taken, or accepting fails); then the chain
cancels the context of the others (`CancelRuns`), each of which ends in its own way
(`RunCancelled`: `Receive` is *abandoned*, its HTTP server goes on serving until the process
exits; the gRPC server is stopped with its calls; the router ends as after a Shutdown), and
the process exits with the error (`ExitWithError`).

The component chain is the external module `github.com/Kotaro7750/graceful`, which is not in
the repository.  What is assumed of it is what `main.go:70-91` and `.kiro/steering/deployment.md:73`
say: it starts every component, in any order, shuts them down one after the other in
the order it was given them, and ends its own `Run` with a component's error.  Left open is
whether its Shutdown also waits for the `Run`s, whether it goes on with the others after the
timeout, and whether it waits for the other `Run`s before it reports an error: `Exit` and
`ExitWithError` may happen as soon as they are allowed under any reading, and must happen
only under all of them.  The tracer is not modelled.

Every module keeps the mutants of its actions next to them, each marked `Faulty:`.  They are
not part of `Next`; each shows that a property can fail.

## 3. Runs

| run | instance | question |
|---|---|---|
| `arbitrator_streams` | 2 streams, 1 id, 2 windows, 1 deleter, 2 requests | interleavings of two subscriptions, cancellation and Shutdown: `NoLostWakeup`, `NoChannelPanic`, `ShutdownClosesStreams`, `NothingPublishedAfterShutdown`; the refinement `ImplementsFeed` |
| `arbitrator_windows` | 1 stream, 2 ids, 3 windows, 1 clock step | every kind of window, overlapping in every way: `TypeOK`, `FreshUntilNextEvent` |
| `arbitrator_live` | 1 stream, 1 clock step | whether the stream reads or not: `ReconcileCompletes`, `GoroutinesExit`, `ShutdownCompletes`, `FeedEventuallyFresh`; if it reads: `StreamsConverge`, `StreamsEnd` |
| `router_safety` | 2 keys, 1 id, 2 handlers, buffer of 2, 3 requests, 1 deletion, 1 stream | `TypeOK`, `RouterSurvives`, `LastAcceptedWins`, `ArbitratorsStarted`, `OpenStreamsServed`, `DeletedForGood`; the refinement `KeepsPromise` |
| `router_live` | 2 keys, 1 handler, 2 requests | `AcceptedIsApplied`, `ShutdownStopsAll` |
| `router_early_shutdown` | `RunFirst = FALSE` | violated: `ShutdownStopsRouter` |
| `router_deleted` | 1 key, 1 id, 2 requests | violated: `DeletedStaysDeleted` |
| `requests` | every launch request with fields in 0..3, durations from -1; every kind of value of the launcher's variables, durations from six values; every URL with at most three segments, dot segments included | `AcceptedAsAsked`, `RefusedForReason`, `ConfiguredLaunchAccepted`, `EndpointUnderBase`, `EndpointResolved` |
| `service_api` | 3 calls, 1 poll, 1 key, 1 id, buffer of 1, 1 tick | `TypeOK`, `ErrorsAreHarmless`, `AcceptedAsReported`, `DeletedAsReported`, `PollAccurate`, `KnownIsLaunchable` |
| `api_acceptance` | the same | violated: `StartsAtAcceptance` |
| `launcher_client` | I = 1, D = 6, L = 2, buffer of 1, 11 ticks, 1 clock step | `NoLapse`: calls slower than the interval, dropped ticks, posts that overtake, the server's clock set at any moment |
| `server_end` | 2 handlers, 2 streams, buffer of 1; signal, failures and timeout at any time | `NobodyCutOff`, `NoneAcceptedInVain`, `EveryWaitEnds`; `EndsByItself`: the chain's order alone lets everything end; `TimeoutEnds`: nothing withstands the timeout; `FailureEnds` |

**Bounds.**  `MaxTime` is a horizon of two or three ticks; at the horizon the wall clock stands
still while an armed timer still runs out, so `FreshUntilNextEvent` excludes the horizon and the
liveness properties are about the state of affairs there.  The windows (`MCWindows`) cover what
the code distinguishes: one instant only, in force from the start, in the future and outlasting
the horizon.  A POST may give a window that has already ended, which `Upsert` after the clock
has passed it covers.  Two requests are enough for one to replace, outlast or precede another;
two streams for one to be served before or after the other and to be cancelled meanwhile.
`MaxClockSteps` bounds how often the wall clock is set, to any instant up to the horizon in
`Arbitrator` and to one of `SetTo` in `LauncherClient`: 0 is back by any amount, 30 ahead of
every window, 5 a little of either.  The live instance of the arbitrator has one request and no
deletion, so a signal that meets a token already there is left to `NoLostWakeup`.  In the
router a buffer of two and three requests fill the channel while a third waits and a fourth
hand, the router's, is busy.  `requests` covers every order of start, end and arrival over four
instants, all combinations of the variables that are checked against each other (interval,
duration, timeout; the texts), and URLs with every number of slashes that `NewClient` and
`Parse` treat differently, with dot segments in every place of the URL's path and of a deletion's names.  In `service_api` three calls are what it takes for a launch to wait
behind another's request, for two deletions to race for one launch, and for a launch to replace
another that a deletion is after; its windows end at instant 0, so that one tick is enough for a
window to end, to be pruned, to be refused and to be polled across its end.  One call is one
goroutine, so more calls only repeat these roles.  With one key nothing overtakes anything in the
channel; two calls for two keys give 307 332 states and were checked once with the same outcome,
and the proofs are for any number of keys. In `launcher_client` a call may last two
intervals, so a tick is dropped and a post of a failed call overtaken; 11 ticks leave room for a
window to be in force, for the step, and for more than a `Recovery` after it.  In the life cycle two handlers are enough for one to be stuck in its send behind a
full channel, and two streams for one to be inside `Send` while the other has been closed.  The type invariants of launcher and life cycle are proved
(section 5) and therefore not run.  The proofs need none of these bounds.

Symmetry is declared only in runs without liveness properties.  Deadlock is not checked:
an idle server waits for ever, and the bounded instances stop when clock, requests and
streams are used up.

**Fairness.**  `FairSpec` of `Arbitrator` has weak fairness for the steps a goroutine takes
when nothing can take the step away from it, and strong fairness for those others may keep
disabling: leaving a `select` loop (Go picks among the ready cases at random) and getting
the mutex (`sync.Mutex` hands it to a waiter that has starved for 1 ms; in `sync.RWMutex`
a waiting writer keeps new readers out).  It assumes nothing of readers, clients or the
context: `ReconcileCompletes`, `ShutdownCompletes` and `FeedEventuallyFresh` hold without
them.  `StreamsConverge` and `StreamsEnd` are about readers that keep reading, and have
`ReaderFairness` as their premise; strong fairness of `Receive` is justified
because a send hands the value directly to a call that waits in its `select`.  Whether a
stream, a deletion, a POST, cancellation or Shutdown happens is never assumed.  `FairSpec`
of `ArbitratorRouter` is the same idea: its goroutines go on, its clients owe nothing.
`ProcessFairness` of `ServerLifecycle` too: it has strong fairness for a handler whose send
competes with others (waiting senders of a Go channel are queued), demands routing only until
the router is told to stop, and asks for an exit only when every Shutdown and every `Run`, or after
a failure every `Run`, has returned, so it relies neither on the chain giving up at the timeout nor on
its leaving `Run`s behind.  Three things are premises of single properties and of no
other: `EndsByItself` has `ReaderFairness` (KEDA reads what it is sent; there may be no
timeout to end a `Send`) and that no component fails; `TimeoutEnds` has `WF(Expire)`, that
the timeout passes; and both have `RouterRunsFirst`, that the router has run before its Shutdown.
Without that its `Run` undoes the Shutdown (section 4), and whether the process then ends is up to
the chain, of which nothing is assumed.  A `Run` of the receivers or of the gRPC server that comes
after their Shutdown is no exception: it must return, and does.

## 4. Disagreements between code and words

* **Shutdown before Run** (`router_early_shutdown`).  `router.go:214` says "Shutdown stops
  the router and all registered arbitrators."  `Run` sets the status to Running whatever it
  was (`router.go:246`), so a Shutdown that takes the lock first has nothing to cancel,
  returns, and is undone.  Only the chain's order of calls can prevent it, and the process
  starts the chain in a goroutine of its own that a signal may overtake (`main.go:78-88`).
* **Deletion overtaken** (`router_deleted`).  `.kiro/specs/improve-http-receiver/design.md:370`
  says a deleted request is not part of the active state.  A DELETE acts on the table at once
  (`http.go:159`), while an earlier request with the same id, answered 202, may still be in
  `requestCh`, in the router's hand or at the intake goroutine; it is applied afterwards, and
  the request answered "deleted" is active again until its window ends.  Nothing else can bring it
  back: `DeletedForGood`, which is proved.

* **The time of acceptance** (`api_acceptance`).  `.kiro/steering/api-standards.md:40` says
  that a `startAt` that is not given is the time of acceptance, and line 21 that a 202 is the
  acceptance.  The handler reads the time first (`http.go:95`) and then looks the key up and
  sends to `requestCh` (`http.go:109`), which blocks while the channel is full; the launch is
  accepted later than it starts, and with a duration lasts that much shorter.
  `AcceptedAsReported` is what holds: the start lies between call and acceptance, and is the
  one reported.  Close to it: `.kiro/steering/error-handling.md:37` has a 408 for a call that
  is cancelled before its acceptance; the select may also choose the send then, which
  `ErrorsAreHarmless` allows for, since nobody is told.

## 5. Proofs

All for every value of the constants, from the assumptions stated in the modules: windows
have natural start and end (`WindowsAssumption`), `NoWindow` and `NoSub` are not windows or
subscribers, bounds are naturals.  Windows need not satisfy start <= end.

| theorem | statement |
|---|---|
| `TypeCorrect` | `Spec => []TypeOK` |
| `WakeupsNotLost` | `Spec => []NoLostWakeup` |
| `TimerSuffices` | `Spec => []FreshUntilNextEvent` |
| `ChannelsNeverPanic` | `Spec => []NoChannelPanic` |
| `ShutdownReachesStreams` | `Spec => []ShutdownClosesStreams` |
| `SilenceAfterShutdown` | `Spec => NothingPublishedAfterShutdown` |
| `ArbitratorImplementsFeed` | `Spec => ImplementsFeed` |
| `RouterTypeCorrect` | `Spec => []TypeOK` of the router |
| `NoRequestEndsRun` | `Spec => []RouterSurvives` |
| `StartedOnce` | `Spec => []ArbitratorsStarted` |
| `AcceptedOrderKept` | `Spec => []LastAcceptedWins` |
| `SubscriptionsClosed` | if `RunFirst`, `Spec => []OpenStreamsServed` |
| `StaysShutDown` | if `RunFirst`, `Spec => []ShutdownStopsRouter` |
| `DeletionsFinal` | `Spec => DeletedForGood` |
| `RouterKeepsPromise` | `Spec => KeepsPromise`: the refinement of `AcceptedRequests` |
| `NormalizedWindow` | an accepted window is one, ends no earlier than it starts, and is in force at its start |
| `AcceptedMeansAsked` | it is in force at exactly the instants asked for |
| `RefusedAsksForNothing` | an unambiguous request that is refused asks for no instant |
| `AcceptedRight`, `RefusedRight` | `Spec => []AcceptedAsAsked` and `[]RefusedForReason` of `MCRequests`, for every horizon |
| `LaunchesAccepted` | `Spec => []ConfiguredLaunchAccepted`, for every horizon |
| `EndpointsRight` | `Spec => []EndpointUnderBase`; the lemma `Endpoints`: for every URL without query and dot segments, and all names |
| `ErrorsHarmless` | `Spec => []ErrorsAreHarmless` of the service |
| `AcceptedReported` | `Spec => []AcceptedAsReported` |
| `DeletedReported` | `Spec => []DeletedAsReported` |
| `PollsAccurate` | `Spec => []PollAccurate` |
| `KnownLaunchable` | `Spec => KnownIsLaunchable` |
| `WindowNeverLapses` | `Spec => []NoLapse` of the launcher, from `LatencyAssumption`, with any number of clock steps |
| `GracefulEnd` | `Spec => []NobodyCutOff` |
| `AcceptedWhileRouting` | `Spec => NoneAcceptedInVain` |
| `NobodyWaitsInVain` | `Spec => []EveryWaitEnds` |

`TypeCorrect`, `LifecycleTypeCorrect` and `TypeCorrectness` are the type invariants of launcher,
life cycle and service.

The argument for the arbitrator.  None of the invariants is inductive.  `NoLostWakeup` speaks
only of states in which nothing is under way, so what the steps that lead there rely on has to
be added. `IInv` has these parts:

* `Registration`: a subscription is in the map until its channel is closed, once.
* `LoopPosition`: what the notification loop holds is in the map, and nothing while unlocked.
* `Published`: while the lock is held, the decision matches the pruned table and whoever was
  served holds it.  This is where the race of drain, read and second send is settled.
* `NothingAhead`: at rest without a timer the table is empty and everybody was told so.  It
  is stronger than `NoLostWakeup`, and it survives the passing of time, which
  "views equal the answer at this instant" alone would not.
* `ClockMonotone`: `now` is not ahead of a clock that was never set.
* `FreshUntilNextEvent`: the delay covers what is left until the earliest event.

The steps rest on lemmas about the pure functions (`RequestWindowProofs`): pruning keeps
exactly the windows that have not ended and never changes an answer, every next event lies
ahead, a pruned table without a next event is empty, and the answer is constant until the
next event.  The refinement maps `BeginReconcile` to `Publish`, `Subscribe` to `Join`,
`Cancel` and `ShutdownLocked` to `Leave`, and everything else to a change of the table, of
the clock, of `up`, or to a stutter; it needs `IInv` because a served subscription must hold
what was published.

The router.  `Routing` says what Run has in its hand, `Starting` counts the starts before Run
and after it.  `AllKnown` extends `RouterSurvives` to everything that may still reach Run:
handlers past their check and requests in the channel; it is kept because keys are only ever
added.  `InOrder` is stronger than `LastAcceptedWins`: it orders the numbers of all
ScaledObjects together, which one channel and one router keep, and says that everything any
arbitrator has is older than what is under way.  `Closing`, which needs `RunFirst`, says that
once Shutdown has listed the arbitrators nobody can subscribe, every open subscription belongs to
one on the list, and Run's context is cancelled before the first of them is shut down.  `Taking` says that what an intake goroutine has received is for its
own ScaledObject and is all it is busy with, and that only Run's end and a Shutdown after Run
has begun cancel its context; with `InOrder` it gives the refinement: `PostSend` maps to
`Accept`, `IntakeUpsert` to `TakeEffect`, deletions and pruning to `Remove`, what Run has in its
hand when it stops (`RunStop`) to `Lose`, cancelling to `Stop`, and a request that is only moved
along is a stutter (`Places`, `QuietPromise`, `PromiseStep`). `StaysShutDown` and the run
`router_early_shutdown` belong together: the order of the two calls is all that lies between
them.

`Serving` says that until Shutdown begins every arbitrator that was started is still
receiving; with `Starting` it makes `RouterSurvives` hold, whose second half is why `route` cannot
block for good.  `DeletionsFinal` needs only one thing more than the refinement, `Unasked`: no
handler is at work for a request that was deleted and not posted since.  Of the steps of
`AcceptedRequests` only `Accept` can bring a request that was neither in force nor pending, and an
`Accept` is some handler's send.

The launcher.  The argument is about real time first.  The window in the table is that of a post
made so recently that its `Recovery` lasts until the next call's post must have been applied
(`LastsUntilNext`), or until a post that is already under way has been (`LastsUntilPending`);
`PostsInTime` and `CallsInTime` say what lateness allows.  `Aligned` connects it with the wall
clock: unless that was set since the post, the window starts no earlier than the post was made.  A
step makes this say nothing of all posts so far, and those made later have replaced them once
`Recovery` has passed. A post that is applied late, after
its call has failed and the next has succeeded, is the case that makes the second alternative
necessary.

The requests.  The invariant of `MCRequests` says that a window is what `Launched` makes of the
request, and a launcher's request what `launchRequest` makes of a configuration that `Load`
accepted; the rest is arithmetic on instants, stated in `RequestNormalizationProofs`, and for the
endpoints the lemmas `Resolved` (a segment that is no dot segment makes a path longer by one, a
dot segment does not), `ParsedBase` and `Endpoints`.  They are for every path without dot segments
and all names; a deletion's path is shorter than that of any deletion if one of the names is a dot
segment, and otherwise determines them.  What a path with dot segments leads to is computed by a
fold, of which nothing can be proved here: `EndpointResolved` is only checked.

The service.  `IInv` is, besides the types: `Lifecycle`, what the stages of client, handler and
answer say about one another and about the window computed at an instant since the call began;
`Effects`, that exactly the launches that were accepted are in the channel, once, or have left
it for a table, each with a 202 for its answer; `TableRight`, that a table holds under a key and
an id a launch for them that was applied; `RemovalsRight`, that a launch that a deletion took
was applied, is not in its place in the table any more, and was taken by no other; `Polling`,
that `seen` and `steady` enclose the table while the time of the poll lies between its ends; and
`Registered`, that keys once registered stay.  Requests of different ScaledObjects may leave the
channel out of order, so the lemma `Removed` says what is left of a sequence without one of its
elements, and `Effects` is kept by it. `DeletedReported` rests on launches being unique:
one that was removed cannot be applied again, because it has left the channel.

The life cycle.  `InChainOrder` is what the chain is assumed to keep; `StaysDrained` says that
what a Shutdown has waited for does not come back, because no call is let in any more, unless
a component has failed or the timeout has passed; `RouterRuns` ties the router's `Run` to its
Shutdown, so that nobody is accepted by a router that is about to end; `Unsubscribed` says that a
router that was told to stop opens no subscriptions and has closed those it had, unless its `Run`
came after its Shutdown.  `NobodyWaitsInVain` follows from the last three by the order of the
chain: it is the state behind `EndsByItself`, and holds without any fairness.

Only model-checked: all liveness (fairness and ENABLED are beyond the prover), that is the
properties of `arbitrator_live` and `router_live`, `EndsByItself`, `TimeoutEnds` and
`FailureEnds`; and `EndpointResolved`.  Every other invariant and action property of the passing runs
has its theorem.

## 6. Plan

In this order, the most important behaviour first:

1. done: `RequestWindow`, `Arbitrator`, `ActivityFeed`, their runs and proofs.
2. done: `ArbitratorRouter`, its runs and its safety proofs.
3. done: `RequestNormalization`, `LauncherClient`, `ServerLifecycle`, their runs and proofs.
4. done: `ServiceApi`, with KEDA's polling calls, calls that fail, and the answers.
5. done: `AcceptedRequests`, refined by the router.
6. done: components that fail by themselves, and how the process ends then.
7. done: `Configuration`, and what it means for the requests.
8. done: theorems for every safety property that is run, `DeletedForGood` and `EveryWaitEnds`
   among them.
9. Left: a *stoppable service* that `ArbitratorRouter` and `ServerLifecycle` both refine, to
   compose the two.
10. Left: repeated Shutdown; `.kiro/steering/go-architecture.md:62` asks for idempotence, and one
   Shutdown only is modelled so far.

## 7. Not modelled

Logging and tracing (set-up, spans, the tracer's flush at the end, which `main.go` runs after
everything modelled here): they read the state and never change it.  The generated gRPC code,
which only encodes.  Of the generated OpenAPI code the accessors of the union type, the client's
options and the embedded specification: nothing of them is reached by the calls modelled.
Texts: names, addresses, error messages, and which of several objections a refusal names.  The
handler's answers for a missing request manager: `main.go` always gives one.

The graceful library, net/http and grpc-go are outside the repository; only how `src/` uses them
enters.  The ScaledObject and id that a window repeats are left out of `Window`, because the
table is keyed by them.

The server's configuration: its `Load` is a sequence of guards over values read once, and a model
of it would only repeat them.  What it guarantees, a buffer of at least one request and a positive
timeout, enters as `BufferAssumption` and as a timeout that passes after Shutdown has begun.
