-------------------------- MODULE ArbitratorRouter --------------------------
(***************************************************************************)
(* The ArbitratorRouter of internal/server/arbitrator/router.go between    *)
(* its callers: HTTP handlers that post and delete requests                *)
(* (receiver/http/http.go), KEDA calls that register ScaledObjects and     *)
(* stream calls that subscribe (scaler/service.go), and the component      *)
(* chain that calls Run and Shutdown.                                      *)
(*                                                                         *)
(* Of each arbitrator only what the router can tell is kept: whether Run   *)
(* and Shutdown were called, the intake goroutine, and the request table.  *)
(* Module Arbitrator has the rest.  A request is the number of its POST in *)
(* the order in which requestCh accepted them, with its key and id; times  *)
(* are left out, so a window may end at any moment.                        *)
(*                                                                         *)
(* The mutex a.mu guards single actions here: no operation of the router   *)
(* holds it across a channel operation.                                    *)
(***************************************************************************)
EXTENDS Naturals, Sequences, FiniteSets

CONSTANTS
    Keys,        \* ScaledObject keys
    RequestId,   \* request ids
    Posters,     \* HTTP handlers of POST /requests
    Streams,     \* StreamIsActive calls
    BufferSize,  \* capacity of requestCh
    RunFirst,    \* the chain calls Shutdown only after Run has taken the lock
    MaxPosts,    \* bound: how many requests are accepted
    MaxDeletes   \* bound: how many deletions succeed

ASSUME BufferAssumption == BufferSize \in Nat \ {0}
ASSUME RunAssumption    == RunFirst \in BOOLEAN
ASSUME BoundsAssumption == MaxPosts \in Nat /\ MaxDeletes \in Nat

VARIABLES
    status,       \* a.status
    run,          \* where Run is
    hand,         \* the request Run is routing, or Nothing
    cancelled,    \* runCtx is cancelled
    outerDone,    \* the context the chain gave to Run is cancelled
    known,        \* the keys of a.arbitrators
    starts,       \* how often each arbitrator's Run was started
    intake,       \* where each arbitrator's intake goroutine is
    taken,        \* the request each intake has received, or Nothing
    table,        \* each arbitrator's requests: number of the POST, 0 if absent
    shut,         \* each arbitrator's Shutdown has closed its subscriptions
    queue,        \* requestCh
    accepted,     \* how many requests requestCh has accepted
    applied,      \* the numbers that have reached a table
    poster,       \* where each POST handler is, with its key and id
    stream,       \* where each stream call is, with its key
    shutdown,     \* where Shutdown is
    toShut,       \* the arbitrators it has yet to shut down
    deletes,      \* how many deletions have succeeded
    deleted       \* the requests deleted with no POST for them since

runVars    == <<status, run, hand, cancelled, outerDone>>
arbVars    == <<known, starts, intake, taken, table, shut>>
postVars   == <<queue, accepted, poster>>
stopVars   == <<shutdown, toShut>>
deleteVars == <<deletes, deleted>>
vars == <<runVars, arbVars, applied, postVars, stream, stopVars, deleteVars>>

-----------------------------------------------------------------------------
Request == [seq : 1..MaxPosts, key : Keys, id : RequestId]
Nothing == [seq |-> 0]
NoCall  == [at |-> "idle"]

canSubscribe       == status \in {"Initialized", "Running"}
canStartArbitrator == status = "Running"

TypeOK ==
    /\ status \in {"Initialized", "Running", "ShuttingDown", "Stopped"}
    /\ run \in {"idle", "select", "routing", "deferred", "returned"}
    /\ hand \in Request \cup {Nothing}
    /\ cancelled \in BOOLEAN /\ outerDone \in BOOLEAN
    /\ known \subseteq Keys
    /\ starts \in [Keys -> Nat]
    /\ intake \in [Keys -> {"idle", "select", "busy", "done"}]
    /\ taken \in [Keys -> Request \cup {Nothing}]
    /\ table \in [Keys -> [RequestId -> 0..MaxPosts]]
    /\ shut \in [Keys -> BOOLEAN]
    /\ queue \in Seq(Request) /\ Len(queue) <= BufferSize
    /\ accepted \in 0..MaxPosts /\ applied \subseteq 1..MaxPosts
    /\ poster \in [Posters -> {NoCall} \cup [at : {"check", "send"}, key : Keys, id : RequestId]]
    /\ stream \in [Streams -> {NoCall} \cup [at : {"open", "ended"}, key : Keys]]
    /\ shutdown \in {"no", "cancel", "stopping", "returned"}
    /\ toShut \subseteq Keys
    /\ deletes \in 0..MaxDeletes
    /\ deleted \subseteq Keys \X RequestId

Init ==
    /\ status = "Initialized" /\ run = "idle" /\ hand = Nothing
    /\ cancelled = FALSE /\ outerDone = FALSE
    /\ known = {}
    /\ starts = [k \in Keys |-> 0]
    /\ intake = [k \in Keys |-> "idle"]
    /\ taken = [k \in Keys |-> Nothing]
    /\ table = [k \in Keys |-> [id \in RequestId |-> 0]]
    /\ shut = [k \in Keys |-> FALSE]
    /\ queue = <<>> /\ accepted = 0 /\ applied = {}
    /\ poster = [p \in Posters |-> NoCall]
    /\ stream = [s \in Streams |-> NoCall]
    /\ shutdown = "no" /\ toShut = {}
    /\ deletes = 0 /\ deleted = {}

-----------------------------------------------------------------------------
(* Registration of ScaledObjects by KEDA's calls. *)

\* Starting an arbitrator runs its intake goroutine; it cannot run twice.
startArbitrators(keys) ==
    /\ starts' = [k \in Keys |-> IF k \in keys THEN starts[k] + 1 ELSE starts[k]]
    /\ intake' = [k \in Keys |-> IF k \in keys /\ intake[k] = "idle"
                                 THEN "select" ELSE intake[k]]

\* Faulty: a new arbitrator is started whatever the router's status.
ensureAndStart(key) ==
    /\ known' = known \cup {key}
    /\ startArbitrators({key} \ known)

ensureArbitratorLocked(key) ==
    /\ known' = known \cup {key}
    /\ startArbitrators(IF canStartArbitrator THEN {key} \ known ELSE {})

\* Every call of KEDA begins with it; IsActive, GetMetricSpec and GetMetrics then
\* only read.
EnsureScaledObject(key) ==
    /\ key \notin known
    /\ ensureArbitratorLocked(key)
    /\ UNCHANGED <<runVars, taken, table, shut, applied, postVars, stream, stopVars,
                   deleteVars>>

\* Faulty: a subscription is accepted whatever the router's status.
SubscribeAlways(s, key) ==
    /\ stream[s] = NoCall /\ key \in known
    /\ stream' = [stream EXCEPT ![s] = [at |-> "open", key |-> key]]
    /\ ensureArbitratorLocked(key)
    /\ UNCHANGED <<runVars, taken, table, shut, applied, postVars, stopVars, deleteVars>>

\* StreamIsActive has registered its key; a refused subscription is a closed
\* channel, on which the call returns.
Subscribe(s, key) ==
    /\ stream[s] = NoCall /\ key \in known
    /\ \/ /\ canSubscribe
          /\ ensureArbitratorLocked(key)
          /\ stream' = [stream EXCEPT ![s] = [at |-> "open", key |-> key]]
       \/ /\ ~canSubscribe
          /\ stream' = [stream EXCEPT ![s] = [at |-> "ended", key |-> key]]
          /\ UNCHANGED <<known, starts, intake>>
    /\ UNCHANGED <<runVars, taken, table, shut, applied, postVars, stopVars, deleteVars>>

\* The client goes away.
Unsubscribe(s) ==
    /\ stream[s] # NoCall /\ stream[s].at = "open"
    /\ stream' = [stream EXCEPT ![s].at = "ended"]
    /\ UNCHANGED <<runVars, arbVars, applied, postVars, stopVars, deleteVars>>

-----------------------------------------------------------------------------
(* POST /requests. *)

\* A valid body arrives.  Whoever asks for a request anew wants it back.
PostRequests(p, key, id) ==
    /\ poster[p] = NoCall
    /\ accepted < MaxPosts
    /\ poster' = [poster EXCEPT ![p] = [at |-> "check", key |-> key, id |-> id]]
    /\ deleted' = deleted \ {<<key, id>>}
    /\ UNCHANGED <<runVars, arbVars, applied, queue, accepted, stream, stopVars, deletes>>

\* Faulty: the handler does not ask whether the key is known.
PostWithoutCheck(p) ==
    /\ poster[p] # NoCall /\ poster[p].at = "check"
    /\ poster' = [poster EXCEPT ![p].at = "send"]
    /\ UNCHANGED <<runVars, arbVars, applied, queue, accepted, stream, stopVars, deleteVars>>

\* HasScaledObject, or 404.
PostCheck(p) ==
    /\ poster[p] # NoCall /\ poster[p].at = "check"
    /\ poster' = [poster EXCEPT ![p] =
                     IF @.key \in known THEN [@ EXCEPT !.at = "send"] ELSE NoCall]
    /\ UNCHANGED <<runVars, arbVars, applied, queue, accepted, stream, stopVars, deleteVars>>

\* Faulty: the buffer has no limit.
PostSendUnbounded(p) ==
    /\ poster[p] # NoCall /\ poster[p].at = "send"
    /\ accepted < MaxPosts
    /\ accepted' = accepted + 1
    /\ queue' = Append(queue, [seq |-> accepted', key |-> poster[p].key, id |-> poster[p].id])
    /\ poster' = [poster EXCEPT ![p] = NoCall]
    /\ UNCHANGED <<runVars, arbVars, applied, stream, stopVars, deleteVars>>

\* The blocking send to requestCh, answered 202.
PostSend(p) ==
    /\ poster[p] # NoCall /\ poster[p].at = "send"
    /\ Len(queue) < BufferSize /\ accepted < MaxPosts
    /\ accepted' = accepted + 1
    /\ queue' = Append(queue, [seq |-> accepted', key |-> poster[p].key, id |-> poster[p].id])
    /\ poster' = [poster EXCEPT ![p] = NoCall]
    /\ UNCHANGED <<runVars, arbVars, applied, stream, stopVars, deleteVars>>

\* The HTTP client gives up first: 408.
PostCancelled(p) ==
    /\ poster[p] # NoCall /\ poster[p].at = "send"
    /\ poster' = [poster EXCEPT ![p] = NoCall]
    /\ UNCHANGED <<runVars, arbVars, applied, queue, accepted, stream, stopVars, deleteVars>>

-----------------------------------------------------------------------------
(* DELETE: look the arbitrator up, delete from its table, answer 200.  An    *)
(* unknown key or request is answered 404 and changes nothing.               *)

DeleteRequest(key, id) ==
    /\ deletes < MaxDeletes
    /\ key \in known /\ table[key][id] # 0
    /\ table' = [table EXCEPT ![key][id] = 0]
    /\ deletes' = deletes + 1
    /\ deleted' = deleted \cup
           IF \E p \in Posters : poster[p] # NoCall /\ poster[p].key = key /\ poster[p].id = id
           THEN {} ELSE {<<key, id>>}
    /\ UNCHANGED <<runVars, known, starts, intake, taken, shut, applied, postVars, stream,
                   stopVars>>

-----------------------------------------------------------------------------
(* An arbitrator, as far as the router can tell. *)

ArbitratorStopping(key) == cancelled \/ shut[key]

IntakeUpsert(key) ==
    /\ intake[key] = "busy"
    /\ table' = [table EXCEPT ![key][taken[key].id] = taken[key].seq]
    /\ applied' = applied \cup {taken[key].seq}
    /\ taken' = [taken EXCEPT ![key] = Nothing]
    /\ intake' = [intake EXCEPT ![key] = "select"]
    /\ UNCHANGED <<runVars, known, starts, shut, postVars, stream, stopVars, deleteVars>>

IntakeExit(key) ==
    /\ intake[key] = "select" /\ ArbitratorStopping(key)
    /\ intake' = [intake EXCEPT ![key] = "done"]
    /\ UNCHANGED <<runVars, known, starts, taken, table, shut, applied, postVars, stream,
                   stopVars, deleteVars>>

\* The reconciler prunes a window that has ended.
Prune(key, id) ==
    /\ starts[key] > 0 /\ table[key][id] # 0
    /\ table' = [table EXCEPT ![key][id] = 0]
    /\ UNCHANGED <<runVars, known, starts, intake, taken, shut, applied, postVars, stream,
                   stopVars, deleteVars>>

-----------------------------------------------------------------------------
(* Run. *)

\* Faulty: Run does not start the arbitrators registered before it.
RunBeginLate ==
    /\ run = "idle"
    /\ run' = "select" /\ status' = "Running"
    /\ cancelled' = outerDone
    /\ UNCHANGED <<hand, outerDone, arbVars, applied, postVars, stream, stopVars, deleteVars>>

\* The status is set to Running whatever it was before.
RunBegin ==
    /\ run = "idle"
    /\ run' = "select" /\ status' = "Running"
    /\ cancelled' = outerDone
    /\ startArbitrators(known)
    /\ UNCHANGED <<hand, outerDone, known, taken, table, shut, applied, postVars, stream,
                   stopVars, deleteVars>>

RunReceive ==
    /\ run = "select" /\ queue # <<>>
    /\ hand' = Head(queue) /\ queue' = Tail(queue)
    /\ run' = "routing"
    /\ UNCHANGED <<status, cancelled, outerDone, arbVars, applied, accepted, poster, stream,
                   stopVars, deleteVars>>

\* Faulty: a request its arbitrator is not ready for is queued again.
RouteOrRequeue ==
    /\ run = "routing" /\ hand.key \in known
    /\ run' = "select" /\ hand' = Nothing
    /\ IF intake[hand.key] = "select"
       THEN /\ intake' = [intake EXCEPT ![hand.key] = "busy"]
            /\ taken' = [taken EXCEPT ![hand.key] = hand]
            /\ UNCHANGED queue
       ELSE /\ Len(queue) < BufferSize
            /\ queue' = Append(queue, hand)
            /\ UNCHANGED <<intake, taken>>
    /\ UNCHANGED <<status, cancelled, outerDone, known, starts, table, shut, applied, accepted,
                   poster, stream, stopVars, deleteVars>>

\* Faulty: the arbitrator is given a request while it still has another.
RouteRegardless ==
    /\ run = "routing" /\ hand.key \in known
    /\ intake[hand.key] \in {"select", "busy"}
    /\ intake' = [intake EXCEPT ![hand.key] = "busy"]
    /\ taken' = [taken EXCEPT ![hand.key] = hand]
    /\ run' = "select" /\ hand' = Nothing
    /\ UNCHANGED <<status, cancelled, outerDone, known, starts, table, shut, applied, postVars,
                   stream, stopVars, deleteVars>>

\* Faulty: whichever arbitrator is ready gets the request.
RouteToAnybody ==
    /\ run = "routing" /\ hand.key \in known
    /\ \E key \in known :
           /\ intake[key] = "select"
           /\ intake' = [intake EXCEPT ![key] = "busy"]
           /\ taken' = [taken EXCEPT ![key] = hand]
    /\ run' = "select" /\ hand' = Nothing
    /\ UNCHANGED <<status, cancelled, outerDone, known, starts, table, shut, applied, postVars,
                   stream, stopVars, deleteVars>>

\* inputCh is unbuffered: the send is the arbitrator's receive.
Route ==
    /\ run = "routing" /\ hand.key \in known
    /\ intake[hand.key] = "select"
    /\ intake' = [intake EXCEPT ![hand.key] = "busy"]
    /\ taken' = [taken EXCEPT ![hand.key] = hand]
    /\ run' = "select" /\ hand' = Nothing
    /\ UNCHANGED <<status, cancelled, outerDone, known, starts, table, shut, applied, postVars,
                   stream, stopVars, deleteVars>>

\* runCtx ends Run in its select, and in route while the arbitrator is not
\* ready; an unknown key ends it with ErrScaledObjectNotFound.  The deferred
\* function cancels runCtx, and with it every arbitrator, ...
RunStop ==
    /\ \/ run = "select" /\ cancelled
       \/ run = "routing" /\ (cancelled \/ hand.key \notin known)
    /\ run' = "deferred" /\ hand' = Nothing
    /\ cancelled' = TRUE
    /\ UNCHANGED <<status, outerDone, arbVars, applied, postVars, stream, stopVars,
                   deleteVars>>

\* ... and takes the lock.
RunReturn ==
    /\ run = "deferred"
    /\ run' = "returned" /\ status' = "Stopped"
    /\ UNCHANGED <<hand, cancelled, outerDone, arbVars, applied, postVars, stream, stopVars,
                   deleteVars>>

\* The chain cancels the context it runs its components with.
CancelOuter ==
    /\ ~outerDone
    /\ outerDone' = TRUE
    /\ cancelled' = (cancelled \/ run # "idle")
    /\ UNCHANGED <<status, run, hand, arbVars, applied, postVars, stream, stopVars, deleteVars>>

-----------------------------------------------------------------------------
(* Shutdown. *)

\* Under the lock the status changes and the arbitrators are listed.  cancel is
\* nil before Run and after it, even if Run begins before it is looked at.
ShutdownBegin ==
    /\ shutdown = "no" /\ (RunFirst => run # "idle")
    /\ shutdown' = IF run \in {"idle", "returned"} THEN "stopping" ELSE "cancel"
    /\ status' = "ShuttingDown"
    /\ toShut' = known
    /\ UNCHANGED <<run, hand, cancelled, outerDone, arbVars, applied, postVars, stream,
                   deleteVars>>

\* Faulty: Run's context is not cancelled.
ShutdownWithoutCancel ==
    /\ shutdown = "cancel"
    /\ shutdown' = "stopping"
    /\ UNCHANGED <<runVars, toShut, arbVars, applied, postVars, stream, deleteVars>>

ShutdownCancel ==
    /\ shutdown = "cancel"
    /\ shutdown' = "stopping"
    /\ cancelled' = TRUE
    /\ UNCHANGED <<status, run, hand, outerDone, toShut, arbVars, applied, postVars, stream,
                   deleteVars>>

\* One goroutine of the errgroup: the arbitrator closes its subscriptions, and
\* the stream calls that read them return.
ShutdownArbitrator(key) ==
    /\ shutdown = "stopping" /\ key \in toShut
    /\ toShut' = toShut \ {key}
    /\ shut' = [shut EXCEPT ![key] = TRUE]
    /\ stream' = [s \in Streams |->
                     IF stream[s] # NoCall /\ stream[s].key = key
                     THEN [stream[s] EXCEPT !.at = "ended"] ELSE stream[s]]
    /\ UNCHANGED <<runVars, known, starts, intake, taken, table, applied, postVars, shutdown,
                   deleteVars>>

ShutdownReturn ==
    /\ shutdown = "stopping" /\ toShut = {}
    /\ shutdown' = "returned"
    /\ UNCHANGED <<runVars, arbVars, applied, postVars, stream, toShut, deleteVars>>

-----------------------------------------------------------------------------
Next ==
    \/ \E key \in Keys : \/ EnsureScaledObject(key)
                         \/ IntakeUpsert(key) \/ IntakeExit(key)
                         \/ ShutdownArbitrator(key)
                         \/ \E s \in Streams : Subscribe(s, key)
                         \/ \E id \in RequestId : DeleteRequest(key, id) \/ Prune(key, id)
    \/ \E s \in Streams : Unsubscribe(s)
    \/ \E p \in Posters : \/ \E key \in Keys, id \in RequestId : PostRequests(p, key, id)
                          \/ PostCheck(p) \/ PostSend(p) \/ PostCancelled(p)
    \/ RunBegin \/ RunReceive \/ Route \/ RunStop \/ RunReturn \/ CancelOuter
    \/ ShutdownBegin \/ ShutdownCancel \/ ShutdownReturn

Spec == Init /\ [][Next]_vars

\* Go's select chooses at random among the ready cases, hence the strong
\* fairness of the steps that leave a loop.  HTTP and KEDA clients owe nothing.
FairSpec ==
    /\ Spec
    /\ WF_vars(RunBegin) /\ WF_vars(RunReceive) /\ WF_vars(Route) /\ SF_vars(RunStop)
    /\ WF_vars(RunReturn) /\ WF_vars(ShutdownCancel)
    /\ \A key \in Keys : /\ WF_vars(IntakeUpsert(key)) /\ SF_vars(IntakeExit(key))
                         /\ WF_vars(ShutdownArbitrator(key))
    /\ WF_vars(ShutdownReturn)

-----------------------------------------------------------------------------
(* Safety. *)

\* No request can end the router or hold it up for good: the handler checks the key
\* before a send that may block for long, route looks it up after the buffer has
\* delayed it further, and in between it stays known; and until Shutdown begins the
\* arbitrator that route then waits for runs and has not stopped receiving
\* (http.go:104-112, router.go:144-159, 178-200, 271-273).
RouterSurvives ==
    run = "routing" =>
        /\ hand.key \in known
        /\ shutdown = "no" /\ ~cancelled => intake[hand.key] \in {"select", "busy"}

\* However registrations interleave with Run, an arbitrator is started once,
\* at registration or by Run, and a running router has none that is not
\* (router.go:178-200, 243-250).
ArbitratorsStarted ==
    /\ \A key \in Keys : starts[key] <= 1
    /\ status = "Running" => \A key \in known : starts[key] = 1

\* Accepted and not yet taken by an arbitrator, oldest first.
Waiting == (IF hand = Nothing THEN <<>> ELSE <<hand>>) \o queue

\* The requests of one ScaledObject take effect in the order in which they were
\* accepted, through channel, router and arbitrator: whatever is still under
\* way is newer than what the table has (router.go:260-275, arbitrator.go:83-87).
LastAcceptedWins ==
    /\ \A i, j \in DOMAIN Waiting :
           i < j /\ Waiting[i].key = Waiting[j].key => Waiting[i].seq < Waiting[j].seq
    /\ \A i \in DOMAIN Waiting :
           LET request == Waiting[i] IN
           /\ taken[request.key].seq < request.seq
           /\ \A id \in RequestId : table[request.key][id] < request.seq
    /\ \A key \in Keys : taken[key] # Nothing =>
           \A id \in RequestId : table[key][id] < taken[key].seq

\* An open subscription has an arbitrator that will still close it, and none is
\* left when Shutdown returns, however subscribing and shutting down interleave
\* (router.go:162-175, 215-237).  Arbitrator's Subscribe relies on it.
OpenStreamsServed ==
    \A s \in Streams : stream[s] # NoCall /\ stream[s].at = "open" =>
        ~shut[stream[s].key] /\ shutdown # "returned"

\* "Shutdown stops the router and all registered arbitrators" (router.go:214): once it
\* has returned, a Run that has begun is told to stop, and with it every arbitrator.
ShutdownStopsRouter ==
    shutdown = "returned" => ~canSubscribe /\ (run # "idle" => cancelled)

\* A deleted request is not part of the active state (design.md:370) unless
\* somebody posts it again.
DeletedStaysDeleted == \A d \in deleted : table[d[1]][d[2]] = 0

-----------------------------------------------------------------------------
(* Channel, router and intake goroutines implement AcceptedRequests. *)

UnderWay ==
    ({queue[i] : i \in DOMAIN queue} \cup {hand} \cup {taken[key] : key \in Keys}) \ {Nothing}

Promise == INSTANCE AcceptedRequests WITH pending <- UnderWay, stopping <- cancelled

\* One channel and one router for all ScaledObjects neither lose a request that was
\* answered 202 before the router is told to stop, nor invent or repeat one, nor
\* let one overtake another of its ScaledObject (http.go:108-122,
\* router.go:144-159, 252-273, arbitrator.go:77-92, 263-267).
KeepsPromise == Promise!Spec

\* In force, or accepted and still to come into force.
Standing(d) == \/ table[d[1]][d[2]] # 0
               \/ \E request \in UnderWay : d = <<request.key, request.id>>

\* What DeletedStaysDeleted leaves of a deletion: only a request that was accepted before
\* and has not taken effect can bring the deleted one back.  Once none is left it stays
\* away until somebody posts it again, and no request for another ScaledObject or id
\* takes its place (http.go:149-179, router.go:144-159, 202-212, arbitrator.go:263-267,
\* 297-305).
DeletedForGood == [][\A d \in deleted \cap deleted' : Standing(d)' => Standing(d)]_vars

-----------------------------------------------------------------------------
(* Liveness. *)

\* A request answered 202 reaches its arbitrator's table unless the router is
\* told to stop: no arbitrator blocks the others for good (router.go:145-159).
AcceptedIsApplied ==
    \A n \in 1..MaxPosts :
        accepted >= n ~> (n \in applied \/ cancelled \/ shutdown # "no")

\* Shutdown returns, Run returns, and no intake goroutine is left.
ShutdownStopsAll ==
    shutdown # "no" ~>
        /\ shutdown = "returned" /\ run = "returned"
        /\ \A key \in Keys : intake[key] \in {"idle", "done"}
=============================================================================
