----------------------------- MODULE ServiceApi -----------------------------
(***************************************************************************)
(* The server as its callers see it.  Clients launch, list and delete      *)
(* through the client library (pkg/client/http) and the HTTP receiver      *)
(* (receiver/http); KEDA polls through the unary gRPC calls                *)
(* (scaler/service.go).  All of them meet in the router's map and in the   *)
(* arbitrators' tables.                                                    *)
(*                                                                         *)
(* A call may fail for its client at any time while its handler lives on,  *)
(* and may never arrive.  Router and intake are one step: the requests of  *)
(* one ScaledObject take effect in the order of acceptance, those of       *)
(* several in any order (AcceptedRequests, which ArbitratorRouter refines).*)
(* In place of a window the table holds the launch that brought it.  The   *)
(* clock is the server's wall clock and is not set here: that is in        *)
(* Arbitrator and LauncherClient.                                          *)
(***************************************************************************)
EXTENDS RequestNormalization, SequencesExt

CONSTANTS
    Calls,        \* calls of the client library, each made at most once
    Polls,        \* unary calls of KEDA, likewise
    Keys,         \* ScaledObjects
    Blank,        \* a reference without a name or a namespace
    Operations,   \* what clients call for
    BufferSize,   \* capacity of requestCh and of what lies behind it
    MaxTime,      \* bound: the horizon
    None          \* nothing there, or not yet

Operation == [kind : {"launch", "list", "delete"}, key : Keys, id : RequestId,
              ask : LaunchRequest]

Answer == [status : Nat, window : Window \cup {None}, keys : SUBSET Keys]

ASSUME NoneAssumption   == None \notin Calls \cup Operation \cup Time \cup Answer
ASSUME KeysAssumption   == Blank \notin Keys
ASSUME OpsAssumption    == Operations \subseteq Operation
ASSUME LimitsAssumption == BufferSize \in Nat \ {0} /\ MaxTime \in Nat

VARIABLES
    clock,
    known,       \* the router's map: keys with an arbitrator
    queue,       \* requestCh and what is between it and the arbitrators
    table,       \* the launch whose window is under a key and an id
    op,          \* what a call is for
    client,      \* what the client library has made of it
    handler,     \* where its handler is
    window,      \* the window its handler computes
    answer,      \* the HTTP response
    poll,        \* KEDA's calls
    \* History, read by no action:
    begun,       \* when a call began
    acceptedAt,  \* when a launch was sent to requestCh
    applied,     \* the launches that reached a table
    removed,     \* the launch a deletion has removed
    seen,        \* launches in the polled table at some time during the poll
    steady       \* ... and all the time

callVars  == <<op, client, handler, window, answer>>
storeVars == <<known, queue, table>>
history   == <<begun, acceptedAt, applied, removed>>
watch     == <<seen, steady>>
vars == <<clock, storeVars, callVars, poll, history, watch>>

Poll   == [state : {"idle", "registered", "ensured", "reading", "answered", "refused"},
           key : Keys \cup {Blank}, since : Time, at : Time, until : Time, active : BOOLEAN]

TypeOK ==
    /\ clock \in Time
    /\ known \subseteq Keys
    /\ queue \in Seq(Calls) /\ Len(queue) <= BufferSize
    /\ table \in [Keys -> [RequestId -> Calls \cup {None}]]
    /\ op \in [Calls -> Operation \cup {None}]
    /\ client \in [Calls -> {"idle", "waiting", "ok", "error", "failed"}]
    /\ handler \in [Calls -> {"none", "arriving", "check", "send", "done"}]
    /\ window \in [Calls -> Window \cup {None}]
    /\ answer \in [Calls -> Answer \cup {None}]
    /\ poll \in [Polls -> Poll]
    /\ begun \in [Calls -> Time] /\ acceptedAt \in [Calls -> Time \cup {None}]
    /\ applied \subseteq Calls /\ removed \in [Calls -> Calls \cup {None}]
    /\ seen \in [Polls -> SUBSET Calls] /\ steady \in [Polls -> SUBSET Calls]

Init ==
    /\ clock = 0
    /\ known = {} /\ queue = <<>>
    /\ table = [k \in Keys |-> [id \in RequestId |-> None]]
    /\ op = [c \in Calls |-> None] /\ client = [c \in Calls |-> "idle"]
    /\ handler = [c \in Calls |-> "none"]
    /\ window = [c \in Calls |-> None] /\ answer = [c \in Calls |-> None]
    /\ poll = [q \in Polls |-> [state |-> "idle", key |-> Blank, since |-> 0, at |-> 0,
                                until |-> 0, active |-> FALSE]]
    /\ begun = [c \in Calls |-> 0] /\ acceptedAt = [c \in Calls |-> None]
    /\ applied = {} /\ removed = [c \in Calls |-> None]
    /\ seen = [q \in Polls |-> {}] /\ steady = [q \in Polls |-> Calls]

Tick ==
    /\ clock < MaxTime
    /\ clock' = clock + 1
    /\ UNCHANGED <<storeVars, callVars, poll, history, watch>>

-----------------------------------------------------------------------------
(* The client library. *)

Begin(c, o) ==
    /\ client[c] = "idle"
    /\ op' = [op EXCEPT ![c] = o]
    /\ client' = [client EXCEPT ![c] = "waiting"]
    /\ handler' = [handler EXCEPT ![c] = "arriving"]
    /\ begun' = [begun EXCEPT ![c] = clock]
    /\ UNCHANGED <<clock, storeVars, window, answer, poll, acceptedAt, applied, removed, watch>>

\* The caller's context ends, the connection breaks, or the response cannot be read.
GiveUp(c) ==
    /\ client[c] = "waiting"
    /\ client' = [client EXCEPT ![c] = "failed"]
    /\ UNCHANGED <<clock, storeVars, op, handler, window, answer, poll, history, watch>>

\* The request never reaches the server.
Lose(c) ==
    /\ handler[c] = "arriving"
    /\ handler' = [handler EXCEPT ![c] = "done"]
    /\ client' = [client EXCEPT ![c] = "failed"]
    /\ UNCHANGED <<clock, storeVars, op, window, answer, poll, history, watch>>

Success == [launch |-> 202, list |-> 200, delete |-> 200]

\* Whatever is not the operation's success is an *Error with the status.
Return(c) ==
    /\ client[c] = "waiting" /\ answer[c] # None
    /\ client' = [client EXCEPT ![c] = IF answer[c].status = Success[op[c].kind] THEN "ok"
                                                                                 ELSE "error"]
    /\ UNCHANGED <<clock, storeVars, op, handler, window, answer, poll, history, watch>>

-----------------------------------------------------------------------------
(* The HTTP handlers. *)

Reply(c, status, w, keys) ==
    /\ answer' = [answer EXCEPT ![c] = [status |-> status, window |-> w, keys |-> keys]]
    /\ handler' = [handler EXCEPT ![c] = "done"]

Arrived(c, kind) == handler[c] = "arriving" /\ op[c].kind = kind

\* The schema, the conversion and NormalizeRequest, which is given the time.
PostRequests(c) ==
    /\ Arrived(c, "launch")
    /\ LET w == Launched(op[c].ask, clock) IN
       \/ /\ w = Refused
          /\ Reply(c, 400, None, {})
          /\ UNCHANGED window
       \/ /\ w # Refused
          /\ window' = [window EXCEPT ![c] = w]
          /\ handler' = [handler EXCEPT ![c] = "check"]
          /\ UNCHANGED answer
    /\ UNCHANGED <<clock, storeVars, op, client, poll, history, watch>>

PostCheck(c) ==
    /\ handler[c] = "check"
    /\ \/ /\ op[c].key \notin known
          /\ Reply(c, 404, None, {})
       \/ /\ op[c].key \in known
          /\ handler' = [handler EXCEPT ![c] = "send"]
          /\ UNCHANGED answer
    /\ UNCHANGED <<clock, storeVars, op, client, window, poll, history, watch>>

\* Faulty: the response gives the time of the send as the start.
PostSendStartingNow(c) ==
    /\ handler[c] = "send" /\ Len(queue) < BufferSize
    /\ queue' = Append(queue, c)
    /\ acceptedAt' = [acceptedAt EXCEPT ![c] = clock]
    /\ Reply(c, 202, [window[c] EXCEPT !.start = clock], {})
    /\ UNCHANGED <<clock, known, table, op, client, window, poll, begun, applied, removed, watch>>

\* Faulty: requestCh has no limit.
PostSendUnbounded(c) ==
    /\ handler[c] = "send"
    /\ queue' = Append(queue, c)
    /\ acceptedAt' = [acceptedAt EXCEPT ![c] = clock]
    /\ Reply(c, 202, window[c], {})
    /\ UNCHANGED <<clock, known, table, op, client, window, poll, begun, applied, removed, watch>>

PostSend(c) ==
    /\ handler[c] = "send" /\ Len(queue) < BufferSize
    /\ queue' = Append(queue, c)
    /\ acceptedAt' = [acceptedAt EXCEPT ![c] = clock]
    /\ Reply(c, 202, window[c], {})
    /\ UNCHANGED <<clock, known, table, op, client, window, poll, begun, applied, removed, watch>>

\* The handler's context ends only when the client has given up.
PostCancelled(c) ==
    /\ handler[c] = "send" /\ client[c] = "failed"
    /\ Reply(c, 408, None, {})
    /\ UNCHANGED <<clock, storeVars, op, client, window, poll, history, watch>>

ListScaledObjects(c) ==
    /\ Arrived(c, "list")
    /\ Reply(c, 200, None, known)
    /\ UNCHANGED <<clock, storeVars, op, client, window, poll, history, watch>>

\* What a poll that is under way gets to see of the tables.
Observe(q) == {table'[poll'[q].key][id] : id \in RequestId} \ {None}
UnderWay(q) == poll'[q].state \in {"ensured", "reading"}
Watch ==
    /\ seen'   = [q \in Polls |-> IF UnderWay(q) THEN seen[q] \cup Observe(q) ELSE seen[q]]
    /\ steady' = [q \in Polls |-> IF UnderWay(q) THEN steady[q] \cap Observe(q) ELSE steady[q]]

\* Faulty: a window that has ended is deleted, and reported as missing.
DeleteExpiredSilently(c) ==
    /\ Arrived(c, "delete")
    /\ LET key    == op[c].key
           launch == IF key \in known THEN table[key][op[c].id] ELSE None
       IN  \/ /\ launch = None
              /\ Reply(c, 404, None, {})
              /\ UNCHANGED <<table, removed>>
           \/ /\ launch # None
              /\ table' = [table EXCEPT ![key][op[c].id] = None]
              /\ removed' = [removed EXCEPT ![c] = launch]
              /\ IF alreadyEnded(window[launch], clock) THEN Reply(c, 404, None, {})
                                                        ELSE Reply(c, 200, window[launch], {})
    /\ UNCHANGED <<clock, known, queue, op, client, window, poll, begun, acceptedAt, applied>>
    /\ Watch

\* Faulty: the request is reported and stays in the table.
DeleteNothing(c) ==
    /\ Arrived(c, "delete")
    /\ LET key    == op[c].key
           launch == IF key \in known THEN table[key][op[c].id] ELSE None
       IN  \/ /\ launch = None
              /\ Reply(c, 404, None, {})
              /\ UNCHANGED removed
           \/ /\ launch # None
              /\ removed' = [removed EXCEPT ![c] = launch]
              /\ Reply(c, 200, window[launch], {})
    /\ UNCHANGED <<clock, storeVars, op, client, window, poll, begun, acceptedAt, applied, watch>>

DeleteScaledObjectRequest(c) ==
    /\ Arrived(c, "delete")
    /\ LET key    == op[c].key
           launch == IF key \in known THEN table[key][op[c].id] ELSE None
       IN  \/ /\ launch = None
              /\ Reply(c, 404, None, {})
              /\ UNCHANGED <<table, removed>>
           \/ /\ launch # None
              /\ table' = [table EXCEPT ![key][op[c].id] = None]
              /\ removed' = [removed EXCEPT ![c] = launch]
              /\ Reply(c, 200, window[launch], {})
    /\ UNCHANGED <<clock, known, queue, op, client, window, poll, begun, acceptedAt, applied>>
    /\ Watch

-----------------------------------------------------------------------------
(* Router and arbitrators. *)

\* The requests of one ScaledObject take effect in the order of acceptance; those of
\* different ones do not wait for each other.
Apply ==
    /\ \E i \in DOMAIN queue :
       LET c == queue[i] IN
       /\ \A j \in 1..(i - 1) : op[queue[j]].key # op[c].key
       /\ queue' = RemoveAt(queue, i)
       /\ applied' = applied \cup {c}
       /\ table' = [table EXCEPT ![op[c].key][op[c].id] = c]
    /\ UNCHANGED <<clock, known, callVars, poll, begun, acceptedAt, removed>>
    /\ Watch

\* A reconciliation prunes the windows that have ended.
Prune(key) ==
    /\ table' = [table EXCEPT ![key] = [id \in RequestId |->
                    LET c == table[key][id] IN
                    IF c # None /\ alreadyEnded(window[c], clock) THEN None ELSE c]]
    /\ UNCHANGED <<clock, known, queue, callVars, poll, history>>
    /\ Watch

-----------------------------------------------------------------------------
(* KEDA's unary calls. *)

\* InvalidArgument: nothing is registered.
RefuseRef(q) ==
    /\ poll[q].state = "idle"
    /\ poll' = [poll EXCEPT ![q].state = "refused"]
    /\ UNCHANGED <<clock, storeVars, callVars, history, watch>>

\* The router's lock is held from the reading of the time to the check.
MuFree == \A q \in Polls : poll[q].state # "reading"

\* Faulty: GetMetricSpec answers a constant, so it need not register the key.
GetMetricSpecOnly(q, key) ==
    /\ poll[q].state = "idle" /\ MuFree
    /\ poll' = [poll EXCEPT ![q].state = "registered", ![q].key = key]
    /\ UNCHANGED <<clock, storeVars, callVars, history, watch>>

GetMetricSpec(q, key) ==
    /\ poll[q].state = "idle" /\ MuFree
    /\ poll' = [poll EXCEPT ![q].state = "registered", ![q].key = key]
    /\ known' = known \cup {key}
    /\ UNCHANGED <<clock, queue, table, callVars, history, watch>>

\* A stream call, of which no more is modelled here, registers its key.
StreamIsActive(key) ==
    /\ MuFree
    /\ known' = known \cup {key}
    /\ UNCHANGED <<clock, queue, table, callVars, poll, history, watch>>

\* IsActive and GetMetrics register the key, read the time under the router's
\* lock, and may then wait for the arbitrator's.
EnsureScaledObject(q, key) ==
    /\ poll[q].state = "idle" /\ MuFree
    /\ poll' = [poll EXCEPT ![q].state = "ensured", ![q].key = key, ![q].since = clock]
    /\ known' = known \cup {key}
    /\ UNCHANGED <<queue, table>>
    /\ UNCHANGED <<clock, callVars, history>>
    /\ Watch

IsActive(q) ==
    /\ poll[q].state = "ensured"
    /\ poll' = [poll EXCEPT ![q].state = "reading", ![q].at = clock]
    /\ UNCHANGED <<clock, storeVars, callVars, history, watch>>

\* Faulty: the instant EndAt is outside.
CheckIfActiveExclusive(q) ==
    /\ poll[q].state = "reading"
    /\ LET launches == {table[poll[q].key][id] : id \in RequestId} \ {None}
       IN  poll' = [poll EXCEPT ![q].state = "answered", ![q].until = clock,
                                ![q].active = \E c \in launches :
                                    window[c].start <= poll[q].at /\ poll[q].at < window[c].end]
    /\ UNCHANGED <<clock, storeVars, callVars, history, watch>>

CheckIfActive(q) ==
    /\ poll[q].state = "reading"
    /\ LET launches == {table[poll[q].key][id] : id \in RequestId} \ {None}
       IN  poll' = [poll EXCEPT ![q].state = "answered", ![q].until = clock,
                                ![q].active = \E c \in launches :
                                                  shouldActivate(window[c], poll[q].at)]
    /\ UNCHANGED <<clock, storeVars, callVars, history, watch>>

-----------------------------------------------------------------------------
Serve(c) == PostRequests(c) \/ PostCheck(c) \/ PostSend(c) \/ PostCancelled(c)
            \/ ListScaledObjects(c) \/ DeleteScaledObjectRequest(c)

Next ==
    \/ Tick
    \/ \E c \in Calls : \/ \E o \in Operations : Begin(c, o)
                        \/ GiveUp(c) \/ Lose(c) \/ Return(c)
                        \/ Serve(c)
    \/ Apply
    \/ \E key \in Keys : Prune(key) \/ StreamIsActive(key)
    \/ \E q \in Polls : \/ RefuseRef(q)
                        \/ \E key \in Keys : GetMetricSpec(q, key) \/ EnsureScaledObject(q, key)
                        \/ IsActive(q) \/ CheckIfActive(q)

Spec == Init /\ [][Next]_vars

-----------------------------------------------------------------------------
\* A call that ends with an *Error has done nothing and never will, so it can be
\* made again: its launch is in no channel and no table, and its deletion removed
\* nothing.  Nothing of the kind holds for a call that fails without a response
\* (http.go:89-112, 159-168, client.go:57-164).
ErrorsAreHarmless ==
    \A c \in Calls : client[c] = "error" =>
        /\ acceptedAt[c] = None /\ c \notin applied /\ removed[c] = None
        /\ handler[c] = "done"

\* The window a launch reports is the one the arbitrator gets, and what was asked
\* for as seen from an instant between the call and its acceptance; the launch has
\* reached the table or is on its way (http.go:95-122).
AcceptedAsReported ==
    \A c \in Calls : client[c] = "ok" /\ op[c].kind = "launch" =>
        /\ answer[c].window = window[c]
        /\ c \in applied \/ \E i \in DOMAIN queue : queue[i] = c
        /\ \E now \in begun[c]..acceptedAt[c] : window[c] = Launched(op[c].ask, now)

\* A deletion that succeeds reports the window of a launch with its key and id
\* that had reached the table, and no two report the same launch
\* (arbitrator.go:297-323, http.go:149-179).
DeletedAsReported ==
    \A d \in Calls : client[d] = "ok" /\ op[d].kind = "delete" =>
        LET c == removed[d] IN
        /\ c \in applied
        /\ op[c].key = op[d].key /\ op[c].id = op[d].id
        /\ answer[d].window = window[c]
        /\ \A e \in Calls \ {d} : removed[e] # c

\* A launch is refused as unknown only if KEDA has been answered nothing about the
\* ScaledObject, and no client has been told of it (service.go:26-34, 61-102,
\* http.go:104-106, 125-147).
KnownIsLaunchable ==
    [][\A c \in Calls :
          answer[c] = None /\ answer'[c] # None /\ answer'[c].status = 404
          /\ op[c].kind = "launch" =>
              /\ \A q \in Polls : poll[q].state \in {"registered", "answered"} =>
                                       poll[q].key # op[c].key
              /\ \A d \in Calls : answer[d] # None => op[c].key \notin answer[d].keys]_vars

\* KEDA is answered "active" if a window that is in the table during the whole
\* call covers the call, and only if one that is there at some time covers some
\* instant of it, although the time and the table that are compared need not be
\* of the same moment (router.go:95-105, arbitrator.go:149-164).
PollAccurate ==
    \A q \in Polls : poll[q].state = "answered" =>
        LET p == poll[q] IN
        /\ (\E c \in steady[q] : window[c].start <= p.since /\ p.until <= window[c].end)
               => p.active
        /\ p.active =>
               \E c \in seen[q] : window[c].start <= p.until /\ p.since <= window[c].end

\* A start that is not given is the time of acceptance (api-standards.md:40).
StartsAtAcceptance ==
    \A c \in Calls : acceptedAt[c] # None /\ op[c].ask.startAt = Absent =>
        window[c].start = acceptedAt[c]
=============================================================================
