-------------------------- MODULE ServerLifecycle --------------------------
(***************************************************************************)
(* The server process from its start to its end after a signal, or after   *)
(* the failure of a component (cmd/keda-launcher-scaler/main.go): the      *)
(* component chain of receivers, router and gRPC server, POST handlers     *)
(* that may be stuck in their send to requestCh, and StreamIsActive calls  *)
(* that only end when their channel is closed.                             *)
(*                                                                         *)
(* The chain is the external library graceful.  It is taken to start every *)
(* component's Run, in any order, and, when it is shut down, to shut the   *)
(* components down one after the other in the order it was given them.     *)
(* Whether it waits for their Runs too, and whether it goes on after the   *)
(* timeout, is left open.  When a Run fails it may end its own Run with    *)
(* that error at once, but need not before it has cancelled the context of *)
(* the others and they have ended.  net/http and grpc-go are external too. *)
(***************************************************************************)
EXTENDS Naturals, FiniteSets

CONSTANTS
    Handlers,    \* goroutines that serve POSTs
    Streams,     \* goroutines that serve StreamIsActive calls
    BufferSize   \* capacity of requestCh

ASSUME BufferAssumption == BufferSize \in Nat \ {0}

Component == {"receiver", "router", "server"}
RunState  == {"new", "running", "ending", "returned", "failed", "abandoned"}

VARIABLES
    main,       \* where runScaler is
    expired,    \* shutdownCtx has expired
    run,        \* each component's Run
    cancelled,  \* the context of the Runs is done
    shutdown,   \* each component's Shutdown
    status,     \* the router's
    posting,    \* handlers in their send to requestCh
    requestCh,  \* how many requests it holds
    stream,     \* where each stream call is
    closed      \* stream calls whose channel is closed

clientVars == <<posting, requestCh, stream, closed>>
vars == <<main, expired, run, cancelled, shutdown, status, clientVars>>

TypeOK ==
    /\ main \in {"serving", "stopping", "exited"} /\ expired \in BOOLEAN
    /\ run \in [Component -> RunState]
    /\ cancelled \in BOOLEAN
    /\ shutdown \in [Component -> {"no", "called", "returned"}]
    /\ status \in {"initialized", "running", "shutting down", "stopped"}
    /\ posting \subseteq Handlers /\ requestCh \in 0..BufferSize
    /\ stream \in [Streams -> {"idle", "open", "sending"}]
    /\ closed \subseteq Streams

Init ==
    /\ main = "serving" /\ expired = FALSE
    /\ run = [c \in Component |-> "new"]
    /\ cancelled = FALSE
    /\ shutdown = [c \in Component |-> "no"]
    /\ status = "initialized"
    /\ posting = {} /\ requestCh = 0
    /\ stream = [s \in Streams |-> "idle"] /\ closed = {}

Up == main # "exited"

-----------------------------------------------------------------------------
(* The components' Run. *)

\* ListenAndServe, and Serve, return at once when their server was shut down.
RunServing(c) ==
    /\ Up /\ c \in {"receiver", "server"} /\ run[c] = "new"
    /\ run' = [run EXCEPT ![c] = IF shutdown[c] = "no" THEN "running" ELSE "ending"]
    /\ UNCHANGED <<main, expired, cancelled, shutdown, status, clientVars>>

\* The router runs whatever its status was.
RunRouter ==
    /\ Up /\ run["router"] = "new"
    /\ run' = [run EXCEPT !["router"] = "running"]
    /\ status' = "running"
    /\ UNCHANGED <<main, expired, cancelled, shutdown, clientVars>>

\* The address cannot be listened on, or accepting connections fails.
RunFails(c) ==
    /\ Up /\ c \in {"receiver", "server"}
    /\ run[c] \in {"new", "running"} /\ shutdown[c] = "no"
    /\ run' = [run EXCEPT ![c] = "failed"]
    /\ UNCHANGED <<main, expired, cancelled, shutdown, status, clientVars>>

Failed == \E c \in Component : run[c] = "failed"

CancelRuns ==
    /\ Up /\ Failed /\ ~cancelled
    /\ cancelled' = TRUE
    /\ UNCHANGED <<main, expired, run, shutdown, status, clientVars>>

\* Faulty: Receive waits for ListenAndServe alone.
ReceiveForever(c) ==
    /\ Up /\ cancelled /\ run[c] = "running"
    /\ c # "receiver"
    /\ run' = [run EXCEPT ![c] = "ending"]
    /\ stream' = IF c = "server" THEN [s \in Streams |-> "idle"] ELSE stream
    /\ UNCHANGED <<main, expired, cancelled, shutdown, status, posting, requestCh, closed>>

\* Receive returns while its HTTP server goes on; the gRPC server is stopped, with
\* the calls it serves; the router ends as after a Shutdown.
RunCancelled(c) ==
    /\ Up /\ cancelled /\ run[c] = "running"
    /\ run' = [run EXCEPT ![c] = IF c = "receiver" THEN "abandoned" ELSE "ending"]
    /\ stream' = IF c = "server" THEN [s \in Streams |-> "idle"] ELSE stream
    /\ UNCHANGED <<main, expired, cancelled, shutdown, status, posting, requestCh, closed>>

RunReturn(c) ==
    /\ Up /\ run[c] = "ending"
    /\ run' = [run EXCEPT ![c] = "returned"]
    /\ status' = IF c = "router" THEN "stopped" ELSE status
    /\ UNCHANGED <<main, expired, cancelled, shutdown, clientVars>>

-----------------------------------------------------------------------------
(* POST handlers.  The checks before the send are left out. *)

Serving(c) == Up /\ run[c] \in {"running", "abandoned"} /\ shutdown[c] = "no"

PostRequests(h) ==
    /\ Serving("receiver") /\ h \notin posting
    /\ posting' = posting \cup {h}
    /\ UNCHANGED <<main, expired, run, cancelled, shutdown, status, requestCh, stream, closed>>

PostSend(h) ==
    /\ Up /\ h \in posting /\ requestCh < BufferSize
    /\ posting' = posting \ {h} /\ requestCh' = requestCh + 1
    /\ UNCHANGED <<main, expired, run, cancelled, shutdown, status, stream, closed>>

\* The client has gone.
PostCancelled(h) ==
    /\ Up /\ h \in posting
    /\ posting' = posting \ {h}
    /\ UNCHANGED <<main, expired, run, cancelled, shutdown, status, requestCh, stream, closed>>

\* The router hands a request on; its select may still choose to when it ends.
Route ==
    /\ Up /\ run["router"] \in {"running", "ending"} /\ requestCh > 0
    /\ requestCh' = requestCh - 1
    /\ UNCHANGED <<main, expired, run, cancelled, shutdown, status, posting, stream, closed>>

-----------------------------------------------------------------------------
(* StreamIsActive calls. *)

\* Faulty: the router subscribes whatever its status.
StreamAlwaysSubscribed(s) ==
    /\ Serving("server") /\ stream[s] = "idle"
    /\ stream' = [stream EXCEPT ![s] = "open"]
    /\ closed' = closed \ {s}
    /\ UNCHANGED <<main, expired, run, cancelled, shutdown, status, posting, requestCh>>

\* A router that does not accept subscriptions returns a closed channel.
StreamIsActive(s) ==
    /\ Serving("server") /\ stream[s] = "idle"
    /\ stream' = [stream EXCEPT ![s] = "open"]
    /\ closed' = IF status \in {"initialized", "running"} THEN closed \ {s}
                                                          ELSE closed \cup {s}
    /\ UNCHANGED <<main, expired, run, cancelled, shutdown, status, posting, requestCh>>

\* A value is received, and Send has not returned.
Send(s) ==
    /\ Up /\ stream[s] = "open" /\ s \notin closed
    /\ stream' = [stream EXCEPT ![s] = "sending"]
    /\ UNCHANGED <<main, expired, run, cancelled, shutdown, status, posting, requestCh, closed>>

\* Send returns when KEDA reads.
Sent(s) ==
    /\ Up /\ stream[s] = "sending"
    /\ stream' = [stream EXCEPT ![s] = "open"]
    /\ UNCHANGED <<main, expired, run, cancelled, shutdown, status, posting, requestCh, closed>>

StreamClosed(s) ==
    /\ Up /\ stream[s] = "open" /\ s \in closed
    /\ stream' = [stream EXCEPT ![s] = "idle"]
    /\ UNCHANGED <<main, expired, run, cancelled, shutdown, status, posting, requestCh, closed>>

\* KEDA has gone: the context is done, or Send fails.
StreamDone(s) ==
    /\ Up /\ stream[s] # "idle"
    /\ stream' = [stream EXCEPT ![s] = "idle"]
    /\ UNCHANGED <<main, expired, run, cancelled, shutdown, status, posting, requestCh, closed>>

-----------------------------------------------------------------------------
(* The end. *)

Signal ==
    /\ main = "serving"
    /\ main' = "stopping"
    /\ UNCHANGED <<expired, run, cancelled, shutdown, status, clientVars>>

Expire ==
    /\ main = "stopping" /\ ~expired
    /\ expired' = TRUE
    /\ UNCHANGED <<main, run, cancelled, shutdown, status, clientVars>>

\* Faulty: the router is the first of the chain.
ChainRouterFirst == [router |-> 1, receiver |-> 2, server |-> 3]

\* Faulty: the gRPC server is the first of the chain.
ChainServerFirst == [server |-> 1, receiver |-> 2, router |-> 3]

chain == [receiver |-> 1, router |-> 2, server |-> 3]

Called(c) ==
    /\ main = "stopping" /\ shutdown[c] = "no"
    /\ \A d \in Component : chain[d] < chain[c] => shutdown[d] = "returned"
    /\ shutdown' = [shutdown EXCEPT ![c] = "called"]

Returned(c) ==
    /\ main = "stopping" /\ shutdown[c] = "called"
    /\ shutdown' = [shutdown EXCEPT ![c] = "returned"]

EndRun(c) == run' = [run EXCEPT ![c] = IF @ = "running" THEN "ending" ELSE @]

\* http.Server.Shutdown closes the listener, which ends ListenAndServe...
ReceiverShutdown ==
    /\ Called("receiver") /\ EndRun("receiver")
    /\ UNCHANGED <<main, expired, cancelled, status, clientVars>>

\* ...and waits for the handlers.
ReceiverDrained ==
    /\ Returned("receiver")
    /\ posting = {} \/ expired
    /\ UNCHANGED <<main, expired, run, cancelled, status, clientVars>>

\* runCancel is called only if Run has set it.
RouterShutdown ==
    /\ Called("router") /\ EndRun("router")
    /\ status' = "shutting down"
    /\ UNCHANGED <<main, expired, cancelled, clientVars>>

\* Every arbitrator closes its subscriptions, whether or not the context has
\* expired.
ArbitratorsShutdown ==
    /\ Returned("router")
    /\ closed' = closed \cup {s \in Streams : stream[s] # "idle"}
    /\ UNCHANGED <<main, expired, run, cancelled, status, posting, requestCh, stream>>

\* GracefulStop, in a goroutine of its own, lets no new calls in.
ServerShutdown ==
    /\ Called("server")
    /\ UNCHANGED <<main, expired, run, cancelled, status, clientVars>>

\* Faulty: Shutdown does not wait for doneCh.
GracefulStopUnawaited ==
    /\ Returned("server") /\ EndRun("server")
    /\ UNCHANGED <<main, expired, cancelled, status, clientVars>>

\* doneCh: every call has ended.
GracefulStop ==
    /\ Returned("server") /\ EndRun("server")
    /\ \A s \in Streams : stream[s] = "idle"
    /\ UNCHANGED <<main, expired, cancelled, status, clientVars>>

\* Faulty: the timeout is noticed, but the server is not stopped and Shutdown
\* keeps waiting.
StopForgotten ==
    /\ Returned("server") /\ EndRun("server")
    /\ expired /\ \A s \in Streams : stream[s] = "idle"
    /\ UNCHANGED <<main, expired, cancelled, status, clientVars>>

\* Stop ends the calls that are left.
Stop ==
    /\ Returned("server") /\ EndRun("server")
    /\ expired
    /\ stream' = [s \in Streams |-> "idle"]
    /\ UNCHANGED <<main, expired, cancelled, status, posting, requestCh, closed>>

Exit ==
    /\ main = "stopping"
    /\ expired \/ \A c \in Component : shutdown[c] = "returned"
    /\ main' = "exited"
    /\ UNCHANGED <<expired, run, cancelled, shutdown, status, clientVars>>

\* The chain's Run has returned the error.
ExitWithError ==
    /\ main = "serving" /\ Failed
    /\ main' = "exited"
    /\ UNCHANGED <<expired, run, cancelled, shutdown, status, clientVars>>

-----------------------------------------------------------------------------
Next ==
    \/ RunServing("receiver") \/ RunServing("server") \/ RunRouter
    \/ \E c \in Component : RunFails(c) \/ RunCancelled(c) \/ RunReturn(c)
    \/ CancelRuns
    \/ \E h \in Handlers : PostRequests(h) \/ PostSend(h) \/ PostCancelled(h)
    \/ Route
    \/ \E s \in Streams : \/ StreamIsActive(s) \/ Send(s) \/ Sent(s)
                          \/ StreamClosed(s) \/ StreamDone(s)
    \/ Signal \/ Expire
    \/ ReceiverShutdown \/ ReceiverDrained
    \/ RouterShutdown \/ ArbitratorsShutdown
    \/ ServerShutdown \/ GracefulStop \/ Stop
    \/ Exit \/ ExitWithError

Spec == Init /\ [][Next]_vars

RunsEnded == \A c \in Component : run[c] \in {"returned", "failed", "abandoned"}

\* The process goes on by itself: components are started, and what they do ends.
\* A router that was shut down before it ran need not route.  A handler whose send
\* competes with others gets its turn.  The chain owes an exit only when every
\* Shutdown and every Run has ended: that it gives up at the timeout, or leaves a
\* Run behind, is not asked of it.
ProcessFairness ==
    /\ WF_vars(RunServing("receiver")) /\ WF_vars(RunServing("server")) /\ WF_vars(RunRouter)
    /\ \A c \in Component : WF_vars(RunCancelled(c)) /\ WF_vars(RunReturn(c))
    /\ \A h \in Handlers : SF_vars(PostSend(h))
    /\ WF_vars(Route /\ shutdown["router"] = "no")
    /\ \A s \in Streams : WF_vars(StreamClosed(s))
    /\ WF_vars(ReceiverShutdown) /\ WF_vars(ReceiverDrained)
    /\ WF_vars(RouterShutdown) /\ WF_vars(ArbitratorsShutdown)
    /\ WF_vars(ServerShutdown) /\ WF_vars(GracefulStop) /\ WF_vars(Stop)
    /\ WF_vars(Exit /\ (\A c \in Component : shutdown[c] = "returned") /\ RunsEnded)
    /\ WF_vars(CancelRuns) /\ WF_vars(ExitWithError /\ RunsEnded)

\* KEDA reads what it is sent.
ReaderFairness == \A s \in Streams : WF_vars(Sent(s))

FairSpec == Spec /\ ProcessFairness

-----------------------------------------------------------------------------
\* A graceful end cuts nobody off: unless the timeout passed or a component
\* failed, when the process exits no client waits for an answer to its POST and
\* every stream has been ended by its handler (main.go:76-88, server.go:74-89,
\* http.go:74-76).
NobodyCutOff ==
    main = "exited" /\ ~expired /\ ~Failed =>
        posting = {} /\ \A s \in Streams : stream[s] = "idle"

\* Unless the timeout passed or a component failed, no POST is answered 202 once
\* the router has been told to stop or its Run is about to end: the receivers come
\* before the router in the chain (main.go:70-76, http.go:108-122).
NoneAcceptedInVain ==
    [][requestCh' > requestCh =>
          \/ shutdown["router"] = "no" /\ run["router"] \in {"new", "running"}
          \/ expired \/ Failed]_vars

\* Nobody waits for what will not come.  A POST that is stuck in its send has a router
\* that takes requests, unless the timeout or a failure will end its wait; and when the
\* gRPC server is told to stop, the channel of every stream call has been closed, unless
\* the router's Run has undone its Shutdown (main.go:70-88, http.go:108-117,
\* router.go:166-170, 215-237, service.go:66-81).
EveryWaitEnds ==
    /\ posting # {} => run["router"] \in {"new", "running"} \/ expired \/ Failed
    /\ shutdown["server"] # "no" =>
           \/ run["router"] = "running" \/ Failed
           \/ \A s \in Streams : stream[s] # "idle" => s \in closed

ProcessEnds == main = "stopping" ~> main = "exited"

\* The signal does not overtake the start of the router's Run, which would undo
\* the Shutdown.
RouterRunsFirst == shutdown["router"] # "no" => run["router"] # "new"

\* After a signal the process ends by itself, without the timeout: the order of the
\* chain lets each component end once those before it have.  KEDA must read what
\* it is sent, no component fail, and the router run before its Shutdown
\* (main.go:76-88).
EndsByItself ==
    ReaderFairness /\ []~Failed /\ []RouterRunsFirst => ProcessEnds

\* Nothing withstands the timeout: after a signal at any time, whatever has failed
\* and whatever clients owe, every Shutdown and every Run ends, and the process
\* with them.  Receiver and gRPC server may be started after their Shutdown; the
\* router may not (main.go:78-88, server.go:82-88).
TimeoutEnds == WF_vars(Expire) /\ []RouterRunsFirst => ProcessEnds

\* When a component fails the process does not linger: every Run heeds the end of
\* its context (main.go:89-91, http.go:63-71, router.go:254-260, server.go:60-70).
FailureEnds == main = "serving" /\ Failed ~> main # "serving"
=============================================================================
