----------------------- MODULE ServerLifecycleProofs -----------------------
(***************************************************************************)
(* The safety of the server's end for any number of handlers and streams   *)
(* and any buffer, whenever the signal comes and whatever fails.           *)
(***************************************************************************)
EXTENDS ServerLifecycle, TLAPS

\* A component is only shut down after those before it in the chain.
InChainOrder ==
    \A c, d \in Component :
        chain[d] < chain[c] /\ shutdown[c] # "no" => shutdown[d] = "returned"

\* What Shutdown has waited for does not come back: no call is let in after it.
StaysDrained ==
    /\ shutdown["receiver"] = "returned" => posting = {} \/ expired
    /\ shutdown["server"] = "returned" => expired \/ \A s \in Streams : stream[s] = "idle"
    /\ main = "exited" => expired \/ Failed \/ \A c \in Component : shutdown[c] = "returned"

\* The router's Run ends only when it is told to, or something has failed.
RouterRuns ==
    /\ cancelled => Failed
    /\ run["router"] \notin {"new", "running"} => shutdown["router"] # "no" \/ Failed

\* A router that was told to stop takes no subscriptions, and has closed those it had
\* once its Shutdown has returned, unless its Run came after the Shutdown.
Unsubscribed ==
    /\ shutdown["router"] # "no" =>
           status \in {"shutting down", "stopped"} \/ run["router"] = "running" \/ Failed
    /\ shutdown["router"] = "returned" =>
           \/ run["router"] = "running" \/ Failed
           \/ \A s \in Streams : stream[s] # "idle" => s \in closed

IInv == TypeOK /\ InChainOrder /\ StaysDrained /\ RouterRuns /\ Unsubscribed

-----------------------------------------------------------------------------
\* A process that has just been started satisfies the invariant.
LEMMA IInvInit == Init => IInv
<1> SUFFICES ASSUME Init PROVE IInv
  OBVIOUS
<1>1. TypeOK
  <2>1. requestCh \in 0..BufferSize
    BY BufferAssumption DEF Init
  <2> QED  BY <2>1 DEF Init, TypeOK, RunState
<1>2. InChainOrder /\ StaysDrained /\ RouterRuns /\ Unsubscribed
  BY DEF Init, InChainOrder, StaysDrained, RouterRuns, Unsubscribed, Component
<1> QED  BY <1>1, <1>2 DEF IInv

\* How full requestCh is, as a number.
LEMMA ChannelCount ==
    ASSUME TypeOK
    PROVE  requestCh \in Nat /\ BufferSize \in Nat /\ requestCh <= BufferSize
<1>1. BufferSize \in Nat
  BY BufferAssumption
<1>2. requestCh \in 0..BufferSize
  BY DEF TypeOK
<1> QED  BY <1>1, <1>2

\* Calling a Shutdown, its return and the end of a Run keep the types.
LEMMA CallTypes ==
    ASSUME TypeOK, NEW c \in Component
    PROVE  /\ Called(c) \/ Returned(c) => shutdown' \in [Component -> {"no", "called", "returned"}]
           /\ EndRun(c) => run' \in [Component -> RunState]
<1>1. Called(c) \/ Returned(c) => shutdown' \in [Component -> {"no", "called", "returned"}]
  BY DEF TypeOK, Called, Returned
<1>2. EndRun(c) => run' \in [Component -> RunState]
  BY DEF TypeOK, EndRun, RunState
<1> QED  BY <1>1, <1>2

\* Every step of the components, the clients and the chain keeps the types.
LEMMA TypeStep == TypeOK /\ [Next]_vars => TypeOK'
<1> SUFFICES ASSUME TypeOK, [Next]_vars PROVE TypeOK'
  OBVIOUS
<1>0. /\ requestCh \in Nat /\ BufferSize \in Nat
      /\ requestCh < BufferSize => requestCh + 1 \in 0..BufferSize
      /\ requestCh > 0 => requestCh - 1 \in 0..BufferSize
  BY ChannelCount
<1> USE DEF TypeOK, clientVars
<1>1. CASE UNCHANGED vars
  BY <1>1 DEF vars
<1>2. ASSUME NEW c \in Component, RunServing(c) PROVE TypeOK'
  BY <1>2 DEF RunServing, RunState
<1>3. CASE RunRouter \/ CancelRuns
  BY <1>3 DEF RunRouter, CancelRuns, Component, RunState
<1>4. ASSUME NEW c \in Component, RunReturn(c) \/ RunFails(c) \/ RunCancelled(c) PROVE TypeOK'
  BY <1>4 DEF RunReturn, RunFails, RunCancelled, RunState
<1>5. ASSUME NEW h \in Handlers, PostRequests(h) \/ PostSend(h) \/ PostCancelled(h) PROVE TypeOK'
  <2>1. CASE PostRequests(h) \/ PostCancelled(h)
    BY <2>1 DEF PostRequests, PostCancelled
  <2>2. CASE PostSend(h)
    <3>1. requestCh' \in 0..BufferSize
      <4>1. requestCh' = requestCh + 1 /\ requestCh < BufferSize
        BY <2>2 DEF PostSend
      <4> QED  BY <4>1, <1>0
    <3> QED  BY <2>2, <3>1 DEF PostSend
  <2> QED  BY <1>5, <2>1, <2>2
<1>6. CASE Route
  <2>1. requestCh' \in 0..BufferSize
    <3>1. requestCh' = requestCh - 1 /\ requestCh > 0
      BY <1>6 DEF Route
    <3> QED  BY <3>1, <1>0
  <2> QED  BY <1>6, <2>1 DEF Route
<1>7. ASSUME NEW s \in Streams,
             \/ StreamIsActive(s) \/ Send(s) \/ Sent(s) \/ StreamClosed(s) \/ StreamDone(s)
      PROVE  TypeOK'
  BY <1>7 DEF StreamIsActive, Send, Sent, StreamClosed, StreamDone
<1>8. CASE Signal \/ Expire \/ Exit \/ ExitWithError
  BY <1>8 DEF Signal, Expire, Exit, ExitWithError
<1>9. CASE ReceiverShutdown \/ ReceiverDrained
  BY <1>9, CallTypes DEF ReceiverShutdown, ReceiverDrained, Component
<1>10. CASE RouterShutdown \/ ArbitratorsShutdown
  BY <1>10, CallTypes DEF RouterShutdown, ArbitratorsShutdown, Component
<1>11. CASE ServerShutdown \/ GracefulStop \/ Stop
  BY <1>11, CallTypes DEF ServerShutdown, GracefulStop, Stop, Component
<1> QED
  BY <1>1, <1>2, <1>3, <1>4, <1>5, <1>6, <1>7, <1>8, <1>9, <1>10, <1>11
     DEF Next, Component

\* The chain calls a Shutdown once all before it have returned, and none twice.
LEMMA OrderStep == TypeOK /\ InChainOrder /\ [Next]_vars => InChainOrder'
<1> SUFFICES ASSUME TypeOK, InChainOrder, [Next]_vars PROVE InChainOrder'
  OBVIOUS
<1>1. CASE UNCHANGED shutdown
  BY <1>1 DEF InChainOrder, chain
<1>2. ASSUME NEW c \in Component, Called(c) PROVE InChainOrder'
  BY <1>2 DEF Called, InChainOrder, TypeOK, Component, chain
<1>3. ASSUME NEW c \in Component, Returned(c) PROVE InChainOrder'
  BY <1>3 DEF Returned, InChainOrder, TypeOK, Component, chain
<1>4. \/ UNCHANGED shutdown
      \/ \E c \in Component : Called(c) \/ Returned(c)
  BY DEF Next, vars, clientVars, Component, RunServing, RunRouter, RunFails, CancelRuns, RunCancelled, RunReturn, ExitWithError, PostRequests, PostSend,
         PostCancelled, Route, StreamIsActive, Send, Sent, StreamClosed, StreamDone, Signal,
         Expire, Exit, ReceiverShutdown, ReceiverDrained, RouterShutdown, ArbitratorsShutdown,
         ServerShutdown, GracefulStop, Stop
<1> QED  BY <1>1, <1>2, <1>3, <1>4

\* A Run that has failed has failed for good.
LEMMA FailedStays == TypeOK /\ Failed /\ [Next]_vars => Failed'
<1> SUFFICES ASSUME TypeOK, [Next]_vars, NEW d \in Component, run[d] = "failed"
             PROVE  run'[d] = "failed"
  BY DEF Failed
<1>1. \/ UNCHANGED run
      \/ \E c \in Component : \/ EndRun(c) \/ RunServing(c) \/ RunFails(c)
                              \/ RunCancelled(c) \/ RunReturn(c)
      \/ RunRouter
  BY DEF Next, vars, clientVars, Component, CancelRuns, ExitWithError, PostRequests, PostSend,
         PostCancelled, Route, StreamIsActive, Send, Sent, StreamClosed, StreamDone, Signal,
         Expire, Exit, ReceiverShutdown, ReceiverDrained, RouterShutdown, ArbitratorsShutdown,
         ServerShutdown, GracefulStop, Stop
<1> QED
  BY <1>1 DEF EndRun, RunServing, RunFails, RunCancelled, RunReturn, RunRouter, TypeOK, Component

\* Nothing lets in a POST after the receiver's Shutdown, or a stream call after
\* the server's, and the timeout does not unpass.
LEMMA DrainedStep == TypeOK /\ StaysDrained /\ [Next]_vars => StaysDrained'
<1> SUFFICES ASSUME TypeOK, StaysDrained, [Next]_vars PROVE StaysDrained'
  OBVIOUS
<1>0. Failed => Failed'
  BY FailedStays
<1> USE DEF StaysDrained, clientVars
<1>1. CASE UNCHANGED <<posting, expired, stream, main, shutdown>>
  BY <1>0, <1>1
<1>2. CASE RunServing("receiver") \/ RunServing("server") \/ RunRouter \/ Route \/ CancelRuns
  BY <1>1, <1>2 DEF RunServing, RunRouter, Route, CancelRuns
<1>3. ASSUME NEW c \in Component, RunReturn(c) \/ RunFails(c) PROVE StaysDrained'
  BY <1>1, <1>3 DEF RunReturn, RunFails
<1>10. ASSUME NEW c \in Component, RunCancelled(c) PROVE StaysDrained'
  <2>1. /\ UNCHANGED <<posting, expired, main, shutdown>>
        /\ UNCHANGED stream \/ stream' = [s \in Streams |-> "idle"]
    BY <1>10 DEF RunCancelled
  <2> QED  BY <1>0, <2>1
<1>4. ASSUME NEW h \in Handlers, PostRequests(h) \/ PostSend(h) \/ PostCancelled(h)
      PROVE  StaysDrained'
  BY <1>0, <1>4 DEF PostRequests, PostSend, PostCancelled, Serving, Up
<1>5. ASSUME NEW s \in Streams,
             \/ StreamIsActive(s) \/ Send(s) \/ Sent(s) \/ StreamClosed(s) \/ StreamDone(s)
      PROVE  StaysDrained'
  BY <1>0, <1>5 DEF StreamIsActive, Send, Sent, StreamClosed, StreamDone, Serving, Up, TypeOK
<1>6. CASE Signal \/ Expire \/ Exit \/ ExitWithError
  BY <1>0, <1>6 DEF Signal, Expire, Exit, ExitWithError, TypeOK
<1>7. CASE ReceiverShutdown \/ ReceiverDrained
  BY <1>0, <1>7 DEF ReceiverShutdown, ReceiverDrained, Called, Returned, TypeOK, Component
<1>8. CASE RouterShutdown \/ ArbitratorsShutdown
  BY <1>0, <1>8 DEF RouterShutdown, ArbitratorsShutdown, Called, Returned, TypeOK, Component
<1>9. CASE ServerShutdown \/ GracefulStop \/ Stop
  BY <1>0, <1>9 DEF ServerShutdown, GracefulStop, Stop, Called, Returned, TypeOK, Component
<1> QED
  BY <1>1, <1>2, <1>3, <1>4, <1>5, <1>6, <1>7, <1>8, <1>9, <1>10 DEF Next, vars

\* Only a Shutdown, or the failure of another component, ends the router's Run.
LEMMA RouterStep == TypeOK /\ RouterRuns /\ [Next]_vars => RouterRuns'
<1> SUFFICES ASSUME TypeOK, RouterRuns, [Next]_vars PROVE RouterRuns'
  OBVIOUS
<1>1. Failed => Failed'
  BY FailedStays
<1>2. CASE cancelled' = cancelled /\ run'["router"] = run["router"]
           /\ (shutdown["router"] # "no" => shutdown'["router"] # "no")
  BY <1>1, <1>2 DEF RouterRuns
<1>3. CASE CancelRuns
  BY <1>1, <1>3 DEF CancelRuns, RouterRuns
<1>8. CASE RunRouter
  <2>1. run'["router"] = "running" /\ cancelled' = cancelled
    BY <1>8 DEF RunRouter, TypeOK, Component
  <2> QED  BY <1>1, <2>1 DEF RouterRuns
<1>4. ASSUME NEW c \in Component, RunServing(c) \/ RunFails(c) \/ RunCancelled(c) \/ RunReturn(c)
      PROVE  RouterRuns'
  <2>1. cancelled' = cancelled /\ shutdown' = shutdown
    BY <1>4 DEF RunServing, RunFails, RunCancelled, RunReturn
  <2>2. CASE c = "router"
    <3>1. run["router"] \notin {"new", "running"} \/ cancelled
      BY <1>4, <2>2 DEF RunServing, RunFails, RunCancelled, RunReturn
    <3> QED  BY <1>1, <2>1, <3>1 DEF RouterRuns
  <2>3. CASE c # "router"
    <3>1. run'["router"] = run["router"]
      BY <1>4, <2>3 DEF RunServing, RunFails, RunCancelled, RunReturn, TypeOK, Component
    <3> QED  BY <1>2, <2>1, <3>1
  <2> QED  BY <2>2, <2>3
<1>5. CASE RouterShutdown
  BY <1>1, <1>5 DEF RouterShutdown, Called, RouterRuns, TypeOK, Component
<1>6. CASE ReceiverShutdown \/ ReceiverDrained \/ ArbitratorsShutdown \/ ServerShutdown
           \/ GracefulStop \/ Stop
  BY <1>2, <1>6 DEF ReceiverShutdown, ReceiverDrained, ArbitratorsShutdown, ServerShutdown,
                    GracefulStop, Stop, Called, Returned, EndRun, TypeOK, Component
<1>7. CASE UNCHANGED <<cancelled, run, shutdown>>
  BY <1>2, <1>7
<1> QED
  BY <1>3, <1>4, <1>5, <1>6, <1>7, <1>8
     DEF Next, vars, clientVars, Component, ExitWithError, PostRequests, PostSend, PostCancelled,
         Route, StreamIsActive, Send, Sent, StreamClosed, StreamDone, Signal, Expire, Exit

\* Nothing opens a subscription with a router that was told to stop, and only the
\* failure of another component ends a Run that came after the Shutdown.
LEMMA UnsubscribedStep ==
    TypeOK /\ RouterRuns /\ Unsubscribed /\ [Next]_vars => Unsubscribed'
<1> SUFFICES ASSUME TypeOK, RouterRuns, Unsubscribed, [Next]_vars, ~Failed
             PROVE  Unsubscribed'
  <2>1. TypeOK /\ Failed /\ [Next]_vars => Unsubscribed'
    BY FailedStays DEF Unsubscribed
  <2> QED  BY <2>1
<1>0. ~cancelled
  BY DEF RouterRuns
<1> USE DEF clientVars
<1>1. CASE /\ UNCHANGED <<shutdown, status, closed>> /\ run'["router"] = run["router"]
           /\ \A s \in Streams : stream'[s] # "idle" => stream[s] # "idle"
  BY <1>1 DEF Unsubscribed
<1>2. ASSUME NEW c \in Component, RunServing(c) \/ RunCancelled(c) PROVE Unsubscribed'
  <2>1. RunServing(c)
    BY <1>0, <1>2 DEF RunCancelled
  <2> QED  BY <1>1, <2>1 DEF RunServing, TypeOK, Component
<1>3. ASSUME NEW c \in Component, RunFails(c) PROVE Unsubscribed'
  <2>1. run'[c] = "failed"
    BY <1>3 DEF RunFails, TypeOK
  <2> QED  BY <2>1 DEF Unsubscribed, Failed
<1>4. ASSUME NEW c \in Component, RunReturn(c) PROVE Unsubscribed'
  <2>1. CASE c = "router"
    <3>1. status' = "stopped" /\ run["router"] # "running" /\ UNCHANGED <<shutdown, stream, closed>>
      BY <1>4, <2>1 DEF RunReturn
    <3> QED  BY <3>1 DEF Unsubscribed
  <2>2. CASE c # "router"
    BY <1>1, <1>4, <2>2 DEF RunReturn, TypeOK, Component
  <2> QED  BY <2>1, <2>2
<1>5. CASE RunRouter
  <2>1. run'["router"] = "running"
    BY <1>5 DEF RunRouter, TypeOK, Component
  <2> QED  BY <2>1 DEF Unsubscribed
<1>6. ASSUME NEW h \in Handlers, PostRequests(h) \/ PostSend(h) \/ PostCancelled(h)
      PROVE  Unsubscribed'
  BY <1>1, <1>6 DEF PostRequests, PostSend, PostCancelled
<1>7. ASSUME NEW s \in Streams, StreamIsActive(s) PROVE Unsubscribed'
  <2>1. UNCHANGED <<shutdown, status, run>> /\ stream' = [stream EXCEPT ![s] = "open"]
    BY <1>7 DEF StreamIsActive
  <2>2. CASE status \in {"initialized", "running"}
    BY <2>1, <2>2 DEF Unsubscribed, Failed
  <2>3. CASE status \notin {"initialized", "running"}
    <3>1. closed' = closed \cup {s}
      BY <1>7, <2>3 DEF StreamIsActive
    <3> QED  BY <2>1, <3>1 DEF Unsubscribed, Failed, TypeOK
  <2> QED  BY <2>2, <2>3
<1>8. ASSUME NEW s \in Streams, Send(s) \/ Sent(s) \/ StreamClosed(s) \/ StreamDone(s)
      PROVE  Unsubscribed'
  BY <1>1, <1>8 DEF Send, Sent, StreamClosed, StreamDone, TypeOK
<1>9. CASE RouterShutdown
  BY <1>9 DEF RouterShutdown, Called, Unsubscribed, TypeOK, Component
<1>10. CASE ArbitratorsShutdown
  <2>1. /\ shutdown["router"] = "called"
        /\ shutdown' = [shutdown EXCEPT !["router"] = "returned"]
        /\ closed' = closed \cup {s \in Streams : stream[s] # "idle"}
        /\ UNCHANGED <<run, status, stream>>
    BY <1>10 DEF ArbitratorsShutdown, Returned
  <2> QED  BY <2>1 DEF Unsubscribed
<1>11. CASE ReceiverShutdown \/ ReceiverDrained \/ ServerShutdown \/ GracefulStop \/ Stop
  <2>1. /\ UNCHANGED <<status, closed>> /\ shutdown'["router"] = shutdown["router"]
        /\ run'["router"] = run["router"]
    BY <1>11 DEF ReceiverShutdown, ReceiverDrained, ServerShutdown, GracefulStop, Stop, Called,
                 Returned, EndRun, TypeOK, Component
  <2>2. \A s \in Streams : stream'[s] # "idle" => stream[s] # "idle"
    BY <1>11 DEF ReceiverShutdown, ReceiverDrained, ServerShutdown, GracefulStop, Stop
  <2> QED  BY <2>1, <2>2 DEF Unsubscribed
<1>12. CASE UNCHANGED <<run, shutdown, status, stream, closed>>
  BY <1>1, <1>12
<1> QED
  BY <1>2, <1>3, <1>4, <1>5, <1>6, <1>7, <1>8, <1>9, <1>10, <1>11, <1>12
     DEF Next, vars, Component, CancelRuns, Route, Signal, Expire, Exit, ExitWithError

\* The invariant holds from the start of the process to its end.
LEMMA AlwaysIInv == Spec => []IInv
<1>1. IInv /\ [Next]_vars => IInv'
  BY TypeStep, OrderStep, DrainedStep, RouterStep, UnsubscribedStep DEF IInv
<1> QED  BY <1>1, IInvInit, PTL DEF Spec

-----------------------------------------------------------------------------
\* The types of the process's state; requestCh stays within its capacity.
THEOREM LifecycleTypeCorrect == Spec => []TypeOK
<1>1. IInv => TypeOK
  BY DEF IInv
<1> QED  BY <1>1, AlwaysIInv, PTL

\* An exit that neither the timeout nor a failure has forced leaves no POST without an answer and
\* no stream that its handler has not ended (main.go:76-88, server.go:74-89).
THEOREM GracefulEnd == Spec => []NobodyCutOff
<1>1. IInv => NobodyCutOff
  BY DEF IInv, StaysDrained, NobodyCutOff, Component
<1> QED  BY <1>1, AlwaysIInv, PTL

\* Whatever the number of handlers stuck in their send, none gets through after the
\* router was told to stop, unless the timeout passed or a component failed
\* (main.go:70-76).
THEOREM AcceptedWhileRouting == Spec => NoneAcceptedInVain
<1>1. ASSUME IInv, [Next]_vars, requestCh' > requestCh
      PROVE  \/ shutdown["router"] = "no" /\ run["router"] \in {"new", "running"}
             \/ expired \/ Failed
  <2> requestCh \in Nat
    BY <1>1, ChannelCount DEF IInv
  <2>1. ~(requestCh' = requestCh) /\ ~(requestCh' = requestCh - 1)
    BY <1>1
  <2>2. \E h \in Handlers : h \in posting
    BY <1>1, <2>1
       DEF Next, vars, clientVars, RunServing, RunRouter, RunFails, CancelRuns, RunCancelled,
           RunReturn, ExitWithError, PostRequests, PostSend, PostCancelled,
           Route, StreamIsActive, Send, Sent, StreamClosed, StreamDone, Signal, Expire, Exit,
           ReceiverShutdown, ReceiverDrained, RouterShutdown, ArbitratorsShutdown,
           ServerShutdown, GracefulStop, Stop
  <2>3. shutdown["router"] # "no" => shutdown["receiver"] = "returned"
    BY <1>1 DEF IInv, InChainOrder, chain, Component
  <2> QED  BY <1>1, <2>2, <2>3 DEF IInv, StaysDrained, RouterRuns
<1>2. IInv /\ [Next]_vars =>
          [requestCh' > requestCh =>
              \/ shutdown["router"] = "no" /\ run["router"] \in {"new", "running"}
              \/ expired \/ Failed]_vars
  BY <1>1
<1> QED  BY <1>2, AlwaysIInv, PTL DEF Spec, NoneAcceptedInVain
\* Whatever the number of handlers and streams: a POST that is stuck in its send has a
\* router that takes requests, or the timeout or a failure to end its wait; and the gRPC
\* server is not told to stop before every stream call has been told that it is over,
\* unless the router's Run came after its Shutdown (main.go:70-88, router.go:166-170,
\* 215-237).
THEOREM NobodyWaitsInVain == Spec => []EveryWaitEnds
<1>1. ASSUME IInv PROVE EveryWaitEnds
  <2>1. /\ shutdown["router"] # "no" => shutdown["receiver"] = "returned"
        /\ shutdown["server"] # "no" => shutdown["router"] = "returned"
    BY <1>1 DEF IInv, InChainOrder, chain, Component
  <2>2. posting # {} => run["router"] \in {"new", "running"} \/ expired \/ Failed
    BY <1>1, <2>1 DEF IInv, StaysDrained, RouterRuns
  <2>3. shutdown["server"] # "no" =>
            \/ run["router"] = "running" \/ Failed
            \/ \A s \in Streams : stream[s] # "idle" => s \in closed
    BY <1>1, <2>1 DEF IInv, Unsubscribed
  <2> QED  BY <2>2, <2>3 DEF EveryWaitEnds
<1> QED  BY <1>1, AlwaysIInv, PTL
=============================================================================
