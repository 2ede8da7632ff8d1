----------------------- MODULE ArbitratorRouterProofs -----------------------
(***************************************************************************)
(* The safety of the router for every set of ScaledObjects, ids, handlers  *)
(* and stream calls, every buffer size and every bound.                    *)
(***************************************************************************)
EXTENDS ArbitratorRouter, TLAPS

\* What Run holds, and what it still relies on when it looks a key up.
Routing ==
    /\ run = "routing" => hand \in Request
    /\ run # "routing" => hand = Nothing
    /\ \A key \in Keys : intake[key] = "busy" => taken[key] \in Request

\* Nothing is under way to an arbitrator that is not there.
AllKnown ==
    /\ run = "routing" => hand.key \in known
    /\ \A i \in DOMAIN queue : queue[i].key \in known
    /\ \A p \in Posters :
           poster[p] # NoCall /\ poster[p].at = "send" => poster[p].key \in known

Starting ==
    /\ run = "idle" => status # "Running" /\ \A key \in Keys : starts[key] = 0
    /\ \A key \in Keys : starts[key] \in {0, 1} /\ (key \notin known => starts[key] = 0)
    /\ status = "Running" => \A key \in known : starts[key] = 1

\* Everything an arbitrator has is older than request n.
OlderThan(n) ==
    \A key \in Keys : taken[key].seq < n /\ \A id \in RequestId : table[key][id] < n

\* One channel and one router: the order of acceptance is kept for all keys together.
InOrder ==
    /\ \A i, j \in DOMAIN queue : i < j => queue[i].seq < queue[j].seq
    /\ \A i \in DOMAIN queue : hand.seq < queue[i].seq /\ OlderThan(queue[i].seq)
                               /\ queue[i].seq <= accepted
    /\ hand # Nothing => OlderThan(hand.seq)
    /\ hand.seq <= accepted /\ OlderThan(accepted + 1)
    /\ \A key \in Keys : taken[key] # Nothing =>
           \A id \in RequestId : table[key][id] < taken[key].seq

\* Whoever may still close an open subscription.
Closing ==
    /\ shutdown = "no" => toShut = {} /\ \A key \in Keys : ~shut[key]
    /\ shutdown # "no" => run # "idle" /\ status \in {"ShuttingDown", "Stopped"}
    /\ shutdown = "returned" => toShut = {}
    /\ shutdown \in {"stopping", "returned"} => cancelled
    /\ \A key \in toShut : ~shut[key]
    /\ \A s \in Streams : stream[s] # NoCall /\ stream[s].at = "open" =>
           stream[s].key \in known /\ (shutdown # "no" => stream[s].key \in toShut)

\* An intake goroutine has a request of its own ScaledObject while it is busy with
\* it, and only Run's end and Shutdown, after Run has begun, cancel Run's context.
Taking ==
    /\ \A key \in Keys : taken[key] # Nothing => taken[key].key = key /\ intake[key] = "busy"
    /\ run = "idle" => ~cancelled /\ shutdown # "cancel"
    /\ run \in {"deferred", "returned"} => cancelled

\* Until Shutdown begins, every arbitrator Run may hand a request to is running.
Serving ==
    /\ shutdown = "no" => /\ \A key \in Keys : ~shut[key]
                          /\ run \in {"select", "routing"} => status = "Running"
    /\ \A key \in Keys : starts[key] = 0 <=> intake[key] = "idle"
    /\ \A key \in Keys : intake[key] = "done" => cancelled \/ shut[key]

IInv == TypeOK /\ Routing /\ AllKnown /\ Starting /\ InOrder /\ Taking /\ Serving

-----------------------------------------------------------------------------
(* Types. *)

\* A request in hand is told from an empty hand by its number.
LEMMA NothingIsNoRequest == Nothing \notin Request /\ Nothing.seq = 0
  BY DEF Nothing, Request

\* Starting arbitrators touches nothing but their counts and intake goroutines.
LEMMA StartType ==
    ASSUME TypeOK, NEW keys \in SUBSET Keys, startArbitrators(keys)
    PROVE  /\ starts' \in [Keys -> Nat]
           /\ intake' \in [Keys -> {"idle", "select", "busy", "done"}]
           /\ \A key \in Keys : intake'[key] = "busy" => intake[key] = "busy"
           /\ \A key \in Keys : starts'[key] = IF key \in keys THEN starts[key] + 1
                                                              ELSE starts[key]
  BY DEF TypeOK, startArbitrators

\* A handler that is under way has a key and an id.
LEMMA PosterType ==
    ASSUME TypeOK, NEW p \in Posters, poster[p] # NoCall
    PROVE  /\ poster[p].at \in {"check", "send"} /\ poster[p].key \in Keys
           /\ poster[p].id \in RequestId
           /\ [poster[p] EXCEPT !.at = "send"] \in [at : {"check", "send"}, key : Keys, id : RequestId]
<1>1. poster[p] \in [at : {"check", "send"}, key : Keys, id : RequestId]
  BY DEF TypeOK
<1> QED  BY <1>1

\* A new router is well-typed.
LEMMA TypeInit == Init => TypeOK /\ Routing
<1> SUFFICES ASSUME Init PROVE TypeOK /\ Routing
  OBVIOUS
<1>1. queue \in Seq(Request) /\ Len(queue) <= BufferSize
  BY BufferAssumption DEF Init
<1>2. /\ accepted \in 0..MaxPosts /\ deletes \in 0..MaxDeletes
      /\ table \in [Keys -> [RequestId -> 0..MaxPosts]]
  BY BoundsAssumption DEF Init
<1>3. /\ taken \in [Keys -> Request \cup {Nothing}]
      /\ poster \in [Posters -> {NoCall} \cup [at : {"check", "send"}, key : Keys, id : RequestId]]
      /\ stream \in [Streams -> {NoCall} \cup [at : {"open", "ended"}, key : Keys]]
  BY DEF Init
<1>4. starts \in [Keys -> Nat] /\ shut \in [Keys -> BOOLEAN]
      /\ intake \in [Keys -> {"idle", "select", "busy", "done"}]
  BY DEF Init
<1> QED  BY <1>1, <1>2, <1>3, <1>4 DEF Init, TypeOK, Routing

\* Every step keeps the types, given that an intake goroutine that is busy has
\* something to be busy with.
LEMMA TypeStep == TypeOK /\ Routing /\ [Next]_vars => TypeOK' /\ Routing'
<1> SUFFICES ASSUME TypeOK, Routing, [Next]_vars PROVE TypeOK' /\ Routing'
  OBVIOUS
<1> USE DEF TypeOK, Routing, runVars, arbVars, postVars, stopVars, deleteVars
<1>1. CASE UNCHANGED vars
  BY <1>1 DEF vars
<1>2. ASSUME NEW key \in Keys, EnsureScaledObject(key) PROVE TypeOK' /\ Routing'
  <2>1. \E keys \in SUBSET Keys : startArbitrators(keys)
    BY <1>2 DEF EnsureScaledObject, ensureArbitratorLocked
  <2>2. /\ starts' \in [Keys -> Nat] /\ intake' \in [Keys -> {"idle", "select", "busy", "done"}]
        /\ \A k \in Keys : intake'[k] = "busy" => intake[k] = "busy"
    BY <2>1, StartType
  <2>3. /\ known' \subseteq Keys
        /\ UNCHANGED <<runVars, taken, table, shut, applied, postVars, stream, stopVars, deleteVars>>
    BY <1>2 DEF EnsureScaledObject, ensureArbitratorLocked
  <2> QED  BY <2>2, <2>3
<1>3. ASSUME NEW key \in Keys, IntakeUpsert(key) PROVE TypeOK' /\ Routing'
  <2>1. taken[key] \in Request
    BY <1>3 DEF IntakeUpsert
  <2>2. taken[key].seq \in 1..MaxPosts /\ taken[key].seq \in 0..MaxPosts
        /\ taken[key].id \in RequestId
    BY <2>1, BoundsAssumption DEF Request
  <2>3. table' \in [Keys -> [RequestId -> 0..MaxPosts]]
    BY <1>3, <2>2 DEF IntakeUpsert
  <2>4. taken' \in [Keys -> Request \cup {Nothing}] /\ applied' \subseteq 1..MaxPosts
        /\ intake' \in [Keys -> {"idle", "select", "busy", "done"}]
    BY <1>3, <2>2 DEF IntakeUpsert
  <2>5. \A k \in Keys : intake'[k] = "busy" => taken'[k] \in Request
    BY <1>3 DEF IntakeUpsert
  <2> QED  BY <1>3, <2>3, <2>4, <2>5 DEF IntakeUpsert
<1>4. ASSUME NEW key \in Keys, IntakeExit(key) PROVE TypeOK' /\ Routing'
  BY <1>4 DEF IntakeExit
<1>5. ASSUME NEW key \in Keys, ShutdownArbitrator(key) PROVE TypeOK' /\ Routing'
  BY <1>5 DEF ShutdownArbitrator, NoCall
<1>6. ASSUME NEW key \in Keys, NEW s \in Streams, Subscribe(s, key) PROVE TypeOK' /\ Routing'
  <2>1. /\ starts' \in [Keys -> Nat] /\ intake' \in [Keys -> {"idle", "select", "busy", "done"}]
        /\ \A k \in Keys : intake'[k] = "busy" => intake[k] = "busy"
        /\ known' \subseteq Keys
    BY <1>6, StartType DEF Subscribe, ensureArbitratorLocked
  <2>2. stream' \in [Streams -> {NoCall} \cup [at : {"open", "ended"}, key : Keys]]
    <3>1. \A a \in {"open", "ended"} :
              [at |-> a, key |-> key] \in [at : {"open", "ended"}, key : Keys]
      OBVIOUS
    <3>2. \E a \in {"open", "ended"} :
              stream' = [stream EXCEPT ![s] = [at |-> a, key |-> key]]
      BY <1>6 DEF Subscribe
    <3> QED  BY <3>1, <3>2
  <2> QED  BY <1>6, <2>1, <2>2 DEF Subscribe
<1>7. ASSUME NEW key \in Keys, NEW id \in RequestId, DeleteRequest(key, id) \/ Prune(key, id)
      PROVE  TypeOK' /\ Routing'
  <2>1. table' = [table EXCEPT ![key][id] = 0]
    BY <1>7 DEF DeleteRequest, Prune
  <2>2. table' \in [Keys -> [RequestId -> 0..MaxPosts]]
    BY <2>1, BoundsAssumption
  <2>3. CASE DeleteRequest(key, id)
    <3>1. deletes' \in 0..MaxDeletes
      BY <2>3, BoundsAssumption DEF DeleteRequest
    <3>2. deleted' \subseteq Keys \X RequestId
      BY <2>3 DEF DeleteRequest
    <3> QED  BY <2>2, <2>3, <3>1, <3>2 DEF DeleteRequest
  <2>4. CASE Prune(key, id)
    BY <2>2, <2>4 DEF Prune
  <2> QED  BY <1>7, <2>3, <2>4
<1>8. ASSUME NEW s \in Streams, Unsubscribe(s) PROVE TypeOK' /\ Routing'
  BY <1>8 DEF Unsubscribe, NoCall
<1>9. ASSUME NEW p \in Posters, NEW key \in Keys, NEW id \in RequestId, PostRequests(p, key, id)
      PROVE  TypeOK' /\ Routing'
  <2>1. deleted' \subseteq Keys \X RequestId
    BY <1>9 DEF PostRequests
  <2>2. poster' \in [Posters -> {NoCall} \cup [at : {"check", "send"}, key : Keys, id : RequestId]]
    BY <1>9 DEF PostRequests
  <2> QED  BY <1>9, <2>1, <2>2 DEF PostRequests
<1>10. ASSUME NEW p \in Posters, PostCheck(p) \/ PostCancelled(p) PROVE TypeOK' /\ Routing'
  <2>1. poster' \in [Posters -> {NoCall} \cup [at : {"check", "send"}, key : Keys, id : RequestId]]
    BY <1>10, PosterType DEF PostCheck, PostCancelled
  <2>2. UNCHANGED <<runVars, arbVars, applied, queue, accepted, stream, stopVars, deleteVars>>
    BY <1>10 DEF PostCheck, PostCancelled
  <2> QED  BY <2>1, <2>2
<1>11. ASSUME NEW p \in Posters, PostSend(p) PROVE TypeOK' /\ Routing'
  <2> DEFINE r == [seq |-> accepted', key |-> poster[p].key, id |-> poster[p].id]
  <2>1. accepted' = accepted + 1 /\ accepted' \in 1..MaxPosts /\ accepted' \in 0..MaxPosts
    BY <1>11, BoundsAssumption DEF PostSend
  <2>2. r \in Request
    BY <1>11, <2>1, PosterType DEF PostSend, Request
  <2>3. queue' = Append(queue, r)
    BY <1>11 DEF PostSend
  <2>4. queue' \in Seq(Request) /\ Len(queue') <= BufferSize
    BY <1>11, <2>2, <2>3, BufferAssumption DEF PostSend
  <2>5. poster' \in [Posters -> {NoCall} \cup [at : {"check", "send"}, key : Keys, id : RequestId]]
    BY <1>11 DEF PostSend
  <2> QED  BY <1>11, <2>1, <2>4, <2>5 DEF PostSend
<1>12. CASE RunBegin
  BY <1>12, StartType DEF RunBegin
<1>13. CASE RunReceive
  <2>1. /\ Head(queue) \in Request /\ Tail(queue) \in Seq(Request)
        /\ Len(Tail(queue)) <= BufferSize
    BY <1>13, BufferAssumption DEF RunReceive
  <2> QED  BY <1>13, <2>1 DEF RunReceive
<1>14. CASE Route
  BY <1>14 DEF Route
<1>15. CASE RunStop \/ RunReturn \/ CancelOuter
  BY <1>15 DEF RunStop, RunReturn, CancelOuter
<1>16. CASE ShutdownBegin \/ ShutdownCancel \/ ShutdownReturn
  BY <1>16 DEF ShutdownBegin, ShutdownCancel, ShutdownReturn
<1> QED
  BY <1>1, <1>2, <1>3, <1>4, <1>5, <1>6, <1>7, <1>8, <1>9, <1>10, <1>11, <1>12, <1>13,
     <1>14, <1>15, <1>16 DEF Next

-----------------------------------------------------------------------------
(* No request for an unknown key is under way. *)

\* Keys are only ever added, so what a handler has checked stays true while its
\* request waits.
LEMMA KnownStep == TypeOK /\ Routing /\ AllKnown /\ [Next]_vars => AllKnown'
<1> SUFFICES ASSUME TypeOK, Routing, AllKnown, [Next]_vars PROVE AllKnown'
  OBVIOUS
<1> USE DEF AllKnown, runVars, arbVars, postVars, stopVars, deleteVars
<1>1. CASE UNCHANGED vars
  BY <1>1 DEF vars
<1>2. ASSUME NEW key \in Keys, EnsureScaledObject(key) PROVE AllKnown'
  BY <1>2 DEF EnsureScaledObject, ensureArbitratorLocked
<1>3. ASSUME NEW key \in Keys, IntakeUpsert(key) \/ IntakeExit(key) \/ ShutdownArbitrator(key)
      PROVE  AllKnown'
  BY <1>3 DEF IntakeUpsert, IntakeExit, ShutdownArbitrator
<1>4. ASSUME NEW key \in Keys, NEW s \in Streams, Subscribe(s, key) PROVE AllKnown'
  BY <1>4 DEF Subscribe, ensureArbitratorLocked
<1>5. ASSUME NEW key \in Keys, NEW id \in RequestId, DeleteRequest(key, id) \/ Prune(key, id)
      PROVE  AllKnown'
  BY <1>5 DEF DeleteRequest, Prune
<1>6. ASSUME NEW s \in Streams, Unsubscribe(s) PROVE AllKnown'
  BY <1>6 DEF Unsubscribe
<1>7. ASSUME NEW p \in Posters, NEW key \in Keys, NEW id \in RequestId, PostRequests(p, key, id)
      PROVE  AllKnown'
  BY <1>7 DEF PostRequests, TypeOK
<1>8. ASSUME NEW p \in Posters, PostCheck(p) \/ PostCancelled(p) PROVE AllKnown'
  <2>1. poster' = [poster EXCEPT ![p] = poster'[p]] /\ poster[p] # NoCall
    BY <1>8 DEF PostCheck, PostCancelled, TypeOK
  <2>2. CASE poster'[p] = NoCall
    BY <1>8, <2>1, <2>2 DEF PostCheck, PostCancelled, TypeOK
  <2>3. CASE poster'[p] # NoCall
    <3>1. poster[p].key \in known /\ poster'[p] = [poster[p] EXCEPT !.at = "send"]
      BY <1>8, <2>3 DEF PostCheck, PostCancelled, TypeOK
    <3>2. poster'[p].key = poster[p].key
      BY <2>1, <3>1, PosterType
    <3> QED  BY <1>8, <2>1, <3>1, <3>2 DEF PostCheck, PostCancelled, TypeOK
  <2> QED  BY <2>2, <2>3
<1>9. ASSUME NEW p \in Posters, PostSend(p) PROVE AllKnown'
  <2> DEFINE r == [seq |-> accepted', key |-> poster[p].key, id |-> poster[p].id]
  <2>1. queue' = Append(queue, r) /\ r.key \in known /\ queue \in Seq(Request)
    BY <1>9 DEF PostSend, TypeOK
  <2>2. \A i \in DOMAIN queue' : queue'[i].key \in known
    BY <2>1
  <2> QED  BY <1>9, <2>2 DEF PostSend, TypeOK
<1>10. CASE RunBegin
  BY <1>10 DEF RunBegin
<1>11. CASE RunReceive
  <2>1. queue \in Seq(Request) /\ queue # <<>>
    BY <1>11 DEF RunReceive, TypeOK
  <2>2. Head(queue).key \in known /\ \A i \in DOMAIN Tail(queue) : Tail(queue)[i].key \in known
    BY <2>1
  <2> QED  BY <1>11, <2>2 DEF RunReceive
<1>12. CASE Route
  BY <1>12 DEF Route
<1>13. CASE RunStop \/ RunReturn \/ CancelOuter
  BY <1>13 DEF RunStop, RunReturn, CancelOuter
<1>14. CASE ShutdownBegin \/ ShutdownCancel \/ ShutdownReturn
  BY <1>14 DEF ShutdownBegin, ShutdownCancel, ShutdownReturn
<1> QED
  BY <1>1, <1>2, <1>3, <1>4, <1>5, <1>6, <1>7, <1>8, <1>9, <1>10, <1>11, <1>12, <1>13, <1>14
     DEF Next

-----------------------------------------------------------------------------
(* Each arbitrator is started once. *)

\* Registration starts a new arbitrator only while Run is under way, and Run
\* starts those it finds.
LEMMA StartingStep == TypeOK /\ Starting /\ [Next]_vars => Starting'
<1> SUFFICES ASSUME TypeOK, Starting, [Next]_vars PROVE Starting'
  OBVIOUS
<1> USE DEF Starting, runVars, arbVars, postVars, stopVars, deleteVars
<1>1. CASE UNCHANGED vars
  BY <1>1 DEF vars
<1>2. ASSUME NEW key \in Keys, EnsureScaledObject(key) PROVE Starting'
  <2>1. CASE canStartArbitrator
    <3>1. \A k \in Keys : starts'[k] = IF k = key THEN 1 ELSE starts[k]
      BY <1>2, <2>1, StartType DEF EnsureScaledObject, ensureArbitratorLocked
    <3> QED
      BY <1>2, <2>1, <3>1 DEF EnsureScaledObject, ensureArbitratorLocked, canStartArbitrator, TypeOK
  <2>2. CASE ~canStartArbitrator
    <3>1. \A k \in Keys : starts'[k] = starts[k]
      BY <1>2, <2>2, StartType DEF EnsureScaledObject, ensureArbitratorLocked
    <3> QED
      BY <1>2, <2>2, <3>1 DEF EnsureScaledObject, ensureArbitratorLocked, canStartArbitrator, TypeOK
  <2> QED  BY <2>1, <2>2
<1>3. ASSUME NEW key \in Keys, IntakeUpsert(key) \/ IntakeExit(key) \/ ShutdownArbitrator(key)
      PROVE  Starting'
  BY <1>3 DEF IntakeUpsert, IntakeExit, ShutdownArbitrator
<1>4. ASSUME NEW key \in Keys, NEW s \in Streams, Subscribe(s, key) PROVE Starting'
  <2>1. known' = known /\ \A k \in Keys : starts'[k] = starts[k]
    <3>1. CASE canSubscribe
      <4>1. {key} \ known = {}
        BY <1>4 DEF Subscribe
      <4>2. startArbitrators({}) /\ known' = known
        BY <1>4, <3>1, <4>1 DEF Subscribe, ensureArbitratorLocked
      <4> QED  BY <4>2, StartType
    <3>2. CASE ~canSubscribe
      BY <1>4, <3>2 DEF Subscribe
    <3> QED  BY <3>1, <3>2
  <2> QED  BY <1>4, <2>1 DEF Subscribe, TypeOK
<1>5. ASSUME NEW key \in Keys, NEW id \in RequestId, DeleteRequest(key, id) \/ Prune(key, id)
      PROVE  Starting'
  BY <1>5 DEF DeleteRequest, Prune
<1>6. ASSUME NEW s \in Streams, Unsubscribe(s) PROVE Starting'
  BY <1>6 DEF Unsubscribe
<1>7. ASSUME NEW p \in Posters, NEW key \in Keys, NEW id \in RequestId, PostRequests(p, key, id)
      PROVE  Starting'
  BY <1>7 DEF PostRequests
<1>8. ASSUME NEW p \in Posters, PostCheck(p) \/ PostCancelled(p) \/ PostSend(p) PROVE Starting'
  BY <1>8 DEF PostCheck, PostCancelled, PostSend
<1>9. CASE RunBegin
  <2>1. \A k \in Keys : starts'[k] = IF k \in known THEN 1 ELSE 0
    <3>1. known \in SUBSET Keys /\ startArbitrators(known) /\ \A k \in Keys : starts[k] = 0
      BY <1>9 DEF RunBegin, TypeOK
    <3> QED  BY <3>1, StartType
  <2> QED  BY <1>9, <2>1 DEF RunBegin, TypeOK
<1>10. CASE RunReceive \/ Route
  BY <1>10 DEF RunReceive, Route
<1>11. CASE RunStop \/ RunReturn \/ CancelOuter
  BY <1>11 DEF RunStop, RunReturn, CancelOuter
<1>12. CASE ShutdownBegin \/ ShutdownCancel \/ ShutdownReturn
  BY <1>12 DEF ShutdownBegin, ShutdownCancel, ShutdownReturn
<1> QED
  BY <1>1, <1>2, <1>3, <1>4, <1>5, <1>6, <1>7, <1>8, <1>9, <1>10, <1>11, <1>12 DEF Next

-----------------------------------------------------------------------------
(* The order of acceptance is kept. *)

\* The numbers a request or an empty hand can have.
LEMMA Numbers ==
    ASSUME TypeOK
    PROVE  /\ accepted \in Nat /\ hand.seq \in Nat
           /\ \A i \in DOMAIN queue : queue[i].seq \in Nat /\ queue[i].seq > 0
           /\ \A key \in Keys : taken[key].seq \in Nat
           /\ \A key \in Keys, id \in RequestId : table[key][id] \in Nat
           /\ hand # Nothing => hand.seq > 0
<1>1. \A r \in Request : r.seq \in Nat /\ r.seq > 0
  BY BoundsAssumption DEF Request
<1>2. \A i \in DOMAIN queue : queue[i] \in Request
  BY DEF TypeOK
<1>3. Nothing.seq \in Nat
  BY NothingIsNoRequest
<1>4. \A n \in 0..MaxPosts : n \in Nat
  BY BoundsAssumption
<1> QED  BY <1>1, <1>2, <1>3, <1>4 DEF TypeOK

\* What holds of everything an arbitrator has still holds when table entries are
\* removed or replaced by what was taken.
LEMMA OlderPreserved ==
    ASSUME TypeOK, NEW n \in Nat, OlderThan(n),
           \A key \in Keys : taken'[key].seq \in {0, taken[key].seq},
           \A key \in Keys, id \in RequestId :
               table'[key][id] \in {0, table[key][id], taken[key].seq},
           n > 0
    PROVE  OlderThan(n)'
  BY Numbers DEF OlderThan

\* Every step keeps the order: accepting appends the newest, the router takes the
\* oldest, and it has taken nothing newer before.
LEMMA InOrderStep == TypeOK /\ Routing /\ InOrder /\ [Next]_vars => InOrder'
<1> SUFFICES ASSUME TypeOK, Routing, InOrder, [Next]_vars PROVE InOrder'
  OBVIOUS
<1> USE DEF runVars, arbVars, postVars, stopVars, deleteVars
<1>1. CASE UNCHANGED <<hand, queue, accepted, taken, table>>
  BY <1>1 DEF InOrder, OlderThan
<1>2. ASSUME NEW key \in Keys, IntakeUpsert(key) PROVE InOrder'
  <2>1. UNCHANGED <<hand, queue, accepted>> /\ taken[key] \in Request
    BY <1>2 DEF IntakeUpsert, Routing
  <2>2. \A k \in Keys : taken'[k] = IF k = key THEN Nothing ELSE taken[k]
    BY <1>2 DEF IntakeUpsert, TypeOK
  <2>3. \A k \in Keys, id \in RequestId :
            table'[k][id] \in IF k = key THEN {table[k][id], taken[k].seq} ELSE {table[k][id]}
    BY <1>2 DEF IntakeUpsert, TypeOK
  <2>4. \A n \in Nat : n > 0 /\ OlderThan(n) => OlderThan(n)'
    BY <2>2, <2>3, NothingIsNoRequest, OlderPreserved
  <2>5. \A k \in Keys : taken'[k] # Nothing => \A i \in RequestId : table'[k][i] < taken'[k].seq
    BY <2>2, <2>3 DEF InOrder
  <2>6. \A i \in DOMAIN queue : OlderThan(queue[i].seq)'
    BY <2>1, <2>4, Numbers DEF InOrder
  <2>7. (hand # Nothing => OlderThan(hand.seq)') /\ OlderThan(accepted + 1)'
    BY <2>1, <2>4, Numbers DEF InOrder
  <2> QED  BY <2>1, <2>5, <2>6, <2>7 DEF InOrder
<1>3. ASSUME NEW key \in Keys, NEW id \in RequestId, DeleteRequest(key, id) \/ Prune(key, id)
      PROVE  InOrder'
  <2>1. UNCHANGED <<hand, queue, accepted, taken>> /\ table' = [table EXCEPT ![key][id] = 0]
    BY <1>3 DEF DeleteRequest, Prune
  <2>2. \A k \in Keys, i \in RequestId : table'[k][i] \in {0, table[k][i]}
    BY <2>1 DEF TypeOK
  <2>3. \A n \in Nat : n > 0 /\ OlderThan(n) => OlderThan(n)'
    BY <2>1, <2>2, OlderPreserved
  <2>4. \A k \in Keys : taken[k] # Nothing => taken[k].seq > 0
    BY BoundsAssumption DEF TypeOK, Request
  <2>5. \A k \in Keys : taken'[k] # Nothing => \A i \in RequestId : table'[k][i] < taken'[k].seq
    BY <2>1, <2>2, <2>4 DEF InOrder
  <2>6. \A i \in DOMAIN queue : OlderThan(queue[i].seq)'
    BY <2>1, <2>3, Numbers DEF InOrder
  <2>7. (hand # Nothing => OlderThan(hand.seq)') /\ OlderThan(accepted + 1)'
    BY <2>1, <2>3, Numbers DEF InOrder
  <2> QED  BY <2>1, <2>5, <2>6, <2>7 DEF InOrder
<1>4. ASSUME NEW p \in Posters, PostSend(p) PROVE InOrder'
  <2> DEFINE r == [seq |-> accepted', key |-> poster[p].key, id |-> poster[p].id]
  <2>1. /\ UNCHANGED <<hand, taken, table>> /\ accepted' = accepted + 1
        /\ queue' = Append(queue, r) /\ queue \in Seq(Request)
    BY <1>4 DEF PostSend, TypeOK
  <2>2. /\ Len(queue') = Len(queue) + 1 /\ DOMAIN queue' = 1..Len(queue') /\ Len(queue) \in Nat
        /\ \A i \in DOMAIN queue' : queue'[i] = IF i \in DOMAIN queue THEN queue[i] ELSE r
        /\ DOMAIN queue = 1..Len(queue)
    BY <2>1
  <2>3. r.seq = accepted + 1
    BY <2>1
  <2>4. \A n : OlderThan(n)' = OlderThan(n)
    BY <2>1 DEF OlderThan
  <2>5. OlderThan(accepted + 1) => OlderThan(accepted + 1 + 1)
    BY Numbers DEF OlderThan
  <2>6. \A i, j \in DOMAIN queue' : i < j => queue'[i].seq < queue'[j].seq
    BY <2>2, <2>3, Numbers DEF InOrder
  <2>7. \A i \in DOMAIN queue' : /\ hand.seq < queue'[i].seq /\ OlderThan(queue'[i].seq)
                                 /\ queue'[i].seq <= accepted + 1
    BY <2>2, <2>3, Numbers DEF InOrder
  <2> QED  BY <2>1, <2>4, <2>5, <2>6, <2>7, Numbers DEF InOrder
<1>5. CASE RunReceive
  <2>1. /\ queue \in Seq(Request) /\ queue # <<>> /\ hand' = Head(queue) /\ queue' = Tail(queue)
        /\ UNCHANGED <<accepted, taken, table>>
    BY <1>5 DEF RunReceive, TypeOK
  <2>2. /\ hand' = queue[1] /\ 1 \in DOMAIN queue
        /\ \A i \in DOMAIN queue' : i \in Nat /\ i >= 1 /\ i + 1 \in DOMAIN queue
                                    /\ queue'[i] = queue[i + 1]
    BY <2>1
  <2>3. \A n : OlderThan(n)' = OlderThan(n)
    BY <2>1 DEF OlderThan
  <2> QED  BY <2>1, <2>2, <2>3, Numbers DEF InOrder
<1>6. CASE Route
  <2>1. /\ UNCHANGED <<queue, accepted, table>> /\ hand \in Request /\ hand' = Nothing
        /\ taken' = [taken EXCEPT ![hand.key] = hand]
    BY <1>6 DEF Route, Routing
  <2>2. hand # Nothing /\ \A k \in Keys : taken'[k] \in {taken[k], hand}
    BY <2>1, NothingIsNoRequest DEF TypeOK
  <2>3. \A n \in Nat : hand.seq < n /\ OlderThan(n) => OlderThan(n)'
    BY <2>1, <2>2 DEF OlderThan
  <2>4. \A k \in Keys : taken'[k] # Nothing => \A id \in RequestId : table[k][id] < taken'[k].seq
    BY <2>2 DEF InOrder, OlderThan
  <2> QED  BY <2>1, <2>2, <2>3, <2>4, NothingIsNoRequest, Numbers DEF InOrder
<1>7. CASE RunStop
  BY <1>7, NothingIsNoRequest, Numbers DEF RunStop, InOrder, OlderThan
<1>8. ASSUME NEW p \in Posters,
             \/ PostCheck(p) \/ PostCancelled(p)
             \/ \E key \in Keys, id \in RequestId : PostRequests(p, key, id)
      PROVE  InOrder'
  BY <1>1, <1>8 DEF PostCheck, PostCancelled, PostRequests
<1>9. ASSUME NEW key \in Keys,
             \/ EnsureScaledObject(key) \/ IntakeExit(key) \/ ShutdownArbitrator(key)
             \/ \E s \in Streams : Subscribe(s, key)
      PROVE  InOrder'
  BY <1>1, <1>9 DEF EnsureScaledObject, IntakeExit, ShutdownArbitrator, Subscribe
<1>10. ASSUME NEW s \in Streams, Unsubscribe(s) PROVE InOrder'
  BY <1>1, <1>10 DEF Unsubscribe
<1>11. CASE RunBegin \/ RunReturn \/ CancelOuter
  BY <1>1, <1>11 DEF RunBegin, RunReturn, CancelOuter
<1>12. CASE ShutdownBegin \/ ShutdownCancel \/ ShutdownReturn
  BY <1>1, <1>12 DEF ShutdownBegin, ShutdownCancel, ShutdownReturn
<1> QED
  BY <1>1, <1>2, <1>3, <1>4, <1>5, <1>6, <1>7, <1>8, <1>9, <1>10, <1>11, <1>12 DEF Next, vars

-----------------------------------------------------------------------------
(* What an intake goroutine holds. *)

\* An arbitrator is handed a request only when it waits for one.
LEMMA TakingStep == TypeOK /\ Routing /\ Taking /\ [Next]_vars => Taking'
<1> SUFFICES ASSUME TypeOK, Routing, Taking, [Next]_vars PROVE Taking'
  OBVIOUS
<1> USE DEF Taking, runVars, arbVars, postVars, stopVars, deleteVars
<1>1. CASE UNCHANGED <<run, cancelled, shutdown, intake, taken>>
  BY <1>1
<1>2. ASSUME UNCHANGED <<run, cancelled, shutdown, taken>>,
             \A key \in Keys : intake[key] = "busy" => intake'[key] = "busy"
      PROVE  Taking'
  BY <1>2
<1>3. \A keys \in SUBSET Keys : startArbitrators(keys) =>
          \A key \in Keys : intake[key] = "busy" => intake'[key] = "busy"
  BY DEF startArbitrators
<1>4. ASSUME NEW key \in Keys, IntakeUpsert(key) PROVE Taking'
  BY <1>4 DEF IntakeUpsert, TypeOK
<1>5. ASSUME NEW key \in Keys, IntakeExit(key) PROVE Taking'
  BY <1>5 DEF IntakeExit, TypeOK
<1>6. ASSUME NEW key \in Keys,
             EnsureScaledObject(key) \/ \E s \in Streams : Subscribe(s, key)
      PROVE  Taking'
  <2>1. CASE UNCHANGED <<known, starts, intake>>
    BY <1>6, <2>1, <1>1 DEF EnsureScaledObject, Subscribe
  <2>2. CASE ensureArbitratorLocked(key)
    <3>1. \A k \in Keys : intake[k] = "busy" => intake'[k] = "busy"
      BY <2>2, <1>3 DEF ensureArbitratorLocked
    <3> QED  BY <1>6, <3>1, <1>2 DEF EnsureScaledObject, Subscribe
  <2> QED  BY <1>6, <2>1, <2>2 DEF EnsureScaledObject, Subscribe
<1>7. CASE RunBegin
  <2>1. known \in SUBSET Keys /\ startArbitrators(known)
    BY <1>7 DEF RunBegin, TypeOK
  <2> QED  BY <1>7, <2>1, <1>3 DEF RunBegin
<1>8. CASE Route
  BY <1>8 DEF Route, TypeOK
<1>9. CASE RunReceive \/ RunStop \/ RunReturn \/ CancelOuter
  BY <1>9 DEF RunReceive, RunStop, RunReturn, CancelOuter
<1>10. CASE ShutdownBegin \/ ShutdownCancel \/ ShutdownReturn
  BY <1>10 DEF ShutdownBegin, ShutdownCancel, ShutdownReturn
<1>11. ASSUME NEW key \in Keys,
              \/ ShutdownArbitrator(key)
              \/ \E id \in RequestId : DeleteRequest(key, id) \/ Prune(key, id)
       PROVE  Taking'
  BY <1>1, <1>11 DEF ShutdownArbitrator, DeleteRequest, Prune
<1>12. ASSUME NEW s \in Streams, Unsubscribe(s) PROVE Taking'
  BY <1>1, <1>12 DEF Unsubscribe
<1>13. ASSUME NEW p \in Posters,
              \/ PostCheck(p) \/ PostSend(p) \/ PostCancelled(p)
              \/ \E key \in Keys, id \in RequestId : PostRequests(p, key, id)
       PROVE  Taking'
  BY <1>1, <1>13 DEF PostCheck, PostSend, PostCancelled, PostRequests
<1> QED
  BY <1>1, <1>4, <1>5, <1>6, <1>7, <1>8, <1>9, <1>10, <1>11, <1>12, <1>13 DEF Next, vars

-----------------------------------------------------------------------------
(* The arbitrators that Run may hand a request to. *)

\* An arbitrator that is started has an intake goroutine from then on.
LEMMA StartIntake ==
    ASSUME TypeOK, NEW keys \in SUBSET Keys, startArbitrators(keys), NEW key \in Keys
    PROVE  /\ starts'[key] = 0 <=> starts[key] = 0 /\ key \notin keys
           /\ intake'[key] = "idle" <=> intake[key] = "idle" /\ key \notin keys
           /\ intake'[key] = "done" <=> intake[key] = "done"
<1>1. starts[key] \in Nat /\ starts'[key] = IF key \in keys THEN starts[key] + 1 ELSE starts[key]
  BY StartType DEF TypeOK
<1>2. intake'[key] = IF key \in keys /\ intake[key] = "idle" THEN "select" ELSE intake[key]
  BY DEF startArbitrators
<1> QED  BY <1>1, <1>2

\* Before Run there is no intake goroutine; afterwards one ends only when Run's
\* context is cancelled or its arbitrator is shut down.
LEMMA ServingStep == TypeOK /\ Starting /\ Serving /\ [Next]_vars => Serving'
<1> SUFFICES ASSUME TypeOK, Starting, Serving, [Next]_vars PROVE Serving'
  OBVIOUS
<1> USE DEF Serving, runVars, arbVars, postVars, stopVars, deleteVars
<1>1. CASE UNCHANGED <<run, status, cancelled, shutdown, shut, starts, intake>>
  BY <1>1
<1>2. ASSUME NEW key \in Keys,
             EnsureScaledObject(key) \/ \E s \in Streams : Subscribe(s, key)
      PROVE  Serving'
  <2>1. UNCHANGED <<run, status, cancelled, shutdown, shut>>
    BY <1>2 DEF EnsureScaledObject, Subscribe
  <2>2. CASE UNCHANGED <<starts, intake>>
    BY <2>1, <2>2, <1>1
  <2>3. CASE ensureArbitratorLocked(key)
    <3>1. \E keys \in SUBSET Keys : startArbitrators(keys)
      BY <2>3 DEF ensureArbitratorLocked
    <3>2. \A k \in Keys : /\ starts'[k] = 0 <=> intake'[k] = "idle"
                          /\ intake'[k] = "done" => intake[k] = "done"
      BY <3>1, StartIntake
    <3> QED  BY <2>1, <3>2
  <2> QED  BY <1>2, <2>2, <2>3 DEF EnsureScaledObject, Subscribe
<1>3. ASSUME NEW key \in Keys, IntakeUpsert(key) PROVE Serving'
  BY <1>3 DEF IntakeUpsert, TypeOK
<1>4. ASSUME NEW key \in Keys, IntakeExit(key) PROVE Serving'
  BY <1>4 DEF IntakeExit, ArbitratorStopping, TypeOK
<1>5. ASSUME NEW key \in Keys, ShutdownArbitrator(key) PROVE Serving'
  BY <1>5 DEF ShutdownArbitrator, TypeOK
<1>6. CASE RunBegin
  <2>1. known \in SUBSET Keys /\ startArbitrators(known) /\ UNCHANGED <<shutdown, shut>>
        /\ status' = "Running"
    BY <1>6 DEF RunBegin, TypeOK
  <2>2. \A k \in Keys : starts[k] = 0 /\ intake[k] = "idle"
    BY <1>6 DEF RunBegin, Starting
  <2>3. \A k \in Keys : /\ starts'[k] = 0 <=> intake'[k] = "idle"
                        /\ intake'[k] # "done"
    BY <2>1, <2>2, StartIntake
  <2> QED  BY <2>1, <2>3
<1>7. CASE Route
  BY <1>7 DEF Route, TypeOK
<1>8. CASE RunReceive \/ RunStop \/ RunReturn \/ CancelOuter
  <2>1. UNCHANGED <<shutdown, shut, starts, intake>>
    BY <1>8 DEF RunReceive, RunStop, RunReturn, CancelOuter
  <2>3. cancelled => cancelled'
    BY <1>8, Zenon DEF RunReceive, RunStop, RunReturn, CancelOuter
  <2>2. run' \in {"select", "routing"} => run \in {"select", "routing"} /\ status' = status
    BY <1>8 DEF RunReceive, RunStop, RunReturn, CancelOuter
  <2> QED  BY <2>1, <2>2, <2>3
<1>9. CASE ShutdownBegin \/ ShutdownCancel \/ ShutdownReturn
  BY <1>9 DEF ShutdownBegin, ShutdownCancel, ShutdownReturn
<1>10. ASSUME NEW key \in Keys, NEW id \in RequestId, DeleteRequest(key, id) \/ Prune(key, id)
       PROVE  Serving'
  BY <1>1, <1>10 DEF DeleteRequest, Prune
<1>11. ASSUME NEW s \in Streams, Unsubscribe(s) PROVE Serving'
  BY <1>1, <1>11 DEF Unsubscribe
<1>12. ASSUME NEW p \in Posters,
              \/ PostCheck(p) \/ PostSend(p) \/ PostCancelled(p)
              \/ \E key \in Keys, id \in RequestId : PostRequests(p, key, id)
       PROVE  Serving'
  BY <1>1, <1>12 DEF PostCheck, PostSend, PostCancelled, PostRequests
<1> QED
  BY <1>1, <1>2, <1>3, <1>4, <1>5, <1>6, <1>7, <1>8, <1>9, <1>10, <1>11, <1>12 DEF Next, vars

-----------------------------------------------------------------------------
(* Subscriptions and Shutdown, if the chain calls Run first. *)

\* Once Shutdown has listed the arbitrators nobody can subscribe any more, so
\* every open subscription belongs to one on its list.
LEMMA ClosingStep ==
    ASSUME RunFirst, TypeOK, Taking, Closing, [Next]_vars
    PROVE  Closing'
<1> USE DEF Closing, runVars, arbVars, postVars, stopVars, deleteVars
<1>1. CASE UNCHANGED <<shutdown, toShut, shut, run, status, cancelled, stream, known>>
  BY <1>1
<1>2. ASSUME NEW key \in Keys, EnsureScaledObject(key) PROVE Closing'
  BY <1>2 DEF EnsureScaledObject, ensureArbitratorLocked
<1>3. ASSUME NEW key \in Keys, NEW s \in Streams, Subscribe(s, key) PROVE Closing'
  <2>1. /\ known \subseteq known' /\ key \in known /\ UNCHANGED <<shutdown, toShut, shut, run, status, cancelled>>
    BY <1>3 DEF Subscribe, ensureArbitratorLocked
  <2>2. CASE canSubscribe
    <3>1. shutdown = "no"
      BY <2>2 DEF canSubscribe
    <3>2. \A t \in Streams : stream'[t] \in {stream[t], [at |-> "open", key |-> key]}
      BY <1>3, <2>2 DEF Subscribe, TypeOK
    <3> QED  BY <2>1, <3>1, <3>2
  <2>3. CASE ~canSubscribe
    <3>1. \A t \in Streams : stream'[t] \in {stream[t], [at |-> "ended", key |-> key]}
      BY <1>3, <2>3 DEF Subscribe, TypeOK
    <3> QED  BY <2>1, <3>1
  <2> QED  BY <2>2, <2>3
<1>4. ASSUME NEW s \in Streams, Unsubscribe(s) PROVE Closing'
  <2>1. \A t \in Streams : stream'[t] # NoCall /\ stream'[t].at = "open" => stream'[t] = stream[t]
    BY <1>4 DEF Unsubscribe, TypeOK, NoCall
  <2> QED  BY <1>4, <2>1 DEF Unsubscribe
<1>5. ASSUME NEW key \in Keys, ShutdownArbitrator(key) PROVE Closing'
  <2>1. \A t \in Streams : stream'[t] # NoCall /\ stream'[t].at = "open" =>
                             stream'[t] = stream[t] /\ stream[t].key # key
    BY <1>5 DEF ShutdownArbitrator, TypeOK, NoCall
  <2>2. toShut' = toShut \ {key} /\ \A k \in Keys : k # key => shut'[k] = shut[k]
    BY <1>5 DEF ShutdownArbitrator, TypeOK
  <2> QED  BY <1>5, <2>1, <2>2 DEF ShutdownArbitrator, TypeOK
<1>6. CASE RunBegin \/ RunReceive \/ Route \/ RunStop \/ RunReturn \/ CancelOuter
  BY <1>6 DEF RunBegin, RunReceive, Route, RunStop, RunReturn, CancelOuter
<1>7. CASE ShutdownBegin
  BY <1>7 DEF ShutdownBegin, TypeOK, Taking
<1>8. CASE ShutdownCancel \/ ShutdownReturn
  BY <1>8 DEF ShutdownCancel, ShutdownReturn
<1>9. ASSUME NEW key \in Keys,
             \/ IntakeUpsert(key) \/ IntakeExit(key)
             \/ \E id \in RequestId : DeleteRequest(key, id) \/ Prune(key, id)
      PROVE  Closing'
  BY <1>1, <1>9 DEF IntakeUpsert, IntakeExit, DeleteRequest, Prune
<1>10. ASSUME NEW p \in Posters,
              \/ PostCheck(p) \/ PostSend(p) \/ PostCancelled(p)
              \/ \E key \in Keys, id \in RequestId : PostRequests(p, key, id)
       PROVE  Closing'
  BY <1>1, <1>10 DEF PostCheck, PostSend, PostCancelled, PostRequests
<1> QED
  BY <1>1, <1>2, <1>3, <1>4, <1>5, <1>6, <1>7, <1>8, <1>9, <1>10 DEF Next, vars

-----------------------------------------------------------------------------
(* The invariant of every instance, and of those where Run comes first. *)

\* A new router satisfies the invariant: nothing is under way.
LEMMA IInvInit == Init => IInv /\ Closing
<1> SUFFICES ASSUME Init PROVE IInv /\ Closing
  OBVIOUS
<1>1. TypeOK /\ Routing
  BY TypeInit
<1>2. AllKnown /\ Starting /\ Taking /\ Serving
  BY DEF Init, AllKnown, Starting, Taking, Serving
<1>3. InOrder
  BY DEF Init, InOrder, OlderThan, Nothing
<1>4. Closing
  BY DEF Init, Closing
<1> QED  BY <1>1, <1>2, <1>3, <1>4 DEF IInv

\* The invariant holds throughout, whatever the order of Run and Shutdown.
LEMMA AlwaysIInv == Spec => []IInv
<1>1. Init => IInv
  BY IInvInit
<1>2. IInv /\ [Next]_vars => IInv'
  BY TypeStep, KnownStep, StartingStep, InOrderStep, TakingStep, ServingStep DEF IInv
<1> QED  BY <1>1, <1>2, PTL DEF Spec

\* What is said of subscriptions and Shutdown needs that Run comes first.
LEMMA AlwaysClosing == ASSUME RunFirst PROVE Spec => [](IInv /\ Closing)
<1>1. Init => IInv /\ Closing
  BY IInvInit
<1>2. IInv /\ Closing /\ [Next]_vars => IInv' /\ Closing'
  BY TypeStep, KnownStep, StartingStep, InOrderStep, TakingStep, ServingStep, ClosingStep DEF IInv
<1> QED  BY <1>1, <1>2, PTL DEF Spec

-----------------------------------------------------------------------------
\* The types of the router's fields and of the locals of its goroutines.
THEOREM RouterTypeCorrect == Spec => []TypeOK
<1>1. IInv => TypeOK
  BY DEF IInv
<1> QED  BY <1>1, AlwaysIInv, PTL

\* However long a request waits between the handler's check and route's own, its
\* key is known there, and its arbitrator runs until the router is told to stop
\* (http.go:104-112, router.go:144-159): no request ends Run or holds it up for good.
THEOREM NoRequestEndsRun == Spec => []RouterSurvives
<1>1. ASSUME IInv, run = "routing", shutdown = "no", ~cancelled
      PROVE  intake[hand.key] \in {"select", "busy"}
  <2>1. hand.key \in known /\ hand.key \in Keys
    BY <1>1 DEF IInv, TypeOK, AllKnown
  <2>2. starts[hand.key] = 1 /\ ~shut[hand.key]
    BY <1>1, <2>1 DEF IInv, Starting, Serving
  <2> QED  BY <1>1, <2>1, <2>2 DEF IInv, TypeOK, Serving
<1>2. IInv => RouterSurvives
  BY <1>1 DEF IInv, AllKnown, RouterSurvives
<1> QED  BY <1>2, AlwaysIInv, PTL

\* Every arbitrator is started once, whether it is registered before Run, while
\* Run starts the others, or later (router.go:178-200, 243-250).
THEOREM StartedOnce == Spec => []ArbitratorsStarted
<1>1. IInv => Starting
  BY DEF IInv
<1>2. \A n \in {0, 1} : n <= 1
  OBVIOUS
<1>3. Starting => ArbitratorsStarted
  BY <1>2 DEF Starting, ArbitratorsStarted
<1> QED  BY <1>1, <1>3, AlwaysIInv, PTL

\* For any number of handlers and ids and any buffer, the request accepted last
\* stays (router.go:260-275, arbitrator.go:83-87).
THEOREM AcceptedOrderKept == Spec => []LastAcceptedWins
<1>1. ASSUME IInv PROVE LastAcceptedWins
  <2> USE <1>1 DEF IInv
  <2>1. /\ Len(Waiting) \in Nat /\ DOMAIN Waiting = 1..Len(Waiting)
        /\ \A i \in DOMAIN Waiting :
              IF hand = Nothing THEN i \in DOMAIN queue /\ Waiting[i] = queue[i]
              ELSE \/ i = 1 /\ Waiting[i] = hand
                   \/ i > 1 /\ i - 1 \in DOMAIN queue /\ Waiting[i] = queue[i - 1]
    <3>1. queue \in Seq(Request)
      BY DEF TypeOK
    <3>2. CASE hand = Nothing
      BY <3>1, <3>2 DEF Waiting
    <3>3. CASE hand # Nothing
      <4>1. Waiting = <<hand>> \o queue /\ hand \in Request
        BY <3>3 DEF Waiting, TypeOK
      <4>2. /\ Len(Waiting) = 1 + Len(queue) /\ Waiting[1] = hand
            /\ \A i \in 1..Len(Waiting) : i > 1 => Waiting[i] = queue[i - 1]
            /\ DOMAIN Waiting = 1..Len(Waiting)
        BY <3>1, <4>1
      <4> QED  BY <3>1, <3>3, <4>2
    <3> QED  BY <3>2, <3>3
  <2>2. \A i, j \in DOMAIN Waiting : i < j => Waiting[i].seq < Waiting[j].seq
    BY <2>1 DEF InOrder
  <2>3. \A i \in DOMAIN Waiting : OlderThan(Waiting[i].seq) /\ Waiting[i].key \in Keys
    <3>1. \A r \in Request : r.key \in Keys
      BY DEF Request
    <3> QED  BY <2>1, <3>1 DEF InOrder, TypeOK
  <2> QED  BY <2>2, <2>3 DEF LastAcceptedWins, InOrder, OlderThan
<1> QED  BY <1>1, AlwaysIInv, PTL

\* If the chain calls Shutdown only after Run has begun, then every subscription
\* is refused or closed before Shutdown returns (router.go:162-175, 215-237).
THEOREM SubscriptionsClosed == ASSUME RunFirst PROVE Spec => []OpenStreamsServed
<1>1. IInv /\ Closing => OpenStreamsServed
  BY DEF IInv, TypeOK, Closing, OpenStreamsServed
<1> QED  BY <1>1, AlwaysClosing, PTL

\* Under the same condition a router that was shut down stays so (router.go:214).
THEOREM StaysShutDown == ASSUME RunFirst PROVE Spec => []ShutdownStopsRouter
<1>1. Closing => ShutdownStopsRouter
  BY DEF Closing, ShutdownStopsRouter, canSubscribe
<1> QED  BY <1>1, AlwaysClosing, PTL

-----------------------------------------------------------------------------
(* Channel, router and intake goroutines implement AcceptedRequests. *)

\* A new router maps to a promise nobody has been given.
LEMMA PromiseInit == Init => Promise!Init
<1> SUFFICES ASSUME Init PROVE Promise!Init
  OBVIOUS
<1>1. UnderWay = {}
  BY DEF Init, UnderWay
<1> QED  BY <1>1 DEF Init, Promise!Init

\* Everything under way is a request, and in one place only.
LEMMA Places ==
    ASSUME TypeOK, InOrder, Taking
    PROVE  /\ UnderWay \subseteq Request
           /\ \A i \in DOMAIN queue : queue[i] # Nothing /\ queue[i] # hand
                 /\ (\A key \in Keys : queue[i] # taken[key])
                 /\ (\A j \in DOMAIN queue : i # j => queue[i] # queue[j])
           /\ hand # Nothing => \A key \in Keys : taken[key] # hand
           /\ \A key, other \in Keys : taken[key] # Nothing /\ key # other => taken[key] # taken[other]
<1>1. \A i \in DOMAIN queue : queue[i] \in Request /\ queue[i] # Nothing
  BY NothingIsNoRequest DEF TypeOK
<1>2. \A i, j \in DOMAIN queue : i # j => i < j \/ j < i
  BY DEF TypeOK
<1>3. UnderWay \subseteq Request
  BY <1>1 DEF UnderWay, TypeOK
<1>4. \A i, j \in DOMAIN queue : i # j => queue[i] # queue[j]
  BY <1>2, Numbers DEF InOrder
<1>5. \A i \in DOMAIN queue : queue[i] # hand /\ \A key \in Keys : queue[i] # taken[key]
  BY Numbers DEF InOrder, OlderThan
<1>6. hand # Nothing => \A key \in Keys : taken[key] # hand
  BY Numbers DEF InOrder, OlderThan
<1>7. \A key, other \in Keys : taken[key] # Nothing /\ key # other => taken[key] # taken[other]
  BY DEF Taking
<1> QED  BY <1>1, <1>3, <1>4, <1>5, <1>6, <1>7

\* A step that touches neither requests nor tables is at most the order to stop.
LEMMA QuietPromise ==
    ASSUME UNCHANGED <<accepted, queue, hand, taken, table>>, cancelled' \in {cancelled, TRUE}
    PROVE  [Promise!Next]_(Promise!promiseVars)
<1>1. UNCHANGED UnderWay
  BY DEF UnderWay
<1> QED  BY <1>1 DEF Promise!Next, Promise!Stop, Promise!promiseVars

\* The send to requestCh is what makes the promise.
LEMMA AcceptStep ==
    ASSUME IInv, NEW p \in Posters, PostSend(p)
    PROVE  Promise!Accept(poster[p].key, poster[p].id)
<1> DEFINE r == [seq |-> accepted + 1, key |-> poster[p].key, id |-> poster[p].id]
<1>a. TypeOK
  BY DEF IInv
<1>1. /\ accepted' = accepted + 1 /\ queue' = Append(queue, r)
      /\ UNCHANGED <<hand, taken, table, cancelled>>
  BY DEF PostSend, runVars, arbVars
<1>2. r # Nothing
  BY <1>a, Numbers, NothingIsNoRequest
<1>3. {queue'[i] : i \in DOMAIN queue'} = {queue[i] : i \in DOMAIN queue} \cup {r}
  <2> HIDE DEF r
  <2>1. queue \in Seq(Request) /\ queue' = Append(queue, r)
    BY <1>a, <1>1 DEF TypeOK
  <2>2. Len(queue) \in Nat /\ DOMAIN queue = 1..Len(queue)
    BY <2>1
  <2>3. DOMAIN queue' = 1..(Len(queue) + 1)
    BY <2>1, <2>2
  <2>4. queue'[Len(queue) + 1] = r /\ \A i \in DOMAIN queue : queue'[i] = queue[i]
    BY <2>1, <2>2
  <2> QED  BY <2>2, <2>3, <2>4
<1>4. UnderWay' = UnderWay \cup {r}
  BY <1>1, <1>2, <1>3 DEF UnderWay
<1> QED  BY <1>1, <1>4 DEF Promise!Accept

\* Every step of the router is one of the promise's, or invisible to it.
LEMMA PromiseStep == IInv /\ [Next]_vars => [Promise!Next]_(Promise!promiseVars)
<1> SUFFICES ASSUME IInv, [Next]_vars PROVE [Promise!Next]_(Promise!promiseVars)
  OBVIOUS
<1> USE DEF runVars, arbVars, postVars, stopVars, deleteVars
<1>a. TypeOK /\ Routing /\ AllKnown /\ InOrder /\ Taking
  BY DEF IInv
<1>1. CASE UNCHANGED <<accepted, queue, hand, taken, table, cancelled>>
  BY <1>1, QuietPromise
<1>2. ASSUME NEW p \in Posters, PostSend(p) PROVE Promise!Next
  <2>1. poster[p].key \in Keys /\ poster[p].id \in RequestId
    BY <1>2, <1>a, PosterType DEF PostSend
  <2> QED  BY <1>2, <2>1, AcceptStep DEF Promise!Next
<1>3. CASE RunReceive
  <2>1. /\ queue \in Seq(Request) /\ queue # <<>> /\ hand = Nothing
        /\ hand' = Head(queue) /\ queue' = Tail(queue)
        /\ UNCHANGED <<accepted, taken, table, cancelled>>
    BY <1>3, <1>a DEF RunReceive, TypeOK, Routing
  <2>2. {queue[i] : i \in DOMAIN queue} = {queue'[i] : i \in DOMAIN queue'} \cup {hand'}
    <3>1. /\ Len(queue) \in Nat \ {0} /\ DOMAIN queue = 1..Len(queue) /\ hand' = queue[1]
          /\ DOMAIN queue' = 1..(Len(queue) - 1)
          /\ \A i \in DOMAIN queue' : queue'[i] = queue[i + 1]
      BY <2>1
    <3>2. \A i \in DOMAIN queue : i = 1 \/ (i - 1 \in DOMAIN queue' /\ queue[i] = queue'[i - 1])
      BY <3>1
    <3>3. \A i \in DOMAIN queue' : i + 1 \in DOMAIN queue
      BY <3>1
    <3> QED  BY <3>1, <3>2, <3>3
  <2>3. UNCHANGED UnderWay
    BY <2>1, <2>2 DEF UnderWay
  <2> QED  BY <2>1, <2>3 DEF Promise!promiseVars
<1>4. CASE Route
  <2>1. /\ hand \in Request /\ hand.key \in Keys /\ hand' = Nothing
        /\ taken' = [taken EXCEPT ![hand.key] = hand]
        /\ UNCHANGED <<accepted, queue, table, cancelled>>
    BY <1>4, <1>a DEF Route, Routing, Request
  <2>2. taken[hand.key] = Nothing
    BY <1>4, <1>a, <2>1 DEF Route, Taking
  <2>3. {taken'[key] : key \in Keys} \ {Nothing} =
            ({taken[key] : key \in Keys} \cup {hand}) \ {Nothing}
    BY <1>a, <2>1, <2>2 DEF TypeOK
  <2>4. UNCHANGED UnderWay
    BY <2>1, <2>3 DEF UnderWay
  <2> QED  BY <2>1, <2>4 DEF Promise!promiseVars
<1>5. CASE RunStop
  <2>1. CASE run = "select"
    BY <1>5, <1>a, <2>1, QuietPromise DEF RunStop, Routing
  <2>2. CASE run # "select"
    <3>1. /\ cancelled /\ hand \in Request /\ hand' = Nothing
          /\ UNCHANGED <<accepted, queue, taken, table, cancelled>>
      BY <1>5, <1>a, <2>2 DEF RunStop, Routing, AllKnown
    <3>2. hand # Nothing /\ hand \in UnderWay
      BY <3>1, NothingIsNoRequest DEF UnderWay
    <3>3. UnderWay' = UnderWay \ {hand}
      BY <1>a, <3>1, <3>2, Places DEF UnderWay
    <3>4. Promise!Lose(hand)
      BY <3>1, <3>3 DEF Promise!Lose
    <3> QED  BY <3>2, <3>4 DEF Promise!Next
  <2> QED  BY <2>1, <2>2
<1>6. ASSUME NEW key \in Keys, IntakeUpsert(key) PROVE Promise!Next
  <2>1. /\ taken[key] \in Request /\ taken[key] # Nothing /\ taken[key].key = key
        /\ taken' = [taken EXCEPT ![key] = Nothing]
        /\ table' = [table EXCEPT ![key][taken[key].id] = taken[key].seq]
        /\ UNCHANGED <<accepted, queue, hand, cancelled>>
    BY <1>6, <1>a, NothingIsNoRequest DEF IntakeUpsert, Routing, Taking
  <2>2. taken[key] \in UnderWay
    BY <2>1 DEF UnderWay
  <2>3. {taken'[k] : k \in Keys} \ {Nothing} =
            ({taken[k] : k \in Keys} \ {Nothing}) \ {taken[key]}
    BY <1>a, <2>1, Places DEF TypeOK
  <2>4. UnderWay' = UnderWay \ {taken[key]}
    BY <1>a, <2>1, <2>3, Places DEF UnderWay
  <2>5. ASSUME NEW other \in UnderWay, other.key = taken[key].key
        PROVE  taken[key].seq <= other.seq
    <3>1. CASE \E i \in DOMAIN queue : other = queue[i]
      BY <1>a, <3>1, Numbers DEF InOrder, OlderThan
    <3>2. CASE other = hand /\ hand # Nothing
      BY <1>a, <3>2, Numbers DEF InOrder, OlderThan
    <3>3. CASE \E k \in Keys : other = taken[k] /\ taken[k] # Nothing
      BY <1>a, <2>1, <2>5, <3>3, Numbers DEF Taking
    <3> QED  BY <3>1, <3>2, <3>3 DEF UnderWay
  <2>6. Promise!TakeEffect(taken[key])
    BY <2>1, <2>4, <2>5 DEF Promise!TakeEffect
  <2> QED  BY <2>2, <2>6 DEF Promise!Next
<1>7. ASSUME NEW key \in Keys, NEW id \in RequestId, DeleteRequest(key, id) \/ Prune(key, id)
      PROVE  Promise!Next
  <2>1. /\ table' = [table EXCEPT ![key][id] = 0]
        /\ UNCHANGED <<accepted, queue, hand, taken, cancelled>>
    BY <1>7 DEF DeleteRequest, Prune
  <2>2. UNCHANGED UnderWay
    BY <2>1 DEF UnderWay
  <2>3. Promise!Remove(key, id)
    BY <2>1, <2>2 DEF Promise!Remove
  <2> QED  BY <2>3 DEF Promise!Next
<1>8. CASE RunBegin \/ RunReturn \/ CancelOuter
  BY <1>8, <1>a, QuietPromise DEF RunBegin, RunReturn, CancelOuter, Taking, TypeOK
<1>9. CASE ShutdownBegin \/ ShutdownCancel \/ ShutdownReturn
  BY <1>9, QuietPromise DEF ShutdownBegin, ShutdownCancel, ShutdownReturn
<1>10. ASSUME NEW key \in Keys,
              \/ EnsureScaledObject(key) \/ IntakeExit(key) \/ ShutdownArbitrator(key)
              \/ \E s \in Streams : Subscribe(s, key)
       PROVE  [Promise!Next]_(Promise!promiseVars)
  BY <1>1, <1>10 DEF EnsureScaledObject, IntakeExit, ShutdownArbitrator, Subscribe
<1>11. ASSUME NEW s \in Streams, Unsubscribe(s) PROVE [Promise!Next]_(Promise!promiseVars)
  BY <1>1, <1>11 DEF Unsubscribe
<1>12. ASSUME NEW p \in Posters,
              \/ PostCheck(p) \/ PostCancelled(p)
              \/ \E key \in Keys, id \in RequestId : PostRequests(p, key, id)
       PROVE  [Promise!Next]_(Promise!promiseVars)
  BY <1>1, <1>12 DEF PostCheck, PostCancelled, PostRequests
<1> QED
  BY <1>1, <1>2, <1>3, <1>4, <1>5, <1>6, <1>7, <1>8, <1>9, <1>10, <1>11, <1>12 DEF Next, vars

\* For any number of ScaledObjects, ids, handlers and any buffer, and whatever the
\* order of Run and Shutdown: what is answered 202 is neither lost before the
\* router is told to stop nor overtaken (http.go:108-122, router.go:144-159,
\* 252-273, arbitrator.go:77-92, 263-267).
THEOREM RouterKeepsPromise == Spec => KeepsPromise
<1>1. Init => Promise!Init
  BY PromiseInit
<1>2. IInv /\ [Next]_vars => [Promise!Next]_(Promise!promiseVars)
  BY PromiseStep
<1> QED  BY <1>1, <1>2, AlwaysIInv, PTL DEF Spec, KeepsPromise, Promise!Spec
-----------------------------------------------------------------------------
(* How far a deletion is final. *)

\* Whoever posts a request takes it off the list of those that are to stay away.
Unasked ==
    \A d \in deleted, p \in Posters : poster[p] # NoCall => d # <<poster[p].key, poster[p].id>>

\* No handler comes to work on a request that was deleted before, unless it was
\* posted since.
LEMMA UnaskedStep == TypeOK /\ Unasked /\ [Next]_vars => Unasked'
<1> SUFFICES ASSUME TypeOK, Unasked, [Next]_vars PROVE Unasked'
  OBVIOUS
<1> USE DEF postVars, deleteVars
<1>1. CASE UNCHANGED <<deleted, poster>>
  BY <1>1 DEF Unasked
<1>2. ASSUME NEW p \in Posters, NEW key \in Keys, NEW id \in RequestId, PostRequests(p, key, id)
      PROVE  Unasked'
  <2>1. /\ poster' = [poster EXCEPT ![p] = [at |-> "check", key |-> key, id |-> id]]
        /\ deleted' = deleted \ {<<key, id>>}
    BY <1>2 DEF PostRequests
  <2>2. poster'[p].key = key /\ poster'[p].id = id
        /\ \A q \in Posters : q # p => poster'[q] = poster[q]
    BY <2>1 DEF TypeOK
  <2> QED  BY <2>1, <2>2 DEF Unasked
<1>3. ASSUME NEW p \in Posters, PostCheck(p) \/ PostSend(p) \/ PostCancelled(p) PROVE Unasked'
  <2>1. /\ deleted' = deleted /\ poster[p] # NoCall
        /\ \A q \in Posters : q # p => poster'[q] = poster[q]
    BY <1>3 DEF PostCheck, PostSend, PostCancelled, TypeOK
  <2>2. \/ poster'[p] = NoCall
        \/ poster'[p].key = poster[p].key /\ poster'[p].id = poster[p].id
    <3>1. CASE PostSend(p) \/ PostCancelled(p)
      <4>1. poster' = [poster EXCEPT ![p] = NoCall]
        BY <3>1 DEF PostSend, PostCancelled
      <4> QED  BY <1>3, <4>1 DEF TypeOK
    <3>2. CASE PostCheck(p)
      <4>1. poster'[p] = NoCall \/ poster'[p] = [poster[p] EXCEPT !.at = "send"]
        BY <3>2 DEF PostCheck, TypeOK
      <4>2. poster[p] \in [at : {"check", "send"}, key : Keys, id : RequestId]
        BY <2>1 DEF TypeOK
      <4>3. \A call \in [at : {"check", "send"}, key : Keys, id : RequestId] :
                [call EXCEPT !.at = "send"].key = call.key /\ [call EXCEPT !.at = "send"].id = call.id
        OBVIOUS
      <4> QED  BY <1>3, <4>1, <4>2, <4>3
    <3> QED  BY <1>3, <3>1, <3>2
  <2> QED  BY <2>1, <2>2 DEF Unasked
<1>4. ASSUME NEW key \in Keys, NEW id \in RequestId, DeleteRequest(key, id) PROVE Unasked'
  <2>1. UNCHANGED poster
    BY <1>4 DEF DeleteRequest
  <2>2. CASE \E p \in Posters : poster[p] # NoCall /\ poster[p].key = key /\ poster[p].id = id
    BY <1>4, <2>1, <2>2 DEF DeleteRequest, Unasked
  <2>3. CASE ~\E p \in Posters : poster[p] # NoCall /\ poster[p].key = key /\ poster[p].id = id
    <3>1. deleted' = deleted \cup {<<key, id>>}
      BY <1>4, <2>3 DEF DeleteRequest
    <3> QED  BY <2>1, <2>3, <3>1 DEF Unasked
  <2> QED  BY <2>2, <2>3
<1>5. \/ UNCHANGED <<deleted, poster>>
      \/ \E p \in Posters : \/ PostCheck(p) \/ PostSend(p) \/ PostCancelled(p)
                            \/ \E key \in Keys, id \in RequestId : PostRequests(p, key, id)
      \/ \E key \in Keys, id \in RequestId : DeleteRequest(key, id)
  BY DEF Next, vars, EnsureScaledObject, Subscribe, Unsubscribe, IntakeUpsert, IntakeExit, Prune,
         RunBegin, RunReceive, Route, RunStop, RunReturn, CancelOuter, ShutdownBegin,
         ShutdownCancel, ShutdownArbitrator, ShutdownReturn
<1> QED  BY <1>1, <1>2, <1>3, <1>4, <1>5

\* Requests are accepted by the send to requestCh and nothing else.
LEMMA OnlySendAccepts ==
    [Next]_vars => UNCHANGED accepted \/ \E p \in Posters : PostSend(p)
  BY DEF Next, vars, postVars, EnsureScaledObject, Subscribe, Unsubscribe, PostRequests, PostCheck,
         PostCancelled, DeleteRequest, IntakeUpsert, IntakeExit, Prune, RunBegin, RunReceive,
         Route, RunStop, RunReturn, CancelOuter, ShutdownBegin, ShutdownCancel,
         ShutdownArbitrator, ShutdownReturn

\* For any number of ScaledObjects, ids, handlers and deletions: what was deleted comes
\* back only through a request that was accepted before and has not taken effect, or
\* because somebody posts it again (http.go:149-179, router.go:202-212).  The promise of
\* a 202 is what makes it so: of its steps only an acceptance brings anything new.
THEOREM DeletionsFinal == Spec => DeletedForGood
<1>1. ASSUME IInv, Unasked, [Next]_vars, NEW d \in deleted, Standing(d)' PROVE Standing(d)
  <2> DEFINE Key == d[1]
             Id  == d[2]
  <2>1. d = <<Key, Id>> /\ Key \in Keys /\ Id \in RequestId
    BY <1>1 DEF IInv, TypeOK
  <2>2. table \in [Keys -> [RequestId -> 0..MaxPosts]] /\ accepted \in Nat
    BY <1>1, BoundsAssumption DEF IInv, TypeOK
  <2>3. CASE UNCHANGED <<table, UnderWay>>
    BY <1>1, <2>3 DEF Standing
  <2>4. ASSUME NEW p \in Posters, PostSend(p) PROVE Standing(d)
    <3>1. /\ UnderWay' = UnderWay \cup
                  {[seq |-> accepted + 1, key |-> poster[p].key, id |-> poster[p].id]}
          /\ UNCHANGED table
      BY <1>1, <2>4, AcceptStep DEF Promise!Accept
    <3>2. d # <<poster[p].key, poster[p].id>>
      BY <1>1, <2>4 DEF PostSend, Unasked
    <3> QED  BY <1>1, <3>1, <3>2 DEF Standing
  <2>5. ASSUME NEW key \in Keys, NEW id \in RequestId, Promise!Remove(key, id)
        PROVE  Standing(d)
    <3>1. table'[Key][Id] # 0 => table[Key][Id] # 0
      BY <2>1, <2>2, <2>5 DEF Promise!Remove
    <3> QED  BY <1>1, <2>5, <3>1 DEF Standing, Promise!Remove
  <2>6. ASSUME NEW request \in UnderWay, Promise!TakeEffect(request) PROVE Standing(d)
    <3>1. /\ table' = [table EXCEPT ![request.key][request.id] = request.seq]
          /\ UnderWay' \subseteq UnderWay
      BY <2>6 DEF Promise!TakeEffect
    <3>2. CASE d = <<request.key, request.id>>
      BY <3>2 DEF Standing
    <3>3. CASE d # <<request.key, request.id>>
      <4>1. table'[Key][Id] = table[Key][Id]
        BY <2>1, <2>2, <3>1, <3>3
      <4> QED  BY <1>1, <3>1, <4>1 DEF Standing
    <3> QED  BY <3>2, <3>3
  <2>7. ASSUME NEW request \in UnderWay, Promise!Lose(request) PROVE Standing(d)
    BY <1>1, <2>7 DEF Standing, Promise!Lose
  <2>8. CASE UNCHANGED accepted
    <3>1. [Promise!Next]_(Promise!promiseVars)
      BY <1>1, PromiseStep
    <3>2. \A key \in Keys, id \in RequestId : ~Promise!Accept(key, id)
      BY <2>2, <2>8 DEF Promise!Accept
    <3> QED
      BY <2>3, <2>5, <2>6, <2>7, <3>1, <3>2 DEF Promise!Next, Promise!Stop, Promise!promiseVars
  <2> QED  BY <1>1, <2>4, <2>8, OnlySendAccepts
<1>2. IInv /\ Unasked /\ [Next]_vars =>
          [\A d \in deleted \cap deleted' : Standing(d)' => Standing(d)]_vars
  BY <1>1
<1>3. Init => Unasked
  BY DEF Init, Unasked
<1>4. IInv /\ Unasked /\ [Next]_vars => Unasked'
  BY UnaskedStep DEF IInv
<1> QED  BY <1>2, <1>3, <1>4, AlwaysIInv, PTL DEF Spec, DeletedForGood
=============================================================================
