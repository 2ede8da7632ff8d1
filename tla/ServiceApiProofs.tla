-------------------------- MODULE ServiceApiProofs --------------------------
(***************************************************************************)
(* The promises of ServiceApi for any calls, polls, ScaledObjects and ids, *)
(* any channel size and any horizon.                                       *)
(***************************************************************************)
EXTENDS ServiceApi, RequestNormalizationProofs, SequenceTheorems

Queued(c) == \E i \in DOMAIN queue : queue[i] = c
Held(key) == {table[key][id] : id \in RequestId} \ {None}

\* The call is a launch, whose window was computed between its start and t.
LaunchedBy(c, t) ==
    /\ op[c] # None /\ op[c].kind = "launch" /\ window[c] \in Window
    /\ \E now \in begun[c]..t : window[c] = Launched(op[c].ask, now)

CallRight(c) ==
    /\ client[c] = "idle" <=> handler[c] = "none"
    /\ handler[c] # "done" => answer[c] = None
    /\ handler[c] # "none" => op[c] # None /\ begun[c] <= clock
    /\ handler[c] \in {"check", "send"} => LaunchedBy(c, clock)
    /\ client[c] \in {"ok", "error"} =>
           answer[c] # None /\ (client[c] = "ok" <=> answer[c].status = Success[op[c].kind])

Lifecycle == \A c \in Calls : CallRight(c)

\* Exactly the accepted launches are in the channel or have left it, once.
EffectRight(c) ==
    /\ acceptedAt[c] # None <=> Queued(c) \/ c \in applied
    /\ acceptedAt[c] # None =>
           /\ handler[c] = "done" /\ LaunchedBy(c, acceptedAt[c])
           /\ answer[c] # None /\ answer[c].status = 202 /\ answer[c].window = window[c]
    /\ answer[c] # None /\ op[c].kind = "launch" /\ answer[c].status = 202 => acceptedAt[c] # None

QueueRight ==
    \A i \in DOMAIN queue :
        /\ queue[i] \notin applied
        /\ \A j \in DOMAIN queue : queue[i] = queue[j] => i = j

Effects == QueueRight /\ \A c \in Calls : EffectRight(c)

TableRight ==
    \A key \in Keys, id \in RequestId : table[key][id] # None =>
        LET c == table[key][id] IN c \in applied /\ op[c].key = key /\ op[c].id = id

RemovalRight(d) ==
    /\ removed[d] # None =>
           LET c == removed[d] IN
           /\ handler[d] = "done" /\ op[d].kind = "delete"
           /\ answer[d] # None /\ answer[d].status = 200 /\ answer[d].window = window[c]
           /\ c \in applied /\ op[c].key = op[d].key /\ op[c].id = op[d].id
           /\ table[op[d].key][op[d].id] # c
           /\ \A e \in Calls \ {d} : removed[e] # c
    /\ answer[d] # None /\ op[d].kind = "delete" /\ answer[d].status = 200 => removed[d] # None

RemovalsRight == \A d \in Calls : RemovalRight(d)

Accurate(q) ==
    LET p == poll[q] IN
    /\ (\E c \in steady[q] : window[c].start <= p.since /\ p.until <= window[c].end)
           => p.active
    /\ p.active =>
           \E c \in seen[q] : window[c].start <= p.until /\ p.since <= window[c].end

PollRight(q) ==
    /\ seen[q] \subseteq applied
    /\ poll[q].state \in {"ensured", "reading"} =>
           /\ steady[q] \subseteq Held(poll[q].key) /\ Held(poll[q].key) \subseteq seen[q]
           /\ poll[q].since <= clock
    /\ poll[q].state = "reading" => poll[q].since <= poll[q].at /\ poll[q].at <= clock
    /\ poll[q].state = "answered" => steady[q] \subseteq applied /\ Accurate(q)

Polling == \A q \in Polls : PollRight(q)

Registered ==
    /\ \A q \in Polls : poll[q].state \notin {"idle", "refused"} => poll[q].key \in known
    /\ \A c \in Calls : answer[c] # None => answer[c].keys \subseteq known

IInv == TypeOK /\ Lifecycle /\ Effects /\ TableRight /\ RemovalsRight /\ Polling /\ Registered

-----------------------------------------------------------------------------
(* Lemmas. *)

LEMMA Appended ==
    ASSUME NEW S, NEW s \in Seq(S), NEW x \in S
    PROVE  /\ Append(s, x) \in Seq(S) /\ Len(Append(s, x)) = Len(s) + 1
           /\ DOMAIN Append(s, x) = DOMAIN s \cup {Len(s) + 1} /\ Len(s) + 1 \notin DOMAIN s
           /\ \A i \in DOMAIN s : Append(s, x)[i] = s[i]
           /\ Append(s, x)[Len(s) + 1] = x
OBVIOUS

\* Where what is at position j was before position i was taken out, and where it is then.
Before(i, j) == IF j < i THEN j ELSE j + 1
After(i, j)  == IF j < i THEN j ELSE j - 1

\* t is s without what is at position i, in the same order.
TakenOut(s, i, t) ==
    /\ \A j \in DOMAIN t : /\ Before(i, j) \in DOMAIN s /\ Before(i, j) # i
                         /\ t[j] = s[Before(i, j)]
    /\ \A j \in DOMAIN s \ {i} : After(i, j) \in DOMAIN t /\ t[After(i, j)] = s[j]

LEMMA Removed ==
    ASSUME NEW S, NEW s \in Seq(S), NEW i \in DOMAIN s, NEW t, t = RemoveAt(s, i)
    PROVE  /\ s[i] \in S /\ t \in Seq(S) /\ Len(s) \in Nat /\ Len(t) = Len(s) - 1
           /\ TakenOut(s, i, t)
<1> DEFINE front == SubSeq(s, 1, i - 1)
           rest  == SubSeq(s, i + 1, Len(s))
<1>1. Len(s) \in Nat /\ i \in 1..Len(s) /\ DOMAIN s = 1..Len(s)
  OBVIOUS
<1>2. /\ front \in Seq(S) /\ Len(front) = i - 1
      /\ \A j \in 1..(i - 1) : front[j] = s[j]
  BY <1>1
<1>3. /\ rest \in Seq(S) /\ Len(rest) = Len(s) - i
      /\ \A j \in 1..(Len(s) - i) : rest[j] = s[j + i]
  BY <1>1
<1>4. t = front \o rest
  BY DEF RemoveAt
<1> HIDE DEF front, rest
<1>5. /\ t \in Seq(S) /\ Len(t) = Len(s) - 1 /\ DOMAIN t = 1..(Len(s) - 1)
      /\ \A j \in 1..(Len(s) - 1) : t[j] = IF j < i THEN s[j] ELSE s[j + 1]
  <2>1. Len(front) = i - 1 /\ Len(rest) = Len(s) - i
    BY <1>2, <1>3
  <2>2. front \o rest \in Seq(S) /\ Len(front \o rest) = Len(front) + Len(rest)
    BY <1>2, <1>3, ConcatProperties
  <2>3. \A j \in 1..(Len(front) + Len(rest)) :
            (front \o rest)[j] = IF j <= Len(front) THEN front[j] ELSE rest[j - Len(front)]
    BY <1>2, <1>3, ConcatProperties
  <2>4. ASSUME NEW j \in 1..(Len(s) - 1)
        PROVE  (front \o rest)[j] = IF j < i THEN s[j] ELSE s[j + 1]
    <3>1. CASE j < i
      BY <1>1, <1>2, <2>1, <2>3, <3>1
    <3>2. CASE ~(j < i)
      <4>1. j - (i - 1) \in 1..(Len(s) - i) /\ (j - (i - 1)) + i = j + 1
        BY <1>1, <3>2
      <4>2. (front \o rest)[j] = rest[j - (i - 1)]
        BY <1>1, <2>1, <2>3, <3>2
      <4>3. rest[j - (i - 1)] = s[(j - (i - 1)) + i]
        BY <1>3, <4>1
      <4> QED  BY <3>2, <4>1, <4>2, <4>3
    <3> QED  BY <3>1, <3>2
  <2>5. DOMAIN (front \o rest) = 1..(Len(s) - 1)
    <3>1. Len(front \o rest) = Len(s) - 1
      BY <1>1, <2>1, <2>2
    <3> QED  BY <2>2, <3>1
  <2>6. Len(front \o rest) = Len(s) - 1
    BY <1>1, <2>1, <2>2
  <2> QED  BY <1>4, <2>2, <2>4, <2>5, <2>6
<1>6. \A j \in DOMAIN t : /\ Before(i, j) \in DOMAIN s /\ Before(i, j) # i
                         /\ t[j] = s[Before(i, j)]
  BY <1>1, <1>5 DEF Before
<1>7. \A j \in DOMAIN s \ {i} : After(i, j) \in DOMAIN t /\ t[After(i, j)] = s[j]
  BY <1>1, <1>5 DEF After
<1> QED  BY <1>1, <1>5, <1>6, <1>7 DEF TakenOut

\* A launch is refused, or becomes a window.
LEMMA LaunchedType ==
    ASSUME NEW req \in LaunchRequest, NEW now \in Time
    PROVE  Launched(req, now) \in Window \cup {Refused}
<1>1. FromDomainLaunchRequest(req) \in RequestInput
  BY ConvertedInput
<1> QED  BY <1>1, LaunchedIsNormalized, NormalizedWindow

\* What an operation is for.
LEMMA OpType ==
    ASSUME TypeOK, NEW c \in Calls, op[c] # None
    PROVE  /\ op[c].kind \in {"launch", "list", "delete"} /\ op[c].key \in Keys
           /\ op[c].id \in RequestId /\ op[c].ask \in LaunchRequest
BY DEF TypeOK, Operation

\* What a deletion does.
LEMMA DeleteSteps ==
    ASSUME TypeOK, Lifecycle, NEW d \in Calls, DeleteScaledObjectRequest(d)
    PROVE  /\ op[d] # None /\ op[d].key \in Keys /\ op[d].id \in RequestId
           /\ \/ Reply(d, 404, None, {}) /\ UNCHANGED <<table, removed>>
              \/ LET launch == table[op[d].key][op[d].id] IN
                 /\ launch # None /\ launch \in Calls
                 /\ table' = [table EXCEPT ![op[d].key][op[d].id] = None]
                 /\ removed' = [removed EXCEPT ![d] = launch]
                 /\ Reply(d, 200, window[launch], {})
<1>1. op[d] # None /\ op[d].key \in Keys /\ op[d].id \in RequestId
  BY OpType DEF DeleteScaledObjectRequest, Arrived, Lifecycle, CallRight
<1>2. table[op[d].key][op[d].id] \in Calls \cup {None}
  BY <1>1 DEF TypeOK
<1> QED  BY <1>1, <1>2 DEF DeleteScaledObjectRequest

-----------------------------------------------------------------------------
(* Type correctness. *)

LEMMA TypeInit == Init => TypeOK
<1> SUFFICES ASSUME Init PROVE TypeOK
  OBVIOUS
<1>1. queue \in Seq(Calls) /\ Len(queue) <= BufferSize
  BY LimitsAssumption DEF Init
<1>2. [state |-> "idle", key |-> Blank, since |-> 0, at |-> 0, until |-> 0, active |-> FALSE]
          \in Poll
  BY DEF Poll, Time
<1>3. poll \in [Polls -> Poll]
  BY <1>2 DEF Init
<1>4. clock \in Time /\ begun \in [Calls -> Time]
  BY DEF Init, Time
<1> QED  BY <1>1, <1>3, <1>4 DEF Init, TypeOK

\* A response is well typed.
LEMMA ReplyType ==
    ASSUME TypeOK, NEW c \in Calls, NEW status \in Nat, NEW w \in Window \cup {None},
           NEW keys \in SUBSET Keys, Reply(c, status, w, keys)
    PROVE  /\ answer' \in [Calls -> Answer \cup {None}]
           /\ handler' \in [Calls -> {"none", "arriving", "check", "send", "done"}]
<1>1. [status |-> status, window |-> w, keys |-> keys] \in Answer
  BY DEF Answer
<1> QED  BY <1>1 DEF Reply, TypeOK

\* What a poll becomes is well typed, if the new record is.
LEMMA PollType ==
    ASSUME TypeOK, NEW q \in Polls, NEW p \in Poll, poll' = [poll EXCEPT ![q] = p]
    PROVE  poll' \in [Polls -> Poll]
BY DEF TypeOK

\* So is what a poll sees, of a table that is.
LEMMA WatchType ==
    ASSUME TypeOK, Registered', poll' \in [Polls -> Poll], known' \subseteq Keys,
           table' \in [Keys -> [RequestId -> Calls \cup {None}]], Watch
    PROVE  seen' \in [Polls -> SUBSET Calls] /\ steady' \in [Polls -> SUBSET Calls]
<1>1. ASSUME NEW q \in Polls, UnderWay(q) PROVE Observe(q) \subseteq Calls
  <2>1. poll'[q].key \in Keys
    BY <1>1 DEF Registered, UnderWay
  <2> QED  BY <2>1 DEF Observe
<1> QED  BY <1>1 DEF Watch, TypeOK

\* What KEDA and the clients have been told of stays in the router's map.
LEMMA RegisteredStep == IInv /\ [Next]_vars => Registered'
<1> SUFFICES ASSUME IInv, [Next]_vars PROVE Registered'
  OBVIOUS
<1>1. TypeOK /\ Lifecycle /\ Registered
  BY DEF IInv
<1>2. known \subseteq known'
  BY DEF Next, vars, storeVars, callVars, history, watch, Tick, Begin, GiveUp, Lose, Return, Serve,
         PostRequests, PostCheck, PostSend, PostCancelled, ListScaledObjects,
         DeleteScaledObjectRequest, Apply, Prune, StreamIsActive, RefuseRef, GetMetricSpec,
         EnsureScaledObject, IsActive, CheckIfActive
<1>3. ASSUME NEW q \in Polls, poll'[q].state \notin {"idle", "refused"}
      PROVE  poll'[q].key \in known'
  <2>1. CASE poll' = poll
    BY <1>1, <1>2, <1>3, <2>1 DEF Registered
  <2>2. CASE \E r \in Polls : RefuseRef(r)
    BY <1>1, <1>2, <1>3, <2>2 DEF Registered, RefuseRef, TypeOK
  <2>3. CASE \E r \in Polls, key \in Keys : GetMetricSpec(r, key) \/ EnsureScaledObject(r, key)
    <3>1. PICK r \in Polls, key \in Keys : GetMetricSpec(r, key) \/ EnsureScaledObject(r, key)
      BY <2>3
    <3>2. key \in known'
      BY <3>1 DEF GetMetricSpec, EnsureScaledObject
    <3>3. poll'[r].key = key /\ \A p \in Polls \ {r} : poll'[p] = poll[p]
      BY <1>1, <3>1 DEF GetMetricSpec, EnsureScaledObject, TypeOK, Poll
    <3> QED  BY <1>1, <1>2, <1>3, <3>2, <3>3 DEF Registered
  <2>4. CASE \E r \in Polls : IsActive(r)
    BY <1>1, <1>2, <1>3, <2>4 DEF Registered, IsActive, TypeOK
  <2>5. CASE \E r \in Polls : CheckIfActive(r)
    BY <1>1, <1>2, <1>3, <2>5 DEF Registered, CheckIfActive, TypeOK
  <2> QED  BY <2>1, <2>2, <2>3, <2>4, <2>5
           DEF Next, vars, history, watch, storeVars, callVars, Tick, Begin, GiveUp, Lose, Return,
               Serve, PostRequests, PostCheck, PostSend, PostCancelled, ListScaledObjects,
               DeleteScaledObjectRequest, Apply, Prune, StreamIsActive
<1>4. ASSUME NEW c \in Calls, answer'[c] # None PROVE answer'[c].keys \subseteq known'
  <2>1. CASE answer' = answer
    BY <1>1, <1>2, <1>4, <2>1 DEF Registered
  <2>2. ASSUME NEW d \in Calls, NEW status, NEW w, NEW keys \in SUBSET known,
               Reply(d, status, w, keys)
        PROVE  answer'[c].keys \subseteq known'
    BY <1>1, <1>2, <1>4, <2>2 DEF Registered, Reply, TypeOK
  <2>3. \A d \in Calls : DeleteScaledObjectRequest(d) => 
            \E status, w : Reply(d, status, w, {})
    BY <1>1, DeleteSteps
  <2>4. \A d \in Calls : PostRequests(d) \/ PostCheck(d) \/ PostSend(d) \/ PostCancelled(d)
            \/ ListScaledObjects(d) =>
            answer' = answer \/ \E status, w : \E keys \in SUBSET known :
                                      Reply(d, status, w, keys)
    BY DEF PostRequests, PostCheck, PostSend, PostCancelled, ListScaledObjects
  <2>5. answer' = answer \/ \E d \in Calls : Serve(d)
    BY DEF Next, vars, history, watch, storeVars, callVars, Tick, Begin, GiveUp, Lose, Return,
           Apply, Prune, StreamIsActive, RefuseRef, GetMetricSpec,
           EnsureScaledObject, IsActive, CheckIfActive
  <2>6. ASSUME NEW d \in Calls, Serve(d)
        PROVE  answer' = answer \/ \E status, w : \E keys \in SUBSET known :
                                       Reply(d, status, w, keys)
    BY <2>3, <2>4, <2>6 DEF Serve
  <2> QED  BY <2>1, <2>2, <2>5, <2>6
<1> QED  BY <1>3, <1>4 DEF Registered

LEMMA TypeStep == IInv /\ [Next]_vars => TypeOK'
<1> SUFFICES ASSUME IInv, [Next]_vars PROVE TypeOK'
  OBVIOUS
<1>1. TypeOK /\ Lifecycle /\ Registered'
  BY RegisteredStep DEF IInv
<1>2. CASE Tick
  BY <1>1, <1>2, LimitsAssumption
     DEF TypeOK, Tick, Time, storeVars, callVars, history, watch
<1>3. ASSUME NEW c \in Calls, NEW o \in Operations, Begin(c, o) PROVE TypeOK'
  BY <1>1, <1>3, OpsAssumption, NoneAssumption DEF TypeOK, Begin, storeVars, watch
<1>4. ASSUME NEW c \in Calls, GiveUp(c) \/ Lose(c) \/ Return(c) PROVE TypeOK'
  BY <1>1, <1>4 DEF TypeOK, GiveUp, Lose, Return, storeVars, history, watch
<1>5. ASSUME NEW c \in Calls, PostRequests(c) PROVE TypeOK'
  <2>1. Launched(op[c].ask, clock) \in Window \cup {Refused}
    BY <1>1, <1>5, OpType, LaunchedType DEF PostRequests, Arrived, Lifecycle, CallRight, TypeOK
  <2>2. CASE Reply(c, 400, None, {}) /\ UNCHANGED window
    <3>1. /\ answer' \in [Calls -> Answer \cup {None}]
          /\ handler' \in [Calls -> {"none", "arriving", "check", "send", "done"}]
      BY <1>1, <2>2, ReplyType
    <3> QED  BY <1>1, <1>5, <2>2, <3>1 DEF TypeOK, PostRequests, storeVars, history, watch
  <2>3. CASE /\ UNCHANGED answer /\ Launched(op[c].ask, clock) # Refused
             /\ window' = [window EXCEPT ![c] = Launched(op[c].ask, clock)]
             /\ handler' = [handler EXCEPT ![c] = "check"]
    <3>1. window' \in [Calls -> Window \cup {None}]
      BY <1>1, <2>1, <2>3 DEF TypeOK
    <3> QED  BY <1>1, <1>5, <2>3, <3>1 DEF TypeOK, PostRequests, storeVars, history, watch
  <2> QED  BY <1>5, <2>2, <2>3 DEF PostRequests
<1>6. ASSUME NEW c \in Calls, PostCheck(c) PROVE TypeOK'
  <2>1. CASE Reply(c, 404, None, {})
    <3>1. /\ answer' \in [Calls -> Answer \cup {None}]
          /\ handler' \in [Calls -> {"none", "arriving", "check", "send", "done"}]
      BY <1>1, <2>1, ReplyType
    <3> QED  BY <1>1, <1>6, <2>1, <3>1 DEF TypeOK, PostCheck, storeVars, history, watch
  <2>2. CASE UNCHANGED answer /\ handler' = [handler EXCEPT ![c] = "send"]
    BY <1>1, <1>6, <2>2 DEF TypeOK, PostCheck, storeVars, history, watch
  <2> QED  BY <1>6, <2>1, <2>2 DEF PostCheck
<1>7. ASSUME NEW c \in Calls, PostSend(c) PROVE TypeOK'
  <2>1. queue' \in Seq(Calls) /\ Len(queue') <= BufferSize
    BY <1>1, <1>7, Appended, LimitsAssumption DEF PostSend, TypeOK
  <2>2. /\ answer' \in [Calls -> Answer \cup {None}]
        /\ handler' \in [Calls -> {"none", "arriving", "check", "send", "done"}]
    <3>1. Reply(c, 202, window[c], {})
      BY <1>7 DEF PostSend
    <3>2. window[c] \in Window \cup {None}
      BY <1>1 DEF TypeOK
    <3> QED  BY <1>1, <3>1, <3>2, ReplyType
  <2> QED  BY <1>1, <1>7, <2>1, <2>2 DEF TypeOK, PostSend, watch
<1>8. ASSUME NEW c \in Calls, PostCancelled(c) \/ ListScaledObjects(c) PROVE TypeOK'
  <2>1. /\ answer' \in [Calls -> Answer \cup {None}]
        /\ handler' \in [Calls -> {"none", "arriving", "check", "send", "done"}]
    <3>1. known \in SUBSET Keys
      BY <1>1 DEF TypeOK
    <3>2. Reply(c, 408, None, {}) \/ Reply(c, 200, None, known)
      BY <1>8 DEF PostCancelled, ListScaledObjects
    <3> QED  BY <1>1, <3>1, <3>2, ReplyType
  <2> QED  BY <1>1, <1>8, <2>1
           DEF TypeOK, PostCancelled, ListScaledObjects, storeVars, history, watch
<1>9. ASSUME NEW c \in Calls, DeleteScaledObjectRequest(c) PROVE TypeOK'
  <2>1. /\ answer' \in [Calls -> Answer \cup {None}]
        /\ handler' \in [Calls -> {"none", "arriving", "check", "send", "done"}]
        /\ table' \in [Keys -> [RequestId -> Calls \cup {None}]]
        /\ removed' \in [Calls -> Calls \cup {None}]
    <3>1. CASE Reply(c, 404, None, {}) /\ UNCHANGED <<table, removed>>
      <4>1. /\ answer' \in [Calls -> Answer \cup {None}]
            /\ handler' \in [Calls -> {"none", "arriving", "check", "send", "done"}]
        BY <1>1, <3>1, ReplyType
      <4> QED  BY <1>1, <3>1, <4>1 DEF TypeOK
    <3>2. CASE LET launch == table[op[c].key][op[c].id] IN
               /\ launch # None /\ launch \in Calls
               /\ table' = [table EXCEPT ![op[c].key][op[c].id] = None]
               /\ removed' = [removed EXCEPT ![c] = launch]
               /\ Reply(c, 200, window[launch], {})
      <4>1. PICK launch \in Calls :
                /\ table' = [table EXCEPT ![op[c].key][op[c].id] = None]
                /\ removed' = [removed EXCEPT ![c] = launch]
                /\ Reply(c, 200, window[launch], {})
        BY <3>2
      <4>2. window[launch] \in Window \cup {None}
        BY <1>1 DEF TypeOK
      <4>3. /\ answer' \in [Calls -> Answer \cup {None}]
            /\ handler' \in [Calls -> {"none", "arriving", "check", "send", "done"}]
        BY <1>1, <4>1, <4>2, ReplyType
      <4> QED  BY <1>1, <4>1, <4>3 DEF TypeOK
    <3> QED  BY <1>1, <1>9, <3>1, <3>2, DeleteSteps
  <2>2. seen' \in [Polls -> SUBSET Calls] /\ steady' \in [Polls -> SUBSET Calls]
    BY <1>1, <1>9, <2>1, WatchType DEF DeleteScaledObjectRequest, TypeOK
  <2> QED  BY <1>1, <1>9, <2>1, <2>2 DEF TypeOK, DeleteScaledObjectRequest
<1>10. CASE Apply
  <2>1. /\ queue' \in Seq(Calls) /\ Len(queue') <= BufferSize /\ applied' \subseteq Calls
        /\ table' \in [Keys -> [RequestId -> Calls \cup {None}]]
    <3>1. PICK i \in DOMAIN queue :
              /\ queue' = RemoveAt(queue, i) /\ applied' = applied \cup {queue[i]}
              /\ table' = [table EXCEPT ![op[queue[i]].key][op[queue[i]].id] = queue[i]]
      BY <1>10 DEF Apply
    <3>2. queue[i] \in Calls /\ queue' \in Seq(Calls) /\ Len(queue') <= BufferSize
      BY <1>1, <3>1, Removed, LimitsAssumption DEF TypeOK
    <3> QED  BY <1>1, <3>1, <3>2 DEF TypeOK
  <2>2. seen' \in [Polls -> SUBSET Calls] /\ steady' \in [Polls -> SUBSET Calls]
    BY <1>1, <1>10, <2>1, WatchType DEF Apply, TypeOK
  <2> QED  BY <1>1, <1>10, <2>1, <2>2 DEF TypeOK, Apply, callVars
<1>11. ASSUME NEW key \in Keys, Prune(key) PROVE TypeOK'
  <2>1. table' \in [Keys -> [RequestId -> Calls \cup {None}]]
    BY <1>1, <1>11 DEF TypeOK, Prune
  <2>2. seen' \in [Polls -> SUBSET Calls] /\ steady' \in [Polls -> SUBSET Calls]
    BY <1>1, <1>11, <2>1, WatchType DEF Prune, TypeOK
  <2> QED  BY <1>1, <1>11, <2>1, <2>2 DEF TypeOK, Prune, callVars, history
<1>12. ASSUME NEW key \in Keys, StreamIsActive(key) PROVE TypeOK'
  BY <1>1, <1>12 DEF TypeOK, StreamIsActive, callVars, history, watch
<1>13. ASSUME NEW q \in Polls, poll' \in [Polls -> Poll],
              RefuseRef(q) \/ IsActive(q) \/ CheckIfActive(q)
                  \/ \E key \in Keys : GetMetricSpec(q, key)
       PROVE  TypeOK'
  BY <1>1, <1>13 DEF TypeOK, RefuseRef, IsActive, CheckIfActive, GetMetricSpec,
                     storeVars, callVars, history, watch
<1>14. ASSUME NEW q \in Polls, NEW key \in Keys, EnsureScaledObject(q, key) PROVE TypeOK'
  <2>1. poll' \in [Polls -> Poll]
    <3>1. poll[q] \in Poll /\ clock \in Time
      BY <1>1 DEF TypeOK
    <3>2. [poll[q] EXCEPT !.state = "ensured", !.key = key, !.since = clock] \in Poll
      BY <3>1 DEF Poll
    <3>3. poll' = [poll EXCEPT ![q] =
              [poll[q] EXCEPT !.state = "ensured", !.key = key, !.since = clock]]
      BY <1>14 DEF EnsureScaledObject
    <3> QED  BY <1>1, <3>2, <3>3, PollType
  <2>2. seen' \in [Polls -> SUBSET Calls] /\ steady' \in [Polls -> SUBSET Calls]
    BY <1>1, <1>14, <2>1, WatchType DEF EnsureScaledObject, TypeOK
  <2> QED  BY <1>1, <1>14, <2>1, <2>2 DEF TypeOK, EnsureScaledObject, callVars, history
<1>15. ASSUME NEW q \in Polls, RefuseRef(q) \/ IsActive(q) \/ CheckIfActive(q)
                   \/ \E key \in Keys : GetMetricSpec(q, key)
       PROVE  poll' \in [Polls -> Poll]
  <2>1. poll[q] \in Poll /\ clock \in Time
    BY <1>1 DEF TypeOK
  <2>2. CASE RefuseRef(q)
    <3>1. [poll[q] EXCEPT !.state = "refused"] \in Poll
      BY <2>1 DEF Poll
    <3> QED  BY <1>1, <2>2, <3>1, PollType DEF RefuseRef
  <2>3. CASE IsActive(q)
    <3>1. [poll[q] EXCEPT !.state = "reading", !.at = clock] \in Poll
      BY <2>1 DEF Poll
    <3>2. poll' = [poll EXCEPT ![q] = [poll[q] EXCEPT !.state = "reading", !.at = clock]]
      BY <2>3 DEF IsActive
    <3> QED  BY <1>1, <3>1, <3>2, PollType
  <2>4. CASE CheckIfActive(q)
    <3> DEFINE active == \E c \in {table[poll[q].key][id] : id \in RequestId} \ {None} :
                             shouldActivate(window[c], poll[q].at)
    <3>1. \A b \in BOOLEAN :
              [poll[q] EXCEPT !.state = "answered", !.until = clock, !.active = b] \in Poll
      BY <2>1 DEF Poll
    <3>2. poll' = [poll EXCEPT ![q] =
              [poll[q] EXCEPT !.state = "answered", !.until = clock, !.active = active]]
      BY <2>4 DEF CheckIfActive
    <3>3. active \in BOOLEAN
      OBVIOUS
    <3> QED  BY <1>1, <3>1, <3>2, <3>3, PollType
  <2>5. CASE \E key \in Keys : GetMetricSpec(q, key)
    <3>1. PICK key \in Keys : GetMetricSpec(q, key)
      BY <2>5
    <3>2. [poll[q] EXCEPT !.state = "registered", !.key = key] \in Poll
      BY <2>1 DEF Poll
    <3>3. poll' = [poll EXCEPT ![q] = [poll[q] EXCEPT !.state = "registered", !.key = key]]
      BY <3>1 DEF GetMetricSpec
    <3> QED  BY <1>1, <3>2, <3>3, PollType
  <2> QED  BY <1>15, <2>2, <2>3, <2>4, <2>5
<1>16. CASE UNCHANGED vars
  BY <1>1, <1>16 DEF TypeOK, vars, storeVars, callVars, history, watch
<1> QED
  BY <1>2, <1>3, <1>4, <1>5, <1>6, <1>7, <1>8, <1>9, <1>10, <1>11, <1>12, <1>13, <1>14, <1>15,
     <1>16 DEF Next, Serve

-----------------------------------------------------------------------------
(* The life of a call. *)

\* Only its own steps change a call; once its handler is done, only the client does.
LEMMA DoneStays ==
    ASSUME IInv, [Next]_vars, NEW c \in Calls, handler[c] = "done"
    PROVE  /\ op'[c] = op[c] /\ begun'[c] = begun[c] /\ handler'[c] = "done"
           /\ window'[c] = window[c] /\ answer'[c] = answer[c]
           /\ acceptedAt'[c] = acceptedAt[c] /\ removed'[c] = removed[c]
<1>1. TypeOK /\ Lifecycle
  BY DEF IInv
<1>2. CASE \E d \in Calls, o \in Operations : Begin(d, o)
  BY <1>1, <1>2 DEF Begin, TypeOK, Lifecycle, CallRight
<1>3. CASE \E d \in Calls : PostRequests(d) \/ PostCheck(d) \/ PostSend(d) \/ PostCancelled(d)
                              \/ ListScaledObjects(d) \/ Lose(d)
  <2>1. PICK d \in Calls : PostRequests(d) \/ PostCheck(d) \/ PostSend(d) \/ PostCancelled(d)
                              \/ ListScaledObjects(d) \/ Lose(d)
    BY <1>3
  <2>2. handler[d] # "done"
    BY <2>1 DEF PostRequests, PostCheck, PostSend, PostCancelled, ListScaledObjects, Lose, Arrived
  <2>3. d # c
    BY <2>2
  <2> QED  BY <1>1, <2>1, <2>3
           DEF PostRequests, PostCheck, PostSend, PostCancelled, ListScaledObjects, Lose, Reply,
               TypeOK, storeVars, history, watch
<1>4. CASE \E d \in Calls : DeleteScaledObjectRequest(d)
  <2>1. PICK d \in Calls : DeleteScaledObjectRequest(d)
    BY <1>4
  <2>2. handler[d] # "done"
    BY <2>1 DEF DeleteScaledObjectRequest, Arrived
  <2>3. d # c
    BY <2>2
  <2>4. UNCHANGED <<op, begun, window, acceptedAt>>
    BY <2>1 DEF DeleteScaledObjectRequest
  <2>5. \/ UNCHANGED removed
        \/ \E launch : removed' = [removed EXCEPT ![d] = launch]
    BY <1>1, <2>1, DeleteSteps
  <2>6. \E status, w : Reply(d, status, w, {})
    BY <1>1, <2>1, DeleteSteps
  <2> QED  BY <1>1, <2>3, <2>4, <2>5, <2>6 DEF Reply, TypeOK
<1>5. CASE UNCHANGED <<op, begun, handler, window, answer, acceptedAt, removed>>
  BY <1>5
<1> QED
  BY <1>2, <1>3, <1>4, <1>5
  DEF Next, Serve, vars, storeVars, callVars, history, watch, Tick, GiveUp, Return, Apply, Prune,
      StreamIsActive, RefuseRef, GetMetricSpec, EnsureScaledObject, IsActive, CheckIfActive

\* What a launch was computed from stays there while time passes.
LEMMA LaunchedByStays ==
    ASSUME NEW c, NEW t \in Time, NEW u \in Time, t <= u, begun[c] \in Time, LaunchedBy(c, t),
           op'[c] = op[c], window'[c] = window[c], begun'[c] = begun[c]
    PROVE  /\ op'[c] # None /\ op'[c].kind = "launch" /\ window'[c] \in Window
           /\ \E now \in begun'[c]..u : window'[c] = Launched(op'[c].ask, now)
<1>1. begun[c]..t \subseteq begun[c]..u
  BY DEF Time
<1> QED  BY <1>1 DEF LaunchedBy

LEMMA LifecycleStep == IInv /\ [Next]_vars => Lifecycle'
<1> SUFFICES ASSUME IInv, [Next]_vars, NEW c \in Calls PROVE CallRight(c)'
  BY DEF Lifecycle
<1>1. TypeOK /\ TypeOK' /\ CallRight(c)
  BY TypeStep DEF IInv, Lifecycle
<1>2. clock \in Time /\ clock' \in Time /\ clock <= clock' /\ begun[c] \in Time
  <2>1. clock \in Nat /\ clock' \in Nat /\ begun[c] \in Time
    BY <1>1 DEF TypeOK, Time
  <2>2. clock' = clock \/ clock' = clock + 1
    BY DEF Next, Serve, vars, storeVars, callVars, history, watch, Tick, Begin, GiveUp, Lose,
           Return, PostRequests, PostCheck, PostSend, PostCancelled, ListScaledObjects,
           DeleteScaledObjectRequest, Apply, Prune, StreamIsActive, RefuseRef, GetMetricSpec,
           EnsureScaledObject, IsActive, CheckIfActive
  <2> QED  BY <2>1, <2>2 DEF Time
<1>3. ASSUME op'[c] = op[c], window'[c] = window[c], begun'[c] = begun[c], LaunchedBy(c, clock)
      PROVE  LaunchedBy(c, clock)'
  BY <1>2, <1>3, LaunchedByStays DEF LaunchedBy
<1>4. ASSUME op'[c] = op[c], window'[c] = window[c], begun'[c] = begun[c],
             client'[c] = client[c], handler'[c] = handler[c], answer'[c] = answer[c]
      PROVE  CallRight(c)'
  <2>1. handler[c] # "none" => begun[c] <= clock'
    <3>1. begun[c] \in Nat /\ clock \in Nat /\ clock' \in Nat
      BY <1>2 DEF Time
    <3> QED  BY <1>1, <1>2, <3>1 DEF CallRight
  <2> QED  BY <1>1, <1>3, <1>4, <2>1 DEF CallRight
<1>5. ASSUME NEW d \in Calls, NEW o \in Operations, Begin(d, o) PROVE CallRight(c)'
  <2>1. CASE d = c
    <3>1. /\ client'[c] = "waiting" /\ handler'[c] = "arriving" /\ op'[c] = o
          /\ begun'[c] = clock /\ clock' = clock /\ answer'[c] = answer[c]
      BY <1>1, <1>5, <2>1 DEF Begin, TypeOK
    <3>2. o # None /\ answer[c] = None /\ clock <= clock
      BY <1>1, <1>2, <1>5, <2>1, OpsAssumption, NoneAssumption DEF Begin, CallRight, Time
    <3> QED  BY <3>1, <3>2 DEF CallRight
  <2>2. CASE d # c
    BY <1>1, <1>4, <1>5, <2>2 DEF Begin, TypeOK
  <2> QED  BY <2>1, <2>2
<1>6. ASSUME NEW d \in Calls, GiveUp(d) \/ Lose(d) \/ Return(d) PROVE CallRight(c)'
  <2>1. CASE d = c /\ (GiveUp(d) \/ Lose(d))
    <3>1. /\ UNCHANGED <<clock, op, window, begun, answer>> /\ client'[c] = "failed"
          /\ handler'[c] = handler[c] \/ handler'[c] = "done"
      BY <1>1, <2>1 DEF GiveUp, Lose, TypeOK, history
    <3>2. handler[c] # "none" /\ handler'[c] # "none"
      BY <1>1, <2>1, <3>1 DEF GiveUp, Lose, CallRight
    <3> QED  BY <1>1, <3>1, <3>2 DEF CallRight, LaunchedBy
  <2>2. CASE d = c /\ Return(d)
    <3>1. /\ UNCHANGED <<clock, op, window, begun, answer, handler>>
          /\ client[c] = "waiting" /\ answer[c] # None
          /\ client'[c] \in {"ok", "error"}
          /\ client'[c] = "ok" <=> answer[c].status = Success[op[c].kind]
      BY <1>1, <2>2 DEF Return, TypeOK, history
    <3> QED  BY <1>1, <3>1 DEF CallRight, LaunchedBy
  <2>3. CASE d # c
    BY <1>1, <1>4, <1>6, <2>3 DEF GiveUp, Lose, Return, TypeOK, history
  <2> QED  BY <1>6, <2>1, <2>2, <2>3
<1>7. ASSUME UNCHANGED <<op, client, begun>>,
             handler[c] # "none" /\ client[c] \notin {"ok", "error"}, handler'[c] = "done"
      PROVE  CallRight(c)'
  <2>1. begun[c] <= clock'
    <3>1. begun[c] \in Nat /\ clock \in Nat /\ clock' \in Nat
      BY <1>2 DEF Time
    <3> QED  BY <1>1, <1>2, <1>7, <3>1 DEF CallRight
  <2> QED  BY <1>1, <1>7, <2>1 DEF CallRight
<1>8. ASSUME handler[c] \in {"arriving", "check", "send"}
      PROVE  handler[c] # "none" /\ client[c] \notin {"ok", "error"}
  BY <1>1, <1>8 DEF CallRight
<1>9. ASSUME NEW d \in Calls, PostRequests(d) PROVE CallRight(c)'
  <2>1. CASE d = c
    <3>1. CASE handler'[c] = "done"
      BY <1>7, <1>8, <1>9, <2>1, <3>1 DEF PostRequests, Arrived, history
    <3>2. CASE /\ Launched(op[c].ask, clock) # Refused
               /\ window' = [window EXCEPT ![c] = Launched(op[c].ask, clock)]
               /\ handler' = [handler EXCEPT ![c] = "check"]
               /\ UNCHANGED answer
      <4>1. op[c] # None /\ op[c].kind = "launch" /\ begun[c] <= clock /\ answer[c] = None
        BY <1>1, <1>9, <2>1 DEF PostRequests, Arrived, CallRight
      <4>2. window'[c] \in Window /\ window'[c] = Launched(op[c].ask, clock)
        BY <1>1, <1>2, <3>2, <4>1, OpType, LaunchedType DEF TypeOK
      <4>3. clock \in begun[c]..clock
        BY <1>2, <4>1 DEF Time
      <4>4. UNCHANGED <<op, client, begun, clock>>
        BY <1>9 DEF PostRequests, history
      <4>5. LaunchedBy(c, clock)'
        BY <4>1, <4>2, <4>3, <4>4 DEF LaunchedBy
      <4>6. handler'[c] = "check" /\ client[c] # "idle" /\ client[c] \notin {"ok", "error"}
        BY <1>1, <1>8, <1>9, <2>1, <3>2 DEF PostRequests, Arrived, CallRight, TypeOK
      <4> QED  BY <3>2, <4>1, <4>4, <4>5, <4>6 DEF CallRight
    <3>3. Reply(c, 400, None, {}) => handler'[c] = "done"
      BY <1>1 DEF Reply, TypeOK
    <3> QED  BY <1>9, <2>1, <3>1, <3>2, <3>3 DEF PostRequests
  <2>2. CASE d # c
    BY <1>1, <1>4, <1>9, <2>2 DEF PostRequests, Reply, TypeOK, history
  <2> QED  BY <2>1, <2>2
<1>10. ASSUME NEW d \in Calls, PostCheck(d) PROVE CallRight(c)'
  <2>1. CASE d = c /\ Reply(d, 404, None, {})
    <3>1. handler'[c] = "done"
      BY <1>1, <2>1 DEF Reply, TypeOK
    <3> QED  BY <1>7, <1>8, <1>10, <2>1, <3>1 DEF PostCheck, history
  <2>2. CASE d = c /\ UNCHANGED answer /\ handler' = [handler EXCEPT ![d] = "send"]
    <3>1. UNCHANGED <<op, client, begun, clock, window>> /\ handler[c] = "check"
      BY <1>10, <2>2 DEF PostCheck, history
    <3>2. handler'[c] = "send"
      BY <1>1, <2>2 DEF TypeOK
    <3> QED  BY <1>1, <1>3, <1>8, <2>2, <3>1, <3>2 DEF CallRight
  <2>3. CASE d # c
    BY <1>1, <1>4, <1>10, <2>3 DEF PostCheck, Reply, TypeOK, history
  <2> QED  BY <1>10, <2>1, <2>2, <2>3 DEF PostCheck
<1>11. ASSUME NEW d \in Calls, PostSend(d) \/ PostCancelled(d) \/ ListScaledObjects(d)
                                \/ DeleteScaledObjectRequest(d)
       PROVE  CallRight(c)'
  <2>1. /\ \E status, w, keys : Reply(d, status, w, keys)
        /\ UNCHANGED <<op, client, begun, clock, window>>
        /\ handler[d] \in {"arriving", "send"}
    <3>1. CASE PostSend(d) \/ PostCancelled(d) \/ ListScaledObjects(d)
      BY <3>1 DEF PostSend, PostCancelled, ListScaledObjects, Arrived, history
    <3>2. CASE DeleteScaledObjectRequest(d)
      <4>1. \E status, w : Reply(d, status, w, {})
        BY <1>1, <3>2, DeleteSteps DEF IInv
      <4> QED  BY <3>2, <4>1 DEF DeleteScaledObjectRequest, Arrived
    <3> QED  BY <1>11, <3>1, <3>2
  <2>2. CASE d = c
    <3>1. handler'[c] = "done"
      BY <1>1, <2>1, <2>2 DEF Reply, TypeOK
    <3> QED  BY <1>7, <1>8, <2>1, <2>2, <3>1
  <2>3. CASE d # c
    BY <1>1, <1>4, <2>1, <2>3 DEF Reply, TypeOK
  <2> QED  BY <2>2, <2>3
<1>12. CASE UNCHANGED <<op, client, handler, begun, window, answer>>
  BY <1>4, <1>12
<1> QED
  BY <1>5, <1>6, <1>9, <1>10, <1>11, <1>12
  DEF Next, Serve, vars, storeVars, callVars, history, watch, Tick, Apply, Prune,
      StreamIsActive, RefuseRef, GetMetricSpec, EnsureScaledObject, IsActive, CheckIfActive

\* An answer is given once, by the call's own handler.
LEMMA OwnAnswer ==
    ASSUME IInv, [Next]_vars, NEW c \in Calls, answer'[c] # answer[c]
    PROVE  /\ answer[c] = None /\ op' = op /\ op[c] # None
           /\ \/ /\ op[c].kind = "launch" /\ answer'[c].status \in {400, 404, 408}
                 /\ answer'[c].status = 404 => op[c].key \notin known
              \/ PostSend(c)
              \/ op[c].kind = "list" /\ answer'[c].status = 200
              \/ DeleteScaledObjectRequest(c)
<1>1. TypeOK /\ CallRight(c) /\ Lifecycle
  BY DEF IInv, Lifecycle
<1>2. PICK d \in Calls : Serve(d)
  BY DEF Next, vars, history, watch, storeVars, callVars, Tick, Begin, GiveUp, Lose, Return,
         Apply, Prune, StreamIsActive, RefuseRef, GetMetricSpec,
         EnsureScaledObject, IsActive, CheckIfActive
<1>3. d = c
  <2>1. CASE DeleteScaledObjectRequest(d)
    <3>1. \E status, w : Reply(d, status, w, {})
      BY <1>1, <2>1, DeleteSteps
    <3> QED  BY <1>1, <3>1 DEF Reply, TypeOK
  <2>2. CASE ~DeleteScaledObjectRequest(d)
    <3>1. answer' = answer \/ \E status, w, keys : Reply(d, status, w, keys)
      BY <1>2, <2>2 DEF Serve, PostRequests, PostCheck, PostSend, PostCancelled, ListScaledObjects
    <3> QED  BY <1>1, <3>1 DEF Reply, TypeOK
  <2> QED  BY <2>1, <2>2
<1>4. answer[c] = None /\ op' = op /\ op[c] # None
  <2>1. handler[c] \in {"arriving", "check", "send"} /\ op' = op
    BY <1>2, <1>3 DEF Serve, PostRequests, PostCheck, PostSend, PostCancelled,
                      ListScaledObjects, DeleteScaledObjectRequest, Arrived
  <2> QED  BY <1>1, <2>1 DEF CallRight
<1>5. CASE PostRequests(c) \/ PostCheck(c) \/ PostCancelled(c)
  <2>1. op[c].kind = "launch"
    BY <1>1, <1>5 DEF PostRequests, PostCheck, PostCancelled, Arrived, CallRight, LaunchedBy
  <2>2. Reply(c, 400, None, {}) \/ Reply(c, 404, None, {}) \/ Reply(c, 408, None, {})
    BY <1>5 DEF PostRequests, PostCheck, PostCancelled
  <2>3. answer'[c].status \in {400, 404, 408}
    BY <1>1, <2>2 DEF Reply, TypeOK
  <2>4. answer'[c].status = 404 => op[c].key \notin known
    BY <1>1, <1>5 DEF PostRequests, PostCheck, PostCancelled, Reply, TypeOK
  <2> QED  BY <1>4, <2>1, <2>3, <2>4
<1>6. CASE ListScaledObjects(c)
  BY <1>1, <1>4, <1>6 DEF ListScaledObjects, Reply, Arrived, TypeOK
<1> QED  BY <1>2, <1>3, <1>4, <1>5, <1>6 DEF Serve

-----------------------------------------------------------------------------
(* Accepted launches, the channel and the tables. *)

LEMMA EffectsStep == IInv /\ [Next]_vars => Effects'
<1> SUFFICES ASSUME IInv, [Next]_vars PROVE Effects'
  OBVIOUS
<1>1. TypeOK /\ TypeOK' /\ Lifecycle /\ QueueRight /\ \A c \in Calls : EffectRight(c)
  BY TypeStep DEF IInv, Effects
<1>2. ASSUME NEW c \in Calls, acceptedAt[c] # None
      PROVE  /\ handler'[c] = "done" /\ LaunchedBy(c, acceptedAt[c])' /\ acceptedAt'[c] # None
             /\ answer'[c] # None /\ answer'[c].status = 202 /\ answer'[c].window = window'[c]
  <2>1. EffectRight(c) /\ handler[c] = "done"
    BY <1>1, <1>2 DEF EffectRight
  <2> QED  BY <1>2, <2>1, DoneStays DEF EffectRight, LaunchedBy
<1>3. ASSUME NEW c \in Calls, ~PostSend(c), answer'[c] # None, op'[c].kind = "launch",
             answer'[c].status = 202
      PROVE  acceptedAt[c] # None
  <2>1. CASE answer'[c] = answer[c]
    <3>1. handler[c] = "done"
      BY <1>1, <1>3, <2>1 DEF Lifecycle, CallRight
    <3> QED  BY <1>1, <1>3, <2>1, <3>1, DoneStays DEF EffectRight
  <2>2. CASE answer'[c] # answer[c]
    <3>1. op' = op /\ (DeleteScaledObjectRequest(c) => op[c].kind = "delete")
      BY <2>2, OwnAnswer DEF DeleteScaledObjectRequest, Arrived
    <3>2. op[c].kind = "launch" => answer'[c].status \in {400, 404, 408} \/ PostSend(c)
      BY <2>2, <3>1, OwnAnswer
    <3> QED  BY <1>3, <3>1, <3>2
  <2> QED  BY <2>1, <2>2
<1>4. CASE UNCHANGED <<queue, applied, acceptedAt>>
  <2>1. QueueRight'
    BY <1>1, <1>4 DEF QueueRight
  <2>2. ASSUME NEW c \in Calls PROVE EffectRight(c)'
    <3>1. ~PostSend(c)
      BY <1>1, <1>4, Appended DEF PostSend, TypeOK
    <3>2. Queued(c)' <=> Queued(c)
      BY <1>4 DEF Queued
    <3> QED  BY <1>1, <1>2, <1>3, <1>4, <3>1, <3>2 DEF EffectRight
  <2> QED  BY <2>1, <2>2 DEF Effects
<1>5. ASSUME NEW d \in Calls, PostSend(d) PROVE Effects'
  <2>1. /\ handler[d] = "send" /\ UNCHANGED <<applied, op, window, begun>>
        /\ acceptedAt' = [acceptedAt EXCEPT ![d] = clock] /\ clock' = clock
        /\ Reply(d, 202, window[d], {})
        /\ queue' = Append(queue, d) /\ queue \in Seq(Calls)
    BY <1>1, <1>5 DEF PostSend, TypeOK
  <2>2. acceptedAt[d] = None /\ ~Queued(d) /\ d \notin applied /\ LaunchedBy(d, clock)
    BY <1>1, <2>1 DEF EffectRight, Lifecycle, CallRight
  <2>3. \A c \in Calls : Queued(c)' <=> Queued(c) \/ c = d
    BY <2>1, Appended DEF Queued
  <2>4. QueueRight'
    <3>1. \A i \in DOMAIN queue' :
              \/ i \in DOMAIN queue /\ queue'[i] = queue[i]
              \/ i = Len(queue) + 1 /\ queue'[i] = d
      BY <2>1, Appended
    <3>2. \A i \in DOMAIN queue : queue[i] # d
      BY <2>2 DEF Queued
    <3> QED  BY <1>1, <2>1, <2>2, <3>1, <3>2 DEF QueueRight
  <2>5. ASSUME NEW c \in Calls PROVE EffectRight(c)'
    <3>1. CASE c = d
      <4>1. acceptedAt'[c] = clock /\ acceptedAt'[c] # None
        BY <1>1, <2>1, <3>1, NoneAssumption DEF TypeOK
      <4>2. /\ handler'[c] = "done" /\ answer'[c].status = 202 /\ answer'[c].window = window[c]
            /\ answer'[c] = [status |-> 202, window |-> window[c], keys |-> {}]
        BY <1>1, <2>1, <3>1 DEF Reply, TypeOK
      <4>3. answer'[c] # None
        <5>1. answer'[c] \in Answer
          BY <2>2, <3>1, <4>2 DEF Answer, LaunchedBy
        <5> QED  BY <5>1, NoneAssumption
      <4>4. LaunchedBy(c, acceptedAt[c])'
        BY <2>1, <2>2, <3>1, <4>1 DEF LaunchedBy
      <4> QED  BY <2>1, <2>3, <3>1, <4>1, <4>2, <4>3, <4>4 DEF EffectRight
    <3>2. CASE c # d
      <4>1. acceptedAt'[c] = acceptedAt[c] /\ handler'[c] = handler[c] /\ answer'[c] = answer[c]
        BY <1>1, <2>1, <3>2 DEF TypeOK, Reply
      <4> QED  BY <1>1, <2>1, <2>3, <3>2, <4>1 DEF EffectRight, LaunchedBy
    <3> QED  BY <3>1, <3>2
  <2> QED  BY <2>4, <2>5 DEF Effects
<1>6. CASE Apply
  <2>1. PICK i \in DOMAIN queue : queue' = RemoveAt(queue, i) /\ applied' = applied \cup {queue[i]}
    BY <1>6 DEF Apply
  <2>2. /\ UNCHANGED <<op, window, begun, answer, handler, acceptedAt>> /\ queue \in Seq(Calls)
        /\ DOMAIN queue = 1..Len(queue) /\ Len(queue) \in Nat
    BY <1>1, <1>6 DEF Apply, callVars, TypeOK
  <2>3. /\ queue' \in Seq(Calls)
        /\ \A j \in DOMAIN queue' : /\ Before(i, j) \in DOMAIN queue /\ Before(i, j) # i
                                    /\ queue'[j] = queue[Before(i, j)]
        /\ \A j \in DOMAIN queue \ {i} :
               After(i, j) \in DOMAIN queue' /\ queue'[After(i, j)] = queue[j]
    <3>1. queue' \in Seq(Calls) /\ TakenOut(queue, i, queue')
      BY <2>1, <2>2, Removed
    <3> QED  BY <3>1 DEF TakenOut
  <2>4. \A c \in Calls : Queued(c)' \/ c \in applied' <=> Queued(c) \/ c \in applied
    BY <2>1, <2>3 DEF Queued
  <2>6. QueueRight'
    <3>1. ASSUME NEW j \in DOMAIN queue', NEW k \in DOMAIN queue', queue'[j] = queue'[k]
          PROVE  j = k
      <4>1. Before(i, j) = Before(i, k)
        BY <1>1, <2>3, <3>1 DEF QueueRight
      <4>2. DOMAIN queue' = 1..Len(queue') /\ Len(queue') \in Nat
        BY <2>3
      <4>3. i \in Nat /\ j \in Nat /\ k \in Nat
        BY <2>2, <4>2
      <4> QED  BY <4>1, <4>3 DEF Before
    <3>2. ASSUME NEW j \in DOMAIN queue' PROVE queue'[j] \notin applied'
      BY <1>1, <2>1, <2>3 DEF QueueRight
    <3> QED  BY <3>1, <3>2 DEF QueueRight
  <2>5. ASSUME NEW c \in Calls PROVE EffectRight(c)'
    BY <1>1, <2>2, <2>4 DEF EffectRight, LaunchedBy
  <2> QED  BY <2>6, <2>5 DEF Effects
<1> QED
  BY <1>4, <1>5, <1>6
  DEF Next, Serve, vars, storeVars, callVars, history, watch, Tick, Begin, GiveUp, Lose, Return,
      PostRequests, PostCheck, PostCancelled, ListScaledObjects, DeleteScaledObjectRequest,
      Prune, StreamIsActive, RefuseRef, GetMetricSpec, EnsureScaledObject, IsActive, CheckIfActive

\* What the tables hold has been applied, where it belongs.
LEMMA TableStep == IInv /\ [Next]_vars => TableRight'
<1> SUFFICES ASSUME IInv, [Next]_vars, NEW key \in Keys, NEW id \in RequestId,
                    table'[key][id] # None
             PROVE  LET c == table'[key][id]
                    IN  c \in applied' /\ op'[c].key = key /\ op'[c].id = id
  BY DEF TableRight
<1>1. TypeOK /\ TypeOK' /\ TableRight /\ Effects
  BY TypeStep DEF IInv
<1>2. applied \subseteq applied'
  BY DEF Next, Serve, vars, storeVars, callVars, history, watch, Tick, Begin, GiveUp, Lose, Return,
         PostRequests, PostCheck, PostSend, PostCancelled, ListScaledObjects,
         DeleteScaledObjectRequest, Apply, Prune, StreamIsActive, RefuseRef, GetMetricSpec,
         EnsureScaledObject, IsActive, CheckIfActive
<1>3. ASSUME NEW c \in applied PROVE op'[c] = op[c]
  <2>1. c \in Calls /\ handler[c] = "done"
    BY <1>1 DEF TypeOK, Effects, EffectRight
  <2> QED  BY <2>1, DoneStays
<1>4. CASE table'[key][id] = table[key][id]
  BY <1>1, <1>2, <1>3, <1>4 DEF TableRight
<1>5. CASE Apply
  <2>1. PICK i \in DOMAIN queue :
            /\ op' = op /\ applied' = applied \cup {queue[i]}
            /\ table' = [table EXCEPT ![op[queue[i]].key][op[queue[i]].id] = queue[i]]
    BY <1>5 DEF Apply, callVars
  <2>2. queue[i] \in Calls
    BY <1>1 DEF TypeOK
  <2>3. CASE key = op[queue[i]].key /\ id = op[queue[i]].id
    BY <1>1, <2>1, <2>2, <2>3 DEF TypeOK
  <2>4. CASE ~(key = op[queue[i]].key /\ id = op[queue[i]].id)
    BY <1>1, <1>4, <2>1, <2>2, <2>4 DEF TypeOK
  <2> QED  BY <2>3, <2>4
<1>6. ASSUME NEW k \in Keys, Prune(k) PROVE table'[key][id] = table[key][id]
  BY <1>1, <1>6 DEF Prune, TypeOK
<1>7. ASSUME NEW d \in Calls, DeleteScaledObjectRequest(d) PROVE table'[key][id] = table[key][id]
  <2>1. CASE table' = table
    BY <2>1
  <2>2. CASE table' = [table EXCEPT ![op[d].key][op[d].id] = None]
    BY <1>1, <2>2 DEF TypeOK
  <2> QED  BY <1>1, <1>7, <2>1, <2>2, DeleteSteps DEF IInv
<1> QED
  BY <1>4, <1>5, <1>6, <1>7
  DEF Next, Serve, vars, storeVars, callVars, history, watch, Tick, Begin, GiveUp, Lose, Return,
      PostRequests, PostCheck, PostSend, PostCancelled, ListScaledObjects,
      StreamIsActive, RefuseRef, GetMetricSpec, EnsureScaledObject, IsActive, CheckIfActive

\* A launch that has been removed, by pruning, a later launch or a deletion, does
\* not come back.
LEMMA GoneStays ==
    ASSUME IInv, [Next]_vars, NEW key \in Keys, NEW id \in RequestId, NEW c \in applied,
           table[key][id] # c
    PROVE  table'[key][id] # c
<1>1. TypeOK /\ Effects /\ c \in Calls /\ c # None
  BY NoneAssumption DEF IInv, TypeOK
<1>2. CASE Apply
  <2>1. PICK i \in DOMAIN queue :
            table' = [table EXCEPT ![op[queue[i]].key][op[queue[i]].id] = queue[i]]
    BY <1>2 DEF Apply
  <2>2. queue[i] # c
    BY <1>1 DEF Effects, QueueRight
  <2> QED  BY <1>1, <2>1, <2>2 DEF TypeOK
<1>3. ASSUME NEW k \in Keys, Prune(k) PROVE table'[key][id] # c
  BY <1>1, <1>3 DEF Prune, TypeOK
<1>4. ASSUME NEW d \in Calls, DeleteScaledObjectRequest(d) PROVE table'[key][id] # c
  <2>1. CASE table' = table
    BY <2>1
  <2>2. CASE table' = [table EXCEPT ![op[d].key][op[d].id] = None]
    BY <1>1, <2>2 DEF TypeOK
  <2> QED  BY <1>1, <1>4, <2>1, <2>2, DeleteSteps DEF IInv
<1> QED
  BY <1>2, <1>3, <1>4
  DEF Next, Serve, vars, storeVars, callVars, history, watch, Tick, Begin, GiveUp, Lose, Return,
      PostRequests, PostCheck, PostSend, PostCancelled, ListScaledObjects,
      StreamIsActive, RefuseRef, GetMetricSpec, EnsureScaledObject, IsActive, CheckIfActive

LEMMA RemovalsStep == IInv /\ [Next]_vars => RemovalsRight'
<1> SUFFICES ASSUME IInv, [Next]_vars, NEW d \in Calls PROVE RemovalRight(d)'
  BY DEF RemovalsRight
<1>1. /\ TypeOK /\ TypeOK' /\ Lifecycle /\ Effects /\ TableRight
      /\ \A e \in Calls : RemovalRight(e)
  BY TypeStep DEF IInv, RemovalsRight
<1>2. ASSUME NEW c \in applied
      PROVE  /\ op'[c] = op[c] /\ window'[c] = window[c]
             /\ c \in applied'
  <2>1. c \in Calls /\ handler[c] = "done" /\ acceptedAt[c] # None
    BY <1>1 DEF TypeOK, Effects, EffectRight
  <2>2. applied \subseteq applied'
    BY DEF Next, Serve, vars, storeVars, callVars, history, watch, Tick, Begin, GiveUp, Lose,
           Return, PostRequests, PostCheck, PostSend, PostCancelled, ListScaledObjects,
           DeleteScaledObjectRequest, Apply, Prune, StreamIsActive, RefuseRef, GetMetricSpec,
           EnsureScaledObject, IsActive, CheckIfActive
  <2> QED  BY <2>1, <2>2, DoneStays
<1>3. CASE removed' = removed
  <2>1. CASE removed[d] # None
    <3> DEFINE c == removed[d]
    <3>1. /\ handler[d] = "done" /\ op[d] # None /\ op[d].kind = "delete"
          /\ answer[d] # None /\ answer[d].status = 200 /\ answer[d].window = window[c]
          /\ c \in applied /\ op[c].key = op[d].key /\ op[c].id = op[d].id
          /\ table[op[d].key][op[d].id] # c
          /\ \A e \in Calls \ {d} : removed[e] # c
      BY <1>1, <2>1 DEF RemovalRight, Lifecycle, CallRight
    <3>2. op[d].key \in Keys /\ op[d].id \in RequestId
      BY <1>1, <3>1, OpType
    <3>3. table'[op[d].key][op[d].id] # c
      BY <3>1, <3>2, GoneStays
    <3> QED  BY <1>2, <1>3, <2>1, <3>1, <3>3, DoneStays DEF RemovalRight
  <2>2. CASE removed[d] = None
    <3>1. SUFFICES ASSUME answer'[d] # None, op'[d].kind = "delete", answer'[d].status = 200
                   PROVE  FALSE
      BY <1>3, <2>2 DEF RemovalRight
    <3>2. CASE answer'[d] = answer[d]
      <4>1. handler[d] = "done"
        BY <1>1, <3>1, <3>2 DEF Lifecycle, CallRight
      <4> QED  BY <1>1, <2>2, <3>1, <3>2, <4>1, DoneStays DEF RemovalRight
    <3>3. CASE answer'[d] # answer[d]
      <4>1. op' = op /\ (PostSend(d) => op[d].kind = "launch")
        BY <1>1, <3>3, OwnAnswer DEF PostSend, Lifecycle, CallRight, LaunchedBy
      <4>2. DeleteScaledObjectRequest(d)
        BY <3>1, <3>3, <4>1, OwnAnswer
      <4>3. Reply(d, 404, None, {}) \/ \E launch \in Calls : removed' = [removed EXCEPT ![d] = launch]
        BY <1>1, <4>2, DeleteSteps
      <4>4. ASSUME NEW launch \in Calls, removed' = [removed EXCEPT ![d] = launch] PROVE FALSE
        <5>1. removed'[d] = launch
          BY <1>1, <4>4 DEF TypeOK
        <5> QED  BY <1>3, <2>2, <5>1, NoneAssumption
      <4>5. Reply(d, 404, None, {}) => answer'[d].status = 404
        BY <1>1 DEF Reply, TypeOK
      <4> QED  BY <3>1, <4>3, <4>4, <4>5
    <3> QED  BY <3>2, <3>3
  <2> QED  BY <2>1, <2>2
<1>4. ASSUME NEW e \in Calls, DeleteScaledObjectRequest(e), removed' # removed
      PROVE  RemovalRight(d)'
  <2>1. /\ op[e] # None /\ op[e].key \in Keys /\ op[e].id \in RequestId
        /\ handler[e] = "arriving" /\ op[e].kind = "delete"
        /\ UNCHANGED <<op, window, applied>>
    BY <1>1, <1>4, DeleteSteps DEF DeleteScaledObjectRequest, Arrived
  <2>2. PICK launch \in Calls :
            /\ launch # None /\ launch = table[op[e].key][op[e].id]
            /\ table' = [table EXCEPT ![op[e].key][op[e].id] = None]
            /\ removed' = [removed EXCEPT ![e] = launch]
            /\ Reply(e, 200, window[launch], {})
    BY <1>1, <1>4, DeleteSteps
  <2>3. launch \in applied /\ op[launch].key = op[e].key /\ op[launch].id = op[e].id
    BY <1>1, <2>1, <2>2 DEF TableRight
  <2>4. \A f \in Calls : removed[f] # None => removed[f] # launch
    <3>1. SUFFICES ASSUME NEW f \in Calls, removed[f] # None, removed[f] = launch PROVE FALSE
      OBVIOUS
    <3>2. op[launch].key = op[f].key /\ op[launch].id = op[f].id
          /\ table[op[f].key][op[f].id] # launch
      BY <1>1, <3>1 DEF RemovalRight
    <3> QED  BY <2>2, <2>3, <3>2
  <2>5. removed[e] = None
    BY <1>1, <2>1 DEF RemovalRight
  <2>6. CASE d = e
    <3>1. removed'[d] = launch
      BY <1>1, <2>2, <2>6 DEF TypeOK
    <3>2. handler'[d] = "done" /\ answer'[d].status = 200 /\ answer'[d].window = window[launch]
          /\ answer'[d] = [status |-> 200, window |-> window[launch], keys |-> {}]
      BY <1>1, <2>2, <2>6 DEF Reply, TypeOK
    <3>3. answer'[d] # None
      <4>1. window[launch] \in Window \cup {None}
        BY <1>1 DEF TypeOK
      <4>2. answer'[d] \in Answer
        BY <3>2, <4>1 DEF Answer
      <4> QED  BY <4>2, NoneAssumption
    <3>4. table'[op[d].key][op[d].id] = None
      BY <1>1, <2>1, <2>2, <2>6 DEF TypeOK
    <3>5. \A f \in Calls \ {d} : removed'[f] # launch
      BY <1>1, <2>2, <2>4, <2>6 DEF TypeOK
    <3>6. /\ op'[d].kind = "delete" /\ launch \in applied' /\ window'[launch] = window[launch]
          /\ op'[launch].key = op'[d].key /\ op'[launch].id = op'[d].id
          /\ table'[op'[d].key][op'[d].id] # launch
      BY <2>1, <2>2, <2>3, <2>6, <3>4
    <3>7. /\ removed'[d] # None
          /\ handler'[d] = "done" /\ answer'[d] # None /\ answer'[d].status = 200
          /\ answer'[d].window = window'[launch]
      BY <2>2, <3>1, <3>2, <3>3, <3>6
    <3> QED  BY <3>1, <3>5, <3>6, <3>7 DEF RemovalRight
  <2>7. CASE d # e
    <3>1. removed'[d] = removed[d] /\ answer'[d] = answer[d] /\ handler'[d] = handler[d]
      BY <1>1, <2>2, <2>7 DEF Reply, TypeOK
    <3>2. removed[d] # None => removed'[e] # removed[d]
      BY <1>1, <2>2, <2>4 DEF TypeOK
    <3>3. \A f \in Calls \ {e} : removed'[f] = removed[f]
      BY <1>1, <2>2 DEF TypeOK
    <3>4. ASSUME removed[d] # None PROVE table'[op[d].key][op[d].id] # removed[d]
      <4>1. removed[d] \in applied /\ table[op[d].key][op[d].id] # removed[d] /\ op[d] # None
        BY <1>1, <3>4 DEF RemovalRight, Lifecycle, CallRight
      <4> QED  BY <1>1, <4>1, GoneStays, OpType
    <3> QED  BY <1>1, <2>1, <3>1, <3>2, <3>3, <3>4 DEF RemovalRight
  <2> QED  BY <2>6, <2>7
<1> QED
  BY <1>3, <1>4
  DEF Next, Serve, vars, storeVars, callVars, history, watch, Tick, Begin, GiveUp, Lose, Return,
      PostRequests, PostCheck, PostSend, PostCancelled, ListScaledObjects, Apply, Prune,
      StreamIsActive, RefuseRef, GetMetricSpec, EnsureScaledObject, IsActive, CheckIfActive

-----------------------------------------------------------------------------
(* KEDA's polls. *)

\* The applied launches have their windows, which do not change.
LEMMA AppliedStays ==
    ASSUME IInv, [Next]_vars, NEW c \in applied
    PROVE  /\ c \in Calls /\ c # None /\ window'[c] = window[c] /\ c \in applied'
           /\ window[c] \in Window
<1>1. /\ c \in Calls /\ c # None /\ handler[c] = "done" /\ acceptedAt[c] # None
      /\ window[c] \in Window
  BY NoneAssumption DEF IInv, TypeOK, Effects, EffectRight, LaunchedBy
<1>2. applied \subseteq applied'
  BY DEF Next, Serve, vars, storeVars, callVars, history, watch, Tick, Begin, GiveUp, Lose, Return,
         PostRequests, PostCheck, PostSend, PostCancelled, ListScaledObjects,
         DeleteScaledObjectRequest, Apply, Prune, StreamIsActive, RefuseRef, GetMetricSpec,
         EnsureScaledObject, IsActive, CheckIfActive
<1> QED  BY <1>1, <1>2, DoneStays

\* After a look at the tables, a poll has seen what is there, and nothing else is steady.
LEMMA Watched ==
    ASSUME IInv, [Next]_vars, NEW q \in Polls, UnderWay(q),
           Watch \/ (UNCHANGED <<seen, steady, table>> /\ poll'[q].key = poll[q].key
                      /\ poll[q].state \in {"ensured", "reading"})
    PROVE  steady'[q] \subseteq Held(poll[q].key)' /\ Held(poll[q].key)' \subseteq seen'[q]
<1>1. CASE Watch
  <2>1. Observe(q) = Held(poll[q].key)'
    BY DEF Observe, Held
  <2> QED  BY <1>1, <2>1 DEF Watch
<1>2. CASE /\ UNCHANGED <<seen, steady, table>> /\ poll'[q].key = poll[q].key
           /\ poll[q].state \in {"ensured", "reading"}
  BY <1>2 DEF IInv, Polling, PollRight, Held
<1> QED  BY <1>1, <1>2

\* The answer compares one instant of the call with a table of another.
LEMMA CheckAccurate ==
    ASSUME IInv, [Next]_vars, NEW q \in Polls, CheckIfActive(q)
    PROVE  Accurate(q)'
<1>1. TypeOK /\ PollRight(q)
  BY DEF IInv, Polling
<1> DEFINE key    == poll[q].key
           active == \E c \in Held(key) : shouldActivate(window[c], poll[q].at)
<1>2. /\ poll[q].state = "reading" /\ poll[q] \in Poll /\ clock \in Nat
      /\ UNCHANGED <<seen, steady, window>>
  BY <1>1 DEF CheckIfActive, TypeOK, watch, callVars, Time
<1>3. poll[q].since \in Nat /\ poll[q].at \in Nat
  BY <1>2 DEF Poll, Time
<1>4. /\ steady[q] \subseteq Held(key) /\ Held(key) \subseteq seen[q] /\ seen[q] \subseteq applied
      /\ poll[q].since <= poll[q].at /\ poll[q].at <= clock
  BY <1>1, <1>2 DEF PollRight
<1>5. \A c \in applied : window[c].start \in Nat /\ window[c].end \in Nat
  BY AppliedStays DEF Window, Time
<1>6. /\ poll'[q].since = poll[q].since /\ poll'[q].until = clock
      /\ poll'[q].active <=> active
  <2>1. poll' = [poll EXCEPT ![q] = [poll[q] EXCEPT !.state = "answered", !.until = clock,
                                                     !.active = active]]
    BY DEF CheckIfActive, Held
  <2>2. poll'[q] = [poll[q] EXCEPT !.state = "answered", !.until = clock, !.active = active]
    BY <1>1, <2>1 DEF TypeOK
  <2>3. DOMAIN poll[q] = {"state", "key", "since", "at", "until", "active"}
    BY <1>2 DEF Poll
  <2>4. poll'[q].active = active
    BY <2>2, <2>3
  <2>5. poll'[q].since = poll[q].since /\ poll'[q].until = clock
    BY <2>2, <2>3
  <2> QED  BY <2>4, <2>5
<1>7. ASSUME NEW c \in steady[q], window[c].start <= poll[q].since, clock <= window[c].end
      PROVE  active
  <2>1. c \in Held(key) /\ window[c].start \in Nat /\ window[c].end \in Nat
    BY <1>4, <1>5
  <2>2. shouldActivate(window[c], poll[q].at)
    BY <1>2, <1>3, <1>4, <1>7, <2>1 DEF shouldActivate, notYetStarted, alreadyEnded
  <2> QED  BY <2>1, <2>2
<1>8. ASSUME active
      PROVE  \E c \in seen[q] : window[c].start <= clock /\ poll[q].since <= window[c].end
  <2>1. PICK c \in Held(key) : shouldActivate(window[c], poll[q].at)
    BY <1>8
  <2>2. c \in seen[q] /\ window[c].start \in Nat /\ window[c].end \in Nat
    BY <1>4, <1>5
  <2>3. window[c].start <= clock /\ poll[q].since <= window[c].end
    BY <1>2, <1>3, <1>4, <2>1, <2>2 DEF shouldActivate, notYetStarted, alreadyEnded
  <2> QED  BY <2>2, <2>3
<1> HIDE DEF active
<1> QED  BY <1>2, <1>6, <1>7, <1>8 DEF Accurate

\* What the steps of the others do not disturb.
LEMMA PollSteps ==
    ASSUME [Next]_vars
    PROVE  /\ Watch \/ UNCHANGED <<seen, steady, table>>
           /\ \/ UNCHANGED poll
              \/ \E r \in Polls : \/ RefuseRef(r) \/ IsActive(r) \/ CheckIfActive(r)
                                  \/ \E key \in Keys : GetMetricSpec(r, key)
                                                       \/ EnsureScaledObject(r, key)
           /\ clock' = clock \/ clock' = clock + 1
<1>1. Watch \/ UNCHANGED <<seen, steady, table>>
  BY DEF Next, Serve, vars, storeVars, callVars, history, watch, Tick, Begin, GiveUp, Lose, Return,
         PostRequests, PostCheck, PostSend, PostCancelled, ListScaledObjects,
         DeleteScaledObjectRequest, Apply, Prune, StreamIsActive, RefuseRef, GetMetricSpec,
         EnsureScaledObject, IsActive, CheckIfActive
<1>2. \/ UNCHANGED poll
      \/ \E r \in Polls : \/ RefuseRef(r) \/ IsActive(r) \/ CheckIfActive(r)
                          \/ \E key \in Keys : GetMetricSpec(r, key) \/ EnsureScaledObject(r, key)
  BY DEF Next, Serve, vars, storeVars, callVars, history, watch, Tick, Begin, GiveUp, Lose, Return,
         PostRequests, PostCheck, PostSend, PostCancelled, ListScaledObjects,
         DeleteScaledObjectRequest, Apply, Prune, StreamIsActive
<1>3. clock' = clock \/ clock' = clock + 1
  BY DEF Next, Serve, vars, storeVars, callVars, history, watch, Tick, Begin, GiveUp, Lose, Return,
         PostRequests, PostCheck, PostSend, PostCancelled, ListScaledObjects,
         DeleteScaledObjectRequest, Apply, Prune, StreamIsActive, RefuseRef, GetMetricSpec,
         EnsureScaledObject, IsActive, CheckIfActive
<1> QED  BY <1>1, <1>2, <1>3

LEMMA PollingStep == IInv /\ [Next]_vars => Polling'
<1> SUFFICES ASSUME IInv, [Next]_vars, NEW q \in Polls PROVE PollRight(q)'
  BY DEF Polling
<1>1. TypeOK /\ TypeOK' /\ PollRight(q) /\ Registered' /\ TableRight'
  BY TypeStep, RegisteredStep, TableStep DEF IInv, Polling
<1>2. /\ clock \in Nat /\ clock' \in Nat /\ clock <= clock'
      /\ poll[q].since \in Nat /\ poll[q].at \in Nat /\ poll[q] \in Poll
  <2>1. clock \in Nat /\ clock' \in Nat /\ poll[q] \in Poll
    BY <1>1 DEF TypeOK, Time
  <2> QED  BY <2>1, PollSteps DEF Poll, Time
<1>3. seen[q] \subseteq applied'
  BY <1>1, AppliedStays DEF PollRight
<1>4. UnderWay(q) => Held(poll[q].key)' \subseteq applied'
  <2>1. UnderWay(q) => poll'[q].key \in Keys
    BY <1>1 DEF UnderWay, Registered, TypeOK
  <2> QED  BY <1>1, <2>1 DEF TableRight, Held
<1>5. seen'[q] \subseteq applied'
  <2>1. Observe(q) = Held(poll[q].key)'
    BY DEF Observe, Held
  <2> QED  BY <1>3, <1>4, <2>1, PollSteps DEF Watch
<1>6. CASE poll'[q] = poll[q]
  <2>1. UnderWay(q) <=> poll[q].state \in {"ensured", "reading"}
    BY <1>6 DEF UnderWay
  <2>2. UnderWay(q) => /\ steady'[q] \subseteq Held(poll[q].key)'
                       /\ Held(poll[q].key)' \subseteq seen'[q]
    BY <1>6, <2>1, Watched, PollSteps
  <2>3. UnderWay(q) => poll'[q].since <= clock'
    BY <1>1, <1>2, <1>6, <2>1 DEF PollRight
  <2>4. poll'[q].state = "reading" => poll'[q].since <= poll'[q].at /\ poll'[q].at <= clock'
    BY <1>1, <1>2, <1>6 DEF PollRight
  <2>5. CASE poll[q].state = "answered"
    <3>1. seen'[q] = seen[q] /\ steady'[q] = steady[q]
      BY <2>1, <2>5, PollSteps DEF Watch
    <3>2. /\ steady[q] \subseteq applied /\ seen[q] \subseteq applied /\ Accurate(q)
      BY <1>1, <2>5 DEF PollRight
    <3>3. \A c \in applied : window'[c] = window[c] /\ c \in applied'
      BY AppliedStays
    <3>4. Accurate(q)'
      BY <1>6, <3>1, <3>2, <3>3 DEF Accurate
    <3> QED  BY <1>5, <1>6, <2>5, <3>1, <3>2, <3>3, <3>4 DEF PollRight
  <2>6. CASE poll[q].state # "answered"
    BY <1>5, <1>6, <2>1, <2>2, <2>3, <2>4, <2>6 DEF PollRight, UnderWay
  <2> QED  BY <2>5, <2>6
<1>7. CASE poll'[q].state \in {"refused", "registered"}
  BY <1>5, <1>7 DEF PollRight
<1>8. ASSUME NEW key \in Keys, EnsureScaledObject(q, key) PROVE PollRight(q)'
  <2>1. poll'[q] = [poll[q] EXCEPT !.state = "ensured", !.key = key, !.since = clock]
    BY <1>1, <1>8 DEF EnsureScaledObject, TypeOK
  <2>2. poll'[q].state = "ensured" /\ poll'[q].since = clock /\ clock' = clock
    <3>1. DOMAIN poll[q] = {"state", "key", "since", "at", "until", "active"}
      BY <1>2 DEF Poll
    <3>2. clock' = clock
      BY <1>8 DEF EnsureScaledObject
    <3> QED  BY <2>1, <3>1, <3>2
  <2>3. /\ steady'[q] \subseteq Held(poll[q].key)' /\ Held(poll[q].key)' \subseteq seen'[q]
    BY <1>8, <2>2, Watched DEF EnsureScaledObject, UnderWay
  <2>4. poll'[q].since <= clock'
    BY <1>2, <2>2
  <2> QED  BY <1>5, <2>2, <2>3, <2>4 DEF PollRight
<1>9. CASE IsActive(q)
  <2>1. poll'[q] = [poll[q] EXCEPT !.state = "reading", !.at = clock]
    BY <1>1, <1>9 DEF IsActive, TypeOK
  <2>2. /\ poll'[q].state = "reading" /\ poll'[q].since = poll[q].since
        /\ poll'[q].key = poll[q].key /\ poll'[q].at = clock /\ clock' = clock
        /\ poll[q].state = "ensured" /\ UNCHANGED <<seen, steady, table>>
    <3>1. DOMAIN poll[q] = {"state", "key", "since", "at", "until", "active"}
      BY <1>2 DEF Poll
    <3>2. /\ poll[q].state = "ensured" /\ clock' = clock
          /\ UNCHANGED <<seen, steady, table>>
      BY <1>9 DEF IsActive, storeVars, watch
    <3> QED  BY <2>1, <3>1, <3>2
  <2>3. /\ steady'[q] \subseteq Held(poll[q].key)' /\ Held(poll[q].key)' \subseteq seen'[q]
    BY <2>2, Watched DEF UnderWay
  <2>4. poll'[q].since <= clock' /\ poll'[q].since <= poll'[q].at /\ poll'[q].at <= clock'
    BY <1>1, <1>2, <2>2 DEF PollRight
  <2> QED  BY <1>5, <2>2, <2>3, <2>4 DEF PollRight
<1>10. CASE CheckIfActive(q)
  <2>1. poll'[q].state = "answered" /\ UNCHANGED <<seen, steady>> /\ poll[q].state = "reading"
    <3>1. DOMAIN poll[q] = {"state", "key", "since", "at", "until", "active"}
      BY <1>2 DEF Poll
    <3> DEFINE active == \E c \in Held(poll[q].key) : shouldActivate(window[c], poll[q].at)
    <3>2. poll' = [poll EXCEPT ![q] = [poll[q] EXCEPT !.state = "answered", !.until = clock,
                                                      !.active = active]]
      BY <1>10 DEF CheckIfActive, Held
    <3>3. poll'[q] = [poll[q] EXCEPT !.state = "answered", !.until = clock, !.active = active]
      BY <1>1, <3>2 DEF TypeOK
    <3>4. UNCHANGED <<seen, steady>> /\ poll[q].state = "reading"
      BY <1>10 DEF CheckIfActive, watch
    <3> HIDE DEF active
    <3> QED  BY <3>1, <3>3, <3>4
  <2>2. steady'[q] \subseteq applied'
    BY <1>1, <1>3, <2>1 DEF PollRight
  <2> QED  BY <1>5, <1>10, <2>1, <2>2, CheckAccurate DEF PollRight
<1>11. ASSUME NEW r \in Polls, r # q,
              \/ RefuseRef(r) \/ IsActive(r) \/ CheckIfActive(r)
              \/ \E key \in Keys : GetMetricSpec(r, key) \/ EnsureScaledObject(r, key)
       PROVE  poll'[q] = poll[q]
  BY <1>1, <1>11 DEF TypeOK, RefuseRef, IsActive, CheckIfActive, GetMetricSpec, EnsureScaledObject
<1>12. RefuseRef(q) => poll'[q].state = "refused"
  <2>1. RefuseRef(q) => poll'[q] = [poll[q] EXCEPT !.state = "refused"]
    BY <1>1 DEF RefuseRef, TypeOK
  <2> QED  BY <1>2, <2>1 DEF Poll
<1>13. ASSUME NEW key \in Keys, GetMetricSpec(q, key) PROVE poll'[q].state = "registered"
  <2>1. poll'[q] = [poll[q] EXCEPT !.state = "registered", !.key = key]
    BY <1>1, <1>13 DEF GetMetricSpec, TypeOK
  <2> QED  BY <1>2, <2>1 DEF Poll
<1> QED
  BY <1>6, <1>7, <1>8, <1>9, <1>10, <1>11, <1>12, <1>13, PollSteps

-----------------------------------------------------------------------------
(* The theorems. *)

LEMMA Initially == Init => IInv
<1> SUFFICES ASSUME Init PROVE IInv
  OBVIOUS
<1>1. TypeOK
  BY TypeInit
<1>2. Lifecycle
  BY DEF Init, Lifecycle, CallRight
<1>3. Effects
  BY DEF Init, Effects, QueueRight, EffectRight, Queued
<1>4. TableRight /\ RemovalsRight
  BY DEF Init, TableRight, RemovalsRight, RemovalRight
<1>5. Polling /\ Registered
  BY DEF Init, Polling, PollRight, Registered
<1> QED  BY <1>1, <1>2, <1>3, <1>4, <1>5 DEF IInv

LEMMA Invariance == Spec => []IInv
<1>1. IInv /\ [Next]_vars => IInv'
  BY TypeStep, LifecycleStep, EffectsStep, TableStep, RemovalsStep, PollingStep, RegisteredStep
  DEF IInv
<1> QED  BY <1>1, Initially, PTL DEF Spec

\* The state is well typed, and the channel never above its capacity (main.go:63).
THEOREM TypeCorrectness == Spec => []TypeOK
BY Invariance, PTL DEF IInv

\* A call that ends with an error has done nothing and can be made again
\* (http.go:89-112, 159-168, client.go:57-164).
THEOREM ErrorsHarmless == Spec => []ErrorsAreHarmless
<1>1. IInv => ErrorsAreHarmless
  <2> SUFFICES ASSUME IInv, NEW c \in Calls, client[c] = "error"
               PROVE  /\ acceptedAt[c] = None /\ c \notin applied /\ removed[c] = None
                      /\ handler[c] = "done"
    BY DEF ErrorsAreHarmless
  <2>1. /\ answer[c] # None /\ answer[c].status # Success[op[c].kind]
        /\ handler[c] = "done" /\ op[c] # None
    BY DEF IInv, Lifecycle, CallRight
  <2>2. acceptedAt[c] = None
    BY <2>1 DEF IInv, Effects, EffectRight, LaunchedBy, Success
  <2>3. c \notin applied
    BY <2>2 DEF IInv, Effects, EffectRight
  <2>4. removed[c] = None
    BY <2>1 DEF IInv, RemovalsRight, RemovalRight, Success
  <2> QED  BY <2>1, <2>2, <2>3, <2>4
<1> QED  BY <1>1, Invariance, PTL

\* A launch does what it reports (http.go:95-122).
THEOREM AcceptedReported == Spec => []AcceptedAsReported
<1>1. IInv => AcceptedAsReported
  <2> SUFFICES ASSUME IInv, NEW c \in Calls, client[c] = "ok", op[c].kind = "launch"
               PROVE  /\ answer[c].window = window[c]
                      /\ c \in applied \/ \E i \in DOMAIN queue : queue[i] = c
                      /\ \E now \in begun[c]..acceptedAt[c] : window[c] = Launched(op[c].ask, now)
    BY DEF AcceptedAsReported
  <2>1. answer[c] # None /\ answer[c].status = 202
    BY DEF IInv, Lifecycle, CallRight, Success
  <2>2. acceptedAt[c] # None
    BY <2>1 DEF IInv, Effects, EffectRight
  <2> QED  BY <2>2 DEF IInv, Effects, EffectRight, LaunchedBy, Queued
<1> QED  BY <1>1, Invariance, PTL

\* A deletion removes what it reports, and no other does
\* (arbitrator.go:297-323, http.go:149-179).
THEOREM DeletedReported == Spec => []DeletedAsReported
<1>1. IInv => DeletedAsReported
  <2> SUFFICES ASSUME IInv, NEW d \in Calls, client[d] = "ok", op[d].kind = "delete"
               PROVE  LET c == removed[d] IN
                      /\ c \in applied
                      /\ op[c].key = op[d].key /\ op[c].id = op[d].id
                      /\ answer[d].window = window[c]
                      /\ \A e \in Calls \ {d} : removed[e] # c
    BY DEF DeletedAsReported
  <2>1. answer[d] # None /\ answer[d].status = 200
    BY DEF IInv, Lifecycle, CallRight, Success
  <2>2. removed[d] # None
    BY <2>1 DEF IInv, RemovalsRight, RemovalRight
  <2> QED  BY <2>2 DEF IInv, RemovalsRight, RemovalRight
<1> QED  BY <1>1, Invariance, PTL

\* KEDA's answer is right for some instant of its call (router.go:95-105,
\* arbitrator.go:149-164).
THEOREM PollsAccurate == Spec => []PollAccurate
<1>1. IInv => PollAccurate
  BY DEF IInv, Polling, PollRight, Accurate, PollAccurate
<1> QED  BY <1>1, Invariance, PTL

\* What KEDA or a client has been told of is launchable (service.go:26-34, 61-102,
\* http.go:104-106, 125-147).
THEOREM KnownLaunchable == Spec => KnownIsLaunchable
<1> DEFINE Right(c) ==
               /\ \A q \in Polls : poll[q].state \in {"registered", "answered"} =>
                                        poll[q].key # op[c].key
               /\ \A d \in Calls : answer[d] # None => op[c].key \notin answer[d].keys
<1>1. ASSUME IInv, [Next]_vars, NEW c \in Calls, answer[c] = None, answer'[c] # None,
             answer'[c].status = 404, op[c].kind = "launch"
      PROVE  Right(c)
  <2>1. ~DeleteScaledObjectRequest(c) /\ ~PostSend(c)
    <3>1. ~DeleteScaledObjectRequest(c)
      BY <1>1 DEF DeleteScaledObjectRequest, Arrived
    <3>2. PostSend(c) => answer'[c].status = 202
      BY <1>1 DEF PostSend, Reply, IInv, TypeOK
    <3> QED  BY <1>1, <3>1, <3>2
  <2>2. op[c].key \notin known
    BY <1>1, <2>1, OwnAnswer
  <2> QED  BY <1>1, <2>2 DEF IInv, Registered
<1>2. IInv /\ [Next]_vars =>
          [\A c \in Calls :
              answer[c] = None /\ answer'[c] # None /\ answer'[c].status = 404
              /\ op[c].kind = "launch" => Right(c)]_vars
  BY <1>1
<1> QED  BY <1>2, Invariance, PTL DEF Spec, KnownIsLaunchable
=============================================================================
