------------------------ MODULE LauncherClientProofs ------------------------
(***************************************************************************)
(* NoLapse for every interval, duration, latency and buffer size that      *)
(* satisfy LatencyAssumption.                                              *)
(***************************************************************************)
EXTENDS LauncherClient, RequestNormalizationProofs, TLAPS

\* The latest time at which the next call begins: the first call is made before
\* the ticker exists, and a tick that came during a call is taken after it.
NextCallBy ==
    calledAt + (IF calls = 1 THEN Interval + MaxLatency
                ELSE IF Interval > MaxLatency THEN Interval ELSE MaxLatency)

\* A window that a post of time at brought: if the wall clock was not set since,
\* its start is no older than the post.
Aligned(w, at) ==
    at > steppedAt => /\ w # NoWindow /\ w.end = w.start + Duration
                      /\ w.start <= wall /\ wall - w.start <= clock - at

GoodPost(p) ==
    /\ p.call \in 1..calls /\ p.at <= clock /\ clock <= p.at + MaxLatency
    /\ p.call = calls => p.at = calledAt
    /\ p.window # NoWindow => Aligned(p.window, p.at)

PostsInTime ==
    /\ \A p \in handlers : GoodPost(p)
    /\ \A i \in DOMAIN requestCh : GoodPost(requestCh[i]) /\ requestCh[i].window # NoWindow

CallsInTime ==
    /\ calls >= 1 /\ calledAt <= clock
    /\ client = "calling" => clock <= calledAt + MaxLatency
    /\ client = "waiting" => clock <= NextCallBy
    /\ countdown = 0 => calls = 1 /\ client = "calling" /\ ~tick
    /\ client # "exited" /\ countdown # 0 /\ ~tick =>
           clock + countdown <= calledAt + Interval + (IF calls = 1 THEN MaxLatency ELSE 0)

\* The post of time at, applied last, is recent until the post of the next call
\* has been applied...
LastsUntilNext(at) == NextCallBy + MaxLatency <= at + Recovery

\* ...or until one that is under way has been applied, or its call has failed.
LastsUntilPending(at) ==
    \/ client = "calling" /\ ~answered /\ calledAt + MaxLatency <= at + Recovery
    \/ \E i \in DOMAIN requestCh : requestCh[i].at + MaxLatency <= at + Recovery

Lasts(at) == LastsUntilNext(at) \/ LastsUntilPending(at)

Lasting ==
    kept /\ client # "exited" =>
        \E at \in Time : at <= clock /\ Lasts(at) /\ Aligned(window, at)

IInv == TypeOK /\ PostsInTime /\ CallsInTime /\ Lasting

-----------------------------------------------------------------------------
(* Lemmas. *)

\* The client's request becomes a window of the configured length that starts
\* when the post arrives (main.go:97-111, request.go:40-62).
LEMMA LaunchedWindow ==
    ASSUME NEW t \in Time
    PROVE  /\ Launched(launchRequest, t) = [start |-> t, end |-> t + Duration]
           /\ Launched(launchRequest, t) \in Window
<1>1. Duration \in Nat /\ Duration > 0 /\ Duration # Absent
  BY ConfigAssumption, AbsentAssumption DEF validConfig
<1> DEFINE input == FromDomainLaunchRequest(launchRequest)
<1>2. /\ input.requestId /\ input.scaledObject
      /\ input.startAt = Absent /\ input.endAt = Absent /\ input.duration = Duration
  <2>1. launchRequest \in LaunchRequest
    BY <1>1 DEF LaunchRequest, OptionalTime, launchRequest
  <2>2. /\ launchRequest.requestId /\ launchRequest.scaledObject
        /\ launchRequest.startAt = Absent /\ launchRequest.endAt = Absent
        /\ launchRequest.duration = Duration
    BY DEF launchRequest
  <2> QED  BY <1>1, <2>1, <2>2, ConvertedInput
<1>3. Launched(launchRequest, t) = NormalizeRequest(input, t)
  <2>1. launchRequest \in LaunchRequest
    BY <1>1 DEF LaunchRequest, OptionalTime, launchRequest
  <2> QED  BY <2>1, LaunchedIsNormalized
<1>4. NormalizeRequest(input, t) = [start |-> t, end |-> t + Duration]
  BY <1>1, <1>2 DEF NormalizeRequest, wellFormed, effectiveStart, Time
<1> QED  BY <1>1, <1>3, <1>4 DEF Window, Time

\* The constants as the provers need them.
LEMMA Numbers ==
    /\ Interval \in Nat /\ Interval > 0 /\ Duration \in Nat /\ MaxLatency \in Nat
    /\ BufferSize \in Nat /\ MaxTime \in Nat
    /\ MaxClockSteps \in Nat /\ SetTo \subseteq Nat
    /\ Recovery \in Nat /\ Recovery <= Duration
    /\ Interval + 2 * MaxLatency <= Recovery /\ 3 * MaxLatency <= Recovery
BY ConfigAssumption, LatencyAssumption, BoundAssumption DEF validConfig, Recovery, Time

\* What is in the channel are posts.
LEMMA QueuedPost ==
    ASSUME requestCh \in Seq(Post), NEW i \in DOMAIN requestCh
    PROVE  requestCh[i] \in Post /\ requestCh[i].at \in Nat /\ requestCh[i].call \in Nat
<1>1. requestCh[i] \in Post
  OBVIOUS
<1> QED  BY <1>1 DEF Post, Time

\* What Append and Tail do to the posts in the channel.
LEMMA Appended ==
    ASSUME NEW q \in Seq(Post), NEW p \in Post
    PROVE  /\ Append(q, p) \in Seq(Post) /\ Len(Append(q, p)) = Len(q) + 1
           /\ \A i \in DOMAIN q : i \in DOMAIN Append(q, p) /\ Append(q, p)[i] = q[i]
           /\ Len(q) + 1 \in DOMAIN Append(q, p) /\ Append(q, p)[Len(q) + 1] = p
           /\ \A i \in DOMAIN Append(q, p) : i \in DOMAIN q \/ Append(q, p)[i] = p
OBVIOUS

LEMMA Removed ==
    ASSUME NEW q \in Seq(Post), q # <<>>
    PROVE  /\ Head(q) \in Post /\ 1 \in DOMAIN q /\ Head(q) = q[1]
           /\ Tail(q) \in Seq(Post) /\ Len(Tail(q)) = Len(q) - 1
           /\ \A i \in DOMAIN Tail(q) : i + 1 \in DOMAIN q /\ Tail(q)[i] = q[i + 1]
OBVIOUS

\* A post that lasts was made at most Recovery ago.
LEMMA Recent ==
    ASSUME IInv, client # "exited", NEW at \in Time, Lasts(at)
    PROVE  clock <= at + Recovery
<1>1. clock \in Nat /\ calledAt \in Nat /\ calls \in Nat /\ requestCh \in Seq(Post) /\ at \in Nat
  BY DEF IInv, TypeOK, Time
<1>2. CASE LastsUntilNext(at)
  <2>1. clock <= NextCallBy
    BY <1>1, Numbers DEF IInv, CallsInTime, NextCallBy, TypeOK
  <2> QED  BY <1>1, <1>2, <2>1, Numbers DEF LastsUntilNext, NextCallBy
<1>3. CASE client = "calling" /\ calledAt + MaxLatency <= at + Recovery
  BY <1>1, <1>3, Numbers DEF IInv, CallsInTime
<1>4. CASE \E i \in DOMAIN requestCh : requestCh[i].at + MaxLatency <= at + Recovery
  <2>1. PICK i \in DOMAIN requestCh : requestCh[i].at + MaxLatency <= at + Recovery
    BY <1>4
  <2>2. requestCh[i].at \in Nat /\ clock <= requestCh[i].at + MaxLatency
    BY <1>1, QueuedPost DEF IInv, PostsInTime, GoodPost
  <2> QED  BY <1>1, <2>1, <2>2, Numbers
<1> QED  BY <1>2, <1>3, <1>4 DEF Lasts, LastsUntilPending

\* Its window is in force, if the wall clock was not set since.
LEMMA AlignedInForce ==
    ASSUME IInv, NEW at \in Time, clock <= at + Recovery, at > steppedAt, Aligned(window, at)
    PROVE  window # NoWindow /\ shouldActivate(window, wall)
<1>1. window \in Window /\ window.start \in Nat /\ window.end = window.start + Duration
  BY DEF IInv, TypeOK, Aligned, Window, Time
<1>2. window.start <= wall /\ wall - window.start <= clock - at
  BY DEF Aligned
<1>3. clock \in Nat /\ wall \in Nat /\ at \in Nat
  BY DEF IInv, TypeOK, Time
<1> QED  BY <1>1, <1>2, <1>3, Numbers, NoWindowAssumption DEF shouldActivate, notYetStarted, alreadyEnded

\* What NoLapse needs is in the invariant.
LEMMA LastingSuffices == IInv => NoLapse
<1> SUFFICES ASSUME IInv, kept, client # "exited", clock > steppedAt + Recovery
             PROVE  window # NoWindow /\ shouldActivate(window, wall)
  BY DEF NoLapse
<1>1. PICK at \in Time : Lasts(at) /\ Aligned(window, at)
  BY DEF IInv, Lasting
<1>2. clock <= at + Recovery
  BY <1>1, Recent
<1>3. at > steppedAt
  BY <1>2, Numbers DEF IInv, TypeOK, Time
<1> QED  BY <1>1, <1>2, <1>3, AlignedInForce

-----------------------------------------------------------------------------
(* Type correctness. *)

\* The initial state is well typed.
LEMMA TypeInit == Init => TypeOK
<1> SUFFICES ASSUME Init PROVE TypeOK
  OBVIOUS
<1>1. [call |-> 1, at |-> 0, window |-> NoWindow] \in Post
  BY DEF Post, Time
<1>2. requestCh \in Seq(Post) /\ Len(requestCh) <= BufferSize
  BY Numbers DEF Init
<1>3. /\ clock \in Time /\ wall \in Time /\ clockSteps \in Nat /\ steppedAt \in Int
      /\ calledAt \in Time /\ calls \in Nat /\ countdown \in 0..Interval
  BY Numbers DEF Init, Time
<1> QED  BY <1>1, <1>2, <1>3 DEF Init, TypeOK

\* No step breaks the types, nor overfills the channel.
LEMMA TypeStep == TypeOK /\ [Next]_vars => TypeOK'
<1> SUFFICES ASSUME TypeOK, [Next]_vars PROVE TypeOK'
  OBVIOUS
<1>1. CASE PassTime
  <2>1. clock' \in Time /\ wall' \in Time /\ countdown' \in 0..Interval
    BY <1>1, Numbers DEF TypeOK, PassTime, Time
  <2>2. tick' \in BOOLEAN
    BY <1>1 DEF TypeOK, PassTime
  <2> QED  BY <1>1, <2>1, <2>2 DEF TypeOK, PassTime, serverVars
<1>2. CASE Call
  <2>1. [call |-> calls', at |-> clock, window |-> NoWindow] \in Post
    BY <1>2 DEF TypeOK, Call, Post, Time
  <2>2. calls' \in Nat /\ handlers' \subseteq Post
    BY <1>2, <2>1 DEF TypeOK, Call
  <2> QED  BY <1>2, <2>2 DEF TypeOK, Call, wallVars
<1>3. CASE Succeed \/ Fail \/ Exit
  <2>1. countdown' \in 0..Interval
    BY <1>3, Numbers DEF TypeOK, Succeed, Fail, Exit, ensureTicker
  <2> QED  BY <1>3, <2>1 DEF TypeOK, Succeed, Fail, Exit, serverVars, wallVars
<1>4. CASE \E p \in handlers : Normalize(p)
  <2>1. PICK p \in handlers : Normalize(p)
    BY <1>4
  <2>2. [p EXCEPT !.window = Launched(launchRequest, wall)] \in Post
    BY LaunchedWindow DEF TypeOK, Post
  <2> QED  BY <2>1, <2>2 DEF TypeOK, Normalize, clientVars, wallVars
<1>5. CASE \E p \in handlers : Accept(p)
  <2>1. PICK p \in handlers : Accept(p)
    BY <1>5
  <2>2. requestCh' \in Seq(Post) /\ Len(requestCh') <= BufferSize
    BY <2>1, Appended, Numbers DEF TypeOK, Accept
  <2> QED  BY <2>1, <2>2 DEF TypeOK, Accept, wallVars
<1>6. CASE \E p \in handlers : GiveUp(p)
  BY <1>6 DEF TypeOK, GiveUp, clientVars, wallVars
<1>7. CASE Apply
  <2>1. requestCh' \in Seq(Post) /\ Len(requestCh') <= BufferSize /\ Head(requestCh) \in Post
    BY <1>7, Removed, Numbers DEF TypeOK, Apply
  <2> QED  BY <1>7, <2>1 DEF TypeOK, Apply, Post, clientVars, wallVars
<1>8. CASE UNCHANGED vars
  BY <1>8 DEF TypeOK, vars, clientVars, serverVars, wallVars
<1>9. CASE ClockStep
  <2>1. wall' \in Time /\ clockSteps' \in Nat /\ steppedAt' \in Int
    BY <1>9, Numbers DEF TypeOK, ClockStep, Time
  <2> QED  BY <1>9, <2>1 DEF TypeOK, ClockStep, clientVars, serverVars
<1>10. CASE Prune
  BY <1>10 DEF TypeOK, Prune, clientVars, wallVars
<1> QED  BY <1>1, <1>2, <1>3, <1>4, <1>5, <1>6, <1>7, <1>8, <1>9, <1>10 DEF Next

-----------------------------------------------------------------------------
(* Posts are in time, and carry the windows they should. *)

\* The first post is on its way, and no other.
LEMMA PostsInit == Init => PostsInTime
BY Numbers DEF Init, PostsInTime, GoodPost

\* While the clock and the calls stand still, good posts stay good.
LEMMA GoodStays ==
    ASSUME UNCHANGED <<clock, wall, steppedAt, calls, calledAt>>, NEW p, GoodPost(p)
    PROVE  GoodPost(p)'
BY DEF GoodPost, Aligned

\* A window keeps pace with the wall clock, and nothing is claimed of one whose
\* post was made before a step.
LEMMA AlignedStays ==
    ASSUME TypeOK, NEW w \in Window \cup {NoWindow}, NEW at \in Time, at <= clock,
           Aligned(w, at), PassTime \/ ClockStep
    PROVE  Aligned(w, at)'
<1>1. clock \in Nat /\ wall \in Nat /\ at \in Nat /\ (w # NoWindow => w.start \in Nat)
  BY DEF TypeOK, Window, Time
<1>2. CASE PassTime
  <2>1. clock' = clock + 1 /\ wall' = wall + 1 /\ steppedAt' = steppedAt
    BY <1>2 DEF PassTime
  <2>2. at > steppedAt =>
            w.start <= wall + 1 /\ wall + 1 - w.start <= clock + 1 - at
    BY <1>1 DEF Aligned
  <2> QED  BY <1>1, <2>1, <2>2 DEF Aligned
<1>3. CASE ClockStep
  BY <1>1, <1>3 DEF ClockStep, Aligned
<1> QED  BY <1>2, <1>3

\* PassTime waits for whatever is due, and an old post is not taken for one of
\* the new call.
LEMMA PostsStep == IInv /\ [Next]_vars => PostsInTime'
<1> SUFFICES ASSUME IInv, [Next]_vars PROVE PostsInTime'
  OBVIOUS
<1>1. /\ clock \in Nat /\ wall \in Nat /\ calls \in Nat /\ calledAt \in Nat
      /\ handlers \subseteq Post /\ requestCh \in Seq(Post)
      /\ \A p \in handlers : GoodPost(p)
      /\ \A i \in DOMAIN requestCh : GoodPost(requestCh[i]) /\ requestCh[i].window # NoWindow
  BY DEF IInv, TypeOK, PostsInTime, Time
<1>2. \A p \in Post : p.at \in Nat /\ p.call \in Nat /\ (p.window # NoWindow =>
          p.window.start \in Nat /\ p.window.end \in Nat)
  BY DEF Post, Window, Time
<1>3. CASE PassTime
  <2>1. ASSUME NEW p \in Post, GoodPost(p), InTime(p.at) PROVE GoodPost(p)'
    <3>1. /\ clock' = clock + 1 /\ UNCHANGED <<calls, calledAt>>
          /\ p.at <= clock /\ clock < p.at + MaxLatency
      BY <1>3, <2>1 DEF PassTime, GoodPost, InTime
    <3>2. p.window # NoWindow => Aligned(p.window, p.at)'
      <4>1. TypeOK /\ p.window \in Window \cup {NoWindow} /\ p.at \in Time
        BY <2>1 DEF IInv, Post
      <4> QED  BY <1>3, <2>1, <3>1, <4>1, AlignedStays DEF GoodPost
    <3> QED  BY <1>1, <1>2, <2>1, <3>1, <3>2, Numbers DEF GoodPost
  <2>2. \A p \in handlers : GoodPost(p)'
    BY <1>1, <1>3, <2>1 DEF PassTime, MayPass
  <2>3. \A i \in DOMAIN requestCh, p \in Post : p = requestCh[i] => GoodPost(p)'
    BY <1>1, <1>3, <2>1 DEF PassTime, MayPass
  <2>4. UNCHANGED <<handlers, requestCh>>
    BY <1>3 DEF PassTime, serverVars
  <2> QED  BY <1>1, <2>2, <2>3, <2>4, QueuedPost DEF PostsInTime
<1>4. CASE Call
  <2>1. ASSUME NEW p \in Post, GoodPost(p) PROVE GoodPost(p)'
    BY <1>1, <1>2, <1>4, <2>1 DEF Call, GoodPost, Aligned, wallVars
  <2>2. PICK new : new = [call |-> calls + 1, at |-> clock, window |-> NoWindow]
    OBVIOUS
  <2>3. GoodPost(new)'
    BY <1>1, <1>4, <2>2, Numbers DEF Call, GoodPost
  <2>4. handlers' = handlers \cup {new} /\ requestCh' = requestCh
    BY <1>4, <2>2 DEF Call
  <2>5. \A p \in handlers' : GoodPost(p)'
    BY <1>1, <2>1, <2>3, <2>4
  <2>6. \A i \in DOMAIN requestCh, p \in Post : p = requestCh[i] => GoodPost(p)'
    BY <1>1, <2>1
  <2> QED  BY <1>1, <2>4, <2>5, <2>6, QueuedPost DEF PostsInTime
<1>5. CASE Succeed \/ Fail \/ Exit \/ UNCHANGED vars
  BY <1>1, <1>5 DEF Succeed, Fail, Exit, PostsInTime, GoodPost, Aligned, vars, clientVars, serverVars,
     wallVars
<1>6. CASE \E p \in handlers : Normalize(p)
  <2>1. PICK p \in handlers : Normalize(p)
    BY <1>6
  <2>2. PICK q : q = [p EXCEPT !.window = Launched(launchRequest, wall)]
    OBVIOUS
  <2>3. /\ q.call = p.call /\ q.at = p.at
        /\ q.window = [start |-> wall, end |-> wall + Duration]
    BY <1>1, <2>1, <2>2, LaunchedWindow DEF Post, Time
  <2>4. /\ UNCHANGED <<clock, wall, steppedAt, calls, calledAt, requestCh>>
        /\ handlers' \subseteq handlers \cup {q}
    BY <2>1, <2>2 DEF Normalize, clientVars, wallVars
  <2>5. GoodPost(q)'
    <3>1. Aligned(q.window, q.at)'
      <4>1. q.at \in Nat /\ q.at <= clock
        BY <1>1, <1>2, <2>1, <2>3 DEF GoodPost
      <4>2. q.window \in Window
        BY <1>1, <2>3, Numbers DEF Window, Time
      <4>3. q.window # NoWindow
        BY <4>2, NoWindowAssumption
      <4> QED  BY <1>1, <2>3, <2>4, <4>1, <4>3 DEF Aligned
    <3> QED  BY <1>1, <2>1, <2>3, <2>4, <3>1 DEF GoodPost
  <2> QED  BY <1>1, <2>4, <2>5, GoodStays DEF PostsInTime
<1>7. CASE \E p \in handlers : Accept(p)
  <2>1. PICK p \in handlers : Accept(p)
    BY <1>7
  <2>2. /\ UNCHANGED <<clock, wall, steppedAt, calls, calledAt>>
        /\ handlers' \subseteq handlers /\ p.window # NoWindow
    BY <2>1 DEF Accept, wallVars
  <2>3. \A i \in DOMAIN requestCh' : requestCh'[i] = p \/ \E j \in DOMAIN requestCh : requestCh'[i] = requestCh[j]
    BY <1>1, <2>1, Appended DEF Accept
  <2>4. \A i \in DOMAIN requestCh' : GoodPost(requestCh'[i]) /\ requestCh'[i].window # NoWindow
    BY <1>1, <2>2, <2>3
  <2> QED  BY <1>1, <2>2, <2>4, GoodStays DEF PostsInTime
<1>8. CASE \E p \in handlers : GiveUp(p)
  BY <1>1, <1>8 DEF GiveUp, clientVars, wallVars, PostsInTime, GoodPost, Aligned
<1>9. CASE Apply
  <2>1. UNCHANGED <<clock, wall, steppedAt, calls, calledAt, handlers>>
    BY <1>9 DEF Apply, clientVars, wallVars
  <2>2. \A i \in DOMAIN requestCh' : \E j \in DOMAIN requestCh : requestCh'[i] = requestCh[j]
    BY <1>1, <1>9, Removed DEF Apply
  <2>3. \A i \in DOMAIN requestCh' : GoodPost(requestCh'[i]) /\ requestCh'[i].window # NoWindow
    BY <1>1, <2>2
  <2> QED  BY <1>1, <2>1, <2>3, GoodStays DEF PostsInTime
<1>10. CASE ClockStep
  <2>1. UNCHANGED <<clock, calls, calledAt, handlers, requestCh>>
    BY <1>10 DEF ClockStep, clientVars, serverVars
  <2>2. ASSUME NEW p \in Post, GoodPost(p) PROVE GoodPost(p)'
    <3>1. TypeOK /\ p.window \in Window \cup {NoWindow} /\ p.at \in Time /\ p.at <= clock
      BY <2>2 DEF IInv, Post, GoodPost
    <3> QED  BY <1>10, <2>1, <2>2, <3>1, AlignedStays DEF GoodPost
  <2>3. \A i \in DOMAIN requestCh, p \in Post : p = requestCh[i] => GoodPost(p)'
    BY <1>1, <2>2
  <2> QED  BY <1>1, <2>1, <2>2, <2>3, QueuedPost DEF PostsInTime
<1>11. CASE Prune
  BY <1>1, <1>11 DEF Prune, clientVars, wallVars, PostsInTime, GoodPost, Aligned
<1> QED  BY <1>3, <1>4, <1>5, <1>6, <1>7, <1>8, <1>9, <1>10, <1>11 DEF Next

-----------------------------------------------------------------------------
(* Calls are in time. *)

\* The first call has just begun.
LEMMA CallsInit == Init => CallsInTime
BY Numbers DEF Init, CallsInTime

\* The ticker's next tick is never further away than its interval, and counted
\* from the call that took the last one.
LEMMA CallsStep == IInv /\ [Next]_vars => CallsInTime'
<1> SUFFICES ASSUME IInv, [Next]_vars PROVE CallsInTime'
  OBVIOUS
<1>1. /\ clock \in Nat /\ calls \in Nat /\ calledAt \in Nat /\ countdown \in 0..Interval
      /\ CallsInTime
  BY DEF IInv, TypeOK, Time
<1>2. CASE PassTime
  <2>1. clock' = clock + 1 /\ UNCHANGED <<client, calls, calledAt>>
    BY <1>2 DEF PassTime
  <2>2. /\ calls' >= 1 /\ calledAt' <= clock'
        /\ client' = "calling" => clock' <= calledAt' + MaxLatency
    BY <1>1, <1>2, <2>1, Numbers DEF CallsInTime, PassTime, MayPass, InTime
  <2>3. ASSUME client = "waiting" PROVE clock' <= NextCallBy'
    <3>1. ~tick /\ countdown >= 1
      BY <1>1, <1>2, <2>3, Numbers DEF CallsInTime, PassTime, MayPass
    <3>2. clock + countdown <= calledAt + Interval + (IF calls = 1 THEN MaxLatency ELSE 0)
      BY <1>1, <2>3, <3>1 DEF CallsInTime
    <3> QED  BY <1>1, <2>1, <3>1, <3>2, Numbers DEF NextCallBy
  <2>4. countdown' = 0 => calls' = 1 /\ client' = "calling" /\ ~tick'
    BY <1>1, <1>2, <2>1, Numbers DEF CallsInTime, PassTime
  <2>5. client' # "exited" /\ countdown' # 0 /\ ~tick' =>
            clock' + countdown' <= calledAt' + Interval + (IF calls' = 1 THEN MaxLatency ELSE 0)
    BY <1>1, <1>2, <2>1, Numbers DEF CallsInTime, PassTime
  <2> QED  BY <2>1, <2>2, <2>3, <2>4, <2>5 DEF CallsInTime
<1>3. CASE Call
  BY <1>1, <1>3, Numbers DEF Call, CallsInTime, NextCallBy
<1>4. CASE Succeed \/ Fail
  <2>1. /\ client = "calling" /\ client' = "waiting" /\ ensureTicker
        /\ UNCHANGED <<clock, calls, calledAt, tick>>
    BY <1>4 DEF Succeed, Fail
  <2>2. clock' <= NextCallBy'
    BY <1>1, <2>1, Numbers DEF CallsInTime, NextCallBy
  <2> QED  BY <1>1, <2>1, <2>2, Numbers DEF CallsInTime, ensureTicker
<1>5. CASE Exit
  BY <1>1, <1>5 DEF Exit, CallsInTime
<1>6. CASE UNCHANGED <<clock, client, calls, calledAt, countdown, tick>>
  BY <1>1, <1>6 DEF CallsInTime, NextCallBy
<1>7. CASE \/ \E p \in handlers : Normalize(p) \/ Accept(p) \/ GiveUp(p)
           \/ Apply \/ Prune \/ ClockStep \/ UNCHANGED vars
  BY <1>6, <1>7 DEF Normalize, Accept, GiveUp, Apply, Prune, ClockStep, clientVars, vars
<1> QED  BY <1>2, <1>3, <1>4, <1>5, <1>7 DEF Next

-----------------------------------------------------------------------------
(* The window lasts. *)

\* No window is kept yet.
LEMMA LastingInit == Init => Lasting
BY DEF Init, Lasting

\* Whatever post is applied, it lasts until the next call's post has been: if its
\* own call is the last one, the next is at most a latency and an interval away;
\* if it has overtaken a later call's post, that call was made within a latency of
\* its own.
LEMMA AppliedLasts == IInv /\ Apply => Lasting'
<1> SUFFICES ASSUME IInv, Apply PROVE Lasting'
  OBVIOUS
<1>1. PICK p : p = Head(requestCh)
  OBVIOUS
<1>2. p \in Post /\ GoodPost(p) /\ p.window # NoWindow
  BY <1>1, Removed DEF IInv, TypeOK, Apply, PostsInTime
<1>3. /\ p.at \in Nat /\ p.call \in Nat
      /\ clock \in Nat /\ calls \in Nat /\ calledAt \in Nat /\ calledAt <= clock
  BY <1>2 DEF IInv, TypeOK, CallsInTime, Post, Time
<1>4. LastsUntilNext(p.at)
  <2>1. CASE p.call = calls
    BY <1>2, <1>3, <2>1, Numbers DEF GoodPost, NextCallBy, LastsUntilNext, Recovery
  <2>2. CASE p.call # calls
    <3>1. calls # 1 /\ calledAt <= p.at + MaxLatency
      BY <1>2, <1>3, <2>2, Numbers DEF GoodPost
    <3> QED  BY <1>3, <3>1, Numbers DEF NextCallBy, LastsUntilNext, Recovery
  <2> QED  BY <2>1, <2>2
<1>5. window' = p.window /\ UNCHANGED <<clock, wall, steppedAt, calls, calledAt>>
  BY <1>1 DEF Apply, clientVars, wallVars
<1>6. PICK at \in Time : at = p.at
  BY <1>3 DEF Time
<1>7. LastsUntilNext(at)' /\ at <= clock'
  BY <1>2, <1>4, <1>5, <1>6 DEF LastsUntilNext, NextCallBy, GoodPost
<1>8. Aligned(p.window, at)
  BY <1>2, <1>6 DEF GoodPost
<1>9. Aligned(window, at)'
  BY <1>5, <1>8 DEF Aligned
<1> QED  BY <1>7, <1>9 DEF Lasting, Lasts

\* A post that lasts goes on lasting until another has been applied: a call that
\* has begun ends in a post in the channel or in a failure.
LEMMA GoesOnLasting ==
    ASSUME IInv, [Next]_vars, ~Apply, kept', client' # "exited", NEW at \in Time, Lasts(at)
    PROVE  Lasts(at)'
<1>1. /\ clock \in Nat /\ calls \in Nat /\ calledAt \in Nat /\ requestCh \in Seq(Post)
      /\ at \in Nat /\ CallsInTime
  BY DEF IInv, TypeOK, Time
<1>2. CASE UNCHANGED <<client, calls, calledAt, answered, requestCh>>
  BY <1>2 DEF Lasts, LastsUntilNext, LastsUntilPending, NextCallBy
<1>3. CASE Call
  <2>1. CASE LastsUntilNext(at)
    <3>1. clock + MaxLatency <= at + Recovery
      BY <1>1, <1>3, <2>1, Numbers DEF Call, CallsInTime, LastsUntilNext, NextCallBy
    <3> QED  BY <1>3, <3>1 DEF Call, Lasts, LastsUntilPending
  <2>2. CASE LastsUntilPending(at)
    BY <1>3, <2>2 DEF Call, Lasts, LastsUntilPending
  <2> QED  BY <2>1, <2>2 DEF Lasts
<1>4. CASE Succeed
  BY <1>1, <1>4 DEF Succeed, serverVars, Lasts, LastsUntilNext, LastsUntilPending, NextCallBy
<1>5. CASE Fail \/ Exit
  BY <1>5 DEF Fail, Exit
<1>6. CASE \E p \in handlers : Accept(p)
  <2>1. PICK p \in handlers : Accept(p)
    BY <1>6
  <2>2. LastsUntilNext(at) => LastsUntilNext(at)'
    BY <2>1 DEF Accept, LastsUntilNext, NextCallBy
  <2>3. ASSUME LastsUntilPending(at) PROVE LastsUntilPending(at)'
    <3>1. CASE \E i \in DOMAIN requestCh : requestCh[i].at + MaxLatency <= at + Recovery
      BY <1>1, <2>1, <3>1, Appended DEF Accept, LastsUntilPending, IInv, TypeOK
    <3>2. CASE /\ client = "calling" /\ ~answered /\ calledAt + MaxLatency <= at + Recovery
               /\ p.call = calls
      <4>1. p.at = calledAt /\ p \in Post
        BY <3>2 DEF IInv, TypeOK, PostsInTime, GoodPost
      <4>2. Len(requestCh) + 1 \in DOMAIN requestCh' /\ requestCh'[Len(requestCh) + 1] = p
        BY <1>1, <2>1, <4>1, Appended DEF Accept
      <4> QED  BY <2>1, <3>2, <4>1, <4>2 DEF Accept, LastsUntilPending
    <3>3. CASE /\ client = "calling" /\ ~answered /\ calledAt + MaxLatency <= at + Recovery
               /\ p.call # calls
      BY <2>1, <3>3 DEF Accept, LastsUntilPending
    <3> QED  BY <2>3, <3>1, <3>2, <3>3 DEF LastsUntilPending
  <2> QED  BY <2>2, <2>3 DEF Lasts
<1>7. CASE PassTime \/ ClockStep \/ Prune \/ UNCHANGED vars
           \/ \E p \in handlers : Normalize(p) \/ GiveUp(p)
  BY <1>2, <1>7 DEF PassTime, ClockStep, Prune, Normalize, GiveUp, clientVars, serverVars, vars
<1> QED  BY <1>3, <1>4, <1>5, <1>6, <1>7 DEF Next

\* What the window says of its post is disturbed by time, by a step of the clock
\* and by pruning alone, and pruning finds no window that is in force.
LEMMA LastingStep == IInv /\ [Next]_vars => Lasting'
<1> SUFFICES ASSUME IInv, [Next]_vars, ~Apply, kept', client' # "exited"
             PROVE  (\E at \in Time : at <= clock /\ Lasts(at) /\ Aligned(window, at))'
  BY AppliedLasts DEF Lasting
<1>1. kept /\ client # "exited"
  BY DEF Next, PassTime, ClockStep, Call, Succeed, Fail, Exit, Normalize, Accept, GiveUp, Prune,
     vars, clientVars
<1>2. PICK at \in Time : at <= clock /\ Lasts(at) /\ Aligned(window, at)
  BY <1>1 DEF IInv, Lasting
<1>3. Lasts(at)'
  BY <1>2, GoesOnLasting
<1>4. TypeOK /\ window \in Window \cup {NoWindow} /\ clock \in Nat /\ at \in Nat
  BY DEF IInv, TypeOK, Time
<1>5. CASE PassTime \/ ClockStep
  <2>1. PICK w : w = window
    OBVIOUS
  <2>2. Aligned(w, at)'
    BY <1>2, <1>4, <1>5, <2>1, AlignedStays
  <2>3. window' = w /\ at <= clock'
    <3>1. window' = window /\ (clock' = clock + 1 \/ clock' = clock)
      BY <1>5 DEF PassTime, ClockStep, serverVars
    <3> QED  BY <1>2, <1>4, <2>1, <3>1
  <2>4. Aligned(window, at)'
    BY <2>2, <2>3 DEF Aligned
  <2> QED  BY <1>3, <2>3, <2>4
<1>6. CASE Prune
  <2>1. ~(at > steppedAt)
    <3>1. clock <= at + Recovery
      BY <1>1, <1>2, Recent
    <3> QED  BY <1>2, <1>6, <3>1, AlignedInForce DEF Prune, shouldActivate
  <2> QED  BY <1>2, <1>3, <1>6, <2>1 DEF Prune, wallVars, Aligned
<1>7. CASE UNCHANGED <<clock, wall, steppedAt, window>>
  BY <1>2, <1>3, <1>7 DEF Aligned
<1>8. CASE \/ Call \/ Succeed \/ Fail \/ Exit \/ UNCHANGED vars
           \/ \E p \in handlers : Normalize(p) \/ Accept(p) \/ GiveUp(p)
  BY <1>7, <1>8 DEF Call, Succeed, Fail, Exit, Normalize, Accept, GiveUp, clientVars, serverVars,
     wallVars, vars
<1> QED  BY <1>5, <1>6, <1>8 DEF Next

-----------------------------------------------------------------------------
(* The theorems. *)

\* IInv is an invariant.
LEMMA Invariance == Spec => []IInv
<1>1. Init => IInv
  BY TypeInit, PostsInit, CallsInit, LastingInit DEF IInv
<1>2. IInv /\ [Next]_vars => IInv'
  BY TypeStep, PostsStep, CallsStep, LastingStep DEF IInv
<1> QED  BY <1>1, <1>2, PTL DEF Spec

\* Every variable of the client's loop and of the server's side keeps its type;
\* in particular requestCh never holds more than it can.
THEOREM TypeCorrect == Spec => []TypeOK
<1>1. IInv => TypeOK
  BY DEF IInv
<1> QED  BY <1>1, Invariance, PTL

\* For every interval, duration and latency that satisfy LatencyAssumption, for
\* every capacity of the channel and however often and far the server's clock is
\* set: from the moment a post is applied until a call fails, the ScaledObject is
\* active, except for at most Recovery after the clock was set (main.go:81-94,
\* http.go:95).
THEOREM WindowNeverLapses == Spec => []NoLapse
BY LastingSuffices, Invariance, PTL
=============================================================================
