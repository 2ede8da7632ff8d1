--------------------------- MODULE LauncherClient ---------------------------
(***************************************************************************)
(* The launcher client (cmd/keda-launcher-client/main.go) against the      *)
(* receiver: it posts a request with a duration, and again at every tick   *)
(* of a ticker, to keep one ScaledObject active without a gap.             *)
(*                                                                         *)
(* On the server a post passes through its handler, which computes the     *)
(* window and then waits for room in requestCh, and through the channel to *)
(* the arbitrator's table, where it replaces the window of the post        *)
(* before.  A call may fail for the client at any time while its handler   *)
(* lives on.  Both processes measure durations in real time, clock, at the *)
(* same rate.  A window is made of instants of the server's wall clock:    *)
(* http.go:95 passes time.Now().UTC(), and UTC() drops the monotonic       *)
(* reading, so Add, Before and After use the wall clock.  That clock may   *)
(* be set, forward or back, and then the window in the table is wrong      *)
(* until a later post has replaced it.                                     *)
(***************************************************************************)
EXTENDS RequestNormalization, Sequences

CONSTANTS
    Interval,     \* cfg.RequestInterval
    Duration,     \* cfg.RequestDuration
    MaxLatency,   \* every post is applied, or given up, and its call has
                  \* returned within MaxLatency of the call
    BufferSize,   \* capacity of requestCh and of what lies behind it
    MaxTime,      \* bound: the horizon
    MaxClockSteps,\* bound: how often the server's wall clock is set
    SetTo         \* bound: the instants it may be set to

\* What Load lets through.
validConfig == Interval > 0 /\ Duration > 0 /\ Duration > Interval

ASSUME ConfigAssumption  == Interval \in Int /\ Duration \in Int /\ validConfig
\* What it takes to leave no gap: Duration > Interval alone allows no latency.
ASSUME LatencyAssumption == /\ MaxLatency \in Nat
                            /\ Interval + 2 * MaxLatency <= Duration
                            /\ 3 * MaxLatency <= Duration
ASSUME BoundAssumption   == /\ BufferSize \in Nat \ {0} /\ MaxTime \in Nat
                            /\ MaxClockSteps \in Nat /\ SetTo \subseteq Time

\* The longest time from a post to the moment at which the next one has replaced
\* its window: its call may last, or have been given up at once, the next call
\* comes an interval or a slow call later, and its post takes a latency.
Recovery == (IF Interval > MaxLatency THEN Interval ELSE MaxLatency) + 2 * MaxLatency

VARIABLES
    clock,      \* real time since the client's start
    wall,       \* the server's wall clock
    clockSteps, \* how often it was set
    steppedAt,  \* when it was set last; at the start, long ago
    client,     \* where runClient is
    calls,      \* how many calls it has begun
    calledAt,   \* when it began the last one
    answered,   \* the receiver has answered that call with 202
    countdown,  \* until the ticker fires; 0 before it is created
    tick,       \* ticker.C, of capacity 1, holds a tick
    handlers,   \* posts whose handler has not finished
    requestCh,  \* posts accepted and not yet applied
    window,     \* the window in the arbitrator's table, or NoWindow
    kept        \* a post has been applied and no call has failed since

clientVars == <<client, calls, calledAt, answered, countdown, tick>>
serverVars == <<handlers, requestCh, window>>
wallVars   == <<wall, clockSteps, steppedAt>>
vars == <<clock, wallVars, clientVars, serverVars, kept>>

-----------------------------------------------------------------------------
\* A post of the given call; window is NoWindow until the handler computes it.
Post == [call : Nat, at : Time, window : Window \cup {NoWindow}]

launchRequest == [requestId |-> TRUE, scaledObject |-> TRUE, startAt |-> Absent,
                  endAt |-> Absent, duration |-> Duration]

TypeOK ==
    /\ clock \in Time /\ wall \in Time /\ clockSteps \in Nat /\ steppedAt \in Int
    /\ client \in {"calling", "waiting", "exited"}
    /\ calls \in Nat /\ calledAt \in Time /\ answered \in BOOLEAN
    /\ countdown \in 0..Interval /\ tick \in BOOLEAN
    /\ handlers \subseteq Post
    /\ requestCh \in Seq(Post) /\ Len(requestCh) <= BufferSize
    /\ window \in Window \cup {NoWindow}
    /\ kept \in BOOLEAN

\* The first call is made before the ticker exists.
Init ==
    /\ clock = 0
    /\ wall = 0 /\ clockSteps = 0 /\ steppedAt = -(Recovery + 1)
    /\ client = "calling" /\ calls = 1 /\ calledAt = 0 /\ answered = FALSE
    /\ countdown = 0 /\ tick = FALSE
    /\ handlers = {[call |-> 1, at |-> 0, window |-> NoWindow]}
    /\ requestCh = <<>> /\ window = NoWindow
    /\ kept = FALSE

-----------------------------------------------------------------------------
(* Time. *)

\* What MaxLatency promises, and that a waiting client takes a tick at once.
InTime(at) == clock < at + MaxLatency
MayPass ==
    /\ \A p \in handlers : InTime(p.at)
    /\ \A i \in DOMAIN requestCh : InTime(requestCh[i].at)
    /\ client = "calling" => InTime(calledAt)
    /\ ~(client = "waiting" /\ tick)

\* A tick that finds ticker.C full is dropped.
PassTime ==
    /\ clock < MaxTime /\ MayPass
    /\ clock' = clock + 1 /\ wall' = wall + 1
    /\ IF countdown = 1 THEN countdown' = Interval /\ tick' = TRUE
       ELSE /\ countdown' = IF countdown = 0 THEN 0 ELSE countdown - 1
            /\ UNCHANGED tick
    /\ UNCHANGED <<clockSteps, steppedAt, client, calls, calledAt, answered, serverVars, kept>>

\* An administrator or NTP sets the server's wall clock.
ClockStep ==
    /\ clockSteps < MaxClockSteps
    /\ clockSteps' = clockSteps + 1 /\ steppedAt' = clock
    /\ wall' \in SetTo \ {wall}
    /\ UNCHANGED <<clock, clientVars, serverVars, kept>>

-----------------------------------------------------------------------------
(* runClient. *)

Call ==
    /\ client = "waiting" /\ tick
    /\ tick' = FALSE
    /\ client' = "calling"
    /\ calls' = calls + 1 /\ calledAt' = clock /\ answered' = FALSE
    /\ handlers' = handlers \cup {[call |-> calls', at |-> clock, window |-> NoWindow]}
    /\ UNCHANGED <<clock, wallVars, countdown, requestCh, window, kept>>

\* Faulty: the ticker is created with the duration instead of the interval.
ensureSlowTicker == countdown' = IF countdown = 0 THEN Duration ELSE countdown

\* The first call has returned, and the ticker is created.
ensureTicker == countdown' = IF countdown = 0 THEN Interval ELSE countdown

Succeed ==
    /\ client = "calling" /\ answered
    /\ client' = "waiting"
    /\ ensureTicker
    /\ UNCHANGED <<clock, wallVars, calls, calledAt, answered, tick, serverVars, kept>>

\* The error is logged, and the loop goes on as if nothing had happened.
Fail ==
    /\ client = "calling"
    /\ client' = "waiting"
    /\ ensureTicker
    /\ kept' = FALSE
    /\ UNCHANGED <<clock, wallVars, calls, calledAt, answered, tick, serverVars>>

Exit ==
    /\ client = "waiting"
    /\ client' = "exited"
    /\ UNCHANGED <<clock, wallVars, calls, calledAt, answered, countdown, tick, serverVars, kept>>

-----------------------------------------------------------------------------
(* The receiver and the arbitrator. *)

\* NormalizeRequest is given the time at which the post has arrived.
Normalize(p) ==
    /\ p.window = NoWindow
    /\ handlers' = (handlers \ {p}) \cup {[p EXCEPT !.window = Launched(launchRequest, wall)]}
    /\ UNCHANGED <<clock, wallVars, clientVars, requestCh, window, kept>>

Accept(p) ==
    /\ p.window # NoWindow /\ Len(requestCh) < BufferSize
    /\ handlers' = handlers \ {p}
    /\ requestCh' = Append(requestCh, p)
    /\ answered' = (answered \/ p.call = calls)
    /\ UNCHANGED <<clock, wallVars, client, calls, calledAt, countdown, tick, window, kept>>

\* The post never arrives, or is answered 404, 408 or a 5xx: the call, if it
\* still waits, can only fail.
GiveUp(p) ==
    /\ handlers' = handlers \ {p}
    /\ UNCHANGED <<clock, wallVars, clientVars, requestCh, window, kept>>

\* Router and intake.
Apply ==
    /\ requestCh # <<>>
    /\ window' = Head(requestCh).window
    /\ requestCh' = Tail(requestCh)
    /\ kept' = TRUE
    /\ UNCHANGED <<clock, wallVars, clientVars, handlers>>

\* The reconciler, at some time after the window's end.
Prune ==
    /\ window # NoWindow /\ alreadyEnded(window, wall)
    /\ window' = NoWindow
    /\ UNCHANGED <<clock, wallVars, clientVars, handlers, requestCh, kept>>

-----------------------------------------------------------------------------
Next ==
    \/ PassTime \/ ClockStep
    \/ Call \/ Succeed \/ Fail \/ Exit
    \/ \E p \in handlers : Normalize(p) \/ Accept(p) \/ GiveUp(p)
    \/ Apply \/ Prune

Spec == Init /\ [][Next]_vars

-----------------------------------------------------------------------------
\* From the moment a post is applied until a call fails, the ScaledObject is
\* active without a gap as long as nobody sets the server's clock, and after
\* that is active again within Recovery, however far and in whichever direction
\* the clock was set: although ticks are dropped while a call runs, the next post
\* waits in the channel, a post whose call has failed may still replace the
\* window of a later one, and one that arrived before the step brings a window
\* of the old time (main.go:81-94, http.go:95-112, arbitrator.go:217-231).
NoLapse ==
    kept /\ client # "exited" /\ clock > steppedAt + Recovery =>
        window # NoWindow /\ shouldActivate(window, wall)
=============================================================================
