--------------------------- MODULE RequestsProofs ---------------------------
(***************************************************************************)
(* The properties of MCRequests for any number of instants, from those of  *)
(* NormalizeRequest, of the launcher's configuration, and of the endpoints. *)
(***************************************************************************)
EXTENDS MCRequests, RequestNormalizationProofs

vars == <<env, config, request, now, window>>

\* What is there was made by the code from what was there before.
IInv ==
    /\ now \in Time
    /\ request # Nothing => request \in LaunchRequest
    /\ window # Nothing => request # Nothing /\ window = Launched(request, now)
    /\ env \in MCLauncherEnvs /\ request # Nothing =>
           /\ config = Load(env) /\ config # Rejected
           /\ request = launchRequest(config)
    /\ env \in MCLauncherEnvs /\ config # Nothing => config = Load(env)

\* Whatever the environment, a launcher that starts launches for a positive
\* duration that exceeds its interval, under an id (config.go:75-101, main.go:97-111).
LEMMA LauncherLaunches ==
    ASSUME NEW e, Load(e) # Rejected,
           e.interval \in Int \cup {Unset, Garbage}, e.duration \in Int \cup {Unset, Garbage}
    PROVE  LET cfg == Load(e)
               req == launchRequest(cfg)
           IN  /\ cfg.interval \in Int /\ cfg.duration \in Int
               /\ cfg.duration > 0 /\ cfg.duration > cfg.interval
               /\ req \in LaunchRequest /\ Unambiguous(req)
               /\ req.startAt = Absent /\ req.endAt = Absent /\ req.duration = cfg.duration
<1> DEFINE cfg == launcherConfig(e)
<1>1. Load(e) = cfg /\ Garbage \notin {cfg.interval, cfg.duration} /\ accepts(cfg)
  BY DEF Load
<1>2. /\ cfg.interval = decoded(e.interval, Garbage)
      /\ cfg.duration = decoded(e.duration, Garbage)
  BY DEF launcherConfig
<1>3. cfg.interval \in Int /\ cfg.duration \in Int
  BY <1>1, <1>2, ValueAssumption DEF decoded
<1>4. cfg.namespace # "" /\ cfg.name # ""
  BY <1>1 DEF accepts
<1>7. cfg.duration > 0 /\ cfg.duration > cfg.interval
  BY <1>1 DEF accepts
<1>5. launchRequest(cfg) = [requestId |-> TRUE, scaledObject |-> TRUE, startAt |-> Absent,
                            endAt |-> Absent, duration |-> cfg.duration]
  BY <1>4 DEF launchRequest
<1>6. /\ launchRequest(cfg) \in LaunchRequest /\ Unambiguous(launchRequest(cfg))
      /\ launchRequest(cfg).startAt = Absent /\ launchRequest(cfg).endAt = Absent
      /\ launchRequest(cfg).duration = cfg.duration
  <2>1. cfg.duration # 0
    BY <1>3, <1>7
  <2> QED  BY <1>3, <1>5, <2>1 DEF LaunchRequest, OptionalTime, Unambiguous
<1> QED  BY <1>1, <1>3, <1>7, <1>6

-----------------------------------------------------------------------------
(* Endpoints. *)

\* The segments of paths: STRING, in which the provers do not know what texts are.
Segment == STRING \cup {"scaledobjects", "requests"} \cup Names

\* A segment goes below the path unless it is a dot segment, which makes it no longer.
LEMMA Resolved ==
    ASSUME NEW p \in Seq(Segment), NEW s \in Segment
    PROVE  /\ resolvePath(p, s) \in Seq(Segment)
           /\ s \notin {".", ".."} => /\ resolvePath(p, s) = Append(p, s)
                                      /\ Len(resolvePath(p, s)) = Len(p) + 1
           /\ s \in {".", ".."} => Len(resolvePath(p, s)) <= Len(p)
           /\ Len(resolvePath(p, s)) <= Len(p) + 1
<1>1. CASE s = "."
  BY <1>1 DEF resolvePath
<1>2. CASE s = ".."
  <2>1. resolvePath(p, s) = SubSeq(p, 1, Len(p) - 1)
    BY <1>2 DEF resolvePath, Front
  <2>2. CASE Len(p) = 0
    <3>1. SubSeq(p, 1, Len(p) - 1) = <<>>
      BY <2>2
    <3> QED  BY <1>2, <2>1, <2>2, <3>1
  <2>3. CASE Len(p) # 0
    <3>1. PICK k \in Nat : Len(p) = k + 1
      <4>1. Len(p) - 1 \in Nat /\ Len(p) = (Len(p) - 1) + 1
        BY <2>3
      <4> QED  BY <4>1
    <3>2. SubSeq(p, 1, k) \in Seq(Segment) /\ Len(SubSeq(p, 1, k)) = k
      BY <3>1
    <3>3. Len(p) - 1 = k
      BY <3>1
    <3> QED  BY <1>2, <2>1, <3>1, <3>2, <3>3
  <2> QED  BY <2>2, <2>3
<1>3. CASE s \notin {".", ".."}
  BY <1>3 DEF resolvePath
<1> QED  BY <1>1, <1>2, <1>3

LEMMA LongerSeq ==
    ASSUME NEW S, NEW T, S \subseteq T, NEW p \in Seq(S)
    PROVE  p \in Seq(T)
OBVIOUS

\* q is p with five segments below it.
IsBelow(q, p, a, b, c, d, e) == q = p \o <<a, b, c, d, e>>

LEMMA Below ==
    ASSUME NEW S, NEW p \in Seq(S), NEW a \in S, NEW b \in S, NEW c \in S, NEW d \in S, NEW e \in S
    PROVE  IsBelow(Append(Append(Append(Append(Append(p, a), b), c), d), e), p, a, b, c, d, e)
<1>1. Append(p, a) = p \o <<a>>
  OBVIOUS
<1>2. Append(p \o <<a>>, b) = p \o <<a, b>>
  OBVIOUS
<1>3. Append(p \o <<a, b>>, c) = p \o <<a, b, c>>
  BY SMTT(60)
<1>4. Append(p \o <<a, b, c>>, d) = p \o <<a, b, c, d>>
  BY SMTT(60)
<1>5. Append(p \o <<a, b, c, d>>, e) = p \o <<a, b, c, d, e>>
  BY SMTT(60)
<1> QED  BY <1>1, <1>2, <1>3, <1>4, <1>5 DEF IsBelow

\* A URL without slashes at its end, without a query and without dot segments is the
\* base of its endpoints as it is.
LEMMA ParsedBase ==
    ASSUME NEW url \in URL, url.slashes = 0, ~url.query, Range(url.path) \cap DotSegments = {}
    PROVE  Parse(NewClient(url)) = url.path
<1>1. url.path \in Seq(STRING)
  BY DEF URL
<1>2. NewClient(url) = [url EXCEPT !.slashes = 1]
  BY DEF NewClient
<1>3. NewClient(url).slashes = 1 /\ NewClient(url).path = url.path
  BY <1>2 DEF URL
<1>4. basePath(NewClient(url)) = url.path \o [i \in 1..0 |-> ""]
  BY <1>3 DEF basePath
<1>5. basePath(NewClient(url)) = url.path
  BY <1>1, <1>4
<1> QED  BY <1>5 DEF Parse

LEMMA BelowDiffers ==
    ASSUME NEW S, NEW p \in Seq(S), NEW a \in S, NEW b \in S, NEW c \in S, NEW d \in S, NEW e \in S,
           NEW u \in S, NEW v \in S, NEW w \in S,
           IsBelow(p \o <<a, b, c, d, e>>, p, a, u, v, d, w)
    PROVE  b = u /\ c = v /\ e = w
<1> DEFINE q == p \o <<a, b, c, d, e>>
           r == p \o <<a, u, v, d, w>>
<1>1. /\ q[Len(p) + 2] = b /\ q[Len(p) + 3] = c /\ q[Len(p) + 5] = e
  BY SMTT(60)
<1>2. /\ r[Len(p) + 2] = u /\ r[Len(p) + 3] = v /\ r[Len(p) + 5] = w
  BY SMTT(60)
<1>3. q = r
  BY DEF IsBelow
<1> QED  BY <1>1, <1>2, <1>3

\* The endpoints of url lie under base; the deletion of ns, n and id has the path that
\* deletes o, m and i if and only if these are the same and none a dot segment.
EndpointsUnder(url, base, ns, n, id, o, m, i) ==
    /\ NewPostRequestsRequest(url) = base \o <<"requests">>
    /\ NewListScaledObjectsRequest(url) = base \o <<"scaledobjects">>
    /\ NewDeleteScaledObjectRequestRequest(url, ns, n, id) =
           base \o <<"scaledobjects", o, m, "requests", i>>
       <=> <<ns, n, id>> = <<o, m, i>> /\ {ns, n, id} \cap DotSegments = {}

\* For every URL of a launcher without dot segments and all names (openapi.gen.go:254-274, 357-461).
LEMMA Endpoints ==
    ASSUME NEW url \in URL, url.slashes = 0, ~url.query, Range(url.path) \cap DotSegments = {},
           NEW ns \in Segment, NEW n \in Segment, NEW id \in Segment,
           NEW o \in Segment, NEW m \in Segment, NEW i \in Segment
    PROVE  EndpointsUnder(url, url.path, ns, n, id, o, m, i)
<1> DEFINE base == url.path
           p1 == resolvePath(base, "scaledobjects")
           p2 == resolvePath(p1, ns)
           p3 == resolvePath(p2, n)
           p4 == resolvePath(p3, "requests")
           p5 == resolvePath(p4, id)
<1>1. base \in Seq(Segment) /\ Parse(NewClient(url)) = base
  <2>1. base \in Seq(STRING) /\ STRING \subseteq Segment
    BY DEF URL, Segment
  <2>2. base \in Seq(Segment)
    BY <2>1, LongerSeq
  <2>3. Parse(NewClient(url)) = base
    BY ParsedBase
  <2> QED  BY <2>2, <2>3
<1>0. {"scaledobjects", "requests"} \subseteq Segment
  BY DEF Segment
<1>2. /\ NewPostRequestsRequest(url) = Append(base, "requests")
      /\ NewListScaledObjectsRequest(url) = Append(base, "scaledobjects")
      /\ p1 = Append(base, "scaledobjects")
  BY <1>0, <1>1, Resolved DEF NewPostRequestsRequest, NewListScaledObjectsRequest
<1>3. NewDeleteScaledObjectRequestRequest(url, ns, n, id) = p5
  BY <1>1 DEF NewDeleteScaledObjectRequestRequest, NewListScaledObjectsRequest
<1>4. /\ Append(base, "requests") = base \o <<"requests">>
      /\ Append(base, "scaledobjects") = base \o <<"scaledobjects">>
  BY <1>0, <1>1
<1> HIDE DEF base, p1, p2, p3, p4, p5
<1>5. /\ p1 \in Seq(Segment) /\ p2 \in Seq(Segment) /\ p3 \in Seq(Segment)
      /\ p4 \in Seq(Segment) /\ p5 \in Seq(Segment)
  BY <1>0, <1>1, Resolved DEF p1, p2, p3, p4, p5
<1>6. ASSUME {ns, n, id} \cap {".", ".."} = {}
      PROVE  p5 = base \o <<"scaledobjects", ns, n, "requests", id>>
  <2>1. /\ p2 = Append(p1, ns) /\ p3 = Append(p2, n) /\ p4 = Append(p3, "requests")
        /\ p5 = Append(p4, id)
    BY <1>0, <1>5, <1>6, Resolved DEF p2, p3, p4, p5
  <2>2. p5 = Append(Append(Append(Append(Append(base, "scaledobjects"), ns), n), "requests"), id)
    BY <1>2, <2>1
  <2>3. "scaledobjects" \in Segment /\ "requests" \in Segment
    BY <1>0
  <2>4. IsBelow(p5, base, "scaledobjects", ns, n, "requests", id)
    BY <1>1, <2>2, <2>3, Below
  <2> QED  BY <2>4 DEF IsBelow
<1>7. ASSUME {ns, n, id} \cap {".", ".."} # {}
      PROVE  p5 # base \o <<"scaledobjects", o, m, "requests", i>>
  <2>1. /\ Len(base) \in Nat /\ Len(p1) \in Nat /\ Len(p2) \in Nat /\ Len(p3) \in Nat
        /\ Len(p4) \in Nat /\ Len(p5) \in Nat
    BY <1>1, <1>5
  <2>2. Len(p1) = Len(base) + 1
    BY <1>0, <1>1, Resolved DEF p1
  <2>3. Len(p2) <= Len(p1) + 1 /\ (ns \in {".", ".."} => Len(p2) <= Len(p1))
    <3>1. p2 = resolvePath(p1, ns)
      BY DEF p2
    <3> QED  BY <1>5, <2>1, <3>1, Resolved
  <2>4. Len(p3) <= Len(p2) + 1 /\ (n \in {".", ".."} => Len(p3) <= Len(p2))
    <3>1. p3 = resolvePath(p2, n)
      BY DEF p3
    <3> QED  BY <1>5, <2>1, <3>1, Resolved
  <2>7. Len(p4) = Len(p3) + 1
    BY <1>0, <1>5, Resolved DEF p4
  <2>8. Len(p5) <= Len(p4) + 1 /\ (id \in {".", ".."} => Len(p5) <= Len(p4))
    <3>1. p5 = resolvePath(p4, id)
      BY DEF p5
    <3> QED  BY <1>5, <2>1, <3>1, Resolved
  <2>5. Len(p5) < Len(base) + 5
    <3>1. ns \in {".", ".."} \/ n \in {".", ".."} \/ id \in {".", ".."}
      BY <1>7
    <3> QED  BY <2>1, <2>2, <2>3, <2>4, <2>7, <2>8, <3>1
  <2>6. Len(base \o <<"scaledobjects", o, m, "requests", i>>) = Len(base) + 5
    BY <1>1
  <2> QED  BY <2>1, <2>5, <2>6
<1>8. ASSUME {ns, n, id} \cap {".", ".."} = {},
             p5 = base \o <<"scaledobjects", o, m, "requests", i>>
      PROVE  ns = o /\ n = m /\ id = i
  <2>1. IsBelow(base \o <<"scaledobjects", ns, n, "requests", id>>, base,
                "scaledobjects", o, m, "requests", i)
    BY <1>6, <1>8 DEF IsBelow
  <2>2. "scaledobjects" \in Segment /\ "requests" \in Segment
    BY <1>0
  <2> QED  BY <1>1, <2>1, <2>2, BelowDiffers
<1>9. p5 = base \o <<"scaledobjects", o, m, "requests", i>>
      <=> <<ns, n, id>> = <<o, m, i>> /\ {ns, n, id} \cap DotSegments = {}
  BY <1>6, <1>7, <1>8 DEF DotSegments
<1> QED  BY <1>2, <1>3, <1>4, <1>9 DEF base, EndpointsUnder

-----------------------------------------------------------------------------
(* The invariant. *)

\* The environments the run enumerates.
LEMMA MCEnvs ==
    /\ \A e \in MCLauncherEnvs :
           /\ e.interval \in Int \cup {Unset, Garbage}
           /\ e.duration \in Int \cup {Unset, Garbage}
    /\ Nothing \notin MCLauncherEnvs
<1> SUFFICES ASSUME NEW e \in MCLauncherEnvs
             PROVE  /\ e.interval \in Int \cup {Unset, Garbage}
                    /\ e.duration \in Int \cup {Unset, Garbage}
  BY NothingAssumption
<1>1. Durations \subseteq Int \cup {Unset, Garbage}
  BY DEF Durations
<1>2. CASE e \in URLEnvs
  BY <1>2 DEF URLEnvs
<1>3. CASE e \in TextEnvs
  BY <1>3 DEF TextEnvs
<1>4. CASE e \in DurationEnvs
  BY <1>1, <1>4 DEF DurationEnvs
<1> QED  BY <1>2, <1>3, <1>4 DEF MCLauncherEnvs

LEMMA Invariance == Spec => []IInv
<1>1. Init => IInv
  <2> SUFFICES ASSUME Init PROVE IInv
    OBVIOUS
  <2>1. now \in Time
    BY InstantAssumption DEF Init, Instants, Time
  <2>2. request # Nothing => request \in LaunchRequest /\ env = Nothing
    BY InstantAssumption DEF Init, MCRequests, LaunchRequest, OptionalTime, Instants, Time
  <2> QED  BY <2>1, <2>2, MCEnvs DEF Init, IInv
<1>2. IInv /\ [Next]_vars => IInv'
  <2> SUFFICES ASSUME IInv, [Next]_vars PROVE IInv'
    OBVIOUS
  <2>1. CASE StartLauncher
    <3>1. CASE config' = Rejected
      BY <2>1, <3>1, MCEnvs DEF StartLauncher, IInv
    <3>2. CASE config' # Rejected
      <4>1. config' = Load(env) /\ request' = launchRequest(config')
        BY <2>1, <3>2 DEF StartLauncher
      <4>2. request' \in LaunchRequest
        <5>1. env \in MCLauncherEnvs /\ Load(env) # Rejected
          BY <2>1, <3>2, <4>1 DEF StartLauncher
        <5>2. launchRequest(Load(env)) \in LaunchRequest
          BY <5>1, LauncherLaunches, MCEnvs
        <5> QED  BY <4>1, <5>2
      <4>3. window = Nothing
        BY <2>1 DEF StartLauncher, IInv
      <4> QED  BY <2>1, <3>2, <4>1, <4>2, <4>3, MCEnvs DEF StartLauncher, IInv
    <3> QED  BY <3>1, <3>2
  <2>2. CASE Receive
    BY <2>2 DEF Receive, IInv
  <2>3. CASE UNCHANGED vars
    BY <2>3 DEF vars, IInv
  <2> QED  BY <2>1, <2>2, <2>3 DEF Next
<1> QED  BY <1>1, <1>2, PTL DEF Spec, vars

\* For any number of instants an accepted window is what the client asked for
\* (request.go:40-62, client.go:166-183).
THEOREM AcceptedRight == Spec => []AcceptedAsAsked
<1>1. IInv => AcceptedAsAsked
  <2> SUFFICES ASSUME IInv, window \in Window PROVE AcceptedAsAsked
    BY DEF AcceptedAsAsked
  <2>1. /\ window = Launched(request, now) /\ window # Refused
        /\ request \in LaunchRequest /\ now \in Time
    BY NothingAssumption, RefusedAssumption DEF IInv
  <2>2. Unambiguous(request)
    BY <2>1, AcceptedMeansAsked DEF Time
  <2>3. shouldActivate(window, window.start)
    <3>1. FromDomainLaunchRequest(request) \in RequestInput
      BY <2>1, ConvertedInput
    <3>2. window.start <= window.end
      BY <2>1, <3>1, LaunchedIsNormalized, NormalizedWindow
    <3>3. window.start \in Nat /\ window.end \in Nat
      BY DEF Window, Time
    <3> QED  BY <3>2, <3>3 DEF shouldActivate, notYetStarted, alreadyEnded
  <2>4. ASSUME NEW t \in 0..(2 * MaxInstant + 1)
        PROVE  shouldActivate(window, t) <=> AsksFor(request, now, t)
    <3>1. t \in Time
      BY InstantAssumption DEF Time
    <3> QED  BY <2>1, <3>1, AcceptedMeansAsked
  <2> QED  BY <2>2, <2>3, <2>4 DEF AcceptedAsAsked
<1> QED  BY <1>1, Invariance, PTL

\* For any number of instants nothing is refused without a reason
\* (openapi.yaml:97-116, request.go:22-48).
THEOREM RefusedRight == Spec => []RefusedForReason
<1>1. IInv => RefusedForReason
  <2> SUFFICES ASSUME IInv, window = Refused, Unambiguous(request),
                      NEW t \in 0..(2 * MaxInstant + 1), AsksFor(request, now, t)
               PROVE  FALSE
    BY DEF RefusedForReason
  <2>1. t \in Time
    BY InstantAssumption DEF Time
  <2>2. window = Launched(request, now) /\ request \in LaunchRequest /\ now \in Time
    BY NothingAssumption DEF IInv
  <2> QED  BY <2>1, <2>2, RefusedAsksForNothing
<1> QED  BY <1>1, Invariance, PTL

\* What a launcher that starts posts is never refused, and its window outlasts
\* the interval, for every environment of the kinds enumerated
\* (config.go:75-101, main.go:97-111).
THEOREM LaunchesAccepted == Spec => []ConfiguredLaunchAccepted
<1>1. IInv => ConfiguredLaunchAccepted
  <2> SUFFICES ASSUME IInv, env \in MCLauncherEnvs, window # Nothing
               PROVE  window # Refused /\ window.end - window.start > config.interval
    BY DEF ConfiguredLaunchAccepted
  <2>1. /\ window = Launched(request, now) /\ now \in Time
        /\ config = Load(env) /\ config # Rejected /\ request = launchRequest(config)
    BY DEF IInv
  <2>2. /\ config.interval \in Int /\ config.duration \in Int
        /\ config.duration > 0 /\ config.duration > config.interval
        /\ request \in LaunchRequest /\ Unambiguous(request)
        /\ request.startAt = Absent /\ request.endAt = Absent
        /\ request.duration = config.duration
    BY <2>1, LauncherLaunches, MCEnvs
  <2> DEFINE input == FromDomainLaunchRequest(request)
  <2>3. /\ input.requestId /\ input.scaledObject /\ input.startAt = Absent
        /\ input.endAt = Absent /\ input.duration = config.duration /\ input.duration # Absent
    BY <2>2, ConvertedInput DEF Unambiguous
  <2>4. NormalizeRequest(input, now) = [start |-> now, end |-> now + config.duration]
    BY <2>1, <2>2, <2>3 DEF NormalizeRequest, wellFormed, effectiveStart, Time
  <2>5. window = [start |-> now, end |-> now + config.duration]
    BY <2>1, <2>2, <2>4, LaunchedIsNormalized
  <2>6. window \in Window
    BY <2>1, <2>2, <2>5 DEF Window, Time
  <2> QED  BY <2>1, <2>2, <2>5, <2>6, RefusedAssumption DEF Time
<1> QED  BY <1>1, Invariance, PTL

\* The endpoints of a launcher lie under the URL it was given, for every environment of
\* the kinds enumerated (config.go:106-120, openapi.gen.go:254-274, 357-461).
THEOREM EndpointsRight == Spec => []EndpointUnderBase
<1>1. IInv => EndpointUnderBase
  <2> DEFINE url  == config.receiverURL
             base == IF env.receiverURL = Unset THEN <<>> ELSE env.receiverURL.path
             given == decoded(env.receiverURL, defaultReceiverURL)
  <2> SUFFICES ASSUME IInv, env \in MCLauncherEnvs, config \notin {Nothing, Rejected}, ~url.query,
                      Range(base) \cap DotSegments = {}
               PROVE  /\ NewPostRequestsRequest(url) = base \o <<"requests">>
                      /\ NewListScaledObjectsRequest(url) = base \o <<"scaledobjects">>
                      /\ \A ns, n, id, o, m, i \in Names :
                             NewDeleteScaledObjectRequestRequest(url, ns, n, id) =
                                 base \o <<"scaledobjects", o, m, "requests", i>>
                             <=> /\ <<ns, n, id>> = <<o, m, i>>
                                 /\ {ns, n, id} \cap DotSegments = {}
    BY DEF EndpointUnderBase
  <2>1. config = Load(env) /\ config # Rejected
    BY DEF IInv
  <2>2. /\ url = normalizeReceiverURL(given)
        /\ url # Rejected
    BY <2>1 DEF Load, launcherConfig, accepts
  <2>3. given # Garbage /\ url = [given EXCEPT !.slashes = 0]
    BY <2>2 DEF normalizeReceiverURL
  <2>4. env.receiverURL \in URL \cup {Unset, Garbage}
    BY EnvironmentsAssumption DEF LauncherEnv
  <2>5. ASSUME env.receiverURL = Unset
        PROVE  url \in URL /\ url.slashes = 0 /\ url.path = base
    <3>1. given = defaultReceiverURL
      BY <2>5 DEF decoded
    <3>2. url = [scheme |-> "http", host |-> TRUE, path |-> <<>>, slashes |-> 0, query |-> FALSE]
      BY <2>3, <3>1 DEF defaultReceiverURL
    <3> QED  BY <2>5, <3>2 DEF URL
  <2>6. ASSUME env.receiverURL # Unset
        PROVE  url \in URL /\ url.slashes = 0 /\ url.path = base
    <3>1. given = env.receiverURL /\ given \in URL
      BY <2>3, <2>4, <2>6 DEF decoded
    <3> QED  BY <2>3, <2>6, <3>1 DEF URL
  <2>7. url \in URL /\ url.slashes = 0 /\ url.path = base
    BY <2>5, <2>6
  <2>8. Names \subseteq Segment /\ "a" \in Names
    BY DEF Segment, Names
  <2> HIDE DEF url, base
  <2>9. ASSUME NEW ns \in Segment, NEW n \in Segment, NEW id \in Segment,
               NEW o \in Segment, NEW m \in Segment, NEW i \in Segment
        PROVE  EndpointsUnder(url, base, ns, n, id, o, m, i)
    BY <2>7, Endpoints
  <2>10. /\ NewPostRequestsRequest(url) = base \o <<"requests">>
         /\ NewListScaledObjectsRequest(url) = base \o <<"scaledobjects">>
    BY <2>8, <2>9 DEF EndpointsUnder
  <2>11. ASSUME NEW ns \in Names, NEW n \in Names, NEW id \in Names,
                NEW o \in Names, NEW m \in Names, NEW i \in Names
         PROVE  NewDeleteScaledObjectRequestRequest(url, ns, n, id) =
                    base \o <<"scaledobjects", o, m, "requests", i>>
                <=> <<ns, n, id>> = <<o, m, i>> /\ {ns, n, id} \cap DotSegments = {}
    <3>1. EndpointsUnder(url, base, ns, n, id, o, m, i)
      BY <2>8, <2>9
    <3> QED  BY <3>1 DEF EndpointsUnder
  <2> QED  BY <2>10, <2>11
<1> QED  BY <1>1, Invariance, PTL
=============================================================================
