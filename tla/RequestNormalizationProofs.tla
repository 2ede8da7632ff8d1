--------------------- MODULE RequestNormalizationProofs ---------------------
(***************************************************************************)
(* NormalizeRequest is right for every request and every instant.          *)
(***************************************************************************)
EXTENDS RequestNormalization, TLAPS

\* What reaches the arbitrator is a window it can work with, never an empty one
\* (request.go:40-62).
THEOREM NormalizedWindow ==
    ASSUME NEW input \in RequestInput, NEW now \in Time,
           NormalizeRequest(input, now) # Refused
    PROVE  LET w == NormalizeRequest(input, now) IN w \in Window /\ w.start <= w.end
<1> DEFINE start == effectiveStart(input, now)
           end   == IF input.endAt # Absent THEN input.endAt ELSE start + input.duration
<1>1. /\ NormalizeRequest(input, now) = [start |-> start, end |-> end]
      /\ wellFormed(input) /\ ~(end < start)
  BY DEF NormalizeRequest
<1>2. start \in Nat
  BY DEF effectiveStart, RequestInput, OptionalTime, Time
<1>3. end \in Nat
  <2>1. CASE input.endAt # Absent
    BY <2>1 DEF RequestInput, OptionalTime, Time
  <2>2. CASE input.endAt = Absent
    <3>1. input.duration # Absent /\ input.duration > 0
      BY <1>1, <2>2 DEF wellFormed
    <3>2. input.duration \in Nat
      BY <3>1 DEF RequestInput
    <3> QED  BY <1>2, <2>2, <3>2
  <2> QED  BY <2>1, <2>2
<1> QED  BY <1>1, <1>2, <1>3 DEF Window, Time

\* The conversion sends what was filled in, and nothing else.
LEMMA ConvertedInput ==
    ASSUME NEW req \in LaunchRequest
    PROVE  LET input == FromDomainLaunchRequest(req) IN
           /\ input \in RequestInput
           /\ input.requestId = req.requestId /\ input.scaledObject = req.scaledObject
           /\ input.startAt = req.startAt /\ input.endAt = req.endAt
           /\ req.duration # 0 => input.duration = req.duration /\ input.duration # Absent
           /\ req.duration = 0 => input.duration = Absent
BY AbsentAssumption DEF FromDomainLaunchRequest, LaunchRequest, RequestInput

\* Whatever is filled in, JSON brings over what the client meant, and the schema
\* refuses nothing that NormalizeRequest would accept (the generated code's
\* MarshalJSON and UnmarshalJSON, openapi.yaml:97-116).
LEMMA JSONIsFaithful ==
    ASSUME NEW input \in RequestInput
    PROVE  LET json == MarshalJSON(input) IN
           /\ UnmarshalJSON(json) = input
           /\ wellFormed(input) => OapiRequestValidator(json)
<1> DEFINE json == MarshalJSON(input)
<1>1. DOMAIN input = {"requestId", "scaledObject", "startAt", "endAt", "duration"}
  BY DEF RequestInput
<1>2. /\ DOMAIN json = {f \in DOMAIN input : input[f] # Absent}
      /\ \A f \in DOMAIN json : json[f] = input[f]
  BY DEF MarshalJSON
<1>3. input.requestId # Absent /\ input.scaledObject # Absent
  BY AbsentAssumption DEF RequestInput
<1>4. UnmarshalJSON(json) = input
  <2>1. \A f \in Fields : UnmarshalJSON(json)[f] = input[f]
    BY <1>1, <1>2, <1>3 DEF UnmarshalJSON, zero, Fields
  <2>2. UnmarshalJSON(json) = [f \in Fields |-> UnmarshalJSON(json)[f]]
    BY DEF UnmarshalJSON
  <2>3. input = [f \in Fields |-> input[f]]
    BY DEF RequestInput, Fields
  <2> QED  BY <2>1, <2>2, <2>3
<1>5. wellFormed(input) => OapiRequestValidator(json)
  BY <1>1, <1>2, <1>3 DEF wellFormed, OapiRequestValidator
<1> QED  BY <1>4, <1>5

\* The schema decides nothing on its own: a launch is what NormalizeRequest makes of it.
LEMMA LaunchedIsNormalized ==
    ASSUME NEW req \in LaunchRequest, NEW now
    PROVE  Launched(req, now) = NormalizeRequest(FromDomainLaunchRequest(req), now)
<1> DEFINE input == FromDomainLaunchRequest(req)
<1>1. input \in RequestInput
  BY ConvertedInput
<1>2. UnmarshalJSON(MarshalJSON(input)) = input
  BY <1>1, JSONIsFaithful
<1>3. ~OapiRequestValidator(MarshalJSON(input)) => NormalizeRequest(input, now) = Refused
  BY <1>1, JSONIsFaithful DEF NormalizeRequest
<1> QED  BY <1>2, <1>3 DEF Launched

\* An accepted request is in force at exactly the instants it asks for
\* (client.go:166-183, request.go:40-62, arbitrator.go:26-36).
THEOREM AcceptedMeansAsked ==
    ASSUME NEW req \in LaunchRequest, NEW now \in Time, NEW t \in Time,
           Launched(req, now) # Refused
    PROVE  /\ Unambiguous(req)
           /\ shouldActivate(Launched(req, now), t) <=> AsksFor(req, now, t)
<1> DEFINE input == FromDomainLaunchRequest(req)
           start == effectiveStart(input, now)
           end   == IF input.endAt # Absent THEN input.endAt ELSE start + input.duration
<1>1. /\ Launched(req, now) = [start |-> start, end |-> end]
      /\ wellFormed(input)
  BY LaunchedIsNormalized DEF NormalizeRequest
<1>2. Unambiguous(req)
  BY <1>1, ConvertedInput DEF wellFormed, Unambiguous
<1>3. start \in Nat /\ start = IF req.startAt = Absent THEN now ELSE req.startAt
  BY ConvertedInput DEF effectiveStart, LaunchRequest, OptionalTime, Time
<1>4. shouldActivate(Launched(req, now), t) <=> ~(t < start) /\ ~(t > end)
  BY <1>1 DEF shouldActivate, notYetStarted, alreadyEnded
<1>5. CASE req.endAt # Absent
  <2>1. req.duration = 0 /\ end = req.endAt /\ end \in Nat
    BY <1>2, <1>5, ConvertedInput DEF Unambiguous, LaunchRequest, OptionalTime, Time
  <2> QED  BY <1>2, <1>3, <1>4, <1>5, <2>1 DEF AsksFor, Time
<1>6. CASE req.endAt = Absent
  <2>1. req.duration # 0 /\ end = start + req.duration /\ req.duration \in Int
    BY <1>2, <1>6, ConvertedInput DEF Unambiguous, LaunchRequest
  <2> QED  BY <1>2, <1>3, <1>4, <1>6, <2>1 DEF AsksFor, Time
<1> QED  BY <1>5, <1>6

\* A request that is unambiguous and asks for any instant at all is accepted
\* (request.go:22-48).
THEOREM RefusedAsksForNothing ==
    ASSUME NEW req \in LaunchRequest, NEW now \in Time, NEW t \in Time,
           Unambiguous(req), AsksFor(req, now, t)
    PROVE  Launched(req, now) # Refused
<1> DEFINE input == FromDomainLaunchRequest(req)
           start == effectiveStart(input, now)
           end   == IF input.endAt # Absent THEN input.endAt ELSE start + input.duration
<1>1. start \in Nat /\ start = IF req.startAt = Absent THEN now ELSE req.startAt
  BY ConvertedInput DEF effectiveStart, LaunchRequest, OptionalTime, Time
<1>2. CASE req.endAt # Absent
  <2>1. req.duration = 0 /\ end = req.endAt /\ end \in Nat /\ input.duration = Absent
    BY <1>2, ConvertedInput DEF Unambiguous, LaunchRequest, OptionalTime, Time
  <2>2. wellFormed(input)
    BY <1>2, <2>1, ConvertedInput DEF Unambiguous, wellFormed
  <2>3. start <= t /\ t <= end /\ t \in Nat
    BY <1>1, <1>2, <2>1 DEF AsksFor, Time
  <2>4. Launched(req, now) = [start |-> start, end |-> end] /\ start \in Nat /\ end \in Nat
    BY <1>1, <2>1, <2>2, <2>3, LaunchedIsNormalized DEF NormalizeRequest
  <2> QED  BY <2>4, RefusedAssumption DEF Window, Time
<1>3. CASE req.endAt = Absent
  <2>1. /\ req.duration # 0 /\ end = start + req.duration /\ req.duration \in Int
        /\ input.duration = req.duration
    BY <1>3, ConvertedInput DEF Unambiguous, LaunchRequest
  <2>2. start <= t /\ t <= start + req.duration /\ t \in Nat
    BY <1>1, <2>1 DEF AsksFor, Time
  <2>3. req.duration > 0 /\ end \in Nat /\ ~(end < start)
    BY <1>1, <2>1, <2>2
  <2>4. wellFormed(input)
    BY <1>3, <2>1, <2>3, ConvertedInput DEF Unambiguous, wellFormed
  <2>5. Launched(req, now) = [start |-> start, end |-> end] /\ start \in Nat /\ end \in Nat
    BY <1>1, <2>3, <2>4, LaunchedIsNormalized DEF NormalizeRequest
  <2> QED  BY <2>5, RefusedAssumption DEF Window, Time
<1> QED  BY <1>2, <1>3
=============================================================================
