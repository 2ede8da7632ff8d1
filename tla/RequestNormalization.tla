------------------------ MODULE RequestNormalization ------------------------
(***************************************************************************)
(* What becomes of a launch request on its way to the arbitrator: the      *)
(* client library turns it into a JSON object (pkg/client/http), the       *)
(* receiver checks that against the schema and reads it (receiver/http),   *)
(* and NormalizeRequest (receiver/request.go) makes it a window or refuses *)
(* it with a 400.                                                          *)
(*                                                                         *)
(* A JSON object is a function whose domain is the fields it has; a nil    *)
(* pointer of a Go struct is Absent.                                       *)
(* Of the request id and the ScaledObject only "given" and "blank" matter; *)
(* the client trims both, so that one of blanks is blank.  Which of several *)
(* objections a refusal names is left out.                                 *)
(***************************************************************************)
EXTENDS RequestWindow

CONSTANTS
    Absent,   \* a field that is not given
    Refused   \* the answer to a request that is no window

ASSUME AbsentAssumption  == Absent \notin Int \cup BOOLEAN
ASSUME RefusedAssumption == Refused \notin Window

OptionalTime == Time \cup {Absent}

\* What a user of the client library fills in; no duration is the duration 0.
LaunchRequest == [requestId : BOOLEAN, scaledObject : BOOLEAN,
                  startAt : OptionalTime, endAt : OptionalTime, duration : Int]

\* What receivers make of a body.
RequestInput == [requestId : BOOLEAN, scaledObject : BOOLEAN,
                 startAt : OptionalTime, endAt : OptionalTime,
                 duration : Int \cup {Absent}]

-----------------------------------------------------------------------------
(* The way to the receiver. *)

\* Faulty: the duration is sent even if it was not filled in.
FromDomainAlways(req) == req

\* A duration's String() is parsed to the same duration at the other end.
FromDomainLaunchRequest(req) ==
    [req EXCEPT !.duration = IF req.duration # 0 THEN req.duration ELSE Absent]

\* The generated types leave a nil pointer out of the object, and back.
MarshalJSON(input) ==
    [f \in {g \in DOMAIN input : input[g] # Absent} |-> input[f]]

zero(f) == IF f \in {"requestId", "scaledObject"} THEN FALSE ELSE Absent
Fields == {"requestId", "scaledObject", "startAt", "endAt", "duration"}

\* Faulty: startAt is not read.
UnmarshalWithoutStart(json) ==
    [f \in Fields |-> IF f \in DOMAIN json \ {"startAt"} THEN json[f] ELSE zero(f)]

UnmarshalJSON(json) ==
    [f \in Fields |-> IF f \in DOMAIN json THEN json[f] ELSE zero(f)]

\* What the schema demands: texts that are not empty, and one of duration and endAt.
OapiRequestValidator(json) ==
    /\ json["requestId"] /\ json["scaledObject"]
    /\ "duration" \in DOMAIN json <=> "endAt" \notin DOMAIN json

-----------------------------------------------------------------------------
(* The receiver. *)

effectiveStart(input, now) == IF input.startAt = Absent THEN now ELSE input.startAt

wellFormed(input) ==
    /\ input.requestId /\ input.scaledObject
    /\ input.endAt # Absent <=> input.duration = Absent
    /\ input.duration # Absent => input.duration > 0

NormalizeRequest(input, now) ==
    LET start == effectiveStart(input, now)
        end   == IF input.endAt # Absent THEN input.endAt ELSE start + input.duration
    IN  IF wellFormed(input) /\ ~(end < start) THEN [start |-> start, end |-> end]
                                                ELSE Refused

\* A launch request that reaches the receiver at instant now.
Launched(req, now) ==
    LET json == MarshalJSON(FromDomainLaunchRequest(req))
    IN  IF OapiRequestValidator(json) THEN NormalizeRequest(UnmarshalJSON(json), now)
                                      ELSE Refused

-----------------------------------------------------------------------------
(* What a launch request asks for, read off the fields alone. *)

\* It asks for instant t to be active.
AsksFor(req, now, t) ==
    LET begin == IF req.startAt = Absent THEN now ELSE req.startAt IN
    /\ begin <= t
    /\ req.endAt # Absent => t <= req.endAt
    /\ req.duration # 0   => t <= begin + req.duration

\* It says who asks for what, and how long in exactly one way.
Unambiguous(req) ==
    /\ req.requestId /\ req.scaledObject
    /\ req.endAt # Absent <=> req.duration = 0
=============================================================================
