---------------------------- MODULE Configuration ----------------------------
(***************************************************************************)
(* What the launcher makes of its environment variables                    *)
(* (internal/client/config, cmd/keda-launcher-client/main.go), and the     *)
(* endpoints the client library derives from a receiver URL                *)
(* (pkg/client/http/openapi.gen.go).                                       *)
(*                                                                         *)
(* An environment is a record of variables; an empty variable counts as    *)
(* Unset.  Of a text only "given", or nothing but blanks, matters, of a    *)
(* number what it parses to, and one second is the unit of durations.      *)
(***************************************************************************)
EXTENDS RequestNormalization, SequencesExt

CONSTANTS
    Unset,     \* a variable that is not set
    Garbage,   \* a value that does not parse
    Rejected   \* the configuration is refused, and the process ends

ASSUME ValueAssumption ==
    {Unset, Garbage} \cap (Int \cup {"blanks", "given"}) = {}

Text == {Unset, "blanks", "given"}

\* A parsed URL.  The path goes without the slashes at its end, which are
\* counted; query says that a query or a fragment follows.
URL == [scheme : {"http", "https", "other"}, host : BOOLEAN,
        path : Seq(STRING), slashes : Nat, query : BOOLEAN]

LauncherEnv == [receiverURL : URL \cup {Unset, Garbage},
                requestID : Text, namespace : Text, name : Text,
                interval : Int \cup {Unset, Garbage}, duration : Int \cup {Unset, Garbage},
                timeout : Int \cup {Unset, Garbage}, logLevel : Text \cup {Garbage}]

-----------------------------------------------------------------------------
(* Load. *)

defaultReceiverURL     == [scheme |-> "http", host |-> TRUE, path |-> <<>>,
                           slashes |-> 0, query |-> FALSE]
defaultShutdownTimeout == 10

decoded(value, default) == IF value = Unset THEN default ELSE value
TrimSpace(text)         == IF text = "blanks" THEN "" ELSE text

\* Faulty: the slashes at the end of the path are kept.
normalizeReceiverURLAsIs(url) ==
    IF url # Garbage /\ url.scheme \in {"http", "https"} /\ url.host THEN url ELSE Rejected

normalizeReceiverURL(url) ==
    IF url # Garbage /\ url.scheme \in {"http", "https"} /\ url.host
    THEN [url EXCEPT !.slashes = 0]
    ELSE Rejected

\* NewLogger knows the levels; a level of blanks is its default.
NewLogger(level) == level # Garbage

\* Faulty: the duration need not exceed the interval.
acceptsAnyDuration(cfg) ==
    /\ cfg.receiverURL # Rejected
    /\ cfg.namespace # "" /\ cfg.name # "" /\ cfg.logLevel # ""
    /\ cfg.interval > 0 /\ cfg.duration > 0
    /\ cfg.timeout > 0

accepts(cfg) ==
    /\ cfg.receiverURL # Rejected
    /\ cfg.namespace # "" /\ cfg.name # "" /\ cfg.logLevel # ""
    /\ cfg.interval > 0 /\ cfg.duration > 0 /\ cfg.duration > cfg.interval
    /\ cfg.timeout > 0

\* The default of interval and duration, an empty text, is no duration: both must
\* be set.
launcherConfig(env) ==
    [receiverURL |-> normalizeReceiverURL(decoded(env.receiverURL, defaultReceiverURL)),
     requestID   |-> TrimSpace(decoded(env.requestID, "")),
     namespace   |-> TrimSpace(decoded(env.namespace, "")),
     name        |-> TrimSpace(decoded(env.name, "")),
     interval    |-> decoded(env.interval, Garbage),
     duration    |-> decoded(env.duration, Garbage),
     timeout     |-> decoded(env.timeout, defaultShutdownTimeout),
     logLevel    |-> TrimSpace(decoded(env.logLevel, "given"))]

Load(env) ==
    LET cfg == launcherConfig(env)
    IN  IF /\ Garbage \notin {cfg.interval, cfg.duration, cfg.timeout}
           /\ accepts(cfg)
           /\ NewLogger(cfg.logLevel)
        THEN cfg ELSE Rejected

-----------------------------------------------------------------------------
(* What the launcher makes of it. *)

launchRequest(cfg) ==
    LET requestID == IF cfg.requestID = "" THEN "keda-launcher-client:namespace/name"
                                           ELSE cfg.requestID
    IN  [requestId |-> requestID # "", scaledObject |-> cfg.namespace # "" /\ cfg.name # "",
         startAt |-> Absent, endAt |-> Absent, duration |-> cfg.duration]

\* The server URL must end in a slash; one that follows a query goes into the query.
NewClient(url) ==
    IF url.slashes > 0 \/ url.query THEN url ELSE [url EXCEPT !.slashes = 1]

\* A relative reference replaces what follows the last slash of the path, and the query.
basePath(url) ==
    IF url.slashes > 0 THEN url.path \o [i \in 1..(url.slashes - 1) |-> ""]
                       ELSE Front(url.path)

\* Segments go one below the other, but for dot segments.
DotSegments == {".", ".."}
resolvePath(path, segment) ==
    CASE segment = "."  -> path
      [] segment = ".." -> Front(path)
      [] OTHER          -> Append(path, segment)

\* Faulty: only dot segments of the reference are resolved.
resolvedInReference(path) == path

\* It is the merged path that is resolved, so the URL's own dot segments vanish too;
\* a path that has none is left as it is.
resolveAll(path) == FoldLeft(resolvePath, <<>>, path)

Parse(url) ==
    IF Range(basePath(url)) \cap DotSegments = {} THEN basePath(url)
                                                 ELSE resolveAll(basePath(url))

NewPostRequestsRequest(url)      == resolvePath(Parse(NewClient(url)), "requests")
NewListScaledObjectsRequest(url) == resolvePath(Parse(NewClient(url)), "scaledobjects")
NewDeleteScaledObjectRequestRequest(url, namespace, name, requestId) ==
    LET ofNamespace == resolvePath(NewListScaledObjectsRequest(url), namespace)
        ofName      == resolvePath(ofNamespace, name)
    IN  resolvePath(resolvePath(ofName, "requests"), requestId)
=============================================================================
