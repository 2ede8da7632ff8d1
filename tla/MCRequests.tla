----------------------------- MODULE MCRequests -----------------------------
(***************************************************************************)
(* Every launch request over a few instants, filled in by a user of the    *)
(* client library or made by a launcher from its environment, received at  *)
(* every instant.                                                          *)
(***************************************************************************)
EXTENDS Configuration

CONSTANTS
    Nothing,      \* not there, or not yet
    MaxInstant    \* bound: fields, durations and arrival are within 0..MaxInstant

ASSUME InstantAssumption == MaxInstant \in Nat

VARIABLES
    env,      \* the environment of the launcher, Nothing for a user's program
    config,   \* what the launcher makes of it
    request,  \* the launch request
    now,      \* when it arrives
    window    \* what it becomes

Instants   == 0..MaxInstant
MCRequests == [requestId : BOOLEAN, scaledObject : BOOLEAN,
               startAt : Instants \cup {Absent}, endAt : Instants \cup {Absent},
               duration : -1..MaxInstant]

Names  == {"a", "b", ".", ".."}
MCURLs == [scheme : {"http", "https", "other"}, host : BOOLEAN,
           path : SeqOf(Names, 3), slashes : 0..2, query : BOOLEAN]
Durations == {-1, 0, 2, 3, Unset, Garbage}

\* Every URL; every combination of texts; every combination of durations.
URLEnvs ==
    [receiverURL : MCURLs \cup {Unset, Garbage}, requestID : {Unset},
     namespace : {"given"}, name : {"given"}, interval : {2}, duration : {3},
     timeout : {Unset}, logLevel : {Unset}]
TextEnvs ==
    [receiverURL : {Unset}, requestID : Text, namespace : Text, name : Text,
     interval : {2}, duration : {3}, timeout : {Unset}, logLevel : Text \cup {Garbage}]
DurationEnvs ==
    [receiverURL : {Unset}, requestID : {Unset}, namespace : {"given"}, name : {"given"},
     interval : Durations, duration : Durations, timeout : Durations, logLevel : {Unset}]
MCLauncherEnvs == URLEnvs \cup TextEnvs \cup DurationEnvs

ASSUME EnvironmentsAssumption == MCLauncherEnvs \subseteq LauncherEnv

ASSUME NothingAssumption ==
    Nothing \notin LaunchRequest \cup Window \cup {Refused} \cup MCLauncherEnvs

Init ==
    /\ \/ env = Nothing /\ request \in MCRequests
       \/ env \in MCLauncherEnvs /\ request = Nothing
    /\ config = Nothing
    /\ now \in Instants
    /\ window = Nothing

StartLauncher ==
    /\ env \in MCLauncherEnvs /\ request = Nothing
    /\ config' = Load(env)
    /\ request' = IF config' = Rejected THEN Nothing ELSE launchRequest(config')
    /\ UNCHANGED <<env, now, window>>

Receive ==
    /\ request # Nothing /\ window = Nothing
    /\ window' = Launched(request, now)
    /\ UNCHANGED <<env, config, request, now>>

Next == StartLauncher \/ Receive
Spec == Init /\ [][Next]_<<env, config, request, now, window>>

-----------------------------------------------------------------------------
\* An accepted window is in force at exactly the instants the client asked for,
\* through the client's conversion, JSON and back, the server's defaults and the
\* arbitrator's inclusive comparison, and there is such an instant
\* (request.go:40-62, client.go:166-183, arbitrator.go:26-36).
AcceptedAsAsked ==
    window \in Window =>
        /\ Unambiguous(request)
        /\ shouldActivate(window, window.start)
        /\ \A t \in 0..(2 * MaxInstant + 1) :
               shouldActivate(window, t) <=> AsksFor(request, now, t)

\* Nothing is refused that is unambiguous and asks for any instant at all
\* (openapi.yaml:97-116, request.go:22-48).
RefusedForReason ==
    window = Refused /\ Unambiguous(request) =>
        \A t \in 0..(2 * MaxInstant + 1) : ~AsksFor(request, now, t)

\* A launcher that starts posts requests the receiver never refuses with a 400,
\* whose windows outlast its interval, under an id even if none is configured
\* (config.go:75-101, main.go:97-111).
ConfiguredLaunchAccepted ==
    env \in MCLauncherEnvs /\ window # Nothing =>
        window # Refused /\ window.end - window.start > config.interval

\* The endpoint of every operation lies under the configured URL, with or without
\* slashes at its end, and a deletion reaches the request it names or, if one of the
\* names is a dot segment, none at all: never another.  It is not so for a URL with a
\* query, as the last segment of the path is lost, nor for one with dot segments of its
\* own, as they vanish (config.go:106-120, openapi.gen.go:254-274, 357-461).
EndpointUnderBase ==
    env \in MCLauncherEnvs /\ config \notin {Nothing, Rejected} =>
        LET url  == config.receiverURL
            base == IF env.receiverURL = Unset THEN <<>> ELSE env.receiverURL.path
        IN  ~url.query /\ Range(base) \cap DotSegments = {} =>
               /\ NewPostRequestsRequest(url) = base \o <<"requests">>
               /\ NewListScaledObjectsRequest(url) = base \o <<"scaledobjects">>
               /\ \A ns, n, id, otherNs, otherN, otherId \in Names :
                      NewDeleteScaledObjectRequestRequest(url, ns, n, id) =
                          base \o <<"scaledobjects", otherNs, otherN, "requests", otherId>>
                      <=> /\ <<ns, n, id>> = <<otherNs, otherN, otherId>>
                          /\ {ns, n, id} \cap DotSegments = {}

\* The segments a path leads to: every name that no later ".." takes back.
Leading(path) ==
    {i \in DOMAIN path :
        /\ path[i] \notin DotSegments
        /\ \A j \in i..Len(path) :
               Cardinality({k \in i..j : path[k] = ".."})
                   < Cardinality({k \in i..j : path[k] \notin DotSegments})}

\* The endpoints of a URL whose own path has dot segments lie under the path that
\* these lead to (config.go:106-120, openapi.gen.go:254-274, 357-461).
EndpointResolved ==
    env \in MCLauncherEnvs /\ config \notin {Nothing, Rejected} =>
        LET url   == config.receiverURL
            names == SetToSortSeq(Leading(url.path), <)
        IN  ~url.query =>
               NewPostRequestsRequest(url) =
                   [i \in DOMAIN names |-> url.path[names[i]]] \o <<"requests">>
=============================================================================
