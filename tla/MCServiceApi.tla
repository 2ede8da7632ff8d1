---------------------------- MODULE MCServiceApi ----------------------------
(***************************************************************************)
(* Launches of one request id that end at instant 0, accepted when they    *)
(* are received at 0 and refused later, lists and deletions.               *)
(***************************************************************************)
EXTENDS ServiceApi, TLC

CONSTANTS c1, c2, c3, q1, k1, r1

MCAsks == [requestId : {TRUE}, scaledObject : {TRUE}, startAt : {Absent}, endAt : {0},
           duration : {0}]
MCOperations == [kind : {"launch", "list", "delete"}, key : {k1}, id : {r1}, ask : MCAsks]
Symmetry == Permutations({c1, c2, c3})
=============================================================================
