------------------------ MODULE MCServerLifecycle ------------------------
(***************************************************************************)
(* Instances of ServerLifecycle; the configurations give its constants.    *)
(***************************************************************************)
EXTENDS ServerLifecycle
=============================================================================
