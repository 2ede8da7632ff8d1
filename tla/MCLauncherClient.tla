-------------------------- MODULE MCLauncherClient --------------------------
(***************************************************************************)
(* The instance of LauncherClient that is checked: its constants are       *)
(* numbers, so the configuration gives them all.                           *)
(***************************************************************************)
EXTENDS LauncherClient
=============================================================================
