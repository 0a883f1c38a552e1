------------------------------ MODULE MCRestarts ------------------------------
(***************************************************************************)
(* The small instances of GitOpsController, with the history of lost       *)
(* events.                                                                 *)
(***************************************************************************)
EXTENDS MCGitOps, MissedUpdates
=============================================================================
