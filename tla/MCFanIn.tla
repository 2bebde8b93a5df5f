------------------------------- MODULE MCFanIn -------------------------------
(* Instances of FanIn for TLC. *)
EXTENDS FanIn

Creates == {"create"}
AllFaults == {"create", "read", "update", "restart", "stuck", "reopen", "cancel", "cleanup"}
=============================================================================
