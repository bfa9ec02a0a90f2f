------------------------------- MODULE MCDeploy -------------------------------
(* Deploy on a small instance. *)
EXTENDS Deploy
=============================================================================
