------------------------------- MODULE MCNotice -------------------------------
(* Notice on a small instance. *)
EXTENDS Notice
=============================================================================
