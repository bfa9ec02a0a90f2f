----------------------------- MODULE MCSession -----------------------------
(* Session on a small instance; requests are interchangeable. *)
EXTENDS Session, TLC

RequestSymmetry == Permutations(Request)
=============================================================================
