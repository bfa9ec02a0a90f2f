----------------------------- MODULE MCMenuTree -----------------------------
(* MenuTree on a small instance; requests of one kind are interchangeable. *)
EXTENDS MenuTree, TLC

Symmetry == Permutations(Editor)
=============================================================================
