----------------------------- MODULE MCDictionary -----------------------------
(* Dictionary on a small instance: administrators, type codes and names are        *)
(* interchangeable.                                                              *)
EXTENDS Dictionary, TLC

Symmetry == Permutations(Editor) \cup Permutations(Type) \cup Permutations(TypeName)
=============================================================================
