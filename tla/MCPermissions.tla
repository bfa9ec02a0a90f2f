---------------------------- MODULE MCPermissions ----------------------------
(* Permissions on a small instance; marks are interchangeable. *)
EXTENDS Permissions, TLC

Symmetry == Permutations(Mark)

\* States are told apart by what the properties and the steps to come can see: of a copy
\* that cannot be relied on, that there is one; of a lookup overtaken by a write, what it
\* still asks for.
Copy == IF late \/ unswept THEN cached # NoInfo ELSE cached
Finds(r) ==
  IF r \notin dirty THEN <<ids[r], found[r]>>
  ELSE CASE pc[r] \in {"find_roles", "roles_again"} -> <<found[r].roles>>
         [] pc[r] = "view" -> <<ids[r], found[r].roles>>
         [] pc[r] = "menus" -> <<ids[r]>>
         [] OTHER -> <<>>
Seen == <<tableVars, Copy, pc, want, [r \in Request |-> Finds(r)], historyVars>>
=============================================================================
