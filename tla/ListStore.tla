------------------------------ MODULE ListStore ------------------------------
(***************************************************************************)
(* The cached list of a whole table: role:all, menu:all and dict:all, kept *)
(* by RoleStoreService, MenuStoreService and DictStoreService.  The three  *)
(* have the same methods; the services that write the table call the clear *)
(* method after their write.                                               *)
(*                                                                         *)
(* Abstraction.  Of a list only one thing counts: is it the table as it is *)
(* now ("current") or as it was ("stale")?  An action is the code between  *)
(* two awaits.                                                             *)
(***************************************************************************)
EXTENDS Naturals

CONSTANT Request   \* requests in flight at one time

VARIABLES
  cache,   \* the list under <table>:all, "none" when the key is absent
  snap,    \* the list a request read from the table and has yet to store
  pc,      \* where each request stands
  late     \* history: the stored list was stale when stored, or a writer that
           \* wrote the table since did not get to clear it

vars == <<cache, snap, pc, late>>

List == {"none", "current", "stale"}
Step == {"idle", "read", "fill", "clear"}

Init ==
  /\ cache = "none"
  /\ snap = [r \in Request |-> "none"]
  /\ pc = [r \in Request |-> "idle"]
  /\ late = FALSE

-----------------------------------------------------------------------------
Overtaken(list) == IF list = "current" THEN "stale" ELSE list

\* getAllXs: the list is served from the cache when it is there.
Get(r) ==
  /\ pc[r] = "idle"
  /\ cache = "none"
  /\ pc' = [pc EXCEPT ![r] = "read"]
  /\ UNCHANGED <<cache, snap, late>>

\* findMany
Read(r) ==
  /\ pc[r] = "read"
  /\ snap' = [snap EXCEPT ![r] = "current"]
  /\ pc' = [pc EXCEPT ![r] = "fill"]
  /\ UNCHANGED <<cache, late>>

\* setAllCacheXs
Fill(r) ==
  /\ pc[r] = "fill"
  /\ cache' = snap[r]
  /\ late' = (snap[r] = "stale")
  /\ snap' = [snap EXCEPT ![r] = "none"]
  /\ pc' = [pc EXCEPT ![r] = "idle"]

\* A service writes the table, in one statement or more: every list read before is
\* overtaken.
Write(r) ==
  /\ pc[r] \in {"idle", "clear"}
  /\ cache' = Overtaken(cache)
  /\ snap' = [q \in Request |-> Overtaken(snap[q])]
  /\ pc' = [pc EXCEPT ![r] = "clear"]
  /\ UNCHANGED late

\* clearAllCacheXs, the writer's last call
Clear(r) ==
  /\ pc[r] = "clear"
  /\ cache' = "none"
  /\ late' = FALSE
  /\ pc' = [pc EXCEPT ![r] = "idle"]
  /\ UNCHANGED snap

\* A request fails at an await (a lost connection, a later statement of the writer
\* rejected) or the process restarts.
Abort(r) ==
  /\ pc[r] # "idle"
  /\ late' = (late \/ (pc[r] = "clear" /\ cache = "stale"))
  /\ snap' = [snap EXCEPT ![r] = "none"]
  /\ pc' = [pc EXCEPT ![r] = "idle"]
  /\ UNCHANGED cache

\* The key reaches its TTL of three days.
Lapse ==
  /\ cache # "none"
  /\ cache' = "none"
  /\ late' = FALSE
  /\ UNCHANGED <<snap, pc>>

Next ==
  \/ \E r \in Request : Get(r) \/ Read(r) \/ Fill(r) \/ Write(r) \/ Clear(r) \/ Abort(r)
  \/ Lapse

Spec == Init /\ [][Next]_vars

-----------------------------------------------------------------------------
(***************************************************************************)
(* Properties                                                              *)
(***************************************************************************)

\* Every variable keeps its shape, and a request holds a list exactly while it is
\* about to store it.
TypeOK ==
  /\ cache \in List
  /\ snap \in [Request -> List]
  /\ pc \in [Request -> Step]
  /\ late \in BOOLEAN
  /\ \A r \in Request : snap[r] # "none" <=> pc[r] = "fill"

\* A list in Redis differs from the table only while a writer is about to clear it,
\* or if a reader stored it after the write it had not seen, or its writer died.
StaleExplained ==
  cache = "stale" /\ ~late => \E r \in Request : pc[r] = "clear"
=============================================================================
