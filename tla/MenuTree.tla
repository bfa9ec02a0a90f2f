------------------------------- MODULE MenuTree -------------------------------
(***************************************************************************)
(* The menus table, a forest kept by MenuService, and the cached list of   *)
(* it (module ListStore) that MenuStoreService serves.  An action is the   *)
(* code between two awaits; a request fails at an await with Abort, which  *)
(* is also what a restart does to every request.                           *)
(*                                                                         *)
(* Abstractions.  Of a menu its id, parent and path are kept.  A request   *)
(* that is refused before its first write has no effect and ends.  The     *)
(* button operations write the list, not the forest: their checks are left *)
(* out.  A read with its relations (findMany with include) is taken for    *)
(* the moment of its first query.                                          *)
(***************************************************************************)
EXTENDS Naturals

CONSTANTS
  Editor,    \* requests of administrators in flight at one time
  Reader,    \* requests for the list in flight at one time
  MaxMenu,   \* bound: menus ever created
  Path       \* paths a menu can have

ASSUME MenuConstants == MaxMenu \in Nat /\ Path # {} /\ "keep" \notin Path

Request == Editor \cup Reader
Root == 0              \* parentId null
Keep == MaxMenu + 1    \* an update that does not name a parent
Menu == 1..MaxMenu
AnyPath == CHOOSE x \in Path : TRUE

VARIABLES
  menus,      \* ids of the rows
  parent, path, \* their columns
  nextId,     \* the table's AUTO_INCREMENT
  pc,         \* where each request stands
  m,          \* the menu it works on
  to,         \* the parent it names
  newPath,    \* the path it names, "keep" for none
  was,        \* the parent of m when update read it
  at,         \* where the walk up from the new parent has come
  cache, snap, lateList,  \* the list store: cache, snap and late of ListStore
  dirtyMove,  \* history: requests since whose walk began another menu was moved
  dirtyPath,  \* history: requests since whose reads of rows another row was written
  lateMove    \* history: menus last moved by a request of dirtyMove

tableVars == <<menus, parent, path, nextId>>
jobVars   == <<m, to, newPath, was, at>>
listVars  == <<cache, snap, lateList>>
dirtyVars == <<dirtyMove, dirtyPath>>
vars == <<tableVars, pc, jobVars, listVars, dirtyVars, lateMove>>

Step == {"idle", "create_path", "create_write", "create_buttons",
         "update_parent", "update_walk", "update_path", "update_write",
         "remove_write", "read", "fill", "clear"}

Init ==
  /\ menus = {}
  /\ parent = [n \in Menu |-> Root]
  /\ path = [n \in Menu |-> AnyPath]
  /\ nextId = 1
  /\ pc = [r \in Request |-> "idle"]
  /\ m = [r \in Request |-> 0]
  /\ to = [r \in Request |-> Root]
  /\ newPath = [r \in Request |-> "keep"]
  /\ was = [r \in Request |-> Root]
  /\ at = [r \in Request |-> 0]
  /\ cache = "none" /\ snap = [r \in Request |-> "none"] /\ lateList = FALSE
  /\ dirtyMove = {} /\ dirtyPath = {} /\ lateMove = {}

-----------------------------------------------------------------------------
Goto(r, s) == pc' = [pc EXCEPT ![r] = s]

\* A request goes to s, its end or one of its last calls, and forgets what it worked on
\* but for the menu n.
Drop(r, s, n) ==
  /\ Goto(r, s)
  /\ m' = [m EXCEPT ![r] = n]
  /\ to' = [to EXCEPT ![r] = Root]
  /\ newPath' = [newPath EXCEPT ![r] = "keep"]
  /\ was' = [was EXCEPT ![r] = Root]
  /\ at' = [at EXCEPT ![r] = 0]
Done(r) ==
  /\ Drop(r, "idle", 0)
  /\ dirtyMove' = dirtyMove \ {r}
  /\ dirtyPath' = dirtyPath \ {r}

\* The row of another menu under parent p has path x.
PathTaken(p, x, self) == \E n \in menus \ {self} : parent[n] = p /\ path[n] = x

HasChild(n) == \E c \in menus : parent[c] = n

\* The foreign key, ON DELETE RESTRICT: a menu that is another's parent cannot go.
Restricted(n) == n \in {parent[c] : c \in menus}

\* A statement wrote the tables of the list: lists read before are overtaken.  The
\* writer goes on to s.
Overtaken(list) == IF list = "current" THEN "stale" ELSE list
Written(r, s, n) ==
  /\ cache' = Overtaken(cache)
  /\ snap' = [q \in Request |-> Overtaken(snap[q])]
  /\ Drop(r, s, n)
  /\ UNCHANGED lateList

\* The checks of the other requests are overtaken by a write of r.
Walking  == {q \in Request : pc[q] \in {"update_walk", "update_path", "update_write"}}
Checking == Walking \cup {q \in Request : pc[q] \in {"create_write", "update_parent"}}
RowWritten(r, moved) ==
  /\ dirtyMove' = (IF moved THEN dirtyMove \cup Walking ELSE dirtyMove) \ {r}
  /\ dirtyPath' = (dirtyPath \cup Checking) \ {r}

(***************************************************************************)
(* MenuService.create                                                      *)
(***************************************************************************)

\* The parent named must be there; 0 or none is the top level.
CreateCheckParent(r, p, x) ==
  /\ pc[r] = "idle"
  /\ p \in menus \cup {Root}
  /\ to' = [to EXCEPT ![r] = p]
  /\ newPath' = [newPath EXCEPT ![r] = x]
  /\ Goto(r, "create_path")
  /\ UNCHANGED <<tableVars, m, was, at, listVars, dirtyVars, lateMove>>

CreateUnchecked(r) ==                  \* faulty: the path is not looked up
  /\ pc[r] = "create_path"
  /\ Goto(r, "create_write")
  /\ UNCHANGED <<tableVars, jobVars, listVars, dirtyVars, lateMove>>
CreateCheckPath(r) ==
  /\ pc[r] = "create_path"
  /\ IF PathTaken(to[r], newPath[r], 0)
     THEN Done(r)
     ELSE Goto(r, "create_write") /\ UNCHANGED <<jobVars, dirtyVars>>
  /\ UNCHANGED <<tableVars, listVars, lateMove>>

\* menu.create; the foreign key rejects a parent that is gone.
CreateWrite(r) ==
  /\ pc[r] = "create_write"
  /\ IF to[r] \in menus \cup {Root}
     THEN /\ nextId <= MaxMenu
          /\ menus' = menus \cup {nextId}
          /\ parent' = [parent EXCEPT ![nextId] = to[r]]
          /\ path' = [path EXCEPT ![nextId] = newPath[r]]
          /\ nextId' = nextId + 1
          /\ Written(r, "clear", 0) \/ Written(r, "create_buttons", nextId)
          /\ RowWritten(r, FALSE)
          /\ UNCHANGED lateMove
     ELSE Done(r) /\ UNCHANGED <<tableVars, listVars, lateMove>>

\* menuButton.createMany, when buttons are named: a second write of what the list holds.
\* The foreign key rejects it (Abort) when the menu is gone.
CreateButtons(r) ==
  /\ pc[r] = "create_buttons"
  /\ m[r] \in menus
  /\ Written(r, "clear", 0)
  /\ UNCHANGED <<tableVars, dirtyVars, lateMove>>

(***************************************************************************)
(* MenuService.update                                                      *)
(***************************************************************************)

\* The step after the parent is settled: is there a path to check?
PathStep(x) == IF x = "keep" THEN "update_write" ELSE "update_path"

UpdateFind(r, n, p, x) ==
  /\ pc[r] = "idle"
  /\ n \in menus
  /\ m' = [m EXCEPT ![r] = n]
  /\ to' = [to EXCEPT ![r] = p]
  /\ newPath' = [newPath EXCEPT ![r] = x]
  /\ was' = [was EXCEPT ![r] = parent[n]]
  /\ Goto(r, IF p \in {Root, Keep} THEN PathStep(x) ELSE "update_parent")
  /\ UNCHANGED <<tableVars, at, listVars, dirtyVars, lateMove>>

UpdateCheckParent(r) ==
  /\ pc[r] = "update_parent"
  /\ IF to[r] \in menus /\ to[r] # m[r]
     THEN /\ at' = [at EXCEPT ![r] = to[r]]
          /\ Goto(r, "update_walk")
          /\ UNCHANGED <<m, to, newPath, was, dirtyVars>>
     ELSE Done(r)
  /\ UNCHANGED <<tableVars, listVars, lateMove>>

\* checkCircularReference: one row of the way up per query.
WalkSelfOnly(r) ==                     \* faulty: only the new parent itself is compared
  /\ pc[r] = "update_walk"
  /\ Goto(r, PathStep(newPath[r]))
  /\ UNCHANGED <<tableVars, jobVars, listVars, dirtyVars, lateMove>>
WalkFromParent(r) ==                   \* faulty: menu.parentId ?? newParentId
  /\ pc[r] = "update_walk"
  /\ IF parent[at[r]] = m[r]
     THEN Done(r)
     ELSE /\ at' = [at EXCEPT ![r] = IF parent[@] = Root THEN to[r] ELSE parent[@]]
          /\ UNCHANGED <<pc, m, to, newPath, was, dirtyVars>>
  /\ UNCHANGED <<tableVars, listVars, lateMove>>
UpdateWalk(r) ==
  /\ pc[r] = "update_walk"
  /\ \/ /\ at[r] \notin menus \/ parent[at[r]] = Root
        /\ Goto(r, PathStep(newPath[r]))
        /\ UNCHANGED <<jobVars, dirtyVars>>
     \/ /\ at[r] \in menus /\ parent[at[r]] = m[r]
        /\ Done(r)
     \/ /\ at[r] \in menus /\ parent[at[r]] \notin {Root, m[r]}
        /\ at' = [at EXCEPT ![r] = parent[at[r]]]
        /\ UNCHANGED <<pc, m, to, newPath, was, dirtyVars>>
  /\ UNCHANGED <<tableVars, listVars, lateMove>>

\* updateMenuDto.parentId ?? existingMenu.parentId: a move to the top level (null)
\* is checked under the old parent.
CheckedParent(r) == IF to[r] \in {Root, Keep} THEN was[r] ELSE to[r]

UpdateCheckPath(r) ==
  /\ pc[r] = "update_path"
  /\ IF PathTaken(CheckedParent(r), newPath[r], m[r])
     THEN Done(r)
     ELSE Goto(r, "update_write") /\ UNCHANGED <<jobVars, dirtyVars>>
  /\ UNCHANGED <<tableVars, listVars, lateMove>>

\* The row must still be there, and so must the parent (foreign key).
UpdateStoresKeep(r) ==                 \* faulty: an unnamed parent is stored as well
  /\ pc[r] = "update_write" /\ m[r] \in menus
  /\ parent' = [parent EXCEPT ![m[r]] = to[r]]
  /\ Written(r, "clear", 0)
  /\ UNCHANGED <<menus, path, nextId, dirtyVars, lateMove>>
UpdateWrite(r) ==
  /\ pc[r] = "update_write"
  /\ IF m[r] \in menus /\ to[r] \in menus \cup {Root, Keep}
     THEN /\ parent' = IF to[r] = Keep THEN parent ELSE [parent EXCEPT ![m[r]] = to[r]]
          /\ path' = IF newPath[r] = "keep" THEN path
                     ELSE [path EXCEPT ![m[r]] = newPath[r]]
          /\ Written(r, "clear", 0)
          /\ RowWritten(r, to[r] # Keep)
          /\ lateMove' = IF to[r] = Keep THEN lateMove
                         ELSE IF to[r] # Root /\ r \in dirtyMove THEN lateMove \cup {m[r]}
                         ELSE lateMove \ {m[r]}
          /\ UNCHANGED <<menus, nextId>>
     ELSE Done(r) /\ UNCHANGED <<tableVars, listVars, lateMove>>

(***************************************************************************)
(* MenuService.remove, the button operations                               *)
(***************************************************************************)

RemoveFind(r, n) ==
  /\ pc[r] = "idle"
  /\ n \in menus
  /\ ~HasChild(n)
  /\ m' = [m EXCEPT ![r] = n]
  /\ Goto(r, "remove_write")
  /\ UNCHANGED <<tableVars, to, newPath, was, at, listVars, dirtyVars, lateMove>>

\* A child that came in between keeps the row.
RemoveWrite(r) ==
  /\ pc[r] = "remove_write"
  /\ IF m[r] \in menus /\ ~Restricted(m[r])
     THEN /\ menus' = menus \ {m[r]}
          /\ parent' = [parent EXCEPT ![m[r]] = Root]
          /\ path' = [path EXCEPT ![m[r]] = AnyPath]
          /\ lateMove' = lateMove \ {m[r]}
          /\ Written(r, "clear", 0)
          /\ UNCHANGED <<nextId, dirtyMove, dirtyPath>>
     ELSE Done(r) /\ UNCHANGED <<tableVars, listVars, lateMove>>

\* createButton, updateButton, removeButton: a row of menu_buttons, which the list
\* includes, is written.
ButtonWrite(r) ==
  /\ pc[r] = "idle"
  /\ menus # {}
  /\ Written(r, "clear", 0)
  /\ UNCHANGED <<tableVars, dirtyVars, lateMove>>

(***************************************************************************)
(* MenuStoreService: the cached list                                       *)
(***************************************************************************)

ListGet(r) ==
  /\ pc[r] = "idle"
  /\ cache = "none"
  /\ Goto(r, "read")
  /\ UNCHANGED <<tableVars, jobVars, listVars, dirtyVars, lateMove>>

ListRead(r) ==
  /\ pc[r] = "read"
  /\ snap' = [snap EXCEPT ![r] = "current"]
  /\ Goto(r, "fill")
  /\ UNCHANGED <<tableVars, jobVars, cache, lateList, dirtyVars, lateMove>>

ListFill(r) ==
  /\ pc[r] = "fill"
  /\ cache' = snap[r]
  /\ lateList' = (snap[r] = "stale")
  /\ snap' = [snap EXCEPT ![r] = "none"]
  /\ Goto(r, "idle")
  /\ UNCHANGED <<tableVars, jobVars, dirtyVars, lateMove>>

\* clearAllCacheMenus, with which every writer ends
ListClearKept(r) ==                    \* faulty: the key is left
  /\ pc[r] = "clear"
  /\ Goto(r, "idle")
  /\ UNCHANGED <<tableVars, jobVars, listVars, dirtyVars, lateMove>>
ListClear(r) ==
  /\ pc[r] = "clear"
  /\ cache' = "none"
  /\ lateList' = FALSE
  /\ Goto(r, "idle")
  /\ UNCHANGED <<tableVars, jobVars, snap, dirtyVars, lateMove>>

ListLapse ==
  /\ cache # "none"
  /\ cache' = "none"
  /\ lateList' = FALSE
  /\ UNCHANGED <<tableVars, pc, jobVars, snap, dirtyVars, lateMove>>

\* A request fails where it waits, or the process restarts.  A writer that ends here (its
\* buttons are rejected, say) does not clear the list.
Abort(r) ==
  /\ pc[r] # "idle"
  /\ Done(r)
  /\ lateList' = (lateList \/ (pc[r] \in {"create_buttons", "clear"} /\ cache = "stale"))
  /\ snap' = [snap EXCEPT ![r] = "none"]
  /\ UNCHANGED <<tableVars, cache, lateMove>>

(***************************************************************************)
(* MenuService.getMenuTree: what a search finds, and the tree built of it  *)
(***************************************************************************)

\* A search by title, path or status finds some of the rows; none finds them all.
Found == SUBSET menus

TopOnly(S) == {n \in S : parent[n] = Root}   \* faulty: a row without its parent is lost
TreeRoots(S) == {n \in S : parent[n] = Root \/ parent[n] \notin S}

\* buildMenuTree hangs every other row under its parent and answers the roots: what
\* is shown are the roots and all that hangs below them.
Shown(S) ==
  {n \in S : \A T \in SUBSET S :
     TreeRoots(S) \subseteq T /\ (\A c \in S : parent[c] \in T => c \in T) => n \in T}

-----------------------------------------------------------------------------
Parents == 0..MaxMenu
Next ==
  \/ \E r \in Editor :
       \/ \E p \in Parents, x \in Path : CreateCheckParent(r, p, x)
       \/ CreateCheckPath(r) \/ CreateWrite(r) \/ CreateButtons(r)
       \/ \E n \in Menu, p \in Parents \cup {Keep}, x \in Path \cup {"keep"} :
            UpdateFind(r, n, p, x)
       \/ UpdateCheckParent(r) \/ UpdateWalk(r) \/ UpdateCheckPath(r) \/ UpdateWrite(r)
       \/ \E n \in Menu : RemoveFind(r, n)
       \/ RemoveWrite(r) \/ ButtonWrite(r)
       \/ ListClear(r)
  \/ \E r \in Reader : ListGet(r) \/ ListRead(r) \/ ListFill(r)
  \/ \E r \in Request : Abort(r)
  \/ ListLapse

Spec == Init /\ [][Next]_vars

-----------------------------------------------------------------------------
(***************************************************************************)
(* Properties                                                              *)
(***************************************************************************)

TypeOK ==
  /\ menus \in SUBSET Menu
  /\ parent \in [Menu -> Parents]
  /\ path \in [Menu -> Path]
  /\ nextId \in 1..(MaxMenu + 1)
  /\ pc \in [Request -> Step]
  /\ m \in [Request -> 0..MaxMenu]
  /\ to \in [Request -> Parents \cup {Keep}]
  /\ newPath \in [Request -> Path \cup {"keep"}]
  /\ was \in [Request -> Parents]
  /\ at \in [Request -> 0..MaxMenu]
  /\ cache \in {"none", "current", "stale"}
  /\ snap \in [Request -> {"none", "current", "stale"}]
  /\ lateList \in BOOLEAN
  /\ dirtyMove \in SUBSET Request
  /\ dirtyPath \in SUBSET Request
  /\ lateMove \in SUBSET Menu

\* The rows of S are the parents of one another: nothing above them is a root.
Cyclic(S) == S # {} /\ \A n \in S : parent[n] \in S

\* Every cycle has a member that was moved under a parent whose ancestors another
\* request had moved since they were looked at (menu.service.ts:221-247).
CyclesComeLate == \A S \in SUBSET menus : Cyclic(S) => S \cap lateMove # {}

\* Whatever a search finds is shown in its tree (menu.helper.ts:63-117), unless it is on
\* or below a cycle, which nobody then sees to undo it.
FoundIsShown == \A S \in Found : LET lost == S \ Shown(S) IN
                  lost # {} => lost \cap lateMove # {}

\* A row that is written with a path has it to itself under its parent when it is new,
\* stays where it was or goes under another menu (menu.service.ts:128, 254), unless
\* another request wrote a row after this one began to read them.
PathsChecked ==
  [][\A r \in Request :
       /\ pc[r] \in {"create_write", "update_write"}
       /\ pc'[r] \in {"create_buttons", "clear"}
       /\ newPath[r] # "keep" /\ r \notin dirtyPath
       /\ pc[r] = "update_write" => to[r] # Root
       => LET n == IF pc[r] = "create_write" THEN nextId ELSE m[r] IN
          \A k \in menus' \ {n} : parent'[k] = parent'[n] => path'[k] # path'[n]]_vars

\* A request writes a menu's parent.
Move == \E r \in Request : pc[r] = "update_write" /\ to[r] # Keep /\ pc'[r] = "clear"

\* The menus between n and the top: the parent of n, and the parent of each of them.
Above(n) ==
  {k \in menus : \A T \in SUBSET menus :
     {parent[x] : x \in T \cup {n}} \subseteq T \cup {Root} => k \in T}

\* A walk up the tree ends: unless a move came too late, each query of it leaves fewer
\* menus above it (menu.service.ts:221-239), and what the other requests do, but for
\* moves, adds none.
WalksClimb ==
  [][\A r \in Editor :
       pc[r] = "update_walk" /\ pc'[r] = "update_walk" /\ lateMove = {} /\ ~Move
       => /\ Above(at[r])' \subseteq Above(at[r])
          /\ UpdateWalk(r) => Above(at[r])' # Above(at[r])]_vars

\* The list of menus is kept as ListStore says: a create that has written its menu and not
\* its buttons is in the middle of its write.
ListStep(s) ==
  IF s = "create_buttons" THEN "clear" ELSE IF s \in {"read", "fill", "clear"} THEN s ELSE "idle"
List == INSTANCE ListStore WITH late <- lateList, pc <- [r \in Request |-> ListStep(pc[r])]
ImplementsListStore == List!Spec

(***************************************************************************)
(* What a comment says of the code                                         *)
(***************************************************************************)

\* menu.service.ts:254: an update that names a path looks for that path under the
\* parent the menu will have (with one request in flight: nothing interferes).
UpdatedPathFree ==
  [][\A r \in Request :
       pc[r] = "update_write" /\ pc'[r] = "clear" /\ newPath[r] # "keep"
       => \A k \in menus' \ {m[r]} :
            parent'[k] = parent'[m[r]] => path'[k] # path'[m[r]]]_vars
=============================================================================
