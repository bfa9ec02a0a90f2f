----------------------------- MODULE Permissions -----------------------------
(***************************************************************************)
(* What ONE user is allowed: the user's roles, the menus and buttons those *)
(* roles grant, the copy of them under user:info and user:permissions, and *)
(* the guards that read the copy.  An action is the code between two       *)
(* awaits; a request fails at one with Abort, as all do in a restart.      *)
(*                                                                         *)
(* Abstractions.  A role is its code, which is not changed and not given   *)
(* again.  A menu is its id and whether it is enabled, a button its menu   *)
(* and its mark; one that was removed may be created again.  A check that  *)
(* the write after it repeats is left out.  The lookup reads role_menus    *)
(* and then the menus' own columns: one step here.                         *)
(* The list role:all is in module ListStore, tokens are in module Session. *)
(***************************************************************************)
EXTENDS Naturals

CONSTANTS
  Editor,   \* requests of administrators in flight at one time
  Reader,   \* requests of the user in flight at one time
  Role, Super,   \* role codes; "R_SUPER"
  Menu, Mark

ASSUME PermissionsConstants == Super \in Role

Request == Editor \cup Reader
Button  == Menu \X Mark

VARIABLES
  has,              \* user_roles of the user
  rows, enabled,    \* roles in the table, those whose enabled is set
  unused,           \* role codes that no role has had yet
  menus, buttons,   \* role_menus and role_menu_buttons
  shown,            \* menus whose status is enabled
  cached,           \* what Redis holds of the user
  pc,               \* where each request stands
  want,             \* the roles an update binds, or the role an operation is about
  ids,              \* roles a lookup goes on with
  found,            \* what it will store
  late,             \* history: cached was put together while the tables were written
  unswept,          \* history: since cached was stored, a write came that clears nothing
  dirty             \* history: lookups since whose first query a table was written

tableVars == <<has, rows, enabled, unused, menus, buttons, shown>>
jobVars   == <<want, ids, found>>
historyVars == <<late, unswept, dirty>>
vars == <<tableVars, cached, pc, jobVars, historyVars>>

\* What a lookup finds: of a button, its mark only.
Grant  == [roles : SUBSET Role, menus : SUBSET Menu, buttons : SUBSET Mark]
NoInfo == [roles |-> {"none"}, menus |-> {}, buttons |-> {}]
Nothing(codes) == [roles |-> codes, menus |-> {}, buttons |-> {}]

Step == {"idle", "find_roles", "view", "roles_again", "menus", "buttons", "store",
         "assign_users", "assign_clear",
         "update_roles", "update_bind", "update_clear", "remove_role"}

Init ==
  /\ unused \in SUBSET Role
  /\ rows = Role \ unused /\ enabled = rows
  /\ has \in SUBSET rows
  /\ menus = [a \in Role |-> {}]
  /\ buttons = [a \in Role |-> {}]
  /\ shown = Menu
  /\ cached = NoInfo
  /\ pc = [r \in Request |-> "idle"]
  /\ want = [r \in Request |-> {}]
  /\ ids = [r \in Request |-> {}]
  /\ found = [r \in Request |-> Nothing({})]
  /\ late = FALSE /\ unswept = FALSE /\ dirty = {}

-----------------------------------------------------------------------------
Goto(r, s) == pc' = [pc EXCEPT ![r] = s]

\* A request ends and forgets.
Done(r) ==
  /\ Goto(r, "idle")
  /\ want' = [want EXCEPT ![r] = {}]
  /\ ids' = [ids EXCEPT ![r] = {}]
  /\ found' = [found EXCEPT ![r] = Nothing({})]

Looking == {r \in Request : pc[r] \in {"find_roles", "view", "roles_again",
                                       "menus", "buttons", "store"}}

\* A table was written: every lookup under way has seen older rows.
Written == dirty' = dirty \cup Looking

\* The two keys are deleted.
Sweep == cached' = NoInfo /\ late' = FALSE /\ unswept' = FALSE

\* A writer ends without having deleted them.
Unswept(b) == unswept' = (unswept \/ b) /\ UNCHANGED <<cached, late>>

(***************************************************************************)
(* UserService.getPermissionsForRoles, as one query after the other; both  *)
(* login and validateToken store what it returns.                          *)
(***************************************************************************)

EnabledWithGhosts(codes) == codes              \* faulty: enabled is not in the query
Enabled(codes) == codes \cap rows \cap enabled

\* Roles with rows in the view v_role_menu_button_detail, of menus that are enabled.
Viewed(a) == {x \in a : x \in enabled /\ \E b \in buttons[x] : b[1] \in shown}

MenusOf(a)   == UNION {menus[x] : x \in a}
ButtonsOf(a) == UNION {buttons[x] : x \in a}
MarksOf(a)   == {b[2] : b \in ButtonsOf(a)}

LookupUser(r) ==
  /\ pc[r] = "idle"
  /\ found' = [found EXCEPT ![r] = Nothing(has)]
  /\ dirty' = dirty \ {r}
  /\ Goto(r, IF has = {} THEN "store" ELSE "find_roles")
  /\ UNCHANGED <<tableVars, cached, want, ids, late, unswept>>

LookupRoles(r) ==
  /\ pc[r] = "find_roles"
  /\ ids' = [ids EXCEPT ![r] = Enabled(found[r].roles)]
  /\ Goto(r, IF ids'[r] = {} THEN "roles_again" ELSE "view")
  /\ UNCHANGED <<tableVars, cached, want, found, historyVars>>

\* With rows in the view, only the roles that have some are looked at further.
LookupView(r) ==
  /\ pc[r] = "view"
  /\ ids' = [ids EXCEPT ![r] = Viewed(ids[r])]
  /\ Goto(r, IF ids'[r] = {} THEN "roles_again" ELSE "menus")
  /\ UNCHANGED <<tableVars, cached, want, found, historyVars>>

LookupRolesAgain(r) ==
  /\ pc[r] = "roles_again"
  /\ ids' = [ids EXCEPT ![r] = Enabled(found[r].roles)]
  /\ Goto(r, IF ids'[r] = {} THEN "store" ELSE "menus")
  /\ UNCHANGED <<tableVars, cached, want, found, historyVars>>

\* Roles without any menu get no buttons; the buttons of a disabled menu are still found.
LookupMenus(r) ==
  /\ pc[r] = "menus"
  /\ found' = [found EXCEPT ![r].menus = MenusOf(ids[r]) \cap shown]
  /\ Goto(r, IF MenusOf(ids[r]) = {} THEN "store" ELSE "buttons")
  /\ UNCHANGED <<tableVars, cached, want, ids, historyVars>>

LookupButtons(r) ==
  /\ pc[r] = "buttons"
  /\ found' = [found EXCEPT ![r].buttons = MarksOf(ids[r])]
  /\ ids' = [ids EXCEPT ![r] = {}]
  /\ Goto(r, "store")
  /\ UNCHANGED <<tableVars, cached, want, historyVars>>

LookupStore(r) ==
  /\ pc[r] = "store"
  /\ cached' = found[r]
  /\ late' = (r \in dirty)
  /\ unswept' = FALSE
  /\ dirty' = dirty \ {r}
  /\ Done(r)
  /\ UNCHANGED tableVars

\* UserService.getUserInfo, which any user may ask for: what it looks up it answers and
\* does not store.
GetUserInfo(r) ==
  /\ pc[r] = "store"
  /\ dirty' = dirty \ {r}
  /\ Done(r)
  /\ UNCHANGED <<tableVars, cached, late, unswept>>

(***************************************************************************)
(* RoleService.assignRolePermissions                                       *)
(***************************************************************************)

\* One transaction: the role's rows are deleted and the new ones inserted.
AssignWrite(r, a, ms, bs) ==
  /\ pc[r] = "idle"
  /\ a \in rows
  /\ menus' = [menus EXCEPT ![a] = ms]
  /\ buttons' = [buttons EXCEPT ![a] = bs]
  /\ want' = [want EXCEPT ![r] = {a}]
  /\ Goto(r, "assign_users")
  /\ Written
  /\ UNCHANGED <<has, rows, enabled, unused, shown, cached, ids, found, late, unswept>>

\* clearUsersCacheByRole: the user is cleared if it has the role.
AssignUsers(r) ==
  /\ pc[r] = "assign_users"
  /\ IF want[r] \subseteq has
     THEN Goto(r, "assign_clear") /\ UNCHANGED jobVars
     ELSE Done(r)
  /\ UNCHANGED <<tableVars, cached, historyVars>>

AssignClearNone(r) ==                  \* faulty: the keys are left
  /\ pc[r] = "assign_clear"
  /\ Done(r)
  /\ UNCHANGED <<tableVars, cached, historyVars>>
AssignClear(r) ==
  /\ pc[r] = "assign_clear"
  /\ Sweep
  /\ Done(r)
  /\ UNCHANGED <<tableVars, dirty>>

(***************************************************************************)
(* UserService.update with role codes, and bindUserRoles                   *)
(***************************************************************************)

UpdateDelete(r, w) ==
  /\ pc[r] = "idle"
  /\ has' = {}
  /\ want' = [want EXCEPT ![r] = w]
  /\ Goto(r, IF w = {} THEN "update_clear" ELSE "update_roles")
  /\ Written
  /\ UNCHANGED <<rows, enabled, unused, menus, buttons, shown, cached, ids, found, late, unswept>>

\* A role that is not found makes the update fail: the user stays without roles and
\* the keys are left.
UpdateRoles(r) ==
  /\ pc[r] = "update_roles"
  /\ IF want[r] \subseteq rows
     THEN Goto(r, "update_bind") /\ UNCHANGED <<jobVars, unswept>>
     ELSE Done(r) /\ unswept' = TRUE
  /\ UNCHANGED <<tableVars, cached, late, dirty>>

\* createMany with skipDuplicates is MySQL's INSERT IGNORE: it skips the roles that the
\* user got meanwhile, and those that are gone by now.
UpdateBind(r) ==
  /\ pc[r] = "update_bind"
  /\ has' = has \cup (want[r] \cap rows)
  /\ Written
  /\ Goto(r, "update_clear")
  /\ UNCHANGED <<rows, enabled, unused, menus, buttons, shown, cached, jobVars, late, unswept>>

UpdateClear(r) ==
  /\ pc[r] = "update_clear"
  /\ Sweep
  /\ Done(r)
  /\ UNCHANGED <<tableVars, dirty>>

(***************************************************************************)
(* RoleService.create, update and remove; the change and the removal of    *)
(* menus and buttons in MenuService.  None of them deletes a user's keys.  *)
(***************************************************************************)

RoleCreate(a, on) ==
  /\ a \in unused
  /\ unused' = unused \ {a}
  /\ rows' = rows \cup {a}
  /\ enabled' = IF on THEN enabled \cup {a} ELSE enabled
  /\ Written
  /\ UNCHANGED <<has, menus, buttons, shown, cached, pc, jobVars, late, unswept>>

RoleUpdate(a) ==
  /\ a \in rows
  /\ enabled' = IF a \in enabled THEN enabled \ {a} ELSE enabled \cup {a}
  /\ Written
  /\ Unswept(a \in has)
  /\ UNCHANGED <<has, rows, unused, menus, buttons, shown, pc, jobVars>>

\* A role that a user has is not removed.
RoleRemoveFind(r, a) ==
  /\ pc[r] = "idle"
  /\ a \in rows
  /\ a \notin has
  /\ want' = [want EXCEPT ![r] = {a}]
  /\ Goto(r, "remove_role")
  /\ UNCHANGED <<tableVars, cached, ids, found, historyVars>>

\* ON DELETE CASCADE: the rows of the role go with it, user_roles too.
RoleRemove(r) ==
  /\ pc[r] = "remove_role"
  /\ rows' = rows \ want[r]
  /\ enabled' = enabled \ want[r]
  /\ has' = has \ want[r]
  /\ menus' = [a \in Role |-> IF a \in want[r] THEN {} ELSE menus[a]]
  /\ buttons' = [a \in Role |-> IF a \in want[r] THEN {} ELSE buttons[a]]
  /\ Written
  /\ Unswept(want[r] \cap has # {})
  /\ Done(r)
  /\ UNCHANGED <<unused, shown>>

ButtonRemoveRoles(b) ==                \* faulty: roles that had it lose their entry
  /\ buttons' = [a \in {x \in Role : b \notin buttons[x]} |-> buttons[a]]
  /\ Written
  /\ Unswept(b \in ButtonsOf(has))
  /\ UNCHANGED <<has, rows, enabled, unused, menus, shown, pc, jobVars>>
ButtonRemove(b) ==
  /\ buttons' = [a \in Role |-> buttons[a] \ {b}]
  /\ Written
  /\ Unswept(b \in ButtonsOf(has))
  /\ UNCHANGED <<has, rows, enabled, unused, menus, shown, pc, jobVars>>

\* A new authMark, refused when the menu has a button of that mark: the roles that had
\* the button have it under the new one.
ButtonUpdate(b, x) ==
  /\ <<b[1], x>> \notin ButtonsOf(Role)
  /\ buttons' = [a \in Role |-> IF b \in buttons[a]
                               THEN (buttons[a] \ {b}) \cup {<<b[1], x>>}
                               ELSE buttons[a]]
  /\ Written
  /\ Unswept(b \in ButtonsOf(has))
  /\ UNCHANGED <<has, rows, enabled, unused, menus, shown, pc, jobVars>>

\* The menu is of interest to the user.
Touched(m) == m \in MenusOf(has) \/ ButtonsOf(has) \cap ({m} \X Mark) # {}

\* A new status.
MenuUpdate(m) ==
  /\ shown' = IF m \in shown THEN shown \ {m} ELSE shown \cup {m}
  /\ Written
  /\ Unswept(Touched(m))
  /\ UNCHANGED <<has, rows, enabled, unused, menus, buttons, pc, jobVars>>

MenuRemove(m) ==
  /\ menus' = [a \in Role |-> menus[a] \ {m}]
  /\ buttons' = [a \in Role |-> buttons[a] \ ({m} \X Mark)]
  /\ Written
  /\ Unswept(Touched(m))
  /\ UNCHANGED <<has, rows, enabled, unused, shown, pc, jobVars>>

(***************************************************************************)
(* Failures, and the TTL of seven days                                     *)
(***************************************************************************)

Abort(r) ==
  /\ pc[r] # "idle"
  /\ unswept' = (unswept \/ pc[r] \in {"assign_users", "assign_clear", "update_roles",
                                       "update_bind", "update_clear"})
  /\ dirty' = dirty \ {r}
  /\ Done(r)
  /\ UNCHANGED <<tableVars, cached, late>>

Lapse ==
  /\ cached # NoInfo
  /\ Sweep
  /\ UNCHANGED <<tableVars, pc, jobVars, dirty>>

Next ==
  \/ \E r \in Reader :
       \/ LookupUser(r) \/ LookupRoles(r) \/ LookupView(r) \/ LookupRolesAgain(r)
       \/ LookupMenus(r) \/ LookupButtons(r) \/ LookupStore(r) \/ GetUserInfo(r)
  \/ \E r \in Editor :
       \/ \E a \in Role, ms \in SUBSET Menu, bs \in SUBSET Button : AssignWrite(r, a, ms, bs)
       \/ AssignUsers(r) \/ AssignClear(r)
       \/ \E w \in SUBSET Role : UpdateDelete(r, w)
       \/ UpdateRoles(r) \/ UpdateBind(r) \/ UpdateClear(r)
       \/ \E a \in Role : RoleRemoveFind(r, a)
       \/ RoleRemove(r)
  \/ \E a \in Role : RoleUpdate(a) \/ \E on \in BOOLEAN : RoleCreate(a, on)
  \/ \E b \in Button : ButtonRemove(b) \/ \E x \in Mark : ButtonUpdate(b, x)
  \/ \E m \in Menu : MenuUpdate(m) \/ MenuRemove(m)
  \/ \E r \in Request : Abort(r)
  \/ Lapse

Spec == Init /\ [][Next]_vars

-----------------------------------------------------------------------------
(***************************************************************************)
(* Properties                                                              *)
(***************************************************************************)

\* Every variable keeps the shape the code gives it.
TypeOK ==
  /\ has \in SUBSET Role /\ rows \in SUBSET Role /\ enabled \in SUBSET Role
  /\ unused \in SUBSET Role
  /\ menus \in [Role -> SUBSET Menu]
  /\ buttons \in [Role -> SUBSET Button]
  /\ shown \in SUBSET Menu
  /\ cached \in Grant \cup {NoInfo}
  /\ pc \in [Request -> Step]
  /\ want \in [Request -> SUBSET Role]
  /\ ids \in [Request -> SUBSET Role]
  /\ found \in [Request -> Grant]
  /\ late \in BOOLEAN /\ unswept \in BOOLEAN /\ dirty \in SUBSET Request

\* What a lookup returns that no write disturbs.
GoesOn == LET e == Enabled(has) IN IF Viewed(e) # {} THEN Viewed(e) ELSE e
Lookup ==
  [roles   |-> has,
   menus   |-> MenusOf(GoesOn) \cap shown,
   buttons |-> IF MenusOf(GoesOn) = {} THEN {} ELSE MarksOf(GoesOn)]

\* A request that has yet to delete the user's keys.
Sweeping == \E r \in Request :
  pc[r] \in {"assign_users", "assign_clear", "update_roles", "update_bind", "update_clear"}

\* The copy can be relied on: not put together during writes, not left by a writer.
Settled == cached # NoInfo /\ ~late /\ ~unswept /\ ~Sweeping

\* What the guards read in Redis is what the tables say (role.service.ts:418,
\* user.service.ts:552), except between a write and the deletion that follows it, if it
\* was put together while a table was written, or if a writer that deletes nothing or
\* failed came after it.
CachedIsCurrent == Settled => cached = Lookup

\* PermissionsGuard.canActivate for a route that needs mark x
Allows(u, x) == Super \in u.roles \/ x \in u.buttons

\* Under the same conditions nobody is let through to a route whose mark no enabled role
\* of theirs grants, unless they have the super role (permissions.guard.ts:51), which
\* counts even when it is disabled.
AllowedIsGranted ==
  Settled => \A x \in Mark : Allows(cached, x) =>
    Super \in has \/ \E a \in has \cap rows \cap enabled : \E m \in Menu : <<m, x>> \in buttons[a]
=============================================================================
