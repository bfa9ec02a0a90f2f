-------------------------- MODULE PermissionsProofs --------------------------
(***************************************************************************)
(* What holds of Permissions for any sets of roles, menus, marks and       *)
(* requests: the shape of the variables, and that the copy the guards read *)
(* is what the tables say unless a named write disturbed it.               *)
(*                                                                         *)
(* The argument for the copy.  A lookup since whose first query no table   *)
(* was written holds, at each of its steps, what the tables say (LookInv). *)
(* So it stores what they say; and a write that changes what they say      *)
(* comes from a request that will still delete the copy (Owes), or from    *)
(* one that never does and is recorded in unswept.                         *)
(***************************************************************************)
EXTENDS Permissions, TLAPS

-----------------------------------------------------------------------------
(***************************************************************************)
(* Types                                                                   *)
(***************************************************************************)

\* What is found of a set of roles is made of menus and marks.
LEMMA FoundType ==
  ASSUME TypeOK, NEW a \in SUBSET Role
  PROVE  /\ MenusOf(a) \in SUBSET Menu
         /\ ButtonsOf(a) \in SUBSET Button
         /\ MarksOf(a) \in SUBSET Mark
         /\ Enabled(a) \in SUBSET Role
         /\ Viewed(a) \in SUBSET Role
<1>1. MenusOf(a) \in SUBSET Menu
  BY DEF TypeOK, MenusOf
<1>2. ButtonsOf(a) \in SUBSET Button
  BY DEF TypeOK, ButtonsOf
<1>3. MarksOf(a) \in SUBSET Mark
  BY <1>2 DEF MarksOf, Button
<1>. QED  BY <1>1, <1>2, <1>3 DEF TypeOK, Enabled, Viewed

\* The fields of what a lookup has found, and their change.
LEMMA GrantFields ==
  ASSUME NEW g \in Grant, NEW ms \in SUBSET Menu, NEW bs \in SUBSET Mark
  PROVE  /\ g.roles \in SUBSET Role /\ g.menus \in SUBSET Menu /\ g.buttons \in SUBSET Mark
         /\ [g EXCEPT !.menus = ms] \in Grant
         /\ [g EXCEPT !.buttons = bs] \in Grant
  BY DEF Grant

\* A set of roles with nothing found yet.
LEMMA NothingType == ASSUME NEW a \in SUBSET Role PROVE Nothing(a) \in Grant
  BY DEF Nothing, Grant

\* Done leaves the local variables well typed.
LEMMA DoneType ==
  ASSUME TypeOK, NEW r \in Request, Done(r)
  PROVE  /\ pc' \in [Request -> Step]
         /\ want' \in [Request -> SUBSET Role]
         /\ ids' \in [Request -> SUBSET Role]
         /\ found' \in [Request -> Grant]
<1>1. Nothing({}) \in Grant
  BY NothingType
<1>. QED  BY <1>1 DEF TypeOK, Done, Goto, Step

\* The lookups that a write overtakes are requests.
LEMMA OvertakenType == Looking \in SUBSET Request
  BY DEF Looking

\* The tables and the history, whose types most steps keep by leaving them alone.
TablesOK ==
  /\ has \in SUBSET Role /\ rows \in SUBSET Role /\ enabled \in SUBSET Role
  /\ unused \in SUBSET Role
  /\ menus \in [Role -> SUBSET Menu]
  /\ buttons \in [Role -> SUBSET Button]
  /\ shown \in SUBSET Menu
JobsOK ==
  /\ pc \in [Request -> Step]
  /\ want \in [Request -> SUBSET Role]
  /\ ids \in [Request -> SUBSET Role]
  /\ found \in [Request -> Grant]
RestOK ==
  /\ cached \in Grant \cup {NoInfo}
  /\ late \in BOOLEAN /\ unswept \in BOOLEAN /\ dirty \in SUBSET Request

\* A step of a lookup keeps every variable in its type.
LEMMA LookupTypes ==
  ASSUME TypeOK, NEW r \in Request,
         \/ LookupUser(r) \/ LookupRoles(r) \/ LookupView(r) \/ LookupRolesAgain(r)
         \/ LookupMenus(r) \/ LookupButtons(r) \/ LookupStore(r)
  PROVE  TypeOK'
<1>. USE DEF TypeOK, Goto, Step, tableVars, historyVars
<1>0. found[r] \in Grant /\ ids[r] \in SUBSET Role /\ has \in SUBSET Role
  OBVIOUS
<1>f. found[r].roles \in SUBSET Role
  BY <1>0 DEF Grant
<1>1. CASE LookupUser(r)
  <2>1. Nothing(has) \in Grant  BY NothingType
  <2>. QED  BY <1>1, <2>1 DEF LookupUser
<1>2. CASE LookupRoles(r)
  <2>1. Enabled(found[r].roles) \in SUBSET Role  BY <1>f, FoundType
  <2>. QED  BY <1>2, <2>1 DEF LookupRoles
<1>3. CASE LookupView(r)
  <2>1. Viewed(ids[r]) \in SUBSET Role  BY <1>0, FoundType
  <2>. QED  BY <1>3, <2>1 DEF LookupView
<1>4. CASE LookupRolesAgain(r)
  <2>1. Enabled(found[r].roles) \in SUBSET Role  BY <1>f, FoundType
  <2>. QED  BY <1>4, <2>1 DEF LookupRolesAgain
<1>5. CASE LookupMenus(r)
  <2>1. MenusOf(ids[r]) \cap shown \in SUBSET Menu  BY <1>0, FoundType
  <2>2. [found[r] EXCEPT !.menus = MenusOf(ids[r]) \cap shown] \in Grant
    BY <1>0, <2>1, GrantFields
  <2>3. found' = [found EXCEPT ![r] = [found[r] EXCEPT !.menus = MenusOf(ids[r]) \cap shown]]
    BY <1>5 DEF LookupMenus
  <2>. QED  BY <1>5, <2>2, <2>3 DEF LookupMenus
<1>6. CASE LookupButtons(r)
  <2>1. MarksOf(ids[r]) \in SUBSET Mark  BY <1>0, FoundType
  <2>2. [found[r] EXCEPT !.buttons = MarksOf(ids[r])] \in Grant
    BY <1>0, <2>1, GrantFields
  <2>3. found' = [found EXCEPT ![r] = [found[r] EXCEPT !.buttons = MarksOf(ids[r])]]
    BY <1>6 DEF LookupButtons
  <2>. QED  BY <1>6, <2>2, <2>3 DEF LookupButtons
<1>7. CASE LookupStore(r)
  <2>1. JobsOK'  BY <1>7, DoneType DEF LookupStore, JobsOK
  <2>2. TablesOK'  BY <1>7 DEF LookupStore, TablesOK
  <2>3. cached' \in Grant /\ dirty' \in SUBSET Request
    BY <1>7, <1>0 DEF LookupStore
  <2>4. late' \in BOOLEAN /\ unswept' \in BOOLEAN
    <3>. HIDE DEF TypeOK
    <3>1. unswept' = FALSE  BY <1>7 DEF LookupStore
    <3>2. late' = (r \in dirty)  BY <1>7 DEF LookupStore
    <3>3. (r \in dirty) \in BOOLEAN  OBVIOUS
    <3>. QED  BY <3>1, <3>2, <3>3
  <2>5. RestOK'  BY <2>3, <2>4 DEF RestOK
  <2>. QED  BY <2>1, <2>2, <2>5 DEF JobsOK, TablesOK, RestOK
<1>. QED  BY <1>1, <1>2, <1>3, <1>4, <1>5, <1>6, <1>7

\* An answer that is not stored ends a lookup as a failure does.
LEMMA AnswerEnds ==
  ASSUME TypeOK, NEW r \in Request, GetUserInfo(r)
  PROVE  Abort(r)
<1>1. unswept' = unswept /\ pc[r] = "store"  BY DEF GetUserInfo
<1>2. unswept \in BOOLEAN  BY DEF TypeOK
<1>3. unswept' = (unswept \/ pc[r] \in {"assign_users", "assign_clear", "update_roles",
                                        "update_bind", "update_clear"})
  BY <1>1, <1>2
<1>. QED  BY <1>1, <1>3 DEF GetUserInfo, Abort

\* Every step keeps every variable in its type.
LEMMA TypePreserved == ASSUME TypeOK, [Next]_vars PROVE TypeOK'
<1>. USE DEF TypeOK
<1>o. Looking \in SUBSET Request
  BY OvertakenType
<1>1. ASSUME NEW r \in Reader,
             \/ LookupUser(r) \/ LookupRoles(r) \/ LookupView(r) \/ LookupRolesAgain(r)
             \/ LookupMenus(r) \/ LookupButtons(r) \/ LookupStore(r)
      PROVE  TypeOK'
  <2>1. r \in Request  BY DEF Request
  <2>. HIDE DEF TypeOK
  <2>. QED  BY <1>1, <2>1, LookupTypes
<1>2. ASSUME NEW r \in Request, NEW a \in Role, NEW ms \in SUBSET Menu, NEW bs \in SUBSET Button,
             AssignWrite(r, a, ms, bs)
      PROVE  TypeOK'
  BY <1>2, <1>o DEF AssignWrite, Written, Goto, Step
<1>3. ASSUME NEW r \in Request, AssignUsers(r) PROVE TypeOK'
  <2>1. JobsOK'
    <3>1. CASE want[r] \subseteq has
      BY <1>3, <3>1 DEF AssignUsers, JobsOK, Goto, Step, jobVars
    <3>2. CASE ~(want[r] \subseteq has)
      BY <1>3, <3>2, DoneType DEF AssignUsers, JobsOK
    <3>. QED  BY <3>1, <3>2
  <2>. QED  BY <1>3, <2>1 DEF AssignUsers, JobsOK, tableVars, historyVars
<1>4. ASSUME NEW r \in Request, AssignClear(r) \/ UpdateClear(r) PROVE TypeOK'
  <2>1. JobsOK'  BY <1>4, DoneType DEF AssignClear, UpdateClear, JobsOK
  <2>. QED  BY <1>4, <2>1 DEF AssignClear, UpdateClear, Sweep, JobsOK, tableVars
<1>5. ASSUME NEW r \in Request, NEW w \in SUBSET Role, UpdateDelete(r, w) PROVE TypeOK'
  BY <1>5, <1>o DEF UpdateDelete, Written, Goto, Step
<1>6. ASSUME NEW r \in Request, UpdateRoles(r) PROVE TypeOK'
  <2>1. JobsOK' /\ unswept' \in BOOLEAN
    <3>1. CASE want[r] \subseteq rows
      BY <1>6, <3>1 DEF UpdateRoles, JobsOK, Goto, Step, jobVars
    <3>2. CASE ~(want[r] \subseteq rows)
      BY <1>6, <3>2, DoneType DEF UpdateRoles, JobsOK
    <3>. QED  BY <3>1, <3>2
  <2>. QED  BY <1>6, <2>1 DEF UpdateRoles, JobsOK, tableVars
<1>7. ASSUME NEW r \in Request, UpdateBind(r) PROVE TypeOK'
  BY <1>7, <1>o DEF UpdateBind, Written, Goto, Step, jobVars
<1>8. ASSUME NEW r \in Request, NEW a \in Role, RoleRemoveFind(r, a) PROVE TypeOK'
  BY <1>8 DEF RoleRemoveFind, Goto, Step, tableVars, historyVars
<1>9. ASSUME NEW r \in Request, RoleRemove(r) PROVE TypeOK'
  <2>1. JobsOK'  BY <1>9, DoneType DEF RoleRemove, JobsOK
  <2>2. TablesOK'
    BY <1>9 DEF RoleRemove, TablesOK
  <2>3. RestOK'
    BY <1>9, <1>o DEF RoleRemove, RestOK, Written, Unswept
  <2>. QED  BY <2>1, <2>2, <2>3 DEF JobsOK, TablesOK, RestOK
<1>10. ASSUME NEW a \in Role, RoleUpdate(a) PROVE TypeOK'
  BY <1>10, <1>o DEF RoleUpdate, Written, Unswept, jobVars
<1>11. ASSUME NEW a \in Role, NEW on \in BOOLEAN, RoleCreate(a, on) PROVE TypeOK'
  BY <1>11, <1>o DEF RoleCreate, Written, jobVars
<1>12. ASSUME NEW b \in Button, ButtonRemove(b) PROVE TypeOK'
  BY <1>12, <1>o DEF ButtonRemove, Written, Unswept, jobVars
<1>13. ASSUME NEW m \in Menu, MenuRemove(m) PROVE TypeOK'
  BY <1>13, <1>o DEF MenuRemove, Written, Unswept, jobVars
<1>18. ASSUME NEW b \in Button, NEW x \in Mark, ButtonUpdate(b, x) PROVE TypeOK'
  <2>1. <<b[1], x>> \in Button  BY DEF Button
  <2>. QED  BY <1>18, <1>o, <2>1 DEF ButtonUpdate, Written, Unswept, jobVars
<1>19. ASSUME NEW m \in Menu, MenuUpdate(m) PROVE TypeOK'
  BY <1>19, <1>o DEF MenuUpdate, Written, Unswept, jobVars
<1>14. ASSUME NEW r \in Request, Abort(r) PROVE TypeOK'
  <2>1. JobsOK'  BY <1>14, DoneType DEF Abort, JobsOK
  <2>. QED  BY <1>14, <2>1 DEF Abort, JobsOK, tableVars
<1>15. CASE Lapse  BY <1>15 DEF Lapse, Sweep, tableVars, jobVars
<1>16. CASE UNCHANGED vars  BY <1>16 DEF vars, tableVars, jobVars, historyVars
<1>17. Editor \subseteq Request /\ Reader \subseteq Request  BY DEF Request
<1>. HIDE DEF TypeOK
<1>. QED
  BY AnswerEnds, <1>1, <1>2, <1>3, <1>4, <1>5, <1>6, <1>7, <1>8, <1>9, <1>10, <1>11, <1>12, <1>13, <1>14,
     <1>15, <1>16, <1>17, <1>18, <1>19 DEF Next

\* The first state is well typed.
LEMMA InitType == Init => TypeOK
<1>1. Nothing({}) \in Grant  BY NothingType
<1>. QED  BY <1>1 DEF Init, TypeOK, Step

\* Every variable keeps the shape the code gives it, for all constants.
THEOREM TypeCorrect == Spec => []TypeOK
  BY InitType, TypePreserved, PTL DEF Spec

-----------------------------------------------------------------------------
(***************************************************************************)
(* The invariant                                                           *)
(***************************************************************************)

\* The foreign keys of user_roles, and codes that no role has had yet.
RowsOK == has \subseteq rows /\ enabled \subseteq rows /\ rows \cap unused = {}

\* What a lookup that no write overtook knows at each of its steps.
LookOK(r) ==
  /\ pc[r] \in {"find_roles", "view", "roles_again", "menus"} => found[r] = Nothing(has)
  /\ pc[r] = "view" => ids[r] = Enabled(has) /\ ids[r] # {}
  /\ pc[r] = "roles_again" => Viewed(Enabled(has)) = {}
  /\ pc[r] \in {"menus", "buttons"} => ids[r] = GoesOn
  /\ pc[r] = "buttons" =>
       /\ found[r] = [Nothing(has) EXCEPT !.menus = MenusOf(GoesOn) \cap shown]
       /\ MenusOf(GoesOn) # {}
  /\ pc[r] = "store" => found[r] = Lookup

LooksOK == \A r \in Request : r \notin dirty => LookOK(r)

\* A request that will delete the copy, or be recorded in unswept if it does not.
Owes(r) ==
  \/ pc[r] \in {"assign_clear", "update_roles", "update_bind", "update_clear"}
  \/ pc[r] = "assign_users" /\ want[r] \subseteq has

CopyOK ==
  cached = NoInfo \/ late \/ unswept \/ cached = Lookup \/ \E r \in Request : Owes(r)

IInv == TypeOK /\ RowsOK /\ LooksOK /\ CopyOK

-----------------------------------------------------------------------------
(***************************************************************************)
(* What a lookup finds                                                     *)
(***************************************************************************)

\* What the tables say of the user depends on the rows of the user's roles alone.
LEMMA LookupKept ==
  ASSUME has' = has,
         \A a \in has : /\ menus[a] \cap shown' = menus[a] \cap shown
                        /\ \A b \in buttons[a] : b[1] \in shown' <=> b[1] \in shown,
         \A a \in has : /\ a \in rows' <=> a \in rows
                        /\ a \in enabled' <=> a \in enabled
                        /\ menus'[a] = menus[a]
                        /\ buttons'[a] = buttons[a]
  PROVE  Lookup' = Lookup /\ GoesOn' = GoesOn
<1>1. Enabled(has)' = Enabled(has)
  BY DEF Enabled
<1>2. Enabled(has) \subseteq has
  BY DEF Enabled
<1>3. Viewed(Enabled(has))' = Viewed(Enabled(has))
  BY <1>1, <1>2 DEF Viewed
<1>4. GoesOn' = GoesOn
  BY <1>1, <1>3 DEF GoesOn
<1>5. GoesOn \subseteq has
  BY <1>2 DEF GoesOn, Viewed
<1>6. MenusOf(GoesOn)' = MenusOf(GoesOn)
  <2>1. {menus'[x] : x \in GoesOn'} = {menus[x] : x \in GoesOn}
    BY <1>4, <1>5
  <2>. QED  BY <2>1 DEF MenusOf
<1>8. (MenusOf(GoesOn) \cap shown)' = MenusOf(GoesOn) \cap shown
  BY <1>5, <1>6 DEF MenusOf
<1>7. MarksOf(GoesOn)' = MarksOf(GoesOn)
  <2>1. {buttons'[x] : x \in GoesOn'} = {buttons[x] : x \in GoesOn}
    BY <1>4, <1>5
  <2>. QED  BY <2>1 DEF MarksOf, ButtonsOf
<1>. QED  BY <1>4, <1>6, <1>7, <1>8 DEF Lookup

\* Only roles of the user that exist and are enabled are looked at.
LEMMA GoesOnEnabled == GoesOn \subseteq has \cap rows \cap enabled
  BY DEF GoesOn, Viewed, Enabled

\* Each step of a lookup that nothing overtook leads to the next.
LEMMA LookStep ==
  ASSUME TypeOK, NEW r \in Request, LookOK(r),
         \/ LookupRoles(r) \/ LookupView(r) \/ LookupRolesAgain(r)
         \/ LookupMenus(r) \/ LookupButtons(r)
  PROVE  LookOK(r)'
<1>. USE DEF TypeOK, Goto, LookOK
<1>t. UNCHANGED <<has, rows, enabled, menus, buttons, shown>>
  BY DEF LookupRoles, LookupView, LookupRolesAgain, LookupMenus, LookupButtons, tableVars
<1>g. GoesOn' = GoesOn /\ Lookup' = Lookup
  BY <1>t, LookupKept
<1>e. /\ Enabled(has)' = Enabled(has)
      /\ Viewed(Enabled(has))' = Viewed(Enabled(has))
      /\ MenusOf(GoesOn)' = MenusOf(GoesOn)
  BY <1>t, <1>g DEF Enabled, Viewed, MenusOf
<1>n. Nothing(has).roles = has /\ Nothing(has)' = Nothing(has)
  BY <1>t DEF Nothing
<1>1. CASE LookupRoles(r)
  <2>1. found[r] = Nothing(has) /\ found'[r] = found[r]  BY <1>1 DEF LookupRoles
  <2>2. ids'[r] = Enabled(has)  BY <1>1, <2>1, <1>n DEF LookupRoles
  <2>3. CASE Enabled(has) = {}
    <3>1. pc'[r] = "roles_again"  BY <1>1, <2>2, <2>3 DEF LookupRoles
    <3>2. Viewed(Enabled(has)) = {}  BY <2>3 DEF Viewed
    <3>. QED  BY <3>1, <3>2, <2>1, <1>e, <1>n
  <2>4. CASE Enabled(has) # {}
    <3>1. pc'[r] = "view"  BY <1>1, <2>2, <2>4 DEF LookupRoles
    <3>. QED  BY <3>1, <2>1, <2>2, <2>4, <1>e, <1>n
  <2>. QED  BY <2>3, <2>4
<1>2. CASE LookupView(r)
  <2>1. found[r] = Nothing(has) /\ found'[r] = found[r] /\ ids[r] = Enabled(has)
    BY <1>2 DEF LookupView
  <2>2. ids'[r] = Viewed(Enabled(has))  BY <1>2, <2>1 DEF LookupView
  <2>3. CASE Viewed(Enabled(has)) = {}
    <3>1. pc'[r] = "roles_again"  BY <1>2, <2>2, <2>3 DEF LookupView
    <3>. QED  BY <3>1, <2>1, <2>3, <1>e, <1>n
  <2>4. CASE Viewed(Enabled(has)) # {}
    <3>1. pc'[r] = "menus"  BY <1>2, <2>2, <2>4 DEF LookupView
    <3>2. ids'[r] = GoesOn  BY <2>2, <2>4 DEF GoesOn
    <3>. QED  BY <3>1, <3>2, <2>1, <1>g, <1>n
  <2>. QED  BY <2>3, <2>4
<1>3. CASE LookupRolesAgain(r)
  <2>1. found[r] = Nothing(has) /\ found'[r] = found[r] /\ Viewed(Enabled(has)) = {}
    BY <1>3 DEF LookupRolesAgain
  <2>2. ids'[r] = Enabled(has)  BY <1>3, <2>1, <1>n DEF LookupRolesAgain
  <2>3. GoesOn = Enabled(has)  BY <2>1 DEF GoesOn
  <2>4. CASE Enabled(has) = {}
    <3>1. pc'[r] = "store"  BY <1>3, <2>2, <2>4 DEF LookupRolesAgain
    <3>2. MenusOf(GoesOn) = {}  BY <2>3, <2>4 DEF MenusOf
    <3>3. Lookup = Nothing(has)  BY <3>2 DEF Lookup, Nothing
    <3>. QED  BY <3>1, <3>3, <2>1, <1>g
  <2>5. CASE Enabled(has) # {}
    <3>1. pc'[r] = "menus"  BY <1>3, <2>2, <2>5 DEF LookupRolesAgain
    <3>. QED  BY <3>1, <2>1, <2>2, <2>3, <1>g, <1>n
  <2>. QED  BY <2>4, <2>5
<1>4. CASE LookupMenus(r)
  <2>1. found[r] = Nothing(has) /\ ids[r] = GoesOn /\ ids'[r] = ids[r]
    BY <1>4 DEF LookupMenus
  <2>2. found'[r] = [Nothing(has) EXCEPT !.menus = MenusOf(GoesOn) \cap shown]
    BY <1>4, <2>1 DEF LookupMenus
  <2>4. CASE MenusOf(GoesOn) = {}
    <3>1. pc'[r] = "store"  BY <1>4, <2>1, <2>4 DEF LookupMenus
    <3>2. found'[r] = Lookup  BY <2>2, <2>4 DEF Lookup, Nothing
    <3>. QED  BY <3>1, <3>2, <1>g
  <2>5. CASE MenusOf(GoesOn) # {}
    <3>1. pc'[r] = "buttons"  BY <1>4, <2>1, <2>5 DEF LookupMenus
    <3>. QED  BY <3>1, <2>1, <2>2, <2>5, <1>t, <1>g, <1>e, <1>n
  <2>. QED  BY <2>4, <2>5
<1>5. CASE LookupButtons(r)
  <2>1. /\ found[r] = [Nothing(has) EXCEPT !.menus = MenusOf(GoesOn) \cap shown]
        /\ MenusOf(GoesOn) # {} /\ ids[r] = GoesOn
    BY <1>5 DEF LookupButtons
  <2>2. found'[r] = [found[r] EXCEPT !.buttons = MarksOf(GoesOn)]
    BY <1>5, <2>1 DEF LookupButtons
  <2>3. found'[r] = Lookup  BY <2>1, <2>2 DEF Lookup, Nothing
  <2>4. pc'[r] = "store"  BY <1>5 DEF LookupButtons
  <2>. QED  BY <2>3, <2>4, <1>g
<1>. QED  BY <1>1, <1>2, <1>3, <1>4, <1>5

-----------------------------------------------------------------------------
(***************************************************************************)
(* What keeps each part of the invariant                                   *)
(***************************************************************************)

\* A step of q that writes no table leaves the other lookups as they are.
LEMMA LooksKept ==
  ASSUME LooksOK, NEW q \in Request,
         UNCHANGED <<has, rows, enabled, menus, buttons, shown>>,
         \A p \in Request \ {q} :
           /\ pc'[p] = pc[p] /\ ids'[p] = ids[p] /\ found'[p] = found[p]
           /\ p \in dirty => p \in dirty',
         q \in dirty' \/ LookOK(q)'
  PROVE  LooksOK'
<1>1. GoesOn' = GoesOn /\ Lookup' = Lookup
  BY LookupKept
<1>2. /\ Enabled(has)' = Enabled(has)
      /\ Viewed(Enabled(has))' = Viewed(Enabled(has))
      /\ MenusOf(GoesOn)' = MenusOf(GoesOn)
      /\ Nothing(has)' = Nothing(has)
  BY <1>1 DEF Enabled, Viewed, MenusOf, Nothing
<1>3. ASSUME NEW p \in Request \ {q}, p \notin dirty' PROVE LookOK(p)'
  <2>1. LookOK(p)  BY <1>3 DEF LooksOK
  <2>. QED  BY <1>1, <1>2, <1>3, <2>1 DEF LookOK
<1>. QED  BY <1>3 DEF LooksOK

\* A step that writes a table overtakes every lookup under way.
LEMMA LooksOvertaken ==
  ASSUME LooksOK, Written, NEW q \in Request, pc'[q] \notin {"find_roles", "view",
           "roles_again", "menus", "buttons", "store"} \/ pc'[q] = pc[q],
         \A p \in Request \ {q} : pc'[p] = pc[p]
  PROVE  LooksOK'
<1>. SUFFICES ASSUME NEW p \in Request, p \notin dirty' PROVE LookOK(p)'
  BY DEF LooksOK
<1>1. p \notin Looking
  BY DEF Written
<1>2. pc'[p] \notin {"find_roles", "view", "roles_again", "menus", "buttons", "store"}
  BY <1>1 DEF Looking
<1>. QED  BY <1>2 DEF LookOK

\* The same when no request moves.
LEMMA LooksOvertakenByNone ==
  ASSUME LooksOK, Written, pc' = pc PROVE LooksOK'
<1>. SUFFICES ASSUME NEW p \in Request, p \notin dirty' PROVE LookOK(p)'
  BY DEF LooksOK
<1>1. pc'[p] \notin {"find_roles", "view", "roles_again", "menus", "buttons", "store"}
  BY DEF Looking, Written
<1>. QED  BY <1>1 DEF LookOK

\* A step that leaves the copy and what the tables say, and lets nobody forget.
LEMMA CopyKept ==
  ASSUME CopyOK, cached' = cached, late' = late, unswept => unswept',
         Lookup' = Lookup \/ unswept',
         \A p \in Request : Owes(p) => Owes(p)' \/ unswept'
  PROVE  CopyOK'
<1>1. CASE unswept'  BY <1>1 DEF CopyOK
<1>2. CASE ~unswept' /\ \E p \in Request : Owes(p)
  <2>. PICK p \in Request : Owes(p)  BY <1>2
  <2>1. Owes(p)'  BY <1>2
  <2>. QED  BY <2>1 DEF CopyOK
<1>3. CASE ~unswept' /\ ~\E p \in Request : Owes(p)
  BY <1>3 DEF CopyOK
<1>. QED  BY <1>1, <1>2, <1>3

\* The other requests owe what they owed.
LEMMA OwesKept ==
  ASSUME NEW q \in Request, has' = has, ~Owes(q) \/ Owes(q)' \/ unswept',
         \A p \in Request \ {q} : pc'[p] = pc[p] /\ want'[p] = want[p]
  PROVE  \A p \in Request : Owes(p) => Owes(p)' \/ unswept'
  BY DEF Owes

-----------------------------------------------------------------------------
(***************************************************************************)
(* Every action keeps the invariant                                        *)
(***************************************************************************)

\* What is left of the invariant beside the types.
Rest == RowsOK /\ LooksOK /\ CopyOK

\* Done leaves the other requests alone.
LEMMA DoneOnly ==
  ASSUME TypeOK, NEW r \in Request, Done(r)
  PROVE  /\ pc'[r] = "idle"
         /\ \A p \in Request \ {r} :
              pc'[p] = pc[p] /\ want'[p] = want[p] /\ ids'[p] = ids[p] /\ found'[p] = found[p]
  BY DEF Done, Goto, TypeOK

\* A lookup, which writes no table, keeps the invariant.
LEMMA LookupRest ==
  ASSUME TypeOK, Rest, NEW r \in Request,
         \/ LookupUser(r) \/ LookupRoles(r) \/ LookupView(r) \/ LookupRolesAgain(r)
         \/ LookupMenus(r) \/ LookupButtons(r) \/ LookupStore(r)
  PROVE  Rest'
<1>. USE DEF Rest
<1>t. UNCHANGED <<has, rows, enabled, unused, menus, buttons, shown>>
  BY DEF LookupUser, LookupRoles, LookupView, LookupRolesAgain, LookupMenus, LookupButtons,
         LookupStore, tableVars, historyVars
<1>p. /\ pc[r] \in {"idle", "find_roles", "view", "roles_again", "menus", "buttons", "store"}
      /\ pc'[r] \in {"idle", "find_roles", "view", "roles_again", "menus", "buttons", "store"}
  BY DoneOnly DEF LookupUser, LookupRoles, LookupView, LookupRolesAgain, LookupMenus,
     LookupButtons, LookupStore, Goto, TypeOK
<1>o. \A q \in Request \ {r} : /\ pc'[q] = pc[q] /\ want'[q] = want[q]
                               /\ ids'[q] = ids[q] /\ found'[q] = found[q]
  BY DoneOnly DEF LookupUser, LookupRoles, LookupView, LookupRolesAgain, LookupMenus,
     LookupButtons, LookupStore, Goto, TypeOK
<1>l. Lookup' = Lookup
  BY <1>t, LookupKept
<1>1. RowsOK'
  BY <1>t DEF RowsOK
<1>3. \A q \in Request : Owes(q) => Owes(q)' \/ unswept'
  <2>1. ~Owes(r)  BY <1>p DEF Owes
  <2>. QED  BY <1>t, <1>o, <2>1, OwesKept
<1>4. CASE LookupUser(r)
  <2>1. pc'[r] = IF has = {} THEN "store" ELSE "find_roles"
    BY <1>4 DEF LookupUser, Goto, TypeOK
  <2>2. found'[r] = Nothing(has)  BY <1>4 DEF LookupUser, TypeOK
  <2>3. LookOK(r)'
    <3>1. CASE has = {}
      <4>1. GoesOn = {}  BY <3>1, GoesOnEnabled
      <4>2. MenusOf(GoesOn) = {}  BY <4>1 DEF MenusOf
      <4>3. Lookup = Nothing(has)  BY <4>2 DEF Lookup, Nothing
      <4>. QED  BY <2>1, <2>2, <3>1, <4>3, <1>l DEF LookOK
    <3>2. CASE has # {}
      <4>1. Nothing(has)' = Nothing(has)  BY <1>t DEF Nothing
      <4>. QED  BY <2>1, <2>2, <3>2, <4>1 DEF LookOK
    <3>. QED  BY <3>1, <3>2
  <2>4. LooksOK'
    <3>1. \A q \in Request \ {r} : q \in dirty => q \in dirty'  BY <1>4 DEF LookupUser
    <3>. QED  BY <3>1, <2>3, <1>t, <1>o, LooksKept
  <2>5. CopyOK'
    <3>1. cached' = cached /\ late' = late /\ unswept' = unswept  BY <1>4 DEF LookupUser
    <3>. QED  BY <3>1, <1>l, <1>3, CopyKept
  <2>. QED  BY <1>1, <2>4, <2>5
<1>5. CASE \/ LookupRoles(r) \/ LookupView(r) \/ LookupRolesAgain(r)
           \/ LookupMenus(r) \/ LookupButtons(r)
  <2>1. dirty' = dirty /\ cached' = cached /\ late' = late /\ unswept' = unswept
    BY <1>5 DEF LookupRoles, LookupView, LookupRolesAgain, LookupMenus, LookupButtons, historyVars
  <2>2. r \in dirty' \/ LookOK(r)'
    <3>1. CASE r \in dirty  BY <3>1, <2>1
    <3>2. CASE r \notin dirty
      <4>1. LookOK(r)  BY <3>2 DEF LooksOK
      <4>. QED  BY <4>1, <1>5, LookStep
    <3>. QED  BY <3>1, <3>2
  <2>3. LooksOK'  BY <2>1, <2>2, <1>t, <1>o, LooksKept
  <2>4. CopyOK'  BY <2>1, <1>l, <1>3, CopyKept
  <2>. QED  BY <1>1, <2>3, <2>4
<1>6. CASE LookupStore(r)
  <2>1. pc'[r] = "idle"  BY <1>6, DoneOnly DEF LookupStore
  <2>2. LookOK(r)'  BY <2>1 DEF LookOK
  <2>3. LooksOK'
    <3>1. \A q \in Request \ {r} : q \in dirty => q \in dirty'  BY <1>6 DEF LookupStore
    <3>. QED  BY <3>1, <2>2, <1>t, <1>o, LooksKept
  <2>4. CopyOK'
    <3>1. CASE r \in dirty
      <4>1. late'  BY <1>6, <3>1 DEF LookupStore
      <4>. QED  BY <4>1 DEF CopyOK
    <3>2. CASE r \notin dirty
      <4>1. found[r] = Lookup  BY <1>6, <3>2 DEF LooksOK, LookOK, LookupStore
      <4>2. cached' = Lookup'  BY <1>6, <4>1, <1>l DEF LookupStore
      <4>. QED  BY <4>2 DEF CopyOK
    <3>. QED  BY <3>1, <3>2
  <2>. QED  BY <1>1, <2>3, <2>4
<1>. QED  BY <1>4, <1>5, <1>6

\* RoleService.assignRolePermissions keeps the invariant.
LEMMA AssignRest ==
  ASSUME TypeOK, Rest, NEW r \in Request,
         \/ \E a \in Role, ms \in SUBSET Menu, bs \in SUBSET Button : AssignWrite(r, a, ms, bs)
         \/ AssignUsers(r) \/ AssignClear(r)
  PROVE  Rest'
<1>. USE DEF Rest
<1>1. ASSUME NEW a \in Role, NEW ms \in SUBSET Menu, NEW bs \in SUBSET Button,
             AssignWrite(r, a, ms, bs)
      PROVE  Rest'
  <2>. USE <1>1 DEF AssignWrite
  <2>1. /\ pc'[r] = "assign_users" /\ want'[r] = {a}
        /\ \A q \in Request \ {r} : pc'[q] = pc[q] /\ want'[q] = want[q]
    BY DEF Goto, TypeOK
  <2>2. RowsOK'  BY DEF RowsOK
  <2>3. LooksOK'  BY <2>1, LooksOvertaken
  <2>5. CopyOK'
    <3>1. CASE a \in has
      <4>1. Owes(r)'  BY <2>1, <3>1 DEF Owes
      <4>. QED  BY <4>1 DEF CopyOK
    <3>2. CASE a \notin has
      <4>1. \A x \in has : menus'[x] = menus[x] /\ buttons'[x] = buttons[x]
        BY <3>2 DEF TypeOK
      <4>2. Lookup' = Lookup  BY <4>1, LookupKept
      <4>3. ~Owes(r)  BY DEF Owes
      <4>4. \A p \in Request : Owes(p) => Owes(p)' \/ unswept'  BY <2>1, <4>3, OwesKept
      <4>. QED  BY <4>2, <4>4, CopyKept
    <3>. QED  BY <3>1, <3>2
  <2>. QED  BY <2>2, <2>3, <2>5
<1>2. CASE AssignUsers(r)
  <2>1. UNCHANGED <<has, rows, enabled, unused, menus, buttons, shown, cached, historyVars>>
    BY <1>2 DEF AssignUsers, tableVars
  <2>2. \A q \in Request \ {r} : /\ pc'[q] = pc[q] /\ want'[q] = want[q]
                                 /\ ids'[q] = ids[q] /\ found'[q] = found[q]
    BY <1>2, DoneOnly DEF AssignUsers, Goto, jobVars, TypeOK
  <2>3. pc'[r] \in {"assign_clear", "idle"} /\ (want[r] \subseteq has => pc'[r] = "assign_clear")
    BY <1>2, DoneOnly DEF AssignUsers, Goto, TypeOK
  <2>4. RowsOK'  BY <2>1 DEF RowsOK
  <2>6. LooksOK'
    <3>1. LookOK(r)'  BY <2>3 DEF LookOK
    <3>. QED  BY <3>1, <2>1, <2>2, LooksKept DEF historyVars
  <2>7. CopyOK'
    <3>1. Lookup' = Lookup  BY <2>1, LookupKept
    <3>2. ~Owes(r) \/ Owes(r)'  BY <1>2, <2>3 DEF Owes, AssignUsers
    <3>3. \A p \in Request : Owes(p) => Owes(p)' \/ unswept'  BY <2>1, <2>2, <3>2, OwesKept
    <3>. QED  BY <2>1, <3>1, <3>3, CopyKept DEF historyVars
  <2>. QED  BY <2>4, <2>6, <2>7
<1>3. CASE AssignClear(r)
  <2>1. UNCHANGED <<has, rows, enabled, unused, menus, buttons, shown, dirty>>
    BY <1>3 DEF AssignClear, tableVars
  <2>2. /\ pc'[r] = "idle"
        /\ \A q \in Request \ {r} : /\ pc'[q] = pc[q] /\ want'[q] = want[q]
                                    /\ ids'[q] = ids[q] /\ found'[q] = found[q]
    BY <1>3, DoneOnly DEF AssignClear
  <2>3. RowsOK'  BY <2>1 DEF RowsOK
  <2>5. LooksOK'
    <3>1. LookOK(r)'  BY <2>2 DEF LookOK
    <3>. QED  BY <3>1, <2>1, <2>2, LooksKept
  <2>6. CopyOK'  BY <1>3 DEF AssignClear, Sweep, CopyOK, NoInfo
  <2>. QED  BY <2>3, <2>5, <2>6
<1>. QED  BY <1>1, <1>2, <1>3

\* UserService.update with role codes keeps the invariant.
LEMMA UpdateRest ==
  ASSUME TypeOK, Rest, NEW r \in Request,
         \/ \E w \in SUBSET Role : UpdateDelete(r, w)
         \/ UpdateRoles(r) \/ UpdateBind(r) \/ UpdateClear(r)
  PROVE  Rest'
<1>. USE DEF Rest
<1>1. ASSUME NEW w \in SUBSET Role, UpdateDelete(r, w) PROVE Rest'
  <2>. USE <1>1 DEF UpdateDelete
  <2>1. /\ pc'[r] \in {"update_clear", "update_roles"}
        /\ \A q \in Request \ {r} : pc'[q] = pc[q]
    BY DEF Goto, TypeOK
  <2>2. RowsOK'  BY DEF RowsOK
  <2>3. LooksOK'  BY <2>1, LooksOvertaken
  <2>5. Owes(r)'  BY <2>1 DEF Owes
  <2>6. CopyOK'  BY <2>5 DEF CopyOK
  <2>. QED  BY <2>2, <2>3, <2>6
<1>2. CASE UpdateRoles(r)
  <2>1. /\ UNCHANGED <<has, rows, enabled, unused, menus, buttons, shown, cached,
                  late, dirty>>
        /\ pc[r] = "update_roles"
    BY <1>2 DEF UpdateRoles, tableVars
  <2>2. \A q \in Request \ {r} : /\ pc'[q] = pc[q] /\ want'[q] = want[q]
                                 /\ ids'[q] = ids[q] /\ found'[q] = found[q]
    BY <1>2, DoneOnly DEF UpdateRoles, Goto, jobVars, TypeOK
  <2>3. \/ pc'[r] = "update_bind" /\ want' = want /\ want[r] \subseteq rows /\ unswept' = unswept
        \/ pc'[r] = "idle" /\ unswept'
    BY <1>2, DoneOnly DEF UpdateRoles, Goto, jobVars, TypeOK
  <2>4. RowsOK'  BY <2>1 DEF RowsOK
  <2>6. LooksOK'
    <3>1. LookOK(r)'  BY <2>3 DEF LookOK
    <3>. QED  BY <3>1, <2>1, <2>2, LooksKept
  <2>7. CopyOK'
    <3>1. Lookup' = Lookup  BY <2>1, LookupKept
    <3>2. ~Owes(r) \/ Owes(r)' \/ unswept'  BY <2>3 DEF Owes
    <3>3. \A p \in Request : Owes(p) => Owes(p)' \/ unswept'  BY <2>1, <2>2, <3>2, OwesKept
    <3>4. unswept => unswept'  BY <2>3
    <3>. QED  BY <2>1, <3>1, <3>3, <3>4, CopyKept
  <2>. QED  BY <2>4, <2>6, <2>7
<1>3. CASE UpdateBind(r)
  <2>. USE <1>3 DEF UpdateBind
  <2>1. pc'[r] = "update_clear" /\ \A q \in Request \ {r} : pc'[q] = pc[q]
    BY DEF Goto, TypeOK
  <2>2. RowsOK'  BY DEF RowsOK
  <2>3. LooksOK'  BY <2>1, LooksOvertaken
  <2>5. Owes(r)'  BY <2>1 DEF Owes
  <2>6. CopyOK'  BY <2>5 DEF CopyOK
  <2>. QED  BY <2>2, <2>3, <2>6
<1>4. CASE UpdateClear(r)
  <2>1. UNCHANGED <<has, rows, enabled, unused, menus, buttons, shown, dirty>>
    BY <1>4 DEF UpdateClear, tableVars
  <2>2. /\ pc'[r] = "idle"
        /\ \A q \in Request \ {r} : /\ pc'[q] = pc[q] /\ want'[q] = want[q]
                                    /\ ids'[q] = ids[q] /\ found'[q] = found[q]
    BY <1>4, DoneOnly DEF UpdateClear
  <2>3. RowsOK'  BY <2>1 DEF RowsOK
  <2>5. LooksOK'
    <3>1. LookOK(r)'  BY <2>2 DEF LookOK
    <3>. QED  BY <3>1, <2>1, <2>2, LooksKept
  <2>6. CopyOK'  BY <1>4 DEF UpdateClear, Sweep, CopyOK, NoInfo
  <2>. QED  BY <2>3, <2>5, <2>6
<1>. QED  BY <1>1, <1>2, <1>3, <1>4

\* A write to the rows of roles, menus or buttons, in which no request moves: either it
\* does not concern the user, or it is recorded in unswept.
LEMMA WriteRest ==
  ASSUME TypeOK, Rest, Written, UNCHANGED <<has, cached, pc, jobVars, late>>,
         RowsOK', unswept => unswept',
         \/ unswept'
         \/ \A a \in has : /\ a \in rows' <=> a \in rows
                           /\ a \in enabled' <=> a \in enabled
                           /\ menus'[a] = menus[a]
                           /\ buttons'[a] = buttons[a]
                           /\ menus[a] \cap shown' = menus[a] \cap shown
                           /\ \A b \in buttons[a] : b[1] \in shown' <=> b[1] \in shown
  PROVE  Rest'
<1>. USE DEF Rest
<1>1. LooksOK'  BY LooksOvertakenByNone
<1>3. Lookup' = Lookup \/ unswept'  BY LookupKept
<1>4. \A p \in Request : Owes(p) => Owes(p)'  BY DEF Owes, jobVars
<1>5. CopyOK'  BY <1>3, <1>4, CopyKept
<1>. QED  BY <1>1, <1>5

\* A menu that is of no interest to the user is in none of the user's roles.
LEMMA UntouchedMenu ==
  ASSUME NEW m \in Menu, ~Touched(m), NEW x \in has
  PROVE  m \notin menus[x] /\ buttons[x] \cap ({m} \X Mark) = {}
  BY DEF Touched, MenusOf, ButtonsOf

\* The writes of roles, menus and buttons keep the invariant.
LEMMA RowsRest ==
  ASSUME TypeOK, Rest,
         \/ \E a \in Role : RoleUpdate(a) \/ \E on \in BOOLEAN : RoleCreate(a, on)
         \/ \E b \in Button : ButtonRemove(b) \/ \E x \in Mark : ButtonUpdate(b, x)
         \/ \E m \in Menu : MenuUpdate(m) \/ MenuRemove(m)
  PROVE  Rest'
<1>. USE DEF Unswept
<1>0. RowsOK  BY DEF Rest
<1>1. ASSUME NEW a \in Role, RoleUpdate(a) PROVE Rest'
  <2>. USE <1>1 DEF RoleUpdate
  <2>1. RowsOK'  BY <1>0 DEF RowsOK
  <2>2. CASE a \in has
    <3>1. unswept' = TRUE  BY <2>2
    <3>. QED  BY <2>1, <3>1, WriteRest
  <2>3. CASE a \notin has
    <3>1. unswept' = unswept  BY <2>3 DEF TypeOK
    <3>2. \A x \in has : x \in enabled' <=> x \in enabled  BY <2>3
    <3>. QED  BY <2>1, <3>1, <3>2, WriteRest
  <2>. QED  BY <2>2, <2>3
<1>2. ASSUME NEW a \in Role, NEW on \in BOOLEAN, RoleCreate(a, on) PROVE Rest'
  <2>. USE <1>2 DEF RoleCreate
  <2>1. RowsOK'  BY <1>0 DEF RowsOK
  <2>2. a \notin has  BY <1>0 DEF RowsOK
  <2>3. \A x \in has : (x \in rows' <=> x \in rows) /\ (x \in enabled' <=> x \in enabled)
    BY <2>2
  <2>. QED  BY <2>1, <2>3, WriteRest
<1>3. ASSUME NEW b \in Button, ButtonRemove(b) PROVE Rest'
  <2>. USE <1>3 DEF ButtonRemove
  <2>1. RowsOK'  BY <1>0 DEF RowsOK
  <2>2. CASE b \in ButtonsOf(has)
    <3>1. unswept' = TRUE  BY <2>2
    <3>. QED  BY <2>1, <3>1, WriteRest
  <2>3. CASE b \notin ButtonsOf(has)
    <3>1. unswept' = unswept  BY <2>3 DEF TypeOK
    <3>2. \A x \in has : b \notin buttons[x]  BY <2>3 DEF ButtonsOf
    <3>3. \A x \in has : buttons'[x] = buttons[x]  BY <3>2 DEF TypeOK
    <3>. QED  BY <2>1, <3>1, <3>3, WriteRest
  <2>. QED  BY <2>2, <2>3
<1>4. ASSUME NEW m \in Menu, MenuRemove(m) PROVE Rest'
  <2>. USE <1>4 DEF MenuRemove
  <2>1. RowsOK'  BY <1>0 DEF RowsOK
  <2>2. CASE Touched(m)
    <3>1. unswept' = TRUE  BY <2>2
    <3>. QED  BY <2>1, <3>1, WriteRest
  <2>3. CASE ~Touched(m)
    <3>1. unswept' = unswept  BY <2>3 DEF TypeOK
    <3>2. \A x \in has : m \notin menus[x]  BY <2>3, UntouchedMenu
    <3>3. \A x \in has : buttons[x] \cap ({m} \X Mark) = {}  BY <2>3, UntouchedMenu
    <3>4. \A x \in has : menus'[x] = menus[x]
      <4>1. \A x \in has : menus'[x] = menus[x] \ {m}  BY DEF TypeOK
      <4>. QED  BY <4>1, <3>2
    <3>5. \A x \in has : buttons'[x] = buttons[x]
      <4>1. \A x \in has : buttons'[x] = buttons[x] \ ({m} \X Mark)  BY DEF TypeOK
      <4>. QED  BY <4>1, <3>3
    <3>. QED  BY <2>1, <3>1, <3>4, <3>5, WriteRest
  <2>. QED  BY <2>2, <2>3
<1>5. ASSUME NEW b \in Button, NEW y \in Mark, ButtonUpdate(b, y) PROVE Rest'
  <2>. USE <1>5 DEF ButtonUpdate
  <2>1. RowsOK'  BY <1>0 DEF RowsOK
  <2>2. CASE b \in ButtonsOf(has)
    <3>1. unswept' = TRUE  BY <2>2
    <3>. QED  BY <2>1, <3>1, WriteRest
  <2>3. CASE b \notin ButtonsOf(has)
    <3>1. unswept' = unswept  BY <2>3 DEF TypeOK
    <3>2. \A x \in has : b \notin buttons[x]  BY <2>3 DEF ButtonsOf
    <3>3. \A x \in has : buttons'[x] = buttons[x]  BY <3>2 DEF TypeOK
    <3>. QED  BY <2>1, <3>1, <3>3, WriteRest
  <2>. QED  BY <2>2, <2>3
<1>6. ASSUME NEW m \in Menu, MenuUpdate(m) PROVE Rest'
  <2>. USE <1>6 DEF MenuUpdate
  <2>1. RowsOK'  BY <1>0 DEF RowsOK
  <2>2. CASE Touched(m)
    <3>1. unswept' = TRUE  BY <2>2
    <3>. QED  BY <2>1, <3>1, WriteRest
  <2>3. CASE ~Touched(m)
    <3>1. unswept' = unswept  BY <2>3 DEF TypeOK
    <3>2. \A x \in has : menus[x] \cap shown' = menus[x] \cap shown
      BY <2>3, UntouchedMenu
    <3>3. \A x \in has : \A b \in buttons[x] : b[1] \in shown' <=> b[1] \in shown
      <4>. SUFFICES ASSUME NEW x \in has, NEW b \in buttons[x] PROVE b[1] # m
        OBVIOUS
      <4>1. x \in Role  BY DEF TypeOK
      <4>2. b \in Menu \X Mark  BY <4>1 DEF TypeOK, Button
      <4>3. b = <<b[1], b[2]>> /\ b[2] \in Mark  BY <4>2
      <4>4. b \notin {m} \X Mark  BY <2>3, UntouchedMenu
      <4>. QED  BY <4>3, <4>4
    <3>. QED  BY <2>1, <3>1, <3>2, <3>3, WriteRest
  <2>. QED  BY <2>2, <2>3
<1>. QED  BY <1>1, <1>2, <1>3, <1>4, <1>5, <1>6

\* RoleService.remove keeps the invariant.
LEMMA RoleRemoveRest ==
  ASSUME TypeOK, Rest, NEW r \in Request,
         (\E a \in Role : RoleRemoveFind(r, a)) \/ RoleRemove(r)
  PROVE  Rest'
<1>. USE DEF Rest
<1>1. CASE \E a \in Role : RoleRemoveFind(r, a)
  <2>1. /\ UNCHANGED <<has, rows, enabled, unused, menus, buttons, shown, cached, historyVars>>
        /\ pc[r] = "idle" /\ pc'[r] = "remove_role"
        /\ \A q \in Request \ {r} : /\ pc'[q] = pc[q] /\ want'[q] = want[q]
                                    /\ ids'[q] = ids[q] /\ found'[q] = found[q]
    BY <1>1 DEF RoleRemoveFind, Goto, tableVars, TypeOK
  <2>2. RowsOK'  BY <2>1 DEF RowsOK
  <2>4. LooksOK'
    <3>1. LookOK(r)'  BY <2>1 DEF LookOK
    <3>. QED  BY <3>1, <2>1, LooksKept DEF historyVars
  <2>5. CopyOK'
    <3>1. Lookup' = Lookup  BY <2>1, LookupKept
    <3>2. ~Owes(r)  BY <2>1 DEF Owes
    <3>3. \A p \in Request : Owes(p) => Owes(p)' \/ unswept'  BY <2>1, <3>2, OwesKept
    <3>. QED  BY <2>1, <3>1, <3>3, CopyKept DEF historyVars
  <2>. QED  BY <2>2, <2>4, <2>5
<1>2. CASE RoleRemove(r)
  <2>. USE <1>2 DEF RoleRemove
  <2>1. /\ pc[r] = "remove_role" /\ pc'[r] = "idle"
        /\ \A q \in Request \ {r} : pc'[q] = pc[q] /\ want'[q] = want[q]
    BY DoneOnly
  <2>2. RowsOK'  BY DEF RowsOK
  <2>4. LooksOK'  BY <2>1, LooksOvertaken
  <2>5. CopyOK'
    <3>1. CASE want[r] \cap has # {}
      <4>1. unswept' = TRUE  BY <3>1 DEF Unswept
      <4>. QED  BY <4>1 DEF CopyOK
    <3>2. CASE want[r] \cap has = {}
      <4>1. has' = has  BY <3>2
      <4>2. \A x \in has : x \notin want[r] /\ x \in Role  BY <3>2 DEF TypeOK
      <4>3. \A x \in has : menus'[x] = menus[x] /\ buttons'[x] = buttons[x]  BY <4>2
      <4>4. \A x \in has : (x \in rows' <=> x \in rows) /\ (x \in enabled' <=> x \in enabled)
        BY <4>2
      <4>5. Lookup' = Lookup  BY <4>1, <4>3, <4>4, LookupKept
      <4>6. ~Owes(r)  BY <2>1 DEF Owes
      <4>7. \A p \in Request : Owes(p) => Owes(p)' \/ unswept'  BY <2>1, <4>1, <4>6, OwesKept
      <4>8. unswept => unswept'  BY DEF Unswept
      <4>9. cached' = cached /\ late' = late  BY DEF Unswept
      <4>. QED  BY <4>5, <4>7, <4>8, <4>9, CopyKept
    <3>. QED  BY <3>1, <3>2
  <2>. QED  BY <2>2, <2>4, <2>5
<1>. QED  BY <1>1, <1>2

\* With the tables and the requests as they were, every lookup stands as it did.
LEMMA LooksUnmoved ==
  ASSUME LooksOK, UNCHANGED <<has, rows, enabled, menus, buttons, shown, pc, ids, found, dirty>>
  PROVE  LooksOK'
<1>1. GoesOn' = GoesOn /\ Lookup' = Lookup
  BY LookupKept
<1>2. /\ Enabled(has)' = Enabled(has)
      /\ Viewed(Enabled(has))' = Viewed(Enabled(has))
      /\ MenusOf(GoesOn)' = MenusOf(GoesOn)
      /\ Nothing(has)' = Nothing(has)
  BY <1>1 DEF Enabled, Viewed, MenusOf, Nothing
<1>3. ASSUME NEW p \in Request, p \notin dirty' PROVE LookOK(p)'
  <2>1. LookOK(p)  BY <1>3 DEF LooksOK
  <2>. QED  BY <1>1, <1>2, <2>1 DEF LookOK
<1>. QED  BY <1>3 DEF LooksOK

\* A failure or a restart, and the end of the TTL, keep the invariant.
LEMMA EndRest ==
  ASSUME TypeOK, Rest, (\E r \in Request : Abort(r)) \/ Lapse
  PROVE  Rest'
<1>. USE DEF Rest
<1>1. ASSUME NEW r \in Request, Abort(r) PROVE Rest'
  <2>1. UNCHANGED <<has, rows, enabled, unused, menus, buttons, shown, cached, late>>
    BY <1>1 DEF Abort, tableVars
  <2>2. /\ pc'[r] = "idle"
        /\ \A q \in Request \ {r} : /\ pc'[q] = pc[q] /\ want'[q] = want[q]
                                    /\ ids'[q] = ids[q] /\ found'[q] = found[q]
    BY <1>1, DoneOnly DEF Abort
  <2>3. RowsOK'  BY <2>1 DEF RowsOK
  <2>5. LooksOK'
    <3>1. LookOK(r)'  BY <2>2 DEF LookOK
    <3>2. \A q \in Request \ {r} : q \in dirty => q \in dirty'  BY <1>1 DEF Abort
    <3>. QED  BY <3>1, <3>2, <2>1, <2>2, LooksKept
  <2>6. CopyOK'
    <3>1. Lookup' = Lookup  BY <2>1, LookupKept
    <3>2. (unswept => unswept') /\ (~Owes(r) \/ unswept')
      BY <1>1 DEF Abort, Owes
    <3>3. \A p \in Request : Owes(p) => Owes(p)' \/ unswept'  BY <2>1, <2>2, <3>2, OwesKept
    <3>. QED  BY <2>1, <3>1, <3>2, <3>3, CopyKept
  <2>. QED  BY <2>3, <2>5, <2>6
<1>2. CASE Lapse
  <2>. USE <1>2 DEF Lapse, tableVars, jobVars
  <2>1. RowsOK'  BY DEF RowsOK
  <2>3. LooksOK'  BY LooksUnmoved
  <2>4. CopyOK'  BY DEF Sweep, CopyOK, NoInfo
  <2>. QED  BY <2>1, <2>3, <2>4
<1>. QED  BY <1>1, <1>2

\* Every step keeps the invariant.
LEMMA Inductive == ASSUME IInv, [Next]_vars PROVE IInv'
<1>. USE DEF IInv, Rest
<1>1. TypeOK'  BY TypePreserved
<1>2. Editor \subseteq Request /\ Reader \subseteq Request  BY DEF Request
<1>3. CASE UNCHANGED vars
  <2>. USE <1>3 DEF vars, tableVars, jobVars, historyVars
  <2>1. RowsOK'  BY DEF RowsOK
  <2>3. LooksOK'  BY LooksUnmoved
  <2>4. Lookup' = Lookup  BY LookupKept
  <2>5. CopyOK'  BY <2>4 DEF CopyOK, Owes, NoInfo
  <2>. QED  BY <1>1, <2>1, <2>3, <2>5
<1>. QED
  BY <1>1, <1>2, <1>3, LookupRest, AssignRest, UpdateRest, RowsRest, RoleRemoveRest, EndRest,
     AnswerEnds
  DEF Next

\* The first state satisfies it: nothing is stored and nobody is under way.
LEMMA InitInvariant == ASSUME Init PROVE IInv
<1>1. TypeOK  BY InitType
<1>2. RowsOK  BY DEF Init, RowsOK
<1>3. CopyOK  BY DEF Init, CopyOK
<1>4. \A r \in Request : pc[r] = "idle"  BY DEF Init
<1>5. LooksOK  BY <1>4 DEF LooksOK, LookOK
<1>. QED  BY <1>1, <1>2, <1>3, <1>5 DEF IInv

\* The inductive invariant holds in every reachable state.
THEOREM Invariant == Spec => []IInv
  BY InitInvariant, Inductive, PTL DEF Spec

-----------------------------------------------------------------------------
(***************************************************************************)
(* The properties                                                          *)
(***************************************************************************)

\* What the guards read in Redis is what the tables say, except where Settled excludes it:
\* getPermissionsForRoles, login and validateToken against every writer.
THEOREM CopyIsCurrent == Spec => []CachedIsCurrent
<1>1. IInv => CachedIsCurrent
  <2>. SUFFICES ASSUME IInv, Settled PROVE cached = Lookup
    BY DEF CachedIsCurrent
  <2>1. ~\E r \in Request : Owes(r)  BY DEF Settled, Sweeping, Owes
  <2>. QED  BY <2>1 DEF IInv, CopyOK, Settled
<1>. QED  BY <1>1, Invariant, PTL

\* Nobody is let through to a route whose mark no enabled role of theirs grants.
THEOREM OnlyGrantedAllowed == Spec => []AllowedIsGranted
<1>1. IInv => AllowedIsGranted
  <2>. SUFFICES ASSUME IInv, Settled, NEW x \in Mark, Allows(cached, x), Super \notin has
                PROVE  \E a \in has \cap rows \cap enabled : \E m \in Menu : <<m, x>> \in buttons[a]
    BY DEF AllowedIsGranted
  <2>1. ~\E r \in Request : Owes(r)  BY DEF Settled, Sweeping, Owes
  <2>2. cached = Lookup  BY <2>1 DEF IInv, CopyOK, Settled
  <2>3. Lookup.roles = has  BY DEF Lookup
  <2>4. x \in Lookup.buttons  BY <2>2, <2>3 DEF Allows
  <2>5. x \in MarksOf(GoesOn)  BY <2>4 DEF Lookup
  <2>6. PICK b \in ButtonsOf(GoesOn) : x = b[2]  BY <2>5 DEF MarksOf
  <2>7. PICK a \in GoesOn : b \in buttons[a]  BY <2>6 DEF ButtonsOf
  <2>8. a \in has \cap rows \cap enabled /\ a \in Role
    BY <2>7, GoesOnEnabled DEF IInv, TypeOK
  <2>9. b \in Menu \X Mark  BY <2>7, <2>8 DEF IInv, TypeOK, Button
  <2>10. b = <<b[1], x>> /\ b[1] \in Menu  BY <2>6, <2>9
  <2>. QED  BY <2>7, <2>8, <2>10
<1>. QED  BY <1>1, Invariant, PTL

\* Only the insert itself takes an update from before it to after it.
LEMMA OnlyBindBinds ==
  ASSUME TypeOK, Next, NEW r \in Request, pc[r] = "update_bind", pc'[r] = "update_clear"
  PROVE  UpdateBind(r)
<1>. USE DEF TypeOK
<1>e. Editor \subseteq Request /\ Reader \subseteq Request  BY DEF Request
<1>1. ASSUME NEW q \in Request,
             \/ LookupUser(q) \/ LookupRoles(q) \/ LookupView(q) \/ LookupRolesAgain(q)
             \/ LookupMenus(q) \/ LookupButtons(q) \/ LookupStore(q)
      PROVE  FALSE
  <2>1. CASE q = r
    BY <1>1, <2>1 DEF LookupUser, LookupRoles, LookupView, LookupRolesAgain, LookupMenus,
       LookupButtons, LookupStore
  <2>2. CASE q # r
    BY <1>1, <2>2, DoneOnly DEF LookupUser, LookupRoles, LookupView, LookupRolesAgain,
       LookupMenus, LookupButtons, LookupStore, Goto
  <2>. QED  BY <2>1, <2>2
<1>2. ASSUME NEW q \in Request,
             \/ \E a \in Role, ms \in SUBSET Menu, bs \in SUBSET Button : AssignWrite(q, a, ms, bs)
             \/ AssignUsers(q) \/ AssignClear(q)
             \/ \E w \in SUBSET Role : UpdateDelete(q, w)
             \/ UpdateRoles(q) \/ UpdateClear(q)
             \/ \E a \in Role : RoleRemoveFind(q, a)
             \/ RoleRemove(q)
      PROVE  FALSE
  <2>1. CASE q = r
    BY <1>2, <2>1 DEF AssignWrite, AssignUsers, AssignClear, UpdateDelete, UpdateRoles,
       UpdateClear, RoleRemoveFind, RoleRemove
  <2>2. CASE q # r
    BY <1>2, <2>2, DoneOnly DEF AssignWrite, AssignUsers, AssignClear, UpdateDelete, UpdateRoles,
       UpdateClear, RoleRemoveFind, RoleRemove, Goto
  <2>. QED  BY <2>1, <2>2
<1>3. ASSUME NEW q \in Request, UpdateBind(q) PROVE UpdateBind(r)
  <2>1. q = r  BY <1>3 DEF UpdateBind, Goto
  <2>. QED  BY <1>3, <2>1
<1>4. ASSUME NEW q \in Request, Abort(q) PROVE FALSE
  BY <1>4, DoneOnly DEF Abort
<1>5. CASE \/ \E a \in Role : RoleUpdate(a) \/ \E on \in BOOLEAN : RoleCreate(a, on)
           \/ \E b \in Button : ButtonRemove(b) \/ \E x \in Mark : ButtonUpdate(b, x)
           \/ \E m \in Menu : MenuUpdate(m) \/ MenuRemove(m)
           \/ Lapse
  BY <1>5 DEF RoleUpdate, RoleCreate, ButtonRemove, ButtonUpdate, MenuUpdate, MenuRemove, Lapse
<1>. HIDE DEF TypeOK
<1>. QED  BY AnswerEnds, <1>e, <1>1, <1>2, <1>3, <1>4, <1>5 DEF Next

-----------------------------------------------------------------------------
(***************************************************************************)
(* Requests that set a user's roles one after the other                    *)
(***************************************************************************)

\* At most one request that writes user_roles is under way: an update that names roles, or
\* the removal of a role.
RoleWritersApart ==
  \A q, r \in Request :
    /\ pc[q] \in {"update_roles", "update_bind", "update_clear", "remove_role"}
    /\ pc[r] \in {"update_roles", "update_bind", "update_clear", "remove_role"}
    => q = r

\* Between its delete and its insert an update finds user_roles empty and, once it has
\* seen them, the roles it names.
BindOK == \A r \in Request :
  /\ pc[r] \in {"update_roles", "update_bind"} => has = {}
  /\ pc[r] = "update_bind" => want[r] \subseteq rows

\* A step of q after which q does not stand before its insert.
LEMMA BindKept ==
  ASSUME BindOK, NEW q \in Request,
         \A p \in Request \ {q} : pc'[p] = pc[p] /\ want'[p] = want[p],
         pc'[q] \notin {"update_roles", "update_bind"},
         \/ has' = has /\ rows \subseteq rows'
         \/ \A p \in Request \ {q} : pc[p] \notin {"update_roles", "update_bind"}
  PROVE  BindOK'
  BY DEF BindOK

\* No step disturbs an update while those that write user_roles do not overlap.
LEMMA BindPreserved ==
  ASSUME TypeOK, BindOK, RoleWritersApart, RoleWritersApart', [Next]_vars
  PROVE  BindOK'
<1>. USE DEF TypeOK
<1>e. Editor \subseteq Request /\ Reader \subseteq Request  BY DEF Request
<1>1. ASSUME NEW q \in Request,
             \/ LookupUser(q) \/ LookupRoles(q) \/ LookupView(q) \/ LookupRolesAgain(q)
             \/ LookupMenus(q) \/ LookupButtons(q) \/ LookupStore(q)
             \/ AssignUsers(q) \/ AssignClear(q) \/ UpdateClear(q)
             \/ \E a \in Role : RoleRemoveFind(q, a)
             \/ Abort(q)
      PROVE  BindOK'
  <2>1. has' = has /\ rows' = rows
    BY <1>1 DEF LookupUser, LookupRoles, LookupView, LookupRolesAgain, LookupMenus,
       LookupButtons, LookupStore, AssignUsers, AssignClear, UpdateClear, RoleRemoveFind, Abort,
       tableVars
  <2>2. /\ pc'[q] \notin {"update_roles", "update_bind"}
        /\ \A p \in Request \ {q} : pc'[p] = pc[p] /\ want'[p] = want[p]
    BY <1>1, DoneOnly DEF LookupUser, LookupRoles, LookupView, LookupRolesAgain, LookupMenus,
       LookupButtons, LookupStore, AssignUsers, AssignClear, UpdateClear, RoleRemoveFind, Abort,
       Goto, jobVars
  <2>. QED  BY <2>1, <2>2, BindKept
<1>2. ASSUME NEW q \in Request, NEW a \in Role, NEW ms \in SUBSET Menu, NEW bs \in SUBSET Button,
             AssignWrite(q, a, ms, bs)
      PROVE  BindOK'
  <2>1. /\ pc'[q] = "assign_users" /\ has' = has /\ rows' = rows
        /\ \A p \in Request \ {q} : pc'[p] = pc[p] /\ want'[p] = want[p]
    BY <1>2 DEF AssignWrite, Goto
  <2>. QED  BY <2>1, BindKept
<1>3. ASSUME NEW q \in Request, NEW w \in SUBSET Role, UpdateDelete(q, w) PROVE BindOK'
  <2>1. /\ pc'[q] \in {"update_clear", "update_roles"} /\ has' = {}
        /\ \A p \in Request \ {q} : pc'[p] = pc[p]
    BY <1>3 DEF UpdateDelete, Goto
  <2>2. \A p \in Request \ {q} : pc'[p] # "update_bind"
    BY <2>1 DEF RoleWritersApart
  <2>. QED  BY <2>1, <2>2 DEF BindOK
<1>4. ASSUME NEW q \in Request, UpdateRoles(q) PROVE BindOK'
  <2>1. has' = has /\ rows' = rows /\ pc[q] = "update_roles"
    BY <1>4 DEF UpdateRoles, tableVars
  <2>2. \A p \in Request \ {q} : pc'[p] = pc[p] /\ want'[p] = want[p]
    BY <1>4, DoneOnly DEF UpdateRoles, Goto, jobVars
  <2>3. CASE want[q] \subseteq rows
    <3>1. pc'[q] = "update_bind" /\ want' = want
      BY <1>4, <2>3 DEF UpdateRoles, Goto, jobVars
    <3>. QED  BY <2>1, <2>2, <2>3, <3>1 DEF BindOK
  <2>4. CASE ~(want[q] \subseteq rows)
    <3>1. pc'[q] = "idle"  BY <1>4, <2>4, DoneOnly DEF UpdateRoles
    <3>. QED  BY <2>1, <2>2, <3>1, BindKept
  <2>. QED  BY <2>3, <2>4
<1>5. ASSUME NEW q \in Request, UpdateBind(q) \/ RoleRemove(q) PROVE BindOK'
  <2>1. \A p \in Request \ {q} : pc'[p] = pc[p] /\ want'[p] = want[p]
    BY <1>5, DoneOnly DEF UpdateBind, RoleRemove, Goto, jobVars
  <2>2. pc[q] \in {"update_bind", "remove_role"} /\ pc'[q] \notin {"update_roles", "update_bind"}
    BY <1>5, DoneOnly DEF UpdateBind, RoleRemove, Goto
  <2>3. \A p \in Request \ {q} : pc[p] \notin {"update_roles", "update_bind"}
    BY <2>2 DEF RoleWritersApart
  <2>. QED  BY <2>1, <2>2, <2>3, BindKept
<1>6. CASE \/ \E a \in Role : RoleUpdate(a) \/ \E on \in BOOLEAN : RoleCreate(a, on)
           \/ \E b \in Button : ButtonRemove(b) \/ \E x \in Mark : ButtonUpdate(b, x)
           \/ \E m \in Menu : MenuUpdate(m) \/ MenuRemove(m)
           \/ Lapse
           \/ UNCHANGED vars
  <2>1. UNCHANGED <<has, pc, want>> /\ rows \subseteq rows'
    BY <1>6 DEF RoleUpdate, RoleCreate, ButtonRemove, ButtonUpdate, MenuUpdate, MenuRemove,
       Lapse, vars, tableVars, jobVars
  <2>. QED  BY <2>1 DEF BindOK
<1>. HIDE DEF TypeOK
<1>. QED  BY AnswerEnds, <1>e, <1>1, <1>2, <1>3, <1>4, <1>5, <1>6 DEF Next

\* An update that names roles leaves the user exactly those (user.service.ts:538-549).
RolesAsAsked ==
  [][\A r \in Editor : pc[r] = "update_bind" /\ pc'[r] = "update_clear" => has' = want[r]]_vars

\* When requests that write user_roles never overlap, an update that names roles leaves
\* the user exactly those, also when roles are created, switched or assigned meanwhile: two
\* updates, or an update and the removal of a role, are all that can make it otherwise.
THEOREM RolesAsAskedWhenApart == Spec /\ []RoleWritersApart => RolesAsAsked
<1>. DEFINE Asked == \A r \in Editor :
                       pc[r] = "update_bind" /\ pc'[r] = "update_clear" => has' = want[r]
<1>1. Init => BindOK  BY DEF Init, BindOK
<1>2. TypeOK /\ BindOK /\ RoleWritersApart /\ RoleWritersApart' /\ [Next]_vars => BindOK'
  BY BindPreserved
<1>3. TypeOK /\ BindOK /\ [Next]_vars => [Asked]_vars
  <2>1. CASE UNCHANGED vars  BY <2>1
  <2>2. ASSUME TypeOK, BindOK, Next, NEW r \in Editor, pc[r] = "update_bind",
               pc'[r] = "update_clear"
        PROVE  has' = want[r]
    <3>1. r \in Request  BY DEF Request
    <3>2. has = {} /\ want[r] \subseteq rows  BY <2>2, <3>1 DEF BindOK
    <3>3. UpdateBind(r)  BY <2>2, <3>1, OnlyBindBinds
    <3>. QED  BY <3>2, <3>3 DEF UpdateBind
  <2>. QED  BY <2>1, <2>2
<1>. HIDE DEF Asked
<1>4. Spec /\ []RoleWritersApart => [][Asked]_vars
  BY <1>1, <1>2, <1>3, TypeCorrect, PTL DEF Spec
<1>. QED  BY <1>4 DEF Asked, RolesAsAsked

=============================================================================
