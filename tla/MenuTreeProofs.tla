---------------------------- MODULE MenuTreeProofs ----------------------------
(***************************************************************************)
(* What holds of MenuTree for any number of requests, menus and paths:     *)
(* TypeOK, CyclesComeLate, PathsChecked, WalksClimb, and that the list of  *)
(* menus is kept as ListStore says.                                        *)
(***************************************************************************)
EXTENDS MenuTree, TLAPS

\* What a request at work holds.
JobInv ==
  \A r \in Request :
    /\ pc[r] \in {"create_path", "create_write"} => newPath[r] \in Path
    /\ pc[r] \in {"update_parent", "update_walk", "update_path", "update_write", "remove_write"}
         => m[r] \in Menu
    /\ pc[r] = "update_walk" => at[r] \in Menu

\* The numbers the table is made of.
LEMMA Numbers ==
  /\ MaxMenu \in Nat /\ Keep \in Nat /\ Root \in Parents /\ Keep \notin Parents
  /\ Menu \subseteq Parents /\ Root \notin Menu /\ AnyPath \in Path
  /\ \A x : x \in Menu <=> x \in Nat /\ 1 <= x /\ x <= MaxMenu
  /\ \A x : x \in Parents <=> x \in Nat /\ x <= MaxMenu
BY MenuConstants DEF Root, Keep, Menu, Parents, AnyPath

\* Drop leaves the local variables well typed.
LEMMA DropType ==
  ASSUME TypeOK, NEW r \in Request, NEW s \in Step, NEW n \in 0..MaxMenu, Drop(r, s, n)
  PROVE  /\ pc' \in [Request -> Step]
         /\ m' \in [Request -> 0..MaxMenu]
         /\ to' \in [Request -> Parents \cup {Keep}]
         /\ newPath' \in [Request -> Path \cup {"keep"}]
         /\ was' \in [Request -> Parents]
         /\ at' \in [Request -> 0..MaxMenu]
BY Numbers DEF Drop, Goto, TypeOK, Parents

\* So does the end of a request.
LEMMA DoneType ==
  ASSUME TypeOK, NEW r \in Request, Done(r), UNCHANGED <<tableVars, lateMove>>,
         cache' = cache, lateList' \in BOOLEAN,
         snap' \in [Request -> {"none", "current", "stale"}]
  PROVE  TypeOK'
<1>1. "idle" \in Step /\ 0 \in 0..MaxMenu  BY MenuConstants DEF Step
<1>2. Drop(r, "idle", 0) /\ dirtyMove' \in SUBSET Request /\ dirtyPath' \in SUBSET Request
  BY DEF Done, TypeOK
<1>. QED  BY <1>1, <1>2, DropType DEF TypeOK, tableVars

\* A statement of r wrote the tables of the list: r goes on to clear it, or to write the
\* buttons of the menu n first.
Wrote(r) == \E s \in {"create_buttons", "clear"}, n \in 0..MaxMenu : Written(r, s, n)

\* Each of the writes below is one.
LEMMA WrittenIsWrote ==
  ASSUME TypeOK, NEW r \in Request
  PROVE  /\ Written(r, "clear", 0) => Wrote(r)
         /\ nextId <= MaxMenu /\ Written(r, "create_buttons", nextId) => Wrote(r)
<1>1. 0 \in 0..MaxMenu  BY MenuConstants
<1>2. nextId <= MaxMenu => nextId \in 0..MaxMenu  BY MenuConstants DEF TypeOK
<1>. QED  BY <1>1, <1>2 DEF Wrote

\* What the writers of menus and of buttons do: they write, or end.
LEMMA WritersWrite ==
  ASSUME TypeOK, NEW r \in Request
  PROVE  /\ CreateWrite(r) => \/ Wrote(r) /\ RowWritten(r, FALSE) /\ UNCHANGED lateMove
                              \/ Done(r) /\ UNCHANGED <<tableVars, listVars, lateMove>>
         /\ UpdateWrite(r) => \/ Wrote(r) /\ RowWritten(r, to[r] # Keep)
                              \/ Done(r) /\ UNCHANGED <<tableVars, listVars, lateMove>>
         /\ RemoveWrite(r) => \/ Wrote(r) /\ UNCHANGED dirtyVars
                              \/ Done(r) /\ UNCHANGED <<tableVars, listVars, lateMove>>
         /\ CreateButtons(r) \/ ButtonWrite(r)
              => Wrote(r) /\ UNCHANGED <<tableVars, dirtyVars, lateMove>>
<1>1. CreateWrite(r) => \/ Wrote(r) /\ RowWritten(r, FALSE) /\ UNCHANGED lateMove
                        \/ Done(r) /\ UNCHANGED <<tableVars, listVars, lateMove>>
  BY WrittenIsWrote DEF CreateWrite
<1>2. UpdateWrite(r) => \/ Wrote(r) /\ RowWritten(r, to[r] # Keep)
                        \/ Done(r) /\ UNCHANGED <<tableVars, listVars, lateMove>>
  BY WrittenIsWrote DEF UpdateWrite
<1>3. RemoveWrite(r) => \/ Wrote(r) /\ UNCHANGED dirtyVars
                        \/ Done(r) /\ UNCHANGED <<tableVars, listVars, lateMove>>
  BY WrittenIsWrote DEF RemoveWrite, dirtyVars
<1>4. CreateButtons(r) \/ ButtonWrite(r)
        => Wrote(r) /\ UNCHANGED <<tableVars, dirtyVars, lateMove>>
  BY WrittenIsWrote DEF CreateButtons, ButtonWrite
<1>. QED  BY <1>1, <1>2, <1>3, <1>4

\* A request that wrote drops what it worked on.
LEMMA WroteDrops ==
  ASSUME NEW r \in Request, Wrote(r)
  PROVE  \E s \in {"create_buttons", "clear"}, n \in 0..MaxMenu : Drop(r, s, n)
BY DEF Wrote, Written

\* A write keeps the list, and the request that wrote, well typed.
LEMMA WrittenType ==
  ASSUME TypeOK, NEW r \in Request, Wrote(r)
  PROVE  /\ pc' \in [Request -> Step]
         /\ m' \in [Request -> 0..MaxMenu]
         /\ to' \in [Request -> Parents \cup {Keep}]
         /\ newPath' \in [Request -> Path \cup {"keep"}]
         /\ was' \in [Request -> Parents]
         /\ at' \in [Request -> 0..MaxMenu]
         /\ cache' \in {"none", "current", "stale"}
         /\ snap' \in [Request -> {"none", "current", "stale"}]
         /\ lateList' \in BOOLEAN
<1>1. PICK s \in {"create_buttons", "clear"}, n \in 0..MaxMenu : Written(r, s, n)
  BY DEF Wrote
<1>3. s \in Step /\ Drop(r, s, n)  BY <1>1 DEF Step, Written
<1>2. \A x \in {"none", "current", "stale"} : Overtaken(x) \in {"none", "current", "stale"}
  BY DEF Overtaken
<1>. QED  BY <1>1, <1>2, <1>3, DropType DEF Written, TypeOK

\* The sets of requests whose checks were overtaken stay sets of requests.
LEMMA DirtyType ==
  ASSUME TypeOK, NEW r \in Request, NEW b \in BOOLEAN, RowWritten(r, b)
  PROVE  dirtyMove' \in SUBSET Request /\ dirtyPath' \in SUBSET Request
BY DEF TypeOK, RowWritten, Walking, Checking


\* Every variable keeps its type from one state to the next.
LEMMA TypePreserved == TypeOK /\ JobInv /\ [Next]_vars => TypeOK'
<1>. SUFFICES ASSUME TypeOK, JobInv, [Next]_vars PROVE TypeOK'
  OBVIOUS
<1>. \A r \in Editor : r \in Request  BY DEF Request
<1>. \A r \in Reader : r \in Request  BY DEF Request
<1>1. ASSUME NEW r \in Editor, NEW p \in Parents, NEW x \in Path, CreateCheckParent(r, p, x)
      PROVE TypeOK'
  BY <1>1 DEF CreateCheckParent, Goto, TypeOK, Step, tableVars, listVars, dirtyVars
<1>2. ASSUME NEW r \in Editor, CreateCheckPath(r) PROVE TypeOK'
  <2>1. CASE PathTaken(to[r], newPath[r], 0)
    BY <1>2, <2>1, DoneType DEF CreateCheckPath, listVars, TypeOK
  <2>2. CASE ~PathTaken(to[r], newPath[r], 0)
    BY <1>2, <2>2 DEF CreateCheckPath, Goto, TypeOK, Step, tableVars, listVars, dirtyVars, jobVars
  <2>. QED  BY <2>1, <2>2
<1>3. ASSUME NEW r \in Editor, CreateWrite(r) PROVE TypeOK'
  <2>1. CASE to[r] \in menus \cup {Root}
    <3>1. /\ Wrote(r) /\ RowWritten(r, FALSE) /\ lateMove' = lateMove
          /\ menus' = menus \cup {nextId} /\ nextId <= MaxMenu
          /\ parent' = [parent EXCEPT ![nextId] = to[r]]
          /\ path' = [path EXCEPT ![nextId] = newPath[r]]
          /\ nextId' = nextId + 1
      BY <1>3, <2>1, WrittenIsWrote DEF CreateWrite
    <3>2. nextId \in Menu /\ nextId + 1 \in 1..(MaxMenu + 1)
      BY <3>1, Numbers DEF TypeOK
    <3>3. to[r] \in Parents  BY <2>1, Numbers DEF TypeOK
    <3>4. newPath[r] \in Path  BY <1>3 DEF CreateWrite, JobInv
    <3>. QED  BY <3>1, <3>2, <3>3, <3>4, WrittenType, DirtyType DEF TypeOK
  <2>2. CASE to[r] \notin menus \cup {Root}
    BY <1>3, <2>2, DoneType DEF CreateWrite, listVars, TypeOK
  <2>. QED  BY <2>1, <2>2
<1>4. ASSUME NEW r \in Editor, NEW n \in Menu, NEW p \in Parents \cup {Keep},
             NEW x \in Path \cup {"keep"}, UpdateFind(r, n, p, x)
      PROVE TypeOK'
  <2>1. n \in 0..MaxMenu /\ parent[n] \in Parents  BY Numbers DEF TypeOK, Menu
  <2>. QED
    BY <1>4, <2>1 DEF UpdateFind, PathStep, Goto, TypeOK, Step, tableVars, listVars, dirtyVars
<1>5. ASSUME NEW r \in Editor, UpdateCheckParent(r) PROVE TypeOK'
  <2>1. CASE to[r] \in menus /\ to[r] # m[r]
    <3>1. to[r] \in 0..MaxMenu  BY <2>1, Numbers DEF TypeOK, Parents
    <3>. QED
      BY <1>5, <2>1, <3>1
         DEF UpdateCheckParent, Goto, TypeOK, Step, tableVars, listVars, dirtyVars
  <2>2. CASE ~(to[r] \in menus /\ to[r] # m[r])
    BY <1>5, <2>2, DoneType DEF UpdateCheckParent, listVars, TypeOK
  <2>. QED  BY <2>1, <2>2
<1>6. ASSUME NEW r \in Editor, UpdateWalk(r) PROVE TypeOK'
  <2>1. UNCHANGED <<tableVars, listVars, lateMove>>  BY <1>6 DEF UpdateWalk
  <2>2. CASE Goto(r, PathStep(newPath[r])) /\ UNCHANGED <<jobVars, dirtyVars>>
    BY <2>1, <2>2 DEF PathStep, Goto, TypeOK, Step, tableVars, listVars, dirtyVars, jobVars
  <2>3. CASE Done(r)
    BY <2>1, <2>3, DoneType DEF listVars, TypeOK
  <2>4. CASE /\ at' = [at EXCEPT ![r] = parent[at[r]]]
             /\ at[r] \in menus
             /\ UNCHANGED <<pc, m, to, newPath, was, dirtyVars>>
    <3>1. parent[at[r]] \in 0..MaxMenu  BY <2>4 DEF TypeOK, Parents
    <3>. QED  BY <2>1, <2>4, <3>1 DEF TypeOK, tableVars, listVars, dirtyVars
  <2>. QED  BY <1>6, <2>2, <2>3, <2>4 DEF UpdateWalk
<1>7. ASSUME NEW r \in Editor, UpdateCheckPath(r) PROVE TypeOK'
  <2>1. CASE PathTaken(CheckedParent(r), newPath[r], m[r])
    BY <1>7, <2>1, DoneType DEF UpdateCheckPath, listVars, TypeOK
  <2>2. CASE ~PathTaken(CheckedParent(r), newPath[r], m[r])
    BY <1>7, <2>2 DEF UpdateCheckPath, Goto, TypeOK, Step, tableVars, listVars, dirtyVars, jobVars
  <2>. QED  BY <2>1, <2>2
<1>8. ASSUME NEW r \in Editor, UpdateWrite(r) PROVE TypeOK'
  <2>1. CASE m[r] \in menus /\ to[r] \in menus \cup {Root, Keep}
    <3>1. /\ parent' = IF to[r] = Keep THEN parent ELSE [parent EXCEPT ![m[r]] = to[r]]
          /\ path' = IF newPath[r] = "keep" THEN path ELSE [path EXCEPT ![m[r]] = newPath[r]]
          /\ Wrote(r) /\ RowWritten(r, to[r] # Keep)
          /\ lateMove' \in {lateMove, lateMove \cup {m[r]}, lateMove \ {m[r]}}
          /\ UNCHANGED <<menus, nextId>>
      BY <1>8, <2>1, WrittenIsWrote DEF UpdateWrite
    <3>2. parent' \in [Menu -> Parents]  BY <2>1, <3>1, Numbers DEF TypeOK
    <3>3. path' \in [Menu -> Path]  BY <3>1 DEF TypeOK
    <3>4. lateMove' \in SUBSET Menu  BY <2>1, <3>1 DEF TypeOK
    <3>5. dirtyMove' \in SUBSET Request /\ dirtyPath' \in SUBSET Request
      BY <3>1, DirtyType
    <3>. QED  BY <3>1, <3>2, <3>3, <3>4, <3>5, WrittenType DEF TypeOK
  <2>2. CASE ~(m[r] \in menus /\ to[r] \in menus \cup {Root, Keep})
    BY <1>8, <2>2, DoneType DEF UpdateWrite, listVars, TypeOK
  <2>. QED  BY <2>1, <2>2
<1>9. ASSUME NEW r \in Editor, NEW n \in Menu, RemoveFind(r, n) PROVE TypeOK'
  <2>1. n \in 0..MaxMenu  BY Numbers DEF Menu
  <2>. QED
    BY <1>9, <2>1 DEF RemoveFind, Goto, TypeOK, Step, tableVars, listVars, dirtyVars
<1>10. ASSUME NEW r \in Editor, RemoveWrite(r) PROVE TypeOK'
  <2>1. CASE m[r] \in menus /\ ~Restricted(m[r])
    <3>1. /\ menus' = menus \ {m[r]}
          /\ parent' = [parent EXCEPT ![m[r]] = Root]
          /\ path' = [path EXCEPT ![m[r]] = AnyPath]
          /\ lateMove' = lateMove \ {m[r]}
          /\ Wrote(r) /\ UNCHANGED <<nextId, dirtyMove, dirtyPath>>
      BY <1>10, <2>1, WrittenIsWrote DEF RemoveWrite
    <3>. QED  BY <2>1, <3>1, WrittenType, Numbers DEF TypeOK
  <2>2. CASE ~(m[r] \in menus /\ ~Restricted(m[r]))
    BY <1>10, <2>2, DoneType DEF RemoveWrite, listVars, TypeOK
  <2>. QED  BY <2>1, <2>2
<1>11. ASSUME NEW r \in Editor, CreateButtons(r) \/ ButtonWrite(r) PROVE TypeOK'
  <2>1. Wrote(r) /\ UNCHANGED <<tableVars, dirtyVars, lateMove>>  BY <1>11, WritersWrite
  <2>. QED  BY <2>1, WrittenType DEF TypeOK, tableVars, dirtyVars
<1>12. ASSUME NEW r \in Request, ListGet(r) \/ ListRead(r) \/ ListFill(r) \/ ListClear(r) PROVE TypeOK'
  BY <1>12 DEF ListGet, ListRead, ListFill, ListClear, Goto, TypeOK, Step,
               tableVars, listVars, dirtyVars, jobVars
<1>13. ASSUME NEW r \in Request, Abort(r) PROVE TypeOK'
  BY <1>13, DoneType DEF Abort, TypeOK
<1>14. CASE ListLapse
  BY <1>14 DEF ListLapse, TypeOK, tableVars, dirtyVars, jobVars
<1>15. CASE UNCHANGED vars
  BY <1>15 DEF vars, TypeOK, tableVars, listVars, dirtyVars, jobVars
<1>. QED
  BY <1>1, <1>2, <1>3, <1>4, <1>5, <1>6, <1>7, <1>8, <1>9, <1>10, <1>11, <1>12, <1>13,
     <1>14, <1>15 DEF Next

\* What a request holds is settled when it comes to the step that uses it.
LEMMA JobPreserved == TypeOK /\ JobInv /\ [Next]_vars => JobInv'
<1>. SUFFICES ASSUME TypeOK, JobInv, [Next]_vars, NEW q \in Request
              PROVE  /\ pc'[q] \in {"create_path", "create_write"} => newPath'[q] \in Path
                     /\ pc'[q] \in {"update_parent", "update_walk", "update_path", "update_write",
                                    "remove_write"} => m'[q] \in Menu
                     /\ pc'[q] = "update_walk" => at'[q] \in Menu
  BY DEF JobInv
<1>. DEFINE Goal == /\ pc'[q] \in {"create_path", "create_write"} => newPath'[q] \in Path
                    /\ pc'[q] \in {"update_parent", "update_walk", "update_path", "update_write",
                                   "remove_write"} => m'[q] \in Menu
                    /\ pc'[q] = "update_walk" => at'[q] \in Menu
            Same == /\ pc'[q] = pc[q] /\ newPath'[q] = newPath[q]
                    /\ m'[q] = m[q] /\ at'[q] = at[q]
            Free == pc'[q] \in {"idle", "create_buttons", "read", "fill", "clear"}
<1>0. Same \/ Free => Goal  BY DEF JobInv
<1>. HIDE DEF Goal
<1>. \A r \in Editor : r \in Request  BY DEF Request
<1>. \A r \in Reader : r \in Request  BY DEF Request
<1>1. ASSUME NEW r \in Request, NEW s \in {"idle", "create_buttons", "clear"}, NEW n, Drop(r, s, n)
      PROVE Goal
  <2>1. Same \/ Free  BY <1>1 DEF Drop, Goto, TypeOK
  <2>. QED  BY <2>1, <1>0
<1>2. ASSUME NEW r \in Editor, NEW p \in Parents, NEW x \in Path, CreateCheckParent(r, p, x)
      PROVE Goal
  BY <1>2 DEF CreateCheckParent, Goto, TypeOK, JobInv, Goal
<1>3. ASSUME NEW r \in Editor, CreateCheckPath(r) PROVE Goal
  <2>1. CASE Done(r)  BY <2>1, <1>1 DEF Done
  <2>2. CASE Goto(r, "create_write") /\ UNCHANGED <<jobVars, dirtyVars>>
    BY <1>3, <2>2 DEF CreateCheckPath, Goto, TypeOK, JobInv, jobVars, Goal
  <2>. QED  BY <1>3, <2>1, <2>2 DEF CreateCheckPath
<1>4. ASSUME NEW r \in Editor,
             CreateWrite(r) \/ CreateButtons(r) \/ UpdateWrite(r) \/ RemoveWrite(r) \/ ButtonWrite(r)
      PROVE Goal
  <2>1. Wrote(r) \/ Done(r)  BY <1>4, WritersWrite
  <2>. QED  BY <2>1, <1>1, WroteDrops DEF Done
<1>5. ASSUME NEW r \in Editor, NEW n \in Menu, NEW p \in Parents \cup {Keep},
             NEW x \in Path \cup {"keep"}, UpdateFind(r, n, p, x)
      PROVE Goal
  BY <1>5 DEF UpdateFind, PathStep, Goto, TypeOK, JobInv, Goal
<1>6. ASSUME NEW r \in Editor, UpdateCheckParent(r) PROVE Goal
  <2>1. CASE Done(r)  BY <2>1, <1>1 DEF Done
  <2>2. CASE to[r] \in menus /\ to[r] # m[r]
    BY <1>6, <2>2 DEF UpdateCheckParent, Goto, TypeOK, JobInv, Goal
  <2>. QED  BY <1>6, <2>1, <2>2 DEF UpdateCheckParent
<1>7. ASSUME NEW r \in Editor, UpdateWalk(r) PROVE Goal
  <2>1. CASE Done(r)  BY <2>1, <1>1 DEF Done
  <2>2. CASE Goto(r, PathStep(newPath[r])) /\ UNCHANGED <<jobVars, dirtyVars>>
    BY <1>7, <2>2 DEF UpdateWalk, PathStep, Goto, TypeOK, JobInv, jobVars, Goal
  <2>3. CASE /\ at[r] \in menus /\ parent[at[r]] \notin {Root, m[r]}
             /\ at' = [at EXCEPT ![r] = parent[at[r]]]
             /\ UNCHANGED <<pc, m, to, newPath, was, dirtyVars>>
    <3>1. parent[at[r]] \in Menu  BY <2>3 DEF TypeOK, Parents, Menu, Root
    <3>. QED  BY <2>3, <3>1 DEF TypeOK, JobInv, Goal
  <2>. QED  BY <1>7, <2>1, <2>2, <2>3 DEF UpdateWalk
<1>8. ASSUME NEW r \in Editor, UpdateCheckPath(r) PROVE Goal
  <2>1. CASE Done(r)  BY <2>1, <1>1 DEF Done
  <2>2. CASE Goto(r, "update_write") /\ UNCHANGED <<jobVars, dirtyVars>>
    BY <1>8, <2>2 DEF UpdateCheckPath, Goto, TypeOK, JobInv, jobVars, Goal
  <2>. QED  BY <1>8, <2>1, <2>2 DEF UpdateCheckPath
<1>9. ASSUME NEW r \in Editor, NEW n \in Menu, RemoveFind(r, n) PROVE Goal
  BY <1>9 DEF RemoveFind, Goto, TypeOK, JobInv, Goal
<1>10. ASSUME NEW r \in Request, ListGet(r) \/ ListRead(r) \/ ListFill(r) \/ ListClear(r) PROVE Goal
  <2>1. Same \/ Free  BY <1>10 DEF ListGet, ListRead, ListFill, ListClear, Goto, TypeOK, jobVars
  <2>. QED  BY <2>1, <1>0
<1>11. ASSUME NEW r \in Request, Abort(r) PROVE Goal
  BY <1>11, <1>1 DEF Abort, Done
<1>12. ASSUME ListLapse \/ UNCHANGED vars PROVE Goal
  <2>1. Same  BY <1>12 DEF ListLapse, vars, jobVars
  <2>. QED  BY <2>1, <1>0
<1>13. Goal
  BY <1>2, <1>3, <1>4, <1>5, <1>6, <1>7, <1>8, <1>9, <1>10, <1>11, <1>12 DEF Next
<1>. QED  BY <1>13 DEF Goal

\* The empty table, with nobody at work.
LEMMA InitType == Init => TypeOK /\ JobInv
<1>1. 1 \in 1..(MaxMenu + 1) /\ 0 \in 0..MaxMenu  BY MenuConstants
<1>2. "idle" \in Step  BY DEF Step
<1>3. Root \in Parents /\ AnyPath \in Path  BY Numbers
<1>. SUFFICES ASSUME Init PROVE TypeOK /\ JobInv
  OBVIOUS
<1>4. TypeOK
  <2>1. menus \in SUBSET Menu /\ parent \in [Menu -> Parents] /\ path \in [Menu -> Path]
    BY <1>3 DEF Init
  <2>2. nextId \in 1..(MaxMenu + 1) /\ pc \in [Request -> Step]
    BY <1>1, <1>2 DEF Init
  <2>3. m \in [Request -> 0..MaxMenu] /\ at \in [Request -> 0..MaxMenu]
    BY <1>1 DEF Init
  <2>4. to \in [Request -> Parents \cup {Keep}] /\ was \in [Request -> Parents]
    BY <1>3 DEF Init
  <2>5. newPath \in [Request -> Path \cup {"keep"}]
    BY DEF Init
  <2>6. cache \in {"none", "current", "stale"} /\ lateList \in BOOLEAN
        /\ snap \in [Request -> {"none", "current", "stale"}]
    BY DEF Init
  <2>7. dirtyMove \in SUBSET Request /\ dirtyPath \in SUBSET Request /\ lateMove \in SUBSET Menu
    BY DEF Init
  <2>. QED  BY <2>1, <2>2, <2>3, <2>4, <2>5, <2>6, <2>7 DEF TypeOK
<1>5. JobInv  BY DEF Init, JobInv
<1>. QED  BY <1>4, <1>5

\* Every variable keeps the shape the code gives it, for all constants.
THEOREM TypeCorrect == Spec => []TypeOK
<1>1. Init => TypeOK /\ JobInv  BY InitType
<1>2. TypeOK /\ JobInv /\ [Next]_vars => (TypeOK /\ JobInv)'
  BY TypePreserved, JobPreserved
<1>. QED  BY <1>1, <1>2, PTL DEF Spec

-----------------------------------------------------------------------------
\* A parent is a row: the foreign key.
ParentsExist == \A n \in menus : parent[n] \in menus \cup {Root}

\* Rows that are gone have no parent, ids are handed out in order, and a parent is a row.
TableInv ==
  /\ ParentsExist
  /\ \A n \in Menu \ menus : parent[n] = Root
  /\ \A n \in menus : n < nextId

\* A step writes the forest in one of four ways.
LEMMA TableSteps ==
  ASSUME TypeOK, JobInv, [Next]_vars
  PROVE  \/ UNCHANGED <<menus, parent, nextId, lateMove>>
         \/ \E r \in Editor :
              /\ CreateWrite(r) /\ to[r] \in menus \cup {Root} /\ nextId \in Menu
              /\ menus' = menus \cup {nextId} /\ nextId' = nextId + 1
              /\ parent' = [parent EXCEPT ![nextId] = to[r]]
              /\ lateMove' = lateMove
         \/ \E r \in Editor :
              /\ UpdateWrite(r) /\ m[r] \in menus /\ to[r] \in menus \cup {Root}
              /\ UNCHANGED <<menus, nextId>>
              /\ parent' = [parent EXCEPT ![m[r]] = to[r]]
              /\ lateMove' = IF to[r] # Root /\ r \in dirtyMove THEN lateMove \cup {m[r]}
                             ELSE lateMove \ {m[r]}
         \/ \E r \in Editor :
              /\ RemoveWrite(r) /\ m[r] \in menus /\ ~Restricted(m[r])
              /\ menus' = menus \ {m[r]} /\ nextId' = nextId
              /\ parent' = [parent EXCEPT ![m[r]] = Root]
              /\ lateMove' = lateMove \ {m[r]}
<1>. DEFINE Goal ==
         \/ UNCHANGED <<menus, parent, nextId, lateMove>>
         \/ \E r \in Editor :
              /\ CreateWrite(r) /\ to[r] \in menus \cup {Root} /\ nextId \in Menu
              /\ menus' = menus \cup {nextId} /\ nextId' = nextId + 1
              /\ parent' = [parent EXCEPT ![nextId] = to[r]]
              /\ lateMove' = lateMove
         \/ \E r \in Editor :
              /\ UpdateWrite(r) /\ m[r] \in menus /\ to[r] \in menus \cup {Root}
              /\ UNCHANGED <<menus, nextId>>
              /\ parent' = [parent EXCEPT ![m[r]] = to[r]]
              /\ lateMove' = IF to[r] # Root /\ r \in dirtyMove THEN lateMove \cup {m[r]}
                             ELSE lateMove \ {m[r]}
         \/ \E r \in Editor :
              /\ RemoveWrite(r) /\ m[r] \in menus /\ ~Restricted(m[r])
              /\ menus' = menus \ {m[r]} /\ nextId' = nextId
              /\ parent' = [parent EXCEPT ![m[r]] = Root]
              /\ lateMove' = lateMove \ {m[r]}
<1>1. ASSUME NEW r \in Editor, CreateWrite(r) PROVE Goal
  <2>1. CASE to[r] \in menus \cup {Root}
    <3>1. nextId \in Menu  BY <1>1, <2>1, Numbers DEF CreateWrite, TypeOK
    <3>. QED  BY <1>1, <2>1, <3>1 DEF CreateWrite
  <2>2. CASE to[r] \notin menus \cup {Root}
    BY <1>1, <2>2 DEF CreateWrite, tableVars
  <2>. QED  BY <2>1, <2>2
<1>2. ASSUME NEW r \in Editor, UpdateWrite(r) PROVE Goal
  <2>1. CASE m[r] \in menus /\ to[r] \in menus \cup {Root}
    <3>1. to[r] # Keep  BY <2>1, Numbers DEF TypeOK
    <3>. QED  BY <1>2, <2>1, <3>1 DEF UpdateWrite
  <2>2. CASE ~(m[r] \in menus /\ to[r] \in menus \cup {Root})
    BY <1>2, <2>2 DEF UpdateWrite, tableVars
  <2>. QED  BY <2>1, <2>2
<1>3. ASSUME NEW r \in Editor, RemoveWrite(r) PROVE Goal
  BY <1>3 DEF RemoveWrite, tableVars
<1>4. CASE UNCHANGED <<tableVars, lateMove>>
  BY <1>4 DEF tableVars
<1>. QED
  BY <1>1, <1>2, <1>3, <1>4
     DEF Next, CreateCheckParent, CreateCheckPath, UpdateFind, UpdateCheckParent, UpdateWalk,
         UpdateCheckPath, RemoveFind, CreateButtons, ButtonWrite, ListGet, ListRead, ListFill,
         ListClear, ListLapse, Abort, vars

\* A parent stays a row: the foreign key holds whatever overtakes the checks.
LEMMA TablePreserved ==
  ASSUME TypeOK, JobInv, TableInv, [Next]_vars
  PROVE  TableInv'
<1>0. nextId \in Nat  BY MenuConstants DEF TypeOK
<1>1. CASE UNCHANGED <<menus, parent, nextId>>
  BY <1>1 DEF TableInv, ParentsExist
<1>2. ASSUME NEW r \in Editor, to[r] \in menus \cup {Root}, nextId \in Menu,
             menus' = menus \cup {nextId}, nextId' = nextId + 1,
             parent' = [parent EXCEPT ![nextId] = to[r]]
      PROVE TableInv'
  <2>1. \A n \in menus : n \in Nat  BY MenuConstants DEF TypeOK, Menu
  <2>. QED  BY <1>0, <1>2, <2>1, Numbers DEF TableInv, ParentsExist, TypeOK
<1>3. ASSUME NEW r \in Editor, m[r] \in menus, to[r] \in menus \cup {Root},
             UNCHANGED <<menus, nextId>>, parent' = [parent EXCEPT ![m[r]] = to[r]]
      PROVE TableInv'
  BY <1>3, Numbers DEF TableInv, ParentsExist, TypeOK
<1>4. ASSUME NEW r \in Editor, m[r] \in menus, ~Restricted(m[r]),
             menus' = menus \ {m[r]}, nextId' = nextId,
             parent' = [parent EXCEPT ![m[r]] = Root]
      PROVE TableInv'
  BY <1>4, Numbers DEF TableInv, ParentsExist, TypeOK, Restricted
<1>. QED  BY <1>1, <1>2, <1>3, <1>4, TableSteps

-----------------------------------------------------------------------------
\* A request that walks, or has walked, up from the new parent of m, and was not
\* overtaken by a move, has a set A of menus to show for it: A has the new parent but
\* not m, and with every menu its parent, but for the one the walk has come to.
Walked(r) ==
  \E A \in SUBSET Menu :
    /\ to[r] \in A /\ m[r] \notin A
    /\ \A a \in A : a < nextId
    /\ \A a \in A : parent[a] \in A \cup {Root} \/ (pc[r] = "update_walk" /\ a = at[r])
    /\ pc[r] = "update_walk" => at[r] \in A

WalkInv ==
  \A r \in Request :
    /\ r \notin dirtyMove
    /\ pc[r] \in {"update_walk", "update_path", "update_write"}
    /\ to[r] \notin {Root, Keep}
    => Walked(r)

\* A walk stays good while the menus handed out so far keep their parents or lose them.
LEMMA WalkedKept ==
  ASSUME TypeOK, NEW q \in Request, Walked(q), nextId' >= nextId, nextId' \in Nat,
         \A a \in Menu : a < nextId => parent'[a] \in {parent[a], Root},
         pc'[q] = pc[q], to'[q] = to[q], m'[q] = m[q], at'[q] = at[q]
  PROVE  Walked(q)'
<1>1. PICK A \in SUBSET Menu :
        /\ to[q] \in A /\ m[q] \notin A
        /\ \A a \in A : a < nextId
        /\ \A a \in A : parent[a] \in A \cup {Root} \/ (pc[q] = "update_walk" /\ a = at[q])
        /\ pc[q] = "update_walk" => at[q] \in A
  BY DEF Walked
<1>2. \A a \in A : a < nextId'
  <2>1. \A a \in A : a \in Nat  BY MenuConstants DEF Menu
  <2>2. nextId \in Nat  BY MenuConstants DEF TypeOK
  <2>. QED  BY <1>1, <2>1, <2>2
<1>3. \A a \in A : parent'[a] \in A \cup {Root} \/ (pc'[q] = "update_walk" /\ a = at'[q])
  BY <1>1
<1>. QED  BY <1>1, <1>2, <1>3 DEF Walked

\* The last member of a cycle that a move closes is the menu it moved: had the walk
\* been good, the menus it passed would have been a cycle before.
LEMMA MoveKeepsCyclesLate ==
  ASSUME TypeOK, TableInv, CyclesComeLate, NEW r \in Request, NEW L,
         m[r] \in menus, to[r] \in menus \cup {Root},
         menus' = menus, parent' = [parent EXCEPT ![m[r]] = to[r]],
         \A n \in lateMove : n \in L \/ n = m[r],
         m[r] \in L \/ to[r] = Root \/
           \E A \in SUBSET Menu : /\ to[r] \in A /\ m[r] \notin A
                                  /\ \A a \in A : parent[a] \in A \cup {Root},
         NEW S \in SUBSET menus, S # {}, \A n \in S : parent'[n] \in S
  PROVE  S \cap L # {}
<1>1. \A n \in S \ {m[r]} : parent'[n] = parent[n]  BY DEF TypeOK
<1>2. m[r] \in S => parent'[m[r]] = to[r]  BY DEF TypeOK
<1>3. S \subseteq Menu /\ Root \notin S  BY Numbers DEF TypeOK
<1>4. CASE m[r] \notin S
  <2>1. Cyclic(S)  BY <1>1, <1>4 DEF Cyclic
  <2>2. PICK n \in S : n \in lateMove  BY <2>1 DEF CyclesComeLate
  <2>. QED  BY <1>4, <2>2
<1>5. CASE m[r] \in S /\ m[r] \notin L
  <2>1. to[r] \in S /\ to[r] # Root  BY <1>2, <1>3, <1>5
  <2>2. PICK A \in SUBSET Menu : /\ to[r] \in A /\ m[r] \notin A
                                 /\ \A a \in A : parent[a] \in A \cup {Root}
    BY <1>5, <2>1
  <2>3. \A n \in S \cap A : parent[n] \in S \cap A
    BY <1>1, <1>3, <2>2
  <2>4. Cyclic(S \cap A)  BY <2>1, <2>2, <2>3 DEF Cyclic
  <2>5. PICK n \in S \cap A : n \in lateMove  BY <2>4 DEF CyclesComeLate
  <2>. QED  BY <2>2, <2>5
<1>. QED  BY <1>4, <1>5

\* A step leaves a request that is past the choice of a parent as it is, unless it is
\* one of that request's own checks.
LEMMA CheckSteps ==
  ASSUME TypeOK, [Next]_vars, NEW q \in Request,
         pc'[q] \in {"update_walk", "update_path", "update_write"},
         to'[q] \notin {Root, Keep}
  PROVE  \/ /\ pc'[q] = pc[q] /\ to'[q] = to[q] /\ m'[q] = m[q] /\ at'[q] = at[q]
            /\ q \in dirtyMove => q \in dirtyMove'
         \/ q \in Editor /\ UpdateCheckParent(q)
         \/ q \in Editor /\ UpdateWalk(q)
         \/ q \in Editor /\ UpdateCheckPath(q)
<1>. DEFINE Same == /\ pc'[q] = pc[q] /\ to'[q] = to[q] /\ m'[q] = m[q] /\ at'[q] = at[q]
                    /\ q \in dirtyMove => q \in dirtyMove'
            Goal == \/ Same
                    \/ q \in Editor /\ UpdateCheckParent(q)
                    \/ q \in Editor /\ UpdateWalk(q)
                    \/ q \in Editor /\ UpdateCheckPath(q)
<1>. \A r \in Editor : r \in Request  BY DEF Request
<1>. \A r \in Reader : r \in Request  BY DEF Request
<1>1. ASSUME NEW r \in Request, NEW s \in {"idle", "create_buttons", "clear"}, NEW n,
             Drop(r, s, n),
             \A p \in dirtyMove : p = r \/ p \in dirtyMove'
      PROVE Same
  BY <1>1 DEF Drop, Goto, TypeOK
<1>2. ASSUME NEW r \in Request, Done(r) PROVE Same
  BY <1>2, <1>1 DEF Done
<1>3. ASSUME NEW r \in Editor, NEW p \in Parents, NEW x \in Path, CreateCheckParent(r, p, x)
      PROVE Same
  BY <1>3 DEF CreateCheckParent, Goto, TypeOK, dirtyVars
<1>4. ASSUME NEW r \in Editor, CreateCheckPath(r) PROVE Same
  <2>1. CASE Goto(r, "create_write") /\ UNCHANGED <<jobVars, dirtyVars>>
    BY <2>1 DEF Goto, TypeOK, jobVars, dirtyVars
  <2>. QED  BY <1>4, <1>2, <2>1 DEF CreateCheckPath
<1>5. ASSUME NEW r \in Editor,
             CreateWrite(r) \/ CreateButtons(r) \/ UpdateWrite(r) \/ RemoveWrite(r) \/ ButtonWrite(r)
      PROVE Same
  <2>1. CASE Done(r)  BY <2>1, <1>2
  <2>2. CASE Wrote(r) /\ (RowWritten(r, TRUE) \/ RowWritten(r, FALSE) \/ UNCHANGED dirtyMove)
    <3>1. \A p \in dirtyMove : p = r \/ p \in dirtyMove'
      BY <2>2 DEF RowWritten
    <3>. QED  BY <2>2, <3>1, <1>1, WroteDrops
  <2>3. \A b \in BOOLEAN : RowWritten(r, b) => RowWritten(r, TRUE) \/ RowWritten(r, FALSE)
    OBVIOUS
  <2>. QED  BY <1>5, <2>1, <2>2, <2>3, WritersWrite DEF dirtyVars
<1>6. ASSUME NEW r \in Editor, NEW n \in Menu, NEW p \in Parents \cup {Keep},
             NEW x \in Path \cup {"keep"}, UpdateFind(r, n, p, x)
      PROVE Same
  BY <1>6 DEF UpdateFind, PathStep, Goto, TypeOK, dirtyVars
<1>7. ASSUME NEW r \in Editor, UpdateCheckParent(r) PROVE Goal
  BY <1>7, <1>2 DEF UpdateCheckParent, Goto, TypeOK, dirtyVars
<1>8. ASSUME NEW r \in Editor, UpdateWalk(r) PROVE Goal
  BY <1>8, <1>2 DEF UpdateWalk, Goto, TypeOK, dirtyVars, jobVars
<1>9. ASSUME NEW r \in Editor, UpdateCheckPath(r) PROVE Goal
  BY <1>9, <1>2 DEF UpdateCheckPath, Goto, TypeOK, dirtyVars, jobVars
<1>10. ASSUME NEW r \in Editor, NEW n \in Menu, RemoveFind(r, n) PROVE Same
  BY <1>10 DEF RemoveFind, Goto, TypeOK, dirtyVars
<1>11. ASSUME NEW r \in Request, ListGet(r) \/ ListRead(r) \/ ListFill(r) \/ ListClear(r) PROVE Same
  BY <1>11 DEF ListGet, ListRead, ListFill, ListClear, Goto, TypeOK, jobVars, dirtyVars
<1>12. ASSUME NEW r \in Request, Abort(r) PROVE Same
  BY <1>12, <1>2 DEF Abort
<1>13. ASSUME ListLapse \/ UNCHANGED vars PROVE Same
  BY <1>13 DEF ListLapse, vars, jobVars, dirtyVars
<1>14. Goal
  <2>. HIDE DEF Same
  <2>. QED
    BY <1>3, <1>4, <1>5, <1>6, <1>7, <1>8, <1>9, <1>10, <1>11, <1>12, <1>13 DEF Next
<1>. QED  BY <1>14

\* A walk that no move overtook stays good.
LEMMA WalkPreserved ==
  ASSUME TypeOK, JobInv, TableInv, WalkInv, [Next]_vars
  PROVE  WalkInv'
<1>. SUFFICES ASSUME NEW q \in Request, q \notin dirtyMove',
                     pc'[q] \in {"update_walk", "update_path", "update_write"},
                     to'[q] \notin {Root, Keep}
              PROVE  Walked(q)'
  BY DEF WalkInv
<1>0. nextId \in Nat  BY MenuConstants DEF TypeOK
<1>1. CASE /\ pc'[q] = pc[q] /\ to'[q] = to[q] /\ m'[q] = m[q] /\ at'[q] = at[q]
           /\ q \in dirtyMove => q \in dirtyMove'
  <2>1. Walked(q)  BY <1>1 DEF WalkInv
  <2>2. CASE UNCHANGED <<menus, parent, nextId>>
    BY <1>0, <1>1, <2>1, <2>2, WalkedKept
  <2>3. CASE nextId \in Menu /\ nextId' = nextId + 1
             /\ \E r \in Editor : parent' = [parent EXCEPT ![nextId] = to[r]]
    <3>1. \A a \in Menu : a < nextId => parent'[a] = parent[a]
      BY <1>0, <2>3 DEF TypeOK
    <3>2. nextId' \in Nat /\ nextId' >= nextId  BY <1>0, <2>3
    <3>. QED  BY <1>1, <2>1, <3>1, <3>2, WalkedKept
  <2>4. CASE nextId' = nextId /\ \E r \in Editor : parent' = [parent EXCEPT ![m[r]] = Root]
    <3>1. \A a \in Menu : parent'[a] \in {parent[a], Root}  BY <2>4 DEF TypeOK
    <3>2. nextId' \in Nat /\ nextId' >= nextId  BY <1>0, <2>4
    <3>. QED  BY <1>1, <2>1, <3>1, <3>2, WalkedKept
  <2>5. ASSUME NEW r \in Editor, UpdateWrite(r), m[r] \in menus, to[r] \in menus \cup {Root}
        PROVE FALSE
    <3>1. to[r] # Keep  BY <2>5, Numbers DEF TypeOK
    <3>2. RowWritten(r, TRUE) /\ Drop(r, "clear", 0)
      BY <2>5, <3>1 DEF UpdateWrite, Written
    <3>3. q # r  BY <3>2 DEF Drop, Goto, TypeOK
    <3>4. q \in Walking  BY <1>1 DEF Walking
    <3>. QED  BY <3>2, <3>3, <3>4 DEF RowWritten
  <2>. QED  BY <2>2, <2>3, <2>4, <2>5, TableSteps
<1>2. CASE q \in Editor /\ UpdateCheckParent(q)
  <2>1. to[q] \in menus /\ to[q] # m[q]
    BY <1>2 DEF UpdateCheckParent, Done, Drop, Goto, TypeOK
  <2>2. at'[q] = to[q] /\ pc'[q] = "update_walk" /\ UNCHANGED <<tableVars, m, to>>
    BY <1>2, <2>1 DEF UpdateCheckParent, Goto, TypeOK
  <2>3. {to[q]} \in SUBSET Menu /\ to[q] < nextId  BY <2>1 DEF TypeOK, TableInv
  <2>. QED  BY <2>1, <2>2, <2>3 DEF Walked, tableVars
<1>3. CASE q \in Editor /\ UpdateWalk(q)
  <2>1. /\ UNCHANGED <<tableVars, m, to>> /\ pc[q] = "update_walk"
        /\ q \notin dirtyMove /\ to[q] \notin {Root, Keep}
    BY <1>3 DEF UpdateWalk, Done, Drop, Goto, TypeOK, jobVars, dirtyVars
  <2>2. PICK A \in SUBSET Menu :
          /\ to[q] \in A /\ m[q] \notin A
          /\ \A a \in A : a < nextId
          /\ \A a \in A : parent[a] \in A \cup {Root} \/ a = at[q]
          /\ at[q] \in A
    BY <2>1 DEF WalkInv, Walked
  <2>3. CASE at[q] \notin menus \/ parent[at[q]] = Root
    <3>1. parent[at[q]] = Root  BY <2>2, <2>3 DEF TableInv
    <3>2. pc'[q] # "update_walk"
      BY <1>3, <2>3, <3>1 DEF UpdateWalk, Done, Drop, Goto, PathStep, TypeOK
    <3>3. \A a \in A : parent[a] \in A \cup {Root}  BY <2>2, <3>1
    <3>. QED  BY <2>1, <2>2, <3>2, <3>3 DEF Walked, tableVars
  <2>4. CASE at[q] \in menus /\ parent[at[q]] # Root
    <3>1. /\ parent[at[q]] # m[q] /\ at'[q] = parent[at[q]] /\ pc'[q] = "update_walk"
      BY <1>3, <2>4 DEF UpdateWalk, Done, Drop, Goto, TypeOK
    <3>2. parent[at[q]] \in menus  BY <2>4 DEF TableInv, ParentsExist
    <3>3. parent[at[q]] \in Menu /\ parent[at[q]] < nextId  BY <3>2 DEF TypeOK, TableInv
    <3>. DEFINE B == A \cup {parent[at[q]]}
    <3>4. B \in SUBSET Menu /\ to[q] \in B /\ m[q] \notin B  BY <2>2, <3>1, <3>3
    <3>5. \A b \in B : b < nextId  BY <2>2, <3>3
    <3>6. \A b \in B : parent[b] \in B \cup {Root} \/ b = parent[at[q]]  BY <2>2
    <3>. QED  BY <2>1, <3>1, <3>4, <3>5, <3>6 DEF Walked, tableVars
  <2>. QED  BY <2>3, <2>4
<1>4. CASE q \in Editor /\ UpdateCheckPath(q)
  <2>1. /\ UNCHANGED <<tableVars, m, to>> /\ pc[q] = "update_path" /\ pc'[q] = "update_write"
        /\ q \notin dirtyMove /\ to[q] \notin {Root, Keep}
    BY <1>4 DEF UpdateCheckPath, Done, Drop, Goto, TypeOK, jobVars, dirtyVars
  <2>2. Walked(q)  BY <2>1 DEF WalkInv
  <2>. QED  BY <2>1, <2>2 DEF Walked, tableVars
<1>. QED  BY <1>1, <1>2, <1>3, <1>4, CheckSteps

\* A cycle of menus has a member whose move came too late.
LEMMA CyclesPreserved ==
  ASSUME TypeOK, JobInv, TableInv, WalkInv, CyclesComeLate, [Next]_vars
  PROVE  CyclesComeLate'
<1>. SUFFICES ASSUME NEW S \in SUBSET menus', S # {}, \A n \in S : parent'[n] \in S
              PROVE  S \cap lateMove' # {}
  BY DEF CyclesComeLate, Cyclic
<1>. \A r \in Editor : r \in Request  BY DEF Request
<1>0. S \subseteq menus'  OBVIOUS
<1>1. CASE UNCHANGED <<menus, parent, nextId, lateMove>>
  <2>1. Cyclic(S)  BY <1>1 DEF Cyclic
  <2>. QED  BY <1>1, <2>1 DEF CyclesComeLate
<1>2. ASSUME NEW r \in Editor, to[r] \in menus \cup {Root}, nextId \in Menu,
             menus' = menus \cup {nextId}, parent' = [parent EXCEPT ![nextId] = to[r]],
             lateMove' = lateMove
      PROVE S \cap lateMove' # {}
  <2>1. nextId \notin menus
    <3>1. nextId \in Nat  BY MenuConstants DEF TypeOK
    <3>. QED  BY <3>1 DEF TableInv
  <2>2. \A n \in menus : parent'[n] = parent[n] /\ parent[n] # nextId
    BY <1>2, <2>1, Numbers DEF TypeOK, TableInv, ParentsExist
  <2>3. parent'[nextId] = to[r] /\ to[r] # nextId  BY <1>2, <2>1, Numbers DEF TypeOK
  <2>4. S \ {nextId} \subseteq menus  BY <1>2
  <2>5. \A n \in S \ {nextId} : parent[n] \in S \ {nextId}  BY <2>2, <2>4
  <2>6. S \ {nextId} # {}
    <3>1. CASE nextId \in S  BY <2>3, <3>1
    <3>2. CASE nextId \notin S  BY <3>2
    <3>. QED  BY <3>1, <3>2
  <2>7. Cyclic(S \ {nextId})  BY <2>5, <2>6 DEF Cyclic
  <2>8. (S \ {nextId}) \cap lateMove # {}  BY <2>4, <2>7 DEF CyclesComeLate
  <2>. QED  BY <1>2, <2>8
<1>3. ASSUME NEW r \in Editor, UpdateWrite(r), m[r] \in menus, to[r] \in menus \cup {Root},
             menus' = menus, parent' = [parent EXCEPT ![m[r]] = to[r]],
             lateMove' = IF to[r] # Root /\ r \in dirtyMove THEN lateMove \cup {m[r]}
                         ELSE lateMove \ {m[r]}
      PROVE S \cap lateMove' # {}
  <2>1. \A n \in lateMove : n \in lateMove' \/ n = m[r]  BY <1>3
  <2>2. CASE to[r] # Root /\ r \notin dirtyMove
    <3>1. to[r] # Keep  BY <1>3, <2>2, Numbers DEF TypeOK
    <3>2. pc[r] = "update_write" /\ r \in Request  BY <1>3 DEF UpdateWrite
    <3>3. Walked(r)  BY <2>2, <3>1, <3>2 DEF WalkInv
    <3>4. \E A \in SUBSET Menu : /\ to[r] \in A /\ m[r] \notin A
                                 /\ \A a \in A : parent[a] \in A \cup {Root}
      BY <3>2, <3>3 DEF Walked
    <3>. QED  BY <1>0, <1>3, <2>1, <3>2, <3>4, MoveKeepsCyclesLate
  <2>3. CASE to[r] = Root \/ r \in dirtyMove
    <3>1. m[r] \in lateMove' \/ to[r] = Root  BY <1>3, <2>3
    <3>2. r \in Request  OBVIOUS
    <3>. QED  BY <1>0, <1>3, <2>1, <3>1, <3>2, MoveKeepsCyclesLate
  <2>. QED  BY <2>2, <2>3
<1>4. ASSUME NEW r \in Editor, m[r] \in menus,
             menus' = menus \ {m[r]}, parent' = [parent EXCEPT ![m[r]] = Root],
             lateMove' = lateMove \ {m[r]}
      PROVE S \cap lateMove' # {}
  <2>1. \A n \in S : n # m[r] /\ parent'[n] = parent[n] /\ n \in menus
    BY <1>0, <1>4 DEF TypeOK
  <2>2. Cyclic(S)  BY <2>1 DEF Cyclic
  <2>3. S \cap lateMove # {}  BY <2>1, <2>2 DEF CyclesComeLate
  <2>. QED  BY <1>4, <2>1, <2>3
<1>. QED  BY <1>1, <1>2, <1>3, <1>4, TableSteps

\* Only a move that another move overtook can close a cycle, for any number of menus
\* and requests.
THEOREM OnlyLateMovesCycle == Spec => []CyclesComeLate
<1>. DEFINE IInv == TypeOK /\ JobInv /\ TableInv /\ WalkInv /\ CyclesComeLate
<1>1. Init => IInv
  BY InitType DEF Init, TableInv, ParentsExist, WalkInv, CyclesComeLate, Cyclic
<1>2. IInv /\ [Next]_vars => IInv'
  BY TypePreserved, JobPreserved, TablePreserved, WalkPreserved, CyclesPreserved
<1>3. IInv => CyclesComeLate  OBVIOUS
<1>. QED  BY <1>1, <1>2, <1>3, PTL DEF Spec

-----------------------------------------------------------------------------
\* The parent of a row that the tree does not show is a row that it does not show.
LEMMA LostAreCyclic ==
  ASSUME NEW S, S \ Shown(S) # {}
  PROVE  Cyclic(S \ Shown(S))
<1>. DEFINE Hung(T) == \A c \in S : parent[c] \in T => c \in T
<1>1. SUFFICES ASSUME NEW n \in S \ Shown(S) PROVE parent[n] \in S \ Shown(S)
  BY DEF Cyclic
<1>2. PICK T \in SUBSET S : TreeRoots(S) \subseteq T /\ Hung(T) /\ n \notin T
  BY <1>1 DEF Shown
<1>3. parent[n] \in S  BY <1>1, <1>2 DEF TreeRoots
<1>4. parent[n] \notin T  BY <1>1, <1>2
<1>. QED  BY <1>2, <1>3, <1>4 DEF Shown

\* A tree that loses a row has lost a cycle, and a cycle has a late member: whatever
\* MenuService.getMenuTree finds is shown otherwise.
THEOREM SearchesShowAll == Spec => []FoundIsShown
<1>1. CyclesComeLate => FoundIsShown
  <2>1. SUFFICES ASSUME CyclesComeLate, NEW S \in Found, S \ Shown(S) # {}
                 PROVE  (S \ Shown(S)) \cap lateMove # {}
    BY DEF FoundIsShown
  <2>2. S \ Shown(S) \in SUBSET menus  BY <2>1 DEF Found
  <2>3. Cyclic(S \ Shown(S))  BY <2>1, LostAreCyclic
  <2>. QED  BY <2>1, <2>2, <2>3 DEF CyclesComeLate
<1>. QED  BY <1>1, OnlyLateMovesCycle, PTL

-----------------------------------------------------------------------------
\* A walk has come to a menu that was handed out.
WalkAt == \A q \in Request : pc[q] = "update_walk" => at[q] < nextId

\* A request walks because it walked before, or begins to; only its own query moves it.
LEMMA WalkSteps ==
  ASSUME TypeOK, [Next]_vars, NEW q \in Request, pc'[q] = "update_walk"
  PROVE  \/ pc[q] = "update_walk" /\ at'[q] = at[q]
         \/ q \in Editor /\ UpdateCheckParent(q) /\ pc[q] = "update_parent"
         \/ q \in Editor /\ UpdateWalk(q)
<1>. DEFINE Same == pc[q] = "update_walk" /\ at'[q] = at[q]
            Goal == \/ Same
                    \/ q \in Editor /\ UpdateCheckParent(q) /\ pc[q] = "update_parent"
                    \/ q \in Editor /\ UpdateWalk(q)
<1>. \A r \in Editor : r \in Request  BY DEF Request
<1>. \A r \in Reader : r \in Request  BY DEF Request
<1>1. ASSUME NEW r \in Request, NEW s \in {"idle", "create_buttons", "clear"}, NEW n, Drop(r, s, n)
      PROVE Same
  BY <1>1 DEF Drop, Goto, TypeOK
<1>2. ASSUME NEW r \in Request, Done(r) PROVE Same
  BY <1>2, <1>1 DEF Done
<1>3. ASSUME NEW r \in Editor, NEW p \in Parents, NEW x \in Path, CreateCheckParent(r, p, x)
      PROVE Same
  BY <1>3 DEF CreateCheckParent, Goto, TypeOK
<1>4. ASSUME NEW r \in Editor, CreateCheckPath(r) PROVE Same
  <2>1. CASE Goto(r, "create_write") /\ UNCHANGED <<jobVars, dirtyVars>>
    BY <2>1 DEF Goto, TypeOK, jobVars
  <2>. QED  BY <1>4, <1>2, <2>1 DEF CreateCheckPath
<1>5. ASSUME NEW r \in Editor,
             CreateWrite(r) \/ CreateButtons(r) \/ UpdateWrite(r) \/ RemoveWrite(r) \/ ButtonWrite(r)
      PROVE Same
  <2>1. CASE Done(r)  BY <2>1, <1>2
  <2>2. CASE Wrote(r)  BY <2>2, <1>1, WroteDrops
  <2>. QED  BY <1>5, <2>1, <2>2, WritersWrite
<1>6. ASSUME NEW r \in Editor, NEW n \in Menu, NEW p \in Parents \cup {Keep},
             NEW x \in Path \cup {"keep"}, UpdateFind(r, n, p, x)
      PROVE Same
  BY <1>6 DEF UpdateFind, PathStep, Goto, TypeOK
<1>7. ASSUME NEW r \in Editor, UpdateCheckParent(r) PROVE Goal
  <2>1. CASE Done(r)  BY <2>1, <1>2
  <2>2. CASE at' = [at EXCEPT ![r] = to[r]] /\ pc' = [pc EXCEPT ![r] = "update_walk"]
    BY <1>7, <2>2 DEF UpdateCheckParent, TypeOK
  <2>. QED  BY <1>7, <2>1, <2>2 DEF UpdateCheckParent, Goto
<1>8. ASSUME NEW r \in Editor, UpdateWalk(r) PROVE Goal
  BY <1>8, <1>2 DEF UpdateWalk, Goto, PathStep, TypeOK, jobVars
<1>9. ASSUME NEW r \in Editor, UpdateCheckPath(r) PROVE Same
  BY <1>9, <1>2 DEF UpdateCheckPath, Goto, TypeOK, jobVars
<1>10. ASSUME NEW r \in Editor, NEW n \in Menu, RemoveFind(r, n) PROVE Same
  BY <1>10 DEF RemoveFind, Goto, TypeOK
<1>11. ASSUME NEW r \in Request, ListGet(r) \/ ListRead(r) \/ ListFill(r) \/ ListClear(r) PROVE Same
  BY <1>11 DEF ListGet, ListRead, ListFill, ListClear, Goto, TypeOK, jobVars
<1>12. ASSUME NEW r \in Request, Abort(r) PROVE Same
  BY <1>12, <1>2 DEF Abort
<1>13. ASSUME ListLapse \/ UNCHANGED vars PROVE Same
  BY <1>13 DEF ListLapse, vars, jobVars
<1>14. Goal
  <2>. HIDE DEF Same
  <2>. QED
    BY <1>3, <1>4, <1>5, <1>6, <1>7, <1>8, <1>9, <1>10, <1>11, <1>12, <1>13 DEF Next
<1>. QED  BY <1>14

\* A walk stays among the menus that were handed out.
LEMMA WalkAtPreserved ==
  ASSUME TypeOK, TableInv, JobInv, WalkAt, [Next]_vars
  PROVE  WalkAt'
<1>. SUFFICES ASSUME NEW q \in Request, pc'[q] = "update_walk" PROVE at'[q] < nextId'
  BY DEF WalkAt
<1>0. nextId \in Nat /\ nextId' \in Nat /\ nextId <= nextId'
  <2>1. nextId \in Nat  BY MenuConstants DEF TypeOK
  <2>. QED  BY <2>1, TableSteps
<1>1. CASE pc[q] = "update_walk" /\ at'[q] = at[q]
  <2>1. at[q] \in Menu /\ at[q] < nextId  BY <1>1 DEF JobInv, WalkAt
  <2>. QED  BY <1>0, <1>1, <2>1, Numbers
<1>2. CASE q \in Editor /\ UpdateCheckParent(q) /\ pc[q] = "update_parent"
  <2>1. to[q] \in menus
    BY <1>2 DEF UpdateCheckParent, Done, Drop, Goto, TypeOK
  <2>2. at'[q] = to[q]  BY <1>2, <2>1 DEF UpdateCheckParent, Done, Drop, Goto, TypeOK
  <2>3. to[q] < nextId /\ to[q] \in Nat  BY <2>1, Numbers DEF TableInv, TypeOK
  <2>. QED  BY <1>0, <2>2, <2>3
<1>3. CASE q \in Editor /\ UpdateWalk(q)
  <2>1. /\ at[q] \in menus /\ parent[at[q]] # Root /\ at'[q] = parent[at[q]]
    BY <1>3 DEF UpdateWalk, Done, Drop, Goto, PathStep, TypeOK
  <2>2. parent[at[q]] \in menus  BY <2>1 DEF TableInv, ParentsExist
  <2>3. parent[at[q]] < nextId /\ parent[at[q]] \in Nat  BY <2>2, Numbers DEF TableInv, TypeOK
  <2>. QED  BY <1>0, <2>1, <2>3
<1>. QED  BY <1>1, <1>2, <1>3, WalkSteps

\* A menu above itself is on a cycle.
LEMMA AboveItself ==
  ASSUME ParentsExist, NEW b \in menus, b \in Above(b)
  PROVE  \E C \in SUBSET menus : Cyclic(C)
<1>. DEFINE C == {x \in Above(b) : b \in Above(x)}
<1>1. b \in C /\ C \in SUBSET menus  BY DEF Above
<1>2. ASSUME NEW x \in C PROVE parent[x] \in C
  <2>. DEFINE p == parent[x]
  <2>1. p # Root
    <3>1. CASE p = Root
      <4>1. {} \in SUBSET menus /\ {parent[y] : y \in {} \cup {x}} \subseteq {} \cup {Root}
        BY <3>1
      <4>. QED  BY <4>1 DEF Above
    <3>. QED  BY <3>1
  <2>2. p \in Above(b)
    <3>1. ASSUME NEW T \in SUBSET menus, {parent[y] : y \in T \cup {b}} \subseteq T \cup {Root}
          PROVE  p \in T
      BY <2>1, <3>1 DEF Above
    <3>2. p \in menus
      <4>1. menus \in SUBSET menus /\ {parent[y] : y \in menus \cup {b}} \subseteq menus \cup {Root}
        BY DEF ParentsExist
      <4>. QED  BY <4>1, <3>1
    <3>. QED  BY <3>1, <3>2 DEF Above
  <2>3. b \in Above(p)
    <3>1. ASSUME NEW T \in SUBSET menus, {parent[y] : y \in T \cup {p}} \subseteq T \cup {Root},
                 b # p
          PROVE  b \in T
      <4>1. T \cup {p} \in SUBSET menus  BY <2>2 DEF Above
      <4>2. {parent[y] : y \in (T \cup {p}) \cup {x}} \subseteq (T \cup {p}) \cup {Root}
        BY <3>1
      <4>3. b \in T \cup {p}  BY <4>1, <4>2 DEF Above
      <4>. QED  BY <4>3, <3>1
    <3>2. CASE b = p  BY <3>2
    <3>3. CASE b # p  BY <3>1, <3>3 DEF Above
    <3>. QED  BY <3>2, <3>3
  <2>. QED  BY <2>2, <2>3
<1>. QED  BY <1>1, <1>2 DEF Cyclic

\* A query of a walk leaves fewer menus above it.
LEMMA WalkDescends ==
  ASSUME TypeOK, TableInv, CyclesComeLate, lateMove = {}, NEW r \in Editor,
         UpdateWalk(r), pc'[r] = "update_walk"
  PROVE  Above(at[r])' \subseteq Above(at[r]) /\ Above(at[r])' # Above(at[r])
<1>. DEFINE a == at[r]
            b == parent[a]
<1>. r \in Request  BY DEF Request
<1>1. /\ a \in menus /\ b # Root /\ at'[r] = b /\ UNCHANGED tableVars
  BY DEF UpdateWalk, Done, Drop, Goto, PathStep, TypeOK
<1>2. b \in menus  BY <1>1 DEF TableInv, ParentsExist
<1>3. Above(at[r])' = Above(b)  BY <1>1 DEF Above, tableVars
<1>4. b \in Above(a)
  <2>1. ASSUME NEW T \in SUBSET menus, {parent[x] : x \in T \cup {a}} \subseteq T \cup {Root}
        PROVE  b \in T
    BY <1>1, <2>1
  <2>. QED  BY <1>2, <2>1 DEF Above
<1>5. Above(b) \subseteq Above(a)
  <2>1. SUFFICES ASSUME NEW k \in Above(b), NEW T \in SUBSET menus,
                        {parent[x] : x \in T \cup {a}} \subseteq T \cup {Root}
                 PROVE  k \in T
    BY DEF Above
  <2>2. b \in T  BY <1>1, <2>1
  <2>3. {parent[x] : x \in T \cup {b}} \subseteq T \cup {Root}  BY <2>1, <2>2
  <2>. QED  BY <2>1, <2>3 DEF Above
<1>6. b \notin Above(b)
  <2>1. CASE b \in Above(b)
    <3>1. PICK C \in SUBSET menus : Cyclic(C)
      BY <1>2, <2>1, AboveItself DEF TableInv
    <3>. QED  BY <2>1, <3>1 DEF CyclesComeLate
  <2>. QED  BY <2>1
<1>. QED  BY <1>3, <1>4, <1>5, <1>6

\* What is above a menu that was handed out grows only when a menu is moved.
LEMMA AboveShrinks ==
  ASSUME TypeOK, JobInv, TableInv, [Next]_vars, ~Move, NEW r \in Editor,
         at[r] \in Menu, at[r] < nextId, at'[r] = at[r]
  PROVE  Above(at[r])' \subseteq Above(at[r])
<1>. DEFINE a == at[r]
            Held(T) == {parent[x] : x \in T \cup {a}} \subseteq T \cup {Root}
            HeldThen(T) == {parent'[x] : x \in T \cup {a}} \subseteq T \cup {Root}
            Goal == Above(at[r])' \subseteq Above(at[r])
<1>0. Above(at[r])' = {k \in menus' : \A T \in SUBSET menus' : HeldThen(T) => k \in T}
  BY DEF Above
<1>1. ASSUME \A T \in SUBSET menus : Held(T) => T \cap menus' \in SUBSET menus'
                                                /\ HeldThen(T \cap menus')
      PROVE  Goal
  <2>1. SUFFICES ASSUME NEW k \in Above(at[r])' PROVE k \in Above(at[r])
    OBVIOUS
  <2>2. ASSUME NEW T \in SUBSET menus, Held(T) PROVE k \in T
    BY <1>0, <1>1, <2>1, <2>2
  <2>3. Held(menus)
    <3>1. \A n \in Menu : parent[n] \in menus \cup {Root}  BY DEF TableInv, ParentsExist
    <3>. QED  BY <3>1 DEF TypeOK
  <2>. QED  BY <2>2, <2>3 DEF Above
<1>2. ASSUME UNCHANGED <<menus, parent>> PROVE Goal
  BY <1>2 DEF Above
<1>. HIDE DEF Goal
<1>3. ASSUME NEW q \in Editor, to[q] \in menus \cup {Root}, nextId \in Menu,
             menus' = menus \cup {nextId}, parent' = [parent EXCEPT ![nextId] = to[q]]
      PROVE Goal
  <2>1. a # nextId /\ nextId \notin menus
    <3>1. nextId \in Nat  BY MenuConstants DEF TypeOK
    <3>. QED  BY <3>1, Numbers DEF TableInv
  <2>2. \A x \in menus \cup {a} : parent'[x] = parent[x]
    BY <1>3, <2>1 DEF TypeOK
  <2>3. ASSUME NEW T \in SUBSET menus, Held(T)
        PROVE  T \cap menus' \in SUBSET menus' /\ HeldThen(T \cap menus')
    <3>1. T \cap menus' = T  BY <1>3
    <3>2. HeldThen(T)  BY <2>2, <2>3
    <3>. QED  BY <3>1, <3>2
  <2>. QED  BY <2>3, <1>1
<1>4. ASSUME NEW q \in Editor, UpdateWrite(q), m[q] \in menus, to[q] \in menus \cup {Root}
      PROVE Goal
  <2>1. q \in Request  BY DEF Request
  <2>2. pc[q] = "update_write" /\ to[q] # Keep  BY <1>4, <2>1, Numbers DEF UpdateWrite, TypeOK
  <2>3. pc'[q] = "clear"
    BY <1>4, <2>1 DEF UpdateWrite, Written, Drop, Goto, TypeOK
  <2>. QED  BY <2>1, <2>2, <2>3 DEF Move
<1>5. ASSUME NEW q \in Editor, m[q] \in menus, ~Restricted(m[q]),
             menus' = menus \ {m[q]}, parent' = [parent EXCEPT ![m[q]] = Root]
      PROVE Goal
  <2>1. \A x \in Menu : parent[x] # m[q]
    BY <1>5, Numbers DEF Restricted, TableInv, TypeOK
  <2>2. \A x \in Menu : parent'[x] \in {parent[x], Root}  BY <1>5 DEF TypeOK
  <2>3. ASSUME NEW T \in SUBSET menus, Held(T)
        PROVE  T \cap menus' \in SUBSET menus' /\ HeldThen(T \cap menus')
    <3>1. T \cap menus' = T \ {m[q]}  BY <1>5
    <3>2. \A x \in T \cup {a} : x \in Menu  BY DEF TypeOK
    <3>3. \A x \in (T \ {m[q]}) \cup {a} : parent'[x] \in (T \ {m[q]}) \cup {Root}
      BY <2>1, <2>2, <2>3, <3>2
    <3>4. HeldThen(T \ {m[q]})  BY <3>3
    <3>. QED  BY <3>1, <3>4
  <2>. QED  BY <2>3, <1>1
<1>6. Goal  BY <1>2, <1>3, <1>4, <1>5, TableSteps
<1>. QED  BY <1>6 DEF Goal

\* The walk of MenuService.update comes closer to the top with each query, and no other
\* request takes it back but by a move: with finitely many menus it ends between two
\* moves.  For any number of menus and requests.
THEOREM WalksComeCloser == Spec => WalksClimb
<1>. DEFINE IInv == TypeOK /\ JobInv /\ TableInv /\ WalkInv /\ CyclesComeLate /\ WalkAt
            Climb == \A r \in Editor :
                       pc[r] = "update_walk" /\ pc'[r] = "update_walk" /\ lateMove = {} /\ ~Move
                       => /\ Above(at[r])' \subseteq Above(at[r])
                          /\ UpdateWalk(r) => Above(at[r])' # Above(at[r])
<1>1. Init => IInv
  BY InitType DEF Init, TableInv, ParentsExist, WalkInv, CyclesComeLate, Cyclic, WalkAt
<1>2. IInv /\ [Next]_vars => IInv'
  BY TypePreserved, JobPreserved, TablePreserved, WalkPreserved, CyclesPreserved,
     WalkAtPreserved
<1>3. IInv /\ [Next]_vars => [Climb]_vars
  <2>1. SUFFICES ASSUME IInv, [Next]_vars, NEW r \in Editor,
                        pc[r] = "update_walk", pc'[r] = "update_walk", lateMove = {}, ~Move
                 PROVE  /\ Above(at[r])' \subseteq Above(at[r])
                        /\ UpdateWalk(r) => Above(at[r])' # Above(at[r])
    OBVIOUS
  <2>2. CASE UpdateWalk(r)  BY <2>1, <2>2, WalkDescends
  <2>3. CASE ~UpdateWalk(r)
    <3>1. r \in Request  BY DEF Request
    <3>2. at'[r] = at[r]  BY <2>1, <2>3, <3>1, WalkSteps
    <3>3. at[r] \in Menu /\ at[r] < nextId  BY <2>1, <3>1 DEF JobInv, WalkAt
    <3>. QED  BY <2>1, <2>3, <3>2, <3>3, AboveShrinks
  <2>. QED  BY <2>2, <2>3
<1>. QED  BY <1>1, <1>2, <1>3, PTL DEF Spec, WalksClimb

\* Updates that move a menu under another never overlap, as if each held a lock from
\* the first query of its walk to its write.
MovesApart == \A a, b \in Walking : a = b

\* No request is marked, and no menu.
Unmarked == dirtyMove = {} /\ lateMove = {}

\* Only the write of a move marks other requests.
LEMMA MarkSteps ==
  ASSUME TypeOK, [Next]_vars
  PROVE  \/ dirtyMove' \subseteq dirtyMove
         \/ \E r \in Editor : UpdateWrite(r) /\ RowWritten(r, TRUE)
<1>. DEFINE Goal == \/ dirtyMove' \subseteq dirtyMove
                    \/ \E r \in Editor : UpdateWrite(r) /\ RowWritten(r, TRUE)
<1>1. ASSUME NEW r \in Request, Done(r) PROVE Goal
  BY <1>1 DEF Done
<1>2. ASSUME NEW r \in Editor, CreateWrite(r) PROVE Goal
  BY <1>2, <1>1 DEF CreateWrite, RowWritten, Request
<1>3. ASSUME NEW r \in Editor, UpdateWrite(r) PROVE Goal
  <2>1. CASE to[r] = Keep
    <3>1. Done(r) \/ RowWritten(r, FALSE)  BY <1>3, <2>1 DEF UpdateWrite
    <3>. QED  BY <3>1, <1>1 DEF RowWritten, Request
  <2>2. CASE to[r] # Keep
    <3>1. Done(r) \/ RowWritten(r, TRUE)  BY <1>3, <2>2 DEF UpdateWrite
    <3>. QED  BY <3>1, <1>1, <1>3 DEF Request
  <2>. QED  BY <2>1, <2>2
<1>4. ASSUME NEW r \in Editor, RemoveWrite(r) \/ CreateCheckPath(r) \/ UpdateCheckParent(r)
                               \/ UpdateWalk(r) \/ UpdateCheckPath(r)
      PROVE Goal
  <2>1. Done(r) \/ dirtyMove' = dirtyMove
    BY <1>4 DEF RemoveWrite, CreateCheckPath, UpdateCheckParent, UpdateWalk, UpdateCheckPath,
                dirtyVars
  <2>. QED  BY <2>1, <1>1 DEF Request
<1>5. ASSUME NEW r \in Request, Abort(r) PROVE Goal
  BY <1>5, <1>1 DEF Abort
<1>6. CASE UNCHANGED dirtyVars  BY <1>6 DEF dirtyVars
<1>7. Goal
  <2>. HIDE DEF Goal
  <2>1. UNCHANGED dirtyVars => Goal  BY <1>6 DEF Goal
  <2>. QED
    BY <1>2, <1>3, <1>4, <1>5, <2>1
       DEF Next, CreateCheckParent, UpdateFind, RemoveFind, CreateButtons, ButtonWrite, ListGet,
           ListRead, ListFill, ListClear, ListLapse, vars
<1>. QED  BY <1>7

\* While moves stay apart, none comes too late.
LEMMA UnmarkedPreserved ==
  ASSUME TypeOK, JobInv, Unmarked, MovesApart, [Next]_vars
  PROVE  Unmarked'
<1>1. dirtyMove' = {}
  <2>1. ASSUME NEW r \in Editor, UpdateWrite(r), RowWritten(r, TRUE) PROVE dirtyMove' = {}
    <3>1. r \in Walking  BY <2>1 DEF UpdateWrite, Walking, Request
    <3>2. Walking \ {r} = {}  BY <3>1 DEF MovesApart
    <3>. QED  BY <2>1, <3>2 DEF RowWritten, Unmarked
  <2>. QED  BY <2>1, MarkSteps DEF Unmarked
<1>2. lateMove' = {}
  <2>1. lateMove' \subseteq lateMove  BY TableSteps DEF Unmarked
  <2>. QED  BY <2>1 DEF Unmarked
<1>. QED  BY <1>1, <1>2 DEF Unmarked

\* MenuService.update keeps the menus a forest, and the tree shows every menu a search
\* finds, as long as no two moves overlap: the check of lines 221-247 needs nothing but
\* to be alone with its write.  For any number of menus and requests.
THEOREM MovesApartKeepTheForest ==
  Spec /\ []MovesApart
    => [](/\ \A S \in SUBSET menus : ~Cyclic(S)
          /\ \A S \in Found : Shown(S) = S)
<1>. DEFINE Inv == TypeOK /\ JobInv /\ Unmarked
            Forest == /\ \A S \in SUBSET menus : ~Cyclic(S)
                      /\ \A S \in Found : Shown(S) = S
<1>1. Init => Inv
  BY InitType DEF Init, Unmarked
<1>2. Inv /\ MovesApart /\ [Next]_vars => Inv'
  BY TypePreserved, JobPreserved, UnmarkedPreserved
<1>3. Unmarked /\ CyclesComeLate /\ FoundIsShown => Forest
  <2>1. SUFFICES ASSUME Unmarked, CyclesComeLate, FoundIsShown PROVE Forest
    OBVIOUS
  <2>2. \A S \in SUBSET menus : ~Cyclic(S)  BY <2>1 DEF Unmarked, CyclesComeLate
  <2>3. ASSUME NEW S \in Found PROVE Shown(S) = S
    <3>1. S \ Shown(S) = {}  BY <2>1 DEF Unmarked, FoundIsShown
    <3>2. Shown(S) \subseteq S  BY DEF Shown
    <3>. QED  BY <3>1, <3>2
  <2>. QED  BY <2>2, <2>3
<1>. HIDE DEF Forest
<1>4. Spec /\ []MovesApart => []Unmarked
  BY <1>1, <1>2, PTL DEF Spec
<1>5. Spec /\ []MovesApart => []Forest
  BY <1>3, <1>4, OnlyLateMovesCycle, SearchesShowAll, PTL
<1>. QED  BY <1>5 DEF Forest

-----------------------------------------------------------------------------
\* The steps of the list store as they look in a request for menus.
ListPc == [r \in Request |-> ListStep(pc[r])]

\* The steps in which a request has to do with the list.
AtList == {"create_buttons", "read", "fill", "clear"}

\* A request that moves between steps of its own leaves the list store as it is.
LEMMA PcQuiet ==
  ASSUME TypeOK, NEW r \in Request, NEW s,
         pc[r] \notin AtList, s \notin AtList,
         pc' = [pc EXCEPT ![r] = s]
  PROVE  ListPc' = ListPc
BY DEF ListPc, ListStep, AtList, TypeOK

\* A request that takes or leaves a step of the list store moves there too.
LEMMA PcMoved ==
  ASSUME TypeOK, NEW r \in Request, NEW s \in Step, pc' = [pc EXCEPT ![r] = s]
  PROVE  ListPc' = [ListPc EXCEPT ![r] = ListStep(s)]
BY DEF ListPc, TypeOK

\* A step that writes the table is a Write of the list store.
LEMMA WrittenIsWrite ==
  ASSUME TypeOK, NEW r \in Request, Wrote(r), pc[r] \notin {"read", "fill"}
  PROVE  List!Write(r)
<1>0. PICK s \in {"create_buttons", "clear"}, n \in 0..MaxMenu : Written(r, s, n)
  BY DEF Wrote
<1>1. pc' = [pc EXCEPT ![r] = s] /\ s \in Step  BY <1>0 DEF Written, Drop, Goto, Step
<1>2. ListPc' = [ListPc EXCEPT ![r] = "clear"]  BY <1>1, PcMoved DEF ListStep
<1>3. ListPc[r] \in {"idle", "clear"}  BY DEF ListPc, ListStep
<1>4. /\ cache' = List!Overtaken(cache) /\ lateList' = lateList
      /\ snap' = [q \in Request |-> List!Overtaken(snap[q])]
  BY <1>0 DEF Written, Overtaken, List!Overtaken
<1>. QED  BY <1>2, <1>3, <1>4 DEF List!Write, ListPc

\* A request that ends before it wrote leaves the list store alone.
LEMMA QuietIsStutter ==
  ASSUME TypeOK, NEW r \in Request, UNCHANGED listVars, NEW s,
         pc[r] \notin AtList, s \notin AtList,
         pc' = [pc EXCEPT ![r] = s] \/ pc' = pc
  PROVE  UNCHANGED List!vars
<1>1. ListPc' = ListPc
  <2>1. CASE pc' = pc  BY <2>1 DEF ListPc
  <2>2. CASE pc' = [pc EXCEPT ![r] = s]  BY <2>2, PcQuiet
  <2>. QED  BY <2>1, <2>2
<1>. QED  BY <1>1 DEF List!vars, ListPc, listVars

\* The shape of the list store's variables survives its steps.
LEMMA ListTypePreserved == List!TypeOK /\ [List!Next]_(List!vars) => List!TypeOK'
<1>. SUFFICES ASSUME List!TypeOK, List!Next \/ UNCHANGED List!vars PROVE List!TypeOK'
  OBVIOUS
<1>. USE DEF List!TypeOK, List!List, List!Step
<1>1. ASSUME NEW r \in Request, List!Get(r) PROVE List!TypeOK'    BY <1>1 DEF List!Get
<1>2. ASSUME NEW r \in Request, List!Read(r) PROVE List!TypeOK'   BY <1>2 DEF List!Read
<1>3. ASSUME NEW r \in Request, List!Fill(r) PROVE List!TypeOK'   BY <1>3 DEF List!Fill
<1>4. ASSUME NEW r \in Request, List!Write(r) PROVE List!TypeOK'
  BY <1>4 DEF List!Write, List!Overtaken
<1>5. ASSUME NEW r \in Request, List!Clear(r) PROVE List!TypeOK'  BY <1>5 DEF List!Clear
<1>6. ASSUME NEW r \in Request, List!Abort(r) PROVE List!TypeOK'  BY <1>6 DEF List!Abort
<1>7. CASE List!Lapse           BY <1>7 DEF List!Lapse
<1>8. CASE UNCHANGED List!vars  BY <1>8 DEF List!vars
<1>. QED  BY <1>1, <1>2, <1>3, <1>4, <1>5, <1>6, <1>7, <1>8 DEF List!Next

\* Every step of the menus is a step of ListStore or leaves its variables alone.
LEMMA ListSteps == TypeOK /\ List!TypeOK /\ [Next]_vars => [List!Next]_(List!vars)
<1>. SUFFICES ASSUME TypeOK, List!TypeOK, [Next]_vars PROVE List!Next \/ UNCHANGED List!vars
  OBVIOUS
<1>. DEFINE Goal == List!Next \/ UNCHANGED List!vars
<1>. \A r \in Editor : r \in Request  BY DEF Request
<1>. \A r \in Reader : r \in Request  BY DEF Request
<1>. HIDE DEF Goal
<1>0. ASSUME NEW r \in Request, NEW s \in Step \ AtList,
             UNCHANGED listVars, pc[r] \notin AtList,
             pc' = [pc EXCEPT ![r] = s]
      PROVE Goal
  BY <1>0, QuietIsStutter DEF Goal
<1>1. ASSUME NEW r \in Request, Done(r), UNCHANGED listVars, pc[r] \notin AtList
      PROVE Goal
  <2>1. pc' = [pc EXCEPT ![r] = "idle"]  BY <1>1 DEF Done, Drop, Goto
  <2>. QED  BY <2>1, <1>1, <1>0 DEF Step, AtList
<1>2. ASSUME NEW r \in Request, Wrote(r), pc[r] \notin {"read", "fill"} PROVE Goal
  BY <1>2, WrittenIsWrite DEF List!Next, Goal
<1>3. ASSUME NEW r \in Editor, NEW p \in Parents, NEW x \in Path, CreateCheckParent(r, p, x)
      PROVE Goal
  BY <1>3, <1>0 DEF CreateCheckParent, Goto, Step, AtList
<1>4. ASSUME NEW r \in Editor, CreateCheckPath(r) PROVE Goal
  <2>1. r \in Request /\ pc[r] = "create_path" /\ UNCHANGED listVars
    BY <1>4 DEF CreateCheckPath
  <2>2. Done(r) \/ pc' = [pc EXCEPT ![r] = "create_write"]  BY <1>4 DEF CreateCheckPath, Goto
  <2>. QED  BY <2>1, <2>2, <1>0, <1>1 DEF Step, AtList
<1>5. ASSUME NEW r \in Editor,
             CreateWrite(r) \/ CreateButtons(r) \/ UpdateWrite(r) \/ RemoveWrite(r) \/ ButtonWrite(r)
      PROVE Goal
  <2>1. pc[r] \in {"create_write", "create_buttons", "update_write", "remove_write", "idle"}
    BY <1>5 DEF CreateWrite, CreateButtons, UpdateWrite, RemoveWrite, ButtonWrite
  <2>2. CASE Wrote(r)  BY <2>1, <2>2, <1>2
  <2>3. CASE Done(r) /\ UNCHANGED listVars /\ pc[r] # "create_buttons"
    BY <2>1, <2>3, <1>1 DEF AtList
  <2>4. CreateButtons(r) => Wrote(r)  BY WritersWrite
  <2>5. ~CreateButtons(r) => pc[r] # "create_buttons"
    BY <1>5 DEF CreateWrite, UpdateWrite, RemoveWrite, ButtonWrite
  <2>. QED  BY <1>5, <2>2, <2>3, <2>4, <2>5, WritersWrite
<1>6. ASSUME NEW r \in Editor, NEW n \in Menu, NEW p \in Parents \cup {Keep},
             NEW x \in Path \cup {"keep"}, UpdateFind(r, n, p, x)
      PROVE Goal
  <2>1. r \in Request /\ pc[r] = "idle" /\ UNCHANGED listVars  BY <1>6 DEF UpdateFind
  <2>2. PICK s \in {"update_write", "update_path", "update_parent"} :
          pc' = [pc EXCEPT ![r] = s]
    BY <1>6 DEF UpdateFind, PathStep, Goto
  <2>. QED  BY <2>1, <2>2, <1>0 DEF Step, AtList
<1>7. ASSUME NEW r \in Editor, UpdateCheckParent(r) PROVE Goal
  <2>1. r \in Request /\ pc[r] = "update_parent" /\ UNCHANGED listVars
    BY <1>7 DEF UpdateCheckParent
  <2>2. Done(r) \/ pc' = [pc EXCEPT ![r] = "update_walk"]  BY <1>7 DEF UpdateCheckParent, Goto
  <2>. QED  BY <2>1, <2>2, <1>0, <1>1 DEF Step, AtList
<1>8. ASSUME NEW r \in Editor, UpdateWalk(r) PROVE Goal
  <2>1. UNCHANGED listVars /\ pc[r] = "update_walk"  BY <1>8 DEF UpdateWalk
  <2>2. \/ Done(r) \/ pc' = pc \/ pc' = [pc EXCEPT ![r] = "update_write"]
        \/ pc' = [pc EXCEPT ![r] = "update_path"]
    BY <1>8 DEF UpdateWalk, Goto, PathStep
  <2>3. CASE pc' = pc  BY <2>1, <2>3 DEF Goal, List!vars, listVars
  <2>. QED  BY <2>1, <2>2, <2>3, <1>0, <1>1 DEF Step, AtList
<1>9. ASSUME NEW r \in Editor, UpdateCheckPath(r) PROVE Goal
  <2>1. r \in Request /\ pc[r] = "update_path" /\ UNCHANGED listVars
    BY <1>9 DEF UpdateCheckPath
  <2>2. Done(r) \/ pc' = [pc EXCEPT ![r] = "update_write"]  BY <1>9 DEF UpdateCheckPath, Goto
  <2>. QED  BY <2>1, <2>2, <1>0, <1>1 DEF Step, AtList
<1>10. ASSUME NEW r \in Editor, NEW n \in Menu, RemoveFind(r, n) PROVE Goal
  BY <1>10, <1>0 DEF RemoveFind, Goto, Step, AtList
<1>11. ASSUME NEW r \in Request, ListGet(r) PROVE Goal
  <2>1. ListPc[r] = "idle"  BY <1>11 DEF ListPc, ListStep, ListGet
  <2>2. ListPc' = [ListPc EXCEPT ![r] = "read"]  BY <1>11, PcMoved DEF ListGet, Goto, Step, ListStep
  <2>3. List!Get(r)  BY <1>11, <2>1, <2>2 DEF ListGet, List!Get, ListPc, listVars
  <2>. QED  BY <2>3 DEF List!Next, Goal
<1>12. ASSUME NEW r \in Request, ListRead(r) PROVE Goal
  <2>1. ListPc[r] = "read"  BY <1>12 DEF ListPc, ListStep, ListRead
  <2>2. ListPc' = [ListPc EXCEPT ![r] = "fill"]  BY <1>12, PcMoved DEF ListRead, Goto, Step, ListStep
  <2>3. List!Read(r)  BY <1>12, <2>1, <2>2 DEF ListRead, List!Read, ListPc
  <2>. QED  BY <2>3 DEF List!Next, Goal
<1>13. ASSUME NEW r \in Request, ListFill(r) PROVE Goal
  <2>1. ListPc[r] = "fill"  BY <1>13 DEF ListPc, ListStep, ListFill
  <2>2. ListPc' = [ListPc EXCEPT ![r] = "idle"]  BY <1>13, PcMoved DEF ListFill, Goto, Step, ListStep
  <2>3. List!Fill(r)  BY <1>13, <2>1, <2>2 DEF ListFill, List!Fill, ListPc
  <2>. QED  BY <2>3 DEF List!Next, Goal
<1>14. ASSUME NEW r \in Request, ListClear(r) PROVE Goal
  <2>1. ListPc[r] = "clear"  BY <1>14 DEF ListPc, ListStep, ListClear
  <2>2. ListPc' = [ListPc EXCEPT ![r] = "idle"]  BY <1>14, PcMoved DEF ListClear, Goto, Step, ListStep
  <2>3. List!Clear(r)  BY <1>14, <2>1, <2>2 DEF ListClear, List!Clear, ListPc
  <2>. QED  BY <2>3 DEF List!Next, Goal
<1>15. ASSUME NEW r \in Request, Abort(r) PROVE Goal
  <2>1. pc' = [pc EXCEPT ![r] = "idle"]  BY <1>15 DEF Abort, Done, Drop, Goto
  <2>2. CASE pc[r] \in AtList
    <3>1. ListPc[r] = ListStep(pc[r]) /\ ListPc[r] # "idle"  BY <2>2 DEF ListPc, ListStep, AtList
    <3>2. ListPc' = [ListPc EXCEPT ![r] = "idle"]  BY <2>1, PcMoved DEF Step, ListStep
    <3>3. ListPc[r] = "clear" <=> pc[r] \in {"create_buttons", "clear"}
      BY <2>2 DEF ListPc, ListStep, AtList
    <3>4. List!Abort(r)  BY <1>15, <3>1, <3>2, <3>3 DEF Abort, List!Abort, ListPc
    <3>. QED  BY <3>4 DEF List!Next, Goal
  <2>3. CASE pc[r] \notin AtList
    <3>1. snap[r] = "none"  BY <2>3 DEF List!TypeOK, ListStep, AtList
    <3>2. cache' = cache  BY <1>15 DEF Abort
    <3>3. snap' = snap  BY <1>15, <3>1 DEF Abort, TypeOK
    <3>4. lateList' = lateList  BY <1>15, <2>3 DEF Abort, TypeOK, AtList
    <3>5. UNCHANGED listVars  BY <3>2, <3>3, <3>4 DEF listVars
    <3>. QED  BY <2>1, <2>3, <3>5, <1>0 DEF Step, AtList
  <2>. QED  BY <2>2, <2>3
<1>16. ASSUME ListLapse PROVE Goal
  BY <1>16 DEF ListLapse, List!Lapse, List!Next, ListPc, Goal
<1>17. ASSUME UNCHANGED vars PROVE Goal
  BY <1>17 DEF vars, listVars, List!vars, Goal
<1>18. Goal
  BY <1>3, <1>4, <1>5, <1>6, <1>7, <1>8, <1>9, <1>10, <1>11, <1>12, <1>13, <1>14, <1>15,
     <1>16, <1>17 DEF Next
<1>. QED  BY <1>18 DEF Goal

\* MenuService and MenuStoreService keep the list of menus as ListStore says.
THEOREM ListRefined == Spec => ImplementsListStore
<1>1. Init => List!Init /\ List!TypeOK
  BY DEF Init, ListStep, List!Init, List!TypeOK, List!List, List!Step
<1>2. TypeOK /\ List!TypeOK /\ [Next]_vars => [List!Next]_(List!vars)
  BY ListSteps
<1>3. TypeOK /\ List!TypeOK /\ [Next]_vars => List!TypeOK'
  BY <1>2, ListTypePreserved
<1>. QED  BY <1>1, <1>2, <1>3, TypeCorrect, PTL DEF Spec, List!Spec, ImplementsListStore

\* The theorems of ListStoreProofs, read for the list of menus.
Store == INSTANCE ListStoreProofs WITH
           late <- lateList, pc <- [r \in Request |-> ListStep(pc[r])]

\* So the list of menus in Redis is the table as it is, unless a writer of menus is about
\* to clear it, or between its two writes, a reader stored it after a write it had not
\* seen, or a writer ended before its clear: what is proved of ListStore holds of
\* MenuService and MenuStoreService.
THEOREM MenuListIsExplained == Spec => [](cache = "stale" /\ ~lateList
                                 => \E r \in Request : pc[r] \in {"create_buttons", "clear"})
<1>1. List!Init => Store!Init
  BY DEF List!Init, Store!Init
<1>2. [List!Next]_(List!vars) => [Store!Next]_(Store!vars)
  BY DEF List!Next, Store!Next, List!vars, Store!vars, List!Get, Store!Get, List!Read, Store!Read,
         List!Fill, Store!Fill, List!Write, Store!Write, List!Clear, Store!Clear, List!Abort,
         Store!Abort, List!Lapse, Store!Lapse, List!Overtaken, Store!Overtaken
<1>3. List!Spec => Store!Spec
  BY <1>1, <1>2, PTL DEF List!Spec, Store!Spec
<1>4. Spec => []Store!StaleExplained
  BY <1>3, ListRefined, Store!StaleIsExplained, PTL DEF ImplementsListStore
<1>5. Store!StaleExplained => (cache = "stale" /\ ~lateList
                                 => \E r \in Request : pc[r] \in {"create_buttons", "clear"})
  <2>1. ASSUME NEW r \in Request, ListStep(pc[r]) = "clear"
        PROVE  pc[r] \in {"create_buttons", "clear"}
    BY <2>1 DEF ListStep
  <2>. QED  BY <2>1 DEF Store!StaleExplained
<1>. QED  BY <1>4, <1>5, PTL

-----------------------------------------------------------------------------
\* What a request that checked a path, or keeps its menu where it is, knows of the rows.
PathKnown(r) ==
  /\ pc[r] = "create_write" => ~PathTaken(to[r], newPath[r], 0)
  /\ pc[r] = "update_write" /\ to[r] # Root /\ newPath[r] # "keep"
       => ~PathTaken(CheckedParent(r), newPath[r], m[r])
  /\ /\ pc[r] \in {"update_parent", "update_walk", "update_path", "update_write"}
     /\ to[r] = Keep /\ m[r] \in menus
     => was[r] = parent[m[r]]

\* A request whose reads no other write has overtaken knows the truth.
PathInv == \A r \in Request : r \notin dirtyPath => PathKnown(r)

\* Rows are at most lost.
RowsKept ==
  menus' \subseteq menus /\ \A k \in menus' : parent'[k] = parent[k] /\ path'[k] = path[k]

\* A request that stays where it is knows what it knew.
LEMMA KnownStays ==
  ASSUME NEW q \in Request, PathKnown(q), RowsKept,
         pc'[q] = pc[q], to'[q] = to[q], newPath'[q] = newPath[q], m'[q] = m[q], was'[q] = was[q]
  PROVE  PathKnown(q)'
<1>1. pc'[q] = "create_write" => ~PathTaken(to[q], newPath[q], 0)'
  BY DEF PathKnown, PathTaken, RowsKept
<1>2. pc'[q] = "update_write" /\ to'[q] # Root /\ newPath'[q] # "keep"
        => ~PathTaken(CheckedParent(q), newPath[q], m[q])'
  <2>1. CheckedParent(q)' = CheckedParent(q)  BY DEF CheckedParent, Root, Keep
  <2>. QED  BY <2>1 DEF PathKnown, PathTaken, RowsKept, Root
<1>3. /\ pc'[q] \in {"update_parent", "update_walk", "update_path", "update_write"}
      /\ to'[q] = Keep /\ m'[q] \in menus'
      => was'[q] = parent'[m'[q]]
  BY DEF PathKnown, RowsKept, Keep
<1>. QED  BY <1>1, <1>2, <1>3 DEF PathKnown

\* A request that has nothing to write to a row knows nothing.
LEMMA KnownFree ==
  ASSUME NEW q \in Request,
         pc[q] \notin {"create_write", "update_parent", "update_walk", "update_path", "update_write"}
  PROVE  PathKnown(q)
BY DEF PathKnown

\* Drop leaves the other requests alone.
LEMMA DropOthers ==
  ASSUME TypeOK, NEW r \in Request, NEW s, NEW n, Drop(r, s, n)
  PROVE  /\ pc'[r] = s
         /\ \A q \in Request \ {r} :
              pc'[q] = pc[q] /\ to'[q] = to[q] /\ newPath'[q] = newPath[q]
              /\ m'[q] = m[q] /\ was'[q] = was[q]
BY DEF Drop, Goto, TypeOK

\* A step in which one request at most goes on, and no row is written, keeps what is
\* known, if that one knows what it should.
LEMMA PathQuiet ==
  ASSUME PathInv, RowsKept, NEW r \in Request,
         \A q \in Request \ {r} :
           pc'[q] = pc[q] /\ to'[q] = to[q] /\ newPath'[q] = newPath[q]
           /\ m'[q] = m[q] /\ was'[q] = was[q],
         dirtyPath \subseteq dirtyPath' \cup {r},
         r \notin dirtyPath' => PathKnown(r)'
  PROVE  PathInv'
<1>. SUFFICES ASSUME NEW q \in Request, q \notin dirtyPath' PROVE PathKnown(q)'
  BY DEF PathInv
<1>1. CASE q = r  BY <1>1
<1>2. CASE q # r
  <2>1. PathKnown(q)  BY <1>2 DEF PathInv
  <2>. QED  BY <1>2, <2>1, KnownStays
<1>. QED  BY <1>1, <1>2

\* A request that ends, with the rows unchanged or fewer, leaves the others as wise.
LEMMA PathDropped ==
  ASSUME TypeOK, PathInv, RowsKept, NEW r \in Request,
         NEW s \in {"idle", "create_buttons", "clear"}, NEW n, Drop(r, s, n),
         dirtyPath \subseteq dirtyPath' \cup {r}
  PROVE  PathInv'
<1>1. pc'[r] = s  BY DropOthers
<1>2. PathKnown(r)'  BY <1>1 DEF PathKnown
<1>. QED  BY <1>2, DropOthers, PathQuiet

\* A write of a row overtakes all who looked at the rows.
LEMMA PathOvertaken ==
  ASSUME TypeOK, PathInv, NEW r \in Request, NEW b \in BOOLEAN, Wrote(r), RowWritten(r, b)
  PROVE  PathInv'
<1>0. PICK s \in {"create_buttons", "clear"}, n \in 0..MaxMenu : Drop(r, s, n)
  BY WroteDrops
<1>. SUFFICES ASSUME NEW q \in Request, q \notin dirtyPath' PROVE PathKnown(q)'
  BY DEF PathInv
<1>1. CASE q = r
  BY <1>0, <1>1, DropOthers DEF PathKnown
<1>2. CASE q # r
  <2>1. q \notin Checking  BY <1>2 DEF RowWritten
  <2>2. pc'[q] = pc[q]  BY <1>0, <1>2, DropOthers
  <2>3. pc'[q] \notin {"create_write", "update_parent", "update_walk", "update_path",
                       "update_write"}
    BY <2>1, <2>2 DEF Checking, Walking
  <2>. QED  BY <2>3 DEF PathKnown
<1>. QED  BY <1>1, <1>2

\* A request no write has overtaken stays right about the paths it looked up.
LEMMA PathPreserved ==
  ASSUME TypeOK, JobInv, PathInv, [Next]_vars
  PROVE  PathInv'
<1>. DEFINE Others(r) == \A q \in Request \ {r} :
              pc'[q] = pc[q] /\ to'[q] = to[q] /\ newPath'[q] = newPath[q]
              /\ m'[q] = m[q] /\ was'[q] = was[q]
            Goal == PathInv'
<1>. \A r \in Editor : r \in Request  BY DEF Request
<1>. \A r \in Reader : r \in Request  BY DEF Request
<1>0. UNCHANGED tableVars => RowsKept  BY DEF tableVars, RowsKept
<1>q. ASSUME NEW r \in Request, Others(r), UNCHANGED tableVars, dirtyPath' = dirtyPath,
             r \notin dirtyPath => PathKnown(r)'
      PROVE  Goal
  BY <1>q, <1>0, PathQuiet
<1>d. ASSUME NEW r \in Request, Done(r), UNCHANGED tableVars PROVE Goal
  BY <1>d, <1>0, PathDropped DEF Done
<1>. HIDE DEF Goal
<1>1. ASSUME NEW r \in Editor, NEW p \in Parents, NEW x \in Path, CreateCheckParent(r, p, x)
      PROVE Goal
  <2>1. Others(r) /\ pc'[r] = "create_path"
    BY <1>1 DEF CreateCheckParent, Goto, TypeOK
  <2>2. PathKnown(r)'  BY <2>1 DEF PathKnown
  <2>. QED  BY <1>1, <2>1, <2>2, <1>q DEF CreateCheckParent, dirtyVars
<1>2. ASSUME NEW r \in Editor, CreateCheckPath(r) PROVE Goal
  <2>0. UNCHANGED tableVars  BY <1>2 DEF CreateCheckPath
  <2>1. CASE PathTaken(to[r], newPath[r], 0)
    BY <1>2, <2>0, <2>1, <1>d DEF CreateCheckPath
  <2>2. CASE ~PathTaken(to[r], newPath[r], 0)
    <3>1. Goto(r, "create_write") /\ UNCHANGED <<jobVars, dirtyVars>>
      BY <1>2, <2>2 DEF CreateCheckPath
    <3>2. Others(r) /\ pc'[r] = "create_write" /\ to' = to /\ newPath' = newPath /\ dirtyPath' = dirtyPath
      BY <3>1 DEF Goto, TypeOK, jobVars, dirtyVars
    <3>3. ~PathTaken(to[r], newPath[r], 0)'  BY <2>0, <2>2, <3>2 DEF PathTaken, tableVars
    <3>4. PathKnown(r)'  BY <3>2, <3>3 DEF PathKnown, PathTaken
    <3>. QED  BY <2>0, <3>2, <3>4, <1>q
  <2>. QED  BY <2>1, <2>2
<1>3. ASSUME NEW r \in Editor, CreateWrite(r) PROVE Goal
  <2>1. CASE Wrote(r) /\ RowWritten(r, FALSE)
    BY <2>1, PathOvertaken DEF Goal
  <2>2. CASE Done(r) /\ UNCHANGED tableVars
    BY <2>2, <1>d
  <2>. QED  BY <1>3, <2>1, <2>2, WritersWrite
<1>4. ASSUME NEW r \in Editor, NEW n \in Menu, NEW p \in Parents \cup {Keep},
             NEW x \in Path \cup {"keep"}, UpdateFind(r, n, p, x)
      PROVE Goal
  <2>1. /\ Others(r) /\ UNCHANGED tableVars /\ dirtyPath' = dirtyPath
        /\ m'[r] = n /\ was'[r] = parent[n] /\ newPath'[r] = x
        /\ pc'[r] = IF p \in {Root, Keep} THEN PathStep(x) ELSE "update_parent"
    BY <1>4 DEF UpdateFind, Goto, TypeOK, dirtyVars
  <2>2. pc'[r] = "update_write" => newPath'[r] = "keep"  BY <2>1 DEF PathStep
  <2>3. pc'[r] # "create_write"  BY <2>1 DEF PathStep
  <2>4. was'[r] = parent'[m'[r]]  BY <2>1 DEF tableVars
  <2>5. PathKnown(r)'  BY <2>2, <2>3, <2>4 DEF PathKnown
  <2>. QED  BY <2>1, <2>5, <1>q
<1>5. ASSUME NEW r \in Editor, UpdateCheckParent(r) PROVE Goal
  <2>0. UNCHANGED tableVars  BY <1>5 DEF UpdateCheckParent
  <2>1. CASE ~(to[r] \in menus /\ to[r] # m[r])
    BY <1>5, <2>0, <2>1, <1>d DEF UpdateCheckParent
  <2>2. CASE to[r] \in menus /\ to[r] # m[r]
    <3>1. /\ Others(r) /\ pc'[r] = "update_walk" /\ dirtyPath' = dirtyPath
          /\ UNCHANGED <<m, to, was>>
      BY <1>5, <2>2 DEF UpdateCheckParent, Goto, TypeOK, dirtyVars
    <3>2. to[r] # Keep  BY <2>2, Numbers DEF TypeOK
    <3>3. PathKnown(r)'  BY <3>1, <3>2 DEF PathKnown, Keep
    <3>. QED  BY <2>0, <3>1, <3>3, <1>q
  <2>. QED  BY <2>1, <2>2
<1>6. ASSUME NEW r \in Editor, UpdateWalk(r) PROVE Goal
  <2>0. UNCHANGED tableVars  BY <1>6 DEF UpdateWalk
  <2>1. CASE Done(r)  BY <2>0, <2>1, <1>d
  <2>2. CASE Goto(r, PathStep(newPath[r])) /\ UNCHANGED <<jobVars, dirtyVars>>
    <3>1. /\ Others(r) /\ pc'[r] = PathStep(newPath[r]) /\ dirtyPath' = dirtyPath
          /\ UNCHANGED <<m, to, was, newPath, menus, parent>>
      BY <2>0, <2>2 DEF Goto, TypeOK, jobVars, dirtyVars, tableVars
    <3>2. pc[r] = "update_walk"  BY <1>6 DEF UpdateWalk
    <3>3. ASSUME r \notin dirtyPath PROVE PathKnown(r)'
      <4>1. to[r] = Keep /\ m[r] \in menus => was[r] = parent[m[r]]
        BY <3>2, <3>3 DEF PathInv, PathKnown
      <4>2. pc'[r] = "update_write" => newPath'[r] = "keep"  BY <3>1 DEF PathStep
      <4>3. pc'[r] # "create_write"  BY <3>1 DEF PathStep
      <4>. QED  BY <3>1, <4>1, <4>2, <4>3 DEF PathKnown, Keep
    <3>. QED  BY <2>0, <3>1, <3>3, <1>q
  <2>3. CASE UNCHANGED <<pc, m, to, newPath, was, dirtyVars>>
    <3>1. Others(r) /\ dirtyPath' = dirtyPath  BY <2>3 DEF dirtyVars
    <3>2. r \notin dirtyPath => PathKnown(r)'
      BY <2>0, <2>3, <1>0, KnownStays DEF PathInv
    <3>. QED  BY <2>0, <3>1, <3>2, <1>q
  <2>. QED  BY <1>6, <2>1, <2>2, <2>3 DEF UpdateWalk
<1>7. ASSUME NEW r \in Editor, UpdateCheckPath(r) PROVE Goal
  <2>0. UNCHANGED tableVars  BY <1>7 DEF UpdateCheckPath
  <2>1. CASE PathTaken(CheckedParent(r), newPath[r], m[r])
    BY <1>7, <2>0, <2>1, <1>d DEF UpdateCheckPath
  <2>2. CASE ~PathTaken(CheckedParent(r), newPath[r], m[r])
    <3>1. Goto(r, "update_write") /\ UNCHANGED <<jobVars, dirtyVars>> /\ pc[r] = "update_path"
      BY <1>7, <2>2 DEF UpdateCheckPath
    <3>2. /\ Others(r) /\ pc'[r] = "update_write" /\ dirtyPath' = dirtyPath
          /\ UNCHANGED <<m, to, was, newPath, menus, parent, path>>
      BY <2>0, <3>1 DEF Goto, TypeOK, jobVars, dirtyVars, tableVars
    <3>3. ASSUME r \notin dirtyPath PROVE PathKnown(r)'
      <4>1. to[r] = Keep /\ m[r] \in menus => was[r] = parent[m[r]]
        BY <3>1, <3>3 DEF PathInv, PathKnown
      <4>2. ~PathTaken(CheckedParent(r), newPath[r], m[r])'
        BY <2>2, <3>2 DEF PathTaken, CheckedParent
      <4>. QED  BY <3>2, <4>1, <4>2 DEF PathKnown, Keep
    <3>. QED  BY <2>0, <3>2, <3>3, <1>q
  <2>. QED  BY <2>1, <2>2
<1>8. ASSUME NEW r \in Editor, UpdateWrite(r) PROVE Goal
  <2>1. CASE Wrote(r) /\ RowWritten(r, to[r] # Keep)
    BY <2>1, PathOvertaken DEF Goal
  <2>2. CASE Done(r) /\ UNCHANGED tableVars
    BY <2>2, <1>d
  <2>. QED  BY <1>8, <2>1, <2>2, WritersWrite
<1>9. ASSUME NEW r \in Editor, NEW n \in Menu, RemoveFind(r, n) PROVE Goal
  <2>1. Others(r) /\ UNCHANGED tableVars /\ dirtyPath' = dirtyPath /\ pc'[r] = "remove_write"
    BY <1>9 DEF RemoveFind, Goto, TypeOK, dirtyVars
  <2>2. PathKnown(r)'  BY <2>1 DEF PathKnown
  <2>. QED  BY <2>1, <2>2, <1>q
<1>10. ASSUME NEW r \in Editor, RemoveWrite(r) PROVE Goal
  <2>1. CASE m[r] \in menus /\ ~Restricted(m[r])
    <3>1. /\ menus' = menus \ {m[r]} /\ Written(r, "clear", 0) /\ dirtyPath' = dirtyPath
          /\ parent' = [parent EXCEPT ![m[r]] = Root] /\ path' = [path EXCEPT ![m[r]] = AnyPath]
      BY <1>10, <2>1 DEF RemoveWrite
    <3>2. RowsKept  BY <3>1 DEF RowsKept, TypeOK
    <3>. QED  BY <3>1, <3>2, PathDropped DEF Written, Goal
  <2>2. CASE ~(m[r] \in menus /\ ~Restricted(m[r]))
    BY <1>10, <2>2, <1>d DEF RemoveWrite
  <2>. QED  BY <2>1, <2>2
<1>11. ASSUME NEW r \in Editor, CreateButtons(r) \/ ButtonWrite(r) PROVE Goal
  BY <1>11, <1>0, PathDropped DEF CreateButtons, ButtonWrite, Written, dirtyVars, Goal
<1>12. ASSUME NEW r \in Request, ListGet(r) \/ ListRead(r) \/ ListFill(r) \/ ListClear(r) PROVE Goal
  <2>1. /\ Others(r) /\ UNCHANGED tableVars /\ dirtyPath' = dirtyPath
        /\ pc'[r] \in {"read", "fill", "idle"}
    BY <1>12 DEF ListGet, ListRead, ListFill, ListClear, Goto, TypeOK, jobVars, dirtyVars
  <2>2. PathKnown(r)'  BY <2>1 DEF PathKnown
  <2>. QED  BY <2>1, <2>2, <1>q
<1>13. ASSUME NEW r \in Request, Abort(r) PROVE Goal
  BY <1>13, <1>d DEF Abort
<1>14. ASSUME ListLapse \/ UNCHANGED vars PROVE Goal
  <2>1. UNCHANGED <<pc, jobVars, tableVars, dirtyVars>>  BY <1>14 DEF ListLapse, vars
  <2>2. RowsKept  BY <2>1, <1>0
  <2>3. ASSUME NEW q \in Request, q \notin dirtyPath' PROVE PathKnown(q)'
    <3>1. PathKnown(q)  BY <2>1, <2>3 DEF PathInv, dirtyVars
    <3>. QED  BY <2>1, <2>2, <3>1, KnownStays DEF jobVars
  <2>. QED  BY <2>3 DEF PathInv, Goal
<1>15. Goal
  BY <1>1, <1>2, <1>3, <1>4, <1>5, <1>6, <1>7, <1>8, <1>9, <1>10, <1>11, <1>12, <1>13, <1>14 DEF Next
<1>. QED  BY <1>15 DEF Goal

\* Only the write of a request takes it from there to its buttons or to the clearing of
\* the list.
LEMMA OnlyWritesWrite ==
  ASSUME TypeOK, Next, NEW r \in Request,
         pc[r] \in {"create_write", "update_write"}, pc'[r] \in {"create_buttons", "clear"}
  PROVE  \/ pc[r] = "create_write" /\ CreateWrite(r)
         \/ pc[r] = "update_write" /\ UpdateWrite(r)
<1>. DEFINE Goal == \/ pc[r] = "create_write" /\ CreateWrite(r)
                    \/ pc[r] = "update_write" /\ UpdateWrite(r)
            Moves(q) == \E s \in Step : pc' = [pc EXCEPT ![q] = s]
<1>0. ASSUME NEW q \in Request, Moves(q) PROVE q = r
  BY <1>0 DEF TypeOK
<1>. \A q \in Editor : q \in Request  BY DEF Request
<1>. \A q \in Reader : q \in Request  BY DEF Request
<1>1. ASSUME NEW q \in Editor, NEW p \in Parents, NEW x \in Path, CreateCheckParent(q, p, x)
      PROVE Goal
  BY <1>1, <1>0 DEF CreateCheckParent, Goto, TypeOK, Step
<1>2. ASSUME NEW q \in Editor, CreateWrite(q) PROVE Goal
  <2>1. pc[q] = "create_write" /\ Moves(q)
    BY <1>2 DEF CreateWrite, Written, Done, Drop, Goto, Step
  <2>. QED  BY <1>2, <2>1, <1>0
<1>3. ASSUME NEW q \in Editor, UpdateWrite(q) PROVE Goal
  <2>1. pc[q] = "update_write" /\ Moves(q)
    BY <1>3 DEF UpdateWrite, Written, Done, Drop, Goto, Step
  <2>. QED  BY <1>3, <2>1, <1>0
<1>4. ASSUME NEW q \in Editor,
             CreateCheckPath(q) \/ UpdateCheckParent(q) \/ UpdateWalk(q) \/ UpdateCheckPath(q)
             \/ RemoveWrite(q) \/ CreateButtons(q) \/ ButtonWrite(q)
      PROVE Goal
  <2>1. pc[q] \notin {"create_write", "update_write"}
    BY <1>4 DEF CreateCheckPath, UpdateCheckParent, UpdateWalk, UpdateCheckPath, RemoveWrite,
                CreateButtons, ButtonWrite
  <2>2. Moves(q) \/ pc' = pc
    BY <1>4 DEF CreateCheckPath, UpdateCheckParent, UpdateWalk, UpdateCheckPath, RemoveWrite,
                CreateButtons, ButtonWrite, PathStep, Written, Done, Drop, Goto, Step
  <2>. QED  BY <2>1, <2>2, <1>0
<1>5. ASSUME NEW q \in Editor, NEW n \in Menu, NEW p \in Parents \cup {Keep},
             NEW x \in Path \cup {"keep"}, UpdateFind(q, n, p, x)
      PROVE Goal
  BY <1>5, <1>0 DEF UpdateFind, PathStep, Goto, Step
<1>6. ASSUME NEW q \in Editor, NEW n \in Menu, RemoveFind(q, n) PROVE Goal
  BY <1>6, <1>0 DEF RemoveFind, Goto, Step
<1>7. ASSUME NEW q \in Request, ListGet(q) \/ ListRead(q) \/ ListFill(q) \/ ListClear(q) PROVE Goal
  BY <1>7, <1>0 DEF ListGet, ListRead, ListFill, ListClear, Goto, Step
<1>8. ASSUME NEW q \in Request, Abort(q) PROVE Goal
  <2>1. pc' = [pc EXCEPT ![q] = "idle"]  BY <1>8 DEF Abort, Done, Drop, Goto
  <2>. QED  BY <2>1 DEF TypeOK
<1>9. ASSUME ListLapse PROVE Goal
  BY <1>9 DEF ListLapse
<1>. QED  BY <1>1, <1>2, <1>3, <1>4, <1>5, <1>6, <1>7, <1>8, <1>9 DEF Next

\* A path that was looked up in time is its row's own under its parent.
THEOREM WrittenPathsAreOwn == Spec => PathsChecked
<1>1. Init => TypeOK /\ JobInv /\ TableInv /\ PathInv
  BY InitType DEF Init, TableInv, ParentsExist, PathInv, PathKnown
<1>2. TypeOK /\ JobInv /\ TableInv /\ PathInv /\ [Next]_vars
        => (TypeOK /\ JobInv /\ TableInv /\ PathInv)'
  BY TypePreserved, JobPreserved, TablePreserved, PathPreserved
<1>3. ASSUME TypeOK, JobInv, TableInv, PathInv, [Next]_vars
      PROVE  [\A r \in Request :
                /\ pc[r] \in {"create_write", "update_write"}
                /\ pc'[r] \in {"create_buttons", "clear"}
                /\ newPath[r] # "keep" /\ r \notin dirtyPath
                /\ pc[r] = "update_write" => to[r] # Root
                => LET n == IF pc[r] = "create_write" THEN nextId ELSE m[r] IN
                   \A k \in menus' \ {n} : parent'[k] = parent'[n] => path'[k] # path'[n]]_vars
  <2>1. CASE UNCHANGED vars  BY <2>1
  <2>2. ASSUME Next, NEW r \in Request, pc[r] = "create_write",
               pc'[r] \in {"create_buttons", "clear"}, r \notin dirtyPath,
               NEW k \in menus' \ {nextId}, parent'[k] = parent'[nextId]
        PROVE  path'[k] # path'[nextId]
    <3>1. CreateWrite(r)  BY <1>3, <2>2, OnlyWritesWrite
    <3>2. to[r] \in menus \cup {Root}
      BY <3>1, <2>2, <1>3 DEF CreateWrite, Done, Drop, Goto, TypeOK
    <3>3. /\ menus' = menus \cup {nextId} /\ nextId \in Menu
          /\ parent' = [parent EXCEPT ![nextId] = to[r]]
          /\ path' = [path EXCEPT ![nextId] = newPath[r]]
      BY <1>3, <3>1, <3>2, Numbers DEF CreateWrite, TypeOK
    <3>4. ~PathTaken(to[r], newPath[r], 0)  BY <1>3, <2>2 DEF PathInv, PathKnown
    <3>5. k \in menus \ {0} /\ parent[k] = to[r]  BY <1>3, <2>2, <3>3, Numbers DEF TypeOK
    <3>6. path[k] # newPath[r]  BY <3>4, <3>5 DEF PathTaken
    <3>. QED  BY <1>3, <2>2, <3>3, <3>5, <3>6 DEF TypeOK
  <2>3. ASSUME Next, NEW r \in Request, pc[r] = "update_write",
               pc'[r] \in {"create_buttons", "clear"}, newPath[r] # "keep", r \notin dirtyPath, to[r] # Root,
               NEW k \in menus' \ {m[r]}, parent'[k] = parent'[m[r]]
        PROVE  path'[k] # path'[m[r]]
    <3>1. UpdateWrite(r)  BY <1>3, <2>3, OnlyWritesWrite
    <3>2. m[r] \in menus /\ to[r] \in menus \cup {Root, Keep}
      BY <3>1, <2>3, <1>3 DEF UpdateWrite, Done, Drop, Goto, TypeOK
    <3>3. /\ menus' = menus
          /\ parent' = IF to[r] = Keep THEN parent ELSE [parent EXCEPT ![m[r]] = to[r]]
          /\ path' = [path EXCEPT ![m[r]] = newPath[r]]
      BY <2>3, <3>1, <3>2 DEF UpdateWrite
    <3>4. ~PathTaken(CheckedParent(r), newPath[r], m[r])  BY <1>3, <2>3 DEF PathInv, PathKnown
    <3>5. to[r] = Keep => was[r] = parent[m[r]]  BY <1>3, <2>3, <3>2 DEF PathInv, PathKnown
    <3>6. parent'[m[r]] = CheckedParent(r)
      BY <1>3, <2>3, <3>2, <3>3, <3>5 DEF CheckedParent, TypeOK
    <3>7. k \in menus \ {m[r]} /\ parent[k] = CheckedParent(r)
      BY <1>3, <2>3, <3>2, <3>3, <3>6 DEF TypeOK
    <3>8. path[k] # newPath[r]  BY <3>4, <3>7 DEF PathTaken
    <3>. QED  BY <1>3, <2>3, <3>2, <3>3, <3>7, <3>8 DEF TypeOK
  <2>. QED  BY <1>3, <2>1, <2>2, <2>3
<1>. QED  BY <1>1, <1>2, <1>3, PTL DEF Spec, PathsChecked
-----------------------------------------------------------------------------
\* No two requests look at rows and write one at the same time.
WritersApart == \A a, b \in Checking : a = b

\* Only a write marks requests that look at paths, and never the writer.
LEMMA PathMarkSteps ==
  ASSUME TypeOK, [Next]_vars
  PROVE  \/ dirtyPath' \subseteq dirtyPath
         \/ \E r \in Checking : dirtyPath' = (dirtyPath \cup Checking) \ {r}
<1>. DEFINE Goal == \/ dirtyPath' \subseteq dirtyPath
                    \/ \E r \in Checking : dirtyPath' = (dirtyPath \cup Checking) \ {r}
<1>1. ASSUME NEW r \in Request, Done(r) PROVE Goal
  BY <1>1 DEF Done
<1>2. ASSUME NEW r \in Editor, CreateWrite(r) PROVE Goal
  <2>1. r \in Request /\ r \in Checking  BY <1>2 DEF CreateWrite, Checking, Request
  <2>. QED  BY <2>1, <1>2, <1>1 DEF CreateWrite, RowWritten
<1>3. ASSUME NEW r \in Editor, UpdateWrite(r) PROVE Goal
  <2>1. r \in Request /\ r \in Checking  BY <1>3 DEF UpdateWrite, Checking, Walking, Request
  <2>. QED  BY <2>1, <1>3, <1>1 DEF UpdateWrite, RowWritten
<1>4. ASSUME NEW r \in Editor, RemoveWrite(r) \/ CreateCheckPath(r) \/ UpdateCheckParent(r)
                               \/ UpdateWalk(r) \/ UpdateCheckPath(r)
      PROVE Goal
  <2>1. Done(r) \/ dirtyPath' = dirtyPath
    BY <1>4 DEF RemoveWrite, CreateCheckPath, UpdateCheckParent, UpdateWalk, UpdateCheckPath,
                dirtyVars
  <2>. QED  BY <2>1, <1>1 DEF Request
<1>5. ASSUME NEW r \in Request, Abort(r) PROVE Goal
  BY <1>5, <1>1 DEF Abort
<1>6. UNCHANGED dirtyVars => Goal  BY DEF dirtyVars
<1>7. Goal
  <2>. HIDE DEF Goal
  <2>. QED
    BY <1>2, <1>3, <1>4, <1>5, <1>6
       DEF Next, CreateCheckParent, UpdateFind, RemoveFind, CreateButtons, ButtonWrite, ListGet,
           ListRead, ListFill, ListClear, ListLapse, vars
<1>. QED  BY <1>7

\* What the comment of menu.service.ts:254 says holds of every create and update but
\* those that move a menu to the top level, when no two of them overlap: moves to the
\* top level are the one cause of the disagreement found with a single request.
THEOREM PathsOwnWhenApart ==
  Spec /\ []WritersApart
    => [][\A r \in Request :
            /\ pc[r] \in {"create_write", "update_write"}
            /\ pc'[r] \in {"create_buttons", "clear"}
            /\ newPath[r] # "keep"
            /\ pc[r] = "update_write" => to[r] # Root
            => LET n == IF pc[r] = "create_write" THEN nextId ELSE m[r] IN
               \A k \in menus' \ {n} : parent'[k] = parent'[n] => path'[k] # path'[n]]_vars
<1>. DEFINE Own(r) ==
              LET n == IF pc[r] = "create_write" THEN nextId ELSE m[r] IN
              \A k \in menus' \ {n} : parent'[k] = parent'[n] => path'[k] # path'[n]
            Writes(r) == /\ pc[r] \in {"create_write", "update_write"}
                         /\ pc'[r] \in {"create_buttons", "clear"}
                         /\ newPath[r] # "keep"
                         /\ pc[r] = "update_write" => to[r] # Root
            Inv == TypeOK /\ JobInv /\ dirtyPath = {}
<1>1. Init => Inv  BY InitType DEF Init
<1>2. Inv /\ WritersApart /\ [Next]_vars => Inv'
  <2>1. ASSUME Inv, WritersApart, [Next]_vars PROVE dirtyPath' = {}
    <3>1. ASSUME NEW r \in Checking, dirtyPath' = (dirtyPath \cup Checking) \ {r}
          PROVE  dirtyPath' = {}
      BY <2>1, <3>1 DEF WritersApart
    <3>. QED  BY <2>1, <3>1, PathMarkSteps
  <2>. QED  BY <2>1, TypePreserved, JobPreserved
<1>3. /\ dirtyPath = {}
      /\ [\A r \in Request : Writes(r) /\ r \notin dirtyPath => Own(r)]_vars
      => [\A r \in Request : Writes(r) => Own(r)]_vars
  OBVIOUS
<1>4. PathsChecked <=> [][\A r \in Request : Writes(r) /\ r \notin dirtyPath => Own(r)]_vars
  <2>1. [\A r \in Request :
           /\ pc[r] \in {"create_write", "update_write"}
           /\ pc'[r] \in {"create_buttons", "clear"}
           /\ newPath[r] # "keep" /\ r \notin dirtyPath
           /\ pc[r] = "update_write" => to[r] # Root
           => LET n == IF pc[r] = "create_write" THEN nextId ELSE m[r] IN
              \A k \in menus' \ {n} : parent'[k] = parent'[n] => path'[k] # path'[n]]_vars
        <=> [\A r \in Request : Writes(r) /\ r \notin dirtyPath => Own(r)]_vars
    BY Zenon
  <2>. QED  BY <2>1, PTL DEF PathsChecked
<1>. HIDE DEF Own, Writes
<1>5. Spec /\ []WritersApart => [][\A r \in Request : Writes(r) => Own(r)]_vars
  BY <1>1, <1>2, <1>3, <1>4, WrittenPathsAreOwn, PTL DEF Spec
<1>. QED  BY <1>5 DEF Own, Writes
=============================================================================
