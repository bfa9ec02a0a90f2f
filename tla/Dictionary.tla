------------------------------ MODULE Dictionary ------------------------------
(***************************************************************************)
(* The dicts table, in which each row repeats the name and status of its   *)
(* type, kept by DictService, and the cached list of it (module ListStore) *)
(* that DictStoreService serves.  An action is the code between two        *)
(* awaits; a request fails at one with Abort, as all do in a restart.      *)
(*                                                                         *)
(* Abstractions.  Value, sort order and label of a row are left out: the   *)
(* look-ups of the two unique keys and the keys themselves can only make a *)
(* request fail, which Abort allows anywhere.  A request that is refused   *)
(* before its first write has no effect and ends.  An updateMany that      *)
(* matches no row is taken for a write of the table.                       *)
(***************************************************************************)
EXTENDS Naturals

CONSTANTS
  Editor,     \* requests of administrators in flight at one time
  Reader,     \* requests for the list in flight at one time
  MaxDict,    \* bound: rows ever created
  Type,       \* type codes
  TypeName,   \* names of types
  Status,     \* "1" enabled, "2" disabled
  Default     \* isDefault as requests give it: "yes", "no"

ASSUME DictionaryConstants ==
  /\ MaxDict \in Nat
  /\ "1" \in Status
  /\ Default \subseteq {"yes", "no"}
  /\ {"keep", "none"} \cap (Type \cup TypeName \cup Status) = {}

Request == Editor \cup Reader
Dict == 1..MaxDict

VARIABLES
  dicts,      \* ids of the rows
  type, name, status, default,   \* typeCode, typeName, typeStatus, isDefault; "none" of no row
  nextId,     \* the table's AUTO_INCREMENT
  pc,         \* where each request stands
  d,          \* the row it works on
  old,        \* the type it works in, "none" once it is done with it
  newType, newName, newStatus, newDefault,   \* what it writes, "keep" for nothing
  cache, snap, lateList,   \* the list store: cache, snap and late of ListStore
  overtaken,  \* history: requests since whose first query the table was written
  loose,      \* history: rows made default by an overtaken request or moved as default
  odd         \* history: rows renamed or moved one by one, or written by an overtaken request

tableVars == <<dicts, type, name, status, default, nextId>>
jobVars   == <<d, old, newType, newName, newStatus, newDefault>>
listVars  == <<cache, snap, lateList>>
historyVars == <<overtaken, loose, odd>>
vars == <<tableVars, pc, jobVars, listVars, historyVars>>

Step == {"idle", "create_name", "create_defaults", "create_status", "create_write",
         "update_defaults", "update_write", "remove_write",
         "type_check", "type_write", "type_remove", "read", "fill", "clear"}

Init ==
  /\ dicts = {}
  /\ type = [k \in Dict |-> "none"]
  /\ name = [k \in Dict |-> "none"]
  /\ status = [k \in Dict |-> "none"]
  /\ default = [k \in Dict |-> FALSE]
  /\ nextId = 1
  /\ pc = [r \in Request |-> "idle"]
  /\ d = [r \in Request |-> 0]
  /\ old = [r \in Request |-> "none"]
  /\ newType = [r \in Request |-> "keep"]
  /\ newName = [r \in Request |-> "keep"]
  /\ newStatus = [r \in Request |-> "keep"]
  /\ newDefault = [r \in Request |-> "keep"]
  /\ cache = "none" /\ snap = [r \in Request |-> "none"] /\ lateList = FALSE
  /\ overtaken = {} /\ loose = {} /\ odd = {}

-----------------------------------------------------------------------------
Goto(r, s) == pc' = [pc EXCEPT ![r] = s]

\* What the request is to write is taken from its DTO.
Asked(r, k, t, tt, n, s, f) ==
  /\ d' = [d EXCEPT ![r] = k]
  /\ old' = [old EXCEPT ![r] = t]
  /\ newType' = [newType EXCEPT ![r] = tt]
  /\ newName' = [newName EXCEPT ![r] = n]
  /\ newStatus' = [newStatus EXCEPT ![r] = s]
  /\ newDefault' = [newDefault EXCEPT ![r] = f]
Drop(r, s) == Goto(r, s) /\ Asked(r, 0, "none", "keep", "keep", "keep", "keep")

\* It has set other rows' default to false and has not cleared the list yet.
Wrote(r) == newDefault[r] = "yes" /\ pc[r] \in {"create_status", "create_write", "update_write"}

\* A request ends.  If it has written, the list it did not clear stays.
Done(r) ==
  /\ Drop(r, "idle")
  /\ overtaken' = overtaken \ {r}
  /\ lateList' = (lateList \/ ((Wrote(r) \/ pc[r] = "clear") /\ cache = "stale"))

OfType(t) == {k \in dicts : type[k] = t}
WrittenAlways(x, v) == x               \* faulty: a field left out is written, too
Written(x, v) == IF x = "keep" THEN v ELSE x

\* The table was written: what others have read, and the lists, are overtaken.
Busy == {q \in Request : pc[q] \notin {"idle", "read", "fill", "clear"}}
Overtaken(list) == IF list = "current" THEN "stale" ELSE list
ListOvertaken ==
  /\ cache' = Overtaken(cache)
  /\ snap' = [q \in Request |-> Overtaken(snap[q])]
  /\ UNCHANGED lateList
DefaultsWritten(r) == ListOvertaken /\ overtaken' = overtaken \cup (Busy \ {r})
Finish(r) == ListOvertaken /\ overtaken' = (overtaken \cup Busy) \ {r} /\ Drop(r, "clear")

(***************************************************************************)
(* DictService.create                                                      *)
(***************************************************************************)

DefaultsThen(f, s, w) == IF f = "yes" THEN s ELSE w

\* findFirst returns any row of the type: its name must be the one given.
CreateCheckType(r, t, n, f) ==
  /\ pc[r] = "idle"
  /\ Asked(r, 0, t, t, n, "keep", f)
  /\ \/ /\ \E k \in OfType(t) : name[k] = n
        /\ Goto(r, DefaultsThen(f, "create_defaults", "create_status"))
     \/ /\ OfType(t) = {}
        /\ Goto(r, "create_name")
  /\ UNCHANGED <<tableVars, listVars, historyVars>>

CreateCheckName(r) ==
  /\ pc[r] = "create_name"
  /\ IF \E k \in dicts : name[k] = newName[r]
     THEN Done(r)
     ELSE /\ Goto(r, DefaultsThen(newDefault[r], "create_defaults", "create_status"))
          /\ UNCHANGED <<jobVars, overtaken, lateList>>
  /\ UNCHANGED <<tableVars, cache, snap, loose, odd>>

\* updateMany: the other defaults of the type are switched off.
ClearDefaults(t, self) ==
  default' = [k \in Dict |-> default[k] /\ ~(k \in OfType(t) /\ k # self)]

CreateDefaultsKept(r) ==               \* faulty: nothing is switched off
  /\ pc[r] = "create_defaults"
  /\ Goto(r, "create_status")
  /\ UNCHANGED <<tableVars, jobVars, listVars, historyVars>>
CreateDefaults(r) ==
  /\ pc[r] = "create_defaults"
  /\ ClearDefaults(old[r], 0)
  /\ DefaultsWritten(r)
  /\ Goto(r, "create_status")
  /\ UNCHANGED <<dicts, type, name, status, nextId, jobVars, loose, odd>>

\* typeStatus is taken from some row of the type.
CreateStatusEnabled(r) ==              \* faulty: a new row is always enabled
  /\ pc[r] = "create_status"
  /\ newStatus' = [newStatus EXCEPT ![r] = "1"]
  /\ Goto(r, "create_write")
  /\ UNCHANGED <<tableVars, d, old, newType, newName, newDefault, listVars, historyVars>>
CreateStatus(r) ==
  /\ pc[r] = "create_status"
  /\ \/ \E k \in OfType(old[r]) : newStatus' = [newStatus EXCEPT ![r] = status[k]]
     \/ OfType(old[r]) = {} /\ newStatus' = [newStatus EXCEPT ![r] = "1"]
  /\ Goto(r, "create_write")
  /\ UNCHANGED <<tableVars, d, old, newType, newName, newDefault, listVars, historyVars>>

CreateWrite(r) ==
  /\ pc[r] = "create_write"
  /\ nextId <= MaxDict
  /\ dicts' = dicts \cup {nextId}
  /\ type' = [type EXCEPT ![nextId] = newType[r]]
  /\ name' = [name EXCEPT ![nextId] = newName[r]]
  /\ status' = [status EXCEPT ![nextId] = newStatus[r]]
  /\ default' = [default EXCEPT ![nextId] = (newDefault[r] = "yes")]
  /\ nextId' = nextId + 1
  /\ loose' = IF newDefault[r] = "yes" /\ r \in overtaken THEN loose \cup {nextId} ELSE loose
  /\ odd' = IF r \in overtaken \/ OfType(newType[r]) \cap odd # {}
            THEN odd \cup {nextId} ELSE odd
  /\ Finish(r)

(***************************************************************************)
(* DictService.update                                                      *)
(***************************************************************************)

UpdateFind(r, k, tt, n, f) ==
  /\ pc[r] = "idle"
  /\ k \in dicts
  /\ Asked(r, k, IF f = "yes" THEN Written(tt, type[k]) ELSE "none", tt, n, "keep", f)
  /\ Goto(r, DefaultsThen(f, "update_defaults", "update_write"))
  /\ UNCHANGED <<tableVars, listVars, historyVars>>

UpdateDefaults(r) ==
  /\ pc[r] = "update_defaults"
  /\ ClearDefaults(old[r], d[r])
  /\ DefaultsWritten(r)
  /\ Goto(r, "update_write")
  /\ old' = [old EXCEPT ![r] = "none"]
  /\ UNCHANGED <<dicts, type, name, status, nextId, d, newType, newName, newStatus,
                 newDefault, loose, odd>>

Moved(r) == newType[r] \notin {"keep", type[d[r]]}
MadeLoose(r) ==
  \/ newDefault[r] = "yes" /\ r \in overtaken
  \/ newDefault[r] = "keep" /\ default[d[r]] /\ Moved(r)

\* A row that is moved takes its default along, its name and its type's status too.
UpdateWrite(r) ==
  /\ pc[r] = "update_write"
  /\ IF d[r] \in dicts
     THEN /\ type' = [type EXCEPT ![d[r]] = Written(newType[r], @)]
          /\ name' = [name EXCEPT ![d[r]] = Written(newName[r], @)]
          /\ default' = [default EXCEPT ![d[r]] =
                           IF newDefault[r] = "keep" THEN @ ELSE newDefault[r] = "yes"]
          /\ loose' = IF MadeLoose(r) THEN loose \cup {d[r]}
                      ELSE IF newDefault[r] = "keep" THEN loose ELSE loose \ {d[r]}
          /\ odd' = IF Moved(r) \/ newName[r] \notin {"keep", name[d[r]]}
                    THEN odd \cup {d[r]} ELSE odd
          /\ Finish(r)
          /\ UNCHANGED <<dicts, status, nextId>>
     ELSE Done(r) /\ UNCHANGED <<tableVars, cache, snap, loose, odd>>

(***************************************************************************)
(* DictService.remove, updateDictType, removeDictType                      *)
(***************************************************************************)

RemoveFind(r, k) ==
  /\ pc[r] = "idle"
  /\ k \in dicts
  /\ Asked(r, k, "none", "keep", "keep", "keep", "keep")
  /\ Goto(r, "remove_write")
  /\ UNCHANGED <<tableVars, listVars, historyVars>>

\* Rows are gone; what a row that is gone held does not matter any more.
Deleted(S) ==
  /\ dicts' = dicts \ S
  /\ type' = [k \in Dict |-> IF k \in S THEN "none" ELSE type[k]]
  /\ name' = [k \in Dict |-> IF k \in S THEN "none" ELSE name[k]]
  /\ status' = [k \in Dict |-> IF k \in S THEN "none" ELSE status[k]]
  /\ default' = [k \in Dict |-> default[k] /\ k \notin S]
  /\ loose' = loose \ S
  /\ odd' = odd \ S
  /\ UNCHANGED nextId

RemoveWrite(r) ==
  /\ pc[r] = "remove_write"
  /\ IF d[r] \in dicts
     THEN Deleted({d[r]}) /\ Finish(r)
     ELSE Done(r) /\ UNCHANGED <<tableVars, cache, snap, loose, odd>>

TypeFind(r, t, tt, n, s) ==
  /\ pc[r] = "idle"
  /\ OfType(t) # {}
  /\ Asked(r, 0, t, tt, n, s, "keep")
  /\ Goto(r, IF tt \in {"keep", t} THEN "type_write" ELSE "type_check")
  /\ UNCHANGED <<tableVars, listVars, historyVars>>

TypeCheck(r) ==
  /\ pc[r] = "type_check"
  /\ IF OfType(newType[r]) # {}
     THEN Done(r)
     ELSE Goto(r, "type_write") /\ UNCHANGED <<jobVars, overtaken, lateList>>
  /\ UNCHANGED <<tableVars, cache, snap, loose, odd>>

\* updateMany: all rows of the type.
TypeWriteFirst(r) ==                   \* faulty: one row of the type only
  /\ pc[r] = "type_write"
  /\ \E k \in OfType(old[r]) :
       /\ type' = [type EXCEPT ![k] = Written(newType[r], @)]
       /\ name' = [name EXCEPT ![k] = Written(newName[r], @)]
       /\ status' = [status EXCEPT ![k] = Written(newStatus[r], @)]
  /\ Finish(r)
  /\ UNCHANGED <<dicts, default, nextId, loose, odd>>
TypeWrite(r) ==
  LET S == OfType(old[r]) IN
  /\ pc[r] = "type_write"
  /\ type' = [k \in Dict |-> IF k \in S THEN Written(newType[r], type[k]) ELSE type[k]]
  /\ name' = [k \in Dict |-> IF k \in S THEN Written(newName[r], name[k]) ELSE name[k]]
  /\ status' = [k \in Dict |-> IF k \in S THEN Written(newStatus[r], status[k]) ELSE status[k]]
  /\ loose' = IF newType[r] # "keep" /\ r \in overtaken
              THEN loose \cup {k \in S : default[k]} ELSE loose
  /\ odd' = IF newType[r] # "keep" /\ r \in overtaken THEN odd \cup S ELSE odd
  /\ Finish(r)
  /\ UNCHANGED <<dicts, default, nextId>>

TypeRemoveFind(r, t) ==
  /\ pc[r] = "idle"
  /\ OfType(t) # {}
  /\ Asked(r, 0, t, "keep", "keep", "keep", "keep")
  /\ Goto(r, "type_remove")
  /\ UNCHANGED <<tableVars, listVars, historyVars>>

TypeRemove(r) ==
  /\ pc[r] = "type_remove"
  /\ Deleted(OfType(old[r]))
  /\ Finish(r)

(***************************************************************************)
(* DictStoreService: the cached list                                       *)
(***************************************************************************)

ListGet(r) ==
  /\ pc[r] = "idle"
  /\ cache = "none"
  /\ Goto(r, "read")
  /\ UNCHANGED <<tableVars, jobVars, listVars, historyVars>>

ListRead(r) ==
  /\ pc[r] = "read"
  /\ snap' = [snap EXCEPT ![r] = "current"]
  /\ Goto(r, "fill")
  /\ UNCHANGED <<tableVars, jobVars, cache, lateList, historyVars>>

ListFill(r) ==
  /\ pc[r] = "fill"
  /\ cache' = snap[r]
  /\ lateList' = (snap[r] = "stale")
  /\ snap' = [snap EXCEPT ![r] = "none"]
  /\ Goto(r, "idle")
  /\ UNCHANGED <<tableVars, jobVars, historyVars>>

ListClearKept(r) ==                    \* faulty: the key is left
  /\ pc[r] = "clear"
  /\ Goto(r, "idle")
  /\ UNCHANGED <<tableVars, jobVars, listVars, historyVars>>
ListClear(r) ==
  /\ pc[r] = "clear"
  /\ cache' = "none"
  /\ lateList' = FALSE
  /\ Goto(r, "idle")
  /\ UNCHANGED <<tableVars, jobVars, snap, historyVars>>

ListLapse ==
  /\ cache # "none"
  /\ cache' = "none"
  /\ lateList' = FALSE
  /\ UNCHANGED <<tableVars, pc, jobVars, snap, historyVars>>

Abort(r) ==
  /\ pc[r] # "idle"
  /\ Done(r)
  /\ snap' = [snap EXCEPT ![r] = "none"]
  /\ UNCHANGED <<tableVars, cache, loose, odd>>

(***************************************************************************)
(* DictService.getDictTree                                                 *)
(***************************************************************************)

\* A search finds some of the rows; none, which reads the list, finds all.
Found == SUBSET dicts

\* buildDictTree groups the rows by type.  The row of a type that comes first gives the
\* node its name and status; by sort order, so it may be any of them.
TypeNodes(S) ==
  {[type |-> type[k], name |-> name[k], status |-> status[k],
    children |-> {j \in S : type[j] = type[k]}] : k \in S}

-----------------------------------------------------------------------------
Next ==
  \/ \E r \in Editor :
       \/ \E t \in Type, n \in TypeName, f \in Default \cup {"no"} : CreateCheckType(r, t, n, f)
       \/ CreateCheckName(r) \/ CreateDefaults(r) \/ CreateStatus(r) \/ CreateWrite(r)
       \/ \E k \in Dict, tt \in Type \cup {"keep"}, n \in TypeName \cup {"keep"},
             f \in Default \cup {"keep"} : UpdateFind(r, k, tt, n, f)
       \/ UpdateDefaults(r) \/ UpdateWrite(r)
       \/ \E k \in Dict : RemoveFind(r, k)
       \/ RemoveWrite(r)
       \/ \E t \in Type, tt \in Type \cup {"keep"}, n \in TypeName \cup {"keep"},
             s \in Status \cup {"keep"} : TypeFind(r, t, tt, n, s)
       \/ TypeCheck(r) \/ TypeWrite(r)
       \/ \E t \in Type : TypeRemoveFind(r, t)
       \/ TypeRemove(r) \/ ListClear(r)
  \/ \E r \in Reader : ListGet(r) \/ ListRead(r) \/ ListFill(r)
  \/ \E r \in Request : Abort(r)
  \/ ListLapse

Spec == Init /\ [][Next]_vars

-----------------------------------------------------------------------------
(***************************************************************************)
(* Properties                                                              *)
(***************************************************************************)

\* Every variable keeps the shape the code gives it.
TypeOK ==
  /\ dicts \in SUBSET Dict
  /\ type \in [Dict -> Type \cup {"none"}] /\ name \in [Dict -> TypeName \cup {"none"}]
  /\ status \in [Dict -> Status \cup {"none"}] /\ default \in [Dict -> BOOLEAN]
  /\ nextId \in 1..(MaxDict + 1)
  /\ pc \in [Request -> Step]
  /\ d \in [Request -> 0..MaxDict]
  /\ old \in [Request -> Type \cup {"none"}]
  /\ newType \in [Request -> Type \cup {"keep"}]
  /\ newName \in [Request -> TypeName \cup {"keep"}]
  /\ newStatus \in [Request -> Status \cup {"keep"}]
  /\ newDefault \in [Request -> {"yes", "no", "keep"}]
  /\ cache \in {"none", "current", "stale"}
  /\ snap \in [Request -> {"none", "current", "stale"}]
  /\ lateList \in BOOLEAN
  /\ overtaken \in SUBSET Request
  /\ loose \in SUBSET Dict /\ odd \in SUBSET Dict

\* Of two default rows of one type (dict.service.ts:199, 314 switch the others off), one
\* was moved there as a default or made default by a request that another overtook.
DefaultsComeLate ==
  \A j, k \in dicts :
    j # k /\ type[j] = type[k] /\ default[j] /\ default[k] => {j, k} \cap loose # {}

\* Whatever rows of a type a search finds, and whichever comes first, the tree heads the
\* type with one name and one status (dict.service.ts:145, 213), but for rows that an
\* update renamed or moved one by one, or that were written by an overtaken request.
TypesUniform ==
  \A S \in Found : \A u, v \in TypeNodes(S \ odd) :
    u.type = v.type => u.name = v.name /\ u.status = v.status

\* The list of dictionary rows is kept as ListStore says.
List == INSTANCE ListStore WITH
          late <- lateList,
          pc <- [r \in Request |-> IF pc[r] \in {"read", "fill", "clear"} THEN pc[r]
                                   ELSE IF Wrote(r) THEN "clear" ELSE "idle"]
ImplementsListStore == List!Spec
=============================================================================
