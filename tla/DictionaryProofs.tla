--------------------------- MODULE DictionaryProofs ---------------------------
(***************************************************************************)
(* What holds of Dictionary for any number of requests and rows: the shape *)
(* of the variables, what two defaults of a type and two rows of a type    *)
(* have in common, and that the list is kept as ListStore says.            *)
(*                                                                         *)
(* The argument.  A request since whose first query nobody wrote the table *)
(* still knows what its queries found (Known): that the other defaults of  *)
(* the type are off, that some row of the type has the name and status it  *)
(* is about to write, that no row has the code the type is to get.  Every  *)
(* write makes the others overtaken, so a request that is not can only     *)
(* write what agrees with the rows.                                        *)
(***************************************************************************)
EXTENDS Dictionary, TLAPS

Creating(r) == pc[r] \in {"create_name", "create_defaults", "create_status", "create_write"}

\* What a request that nobody overtook knows.
Known(r) ==
  /\ pc[r] \in {"create_status", "create_write"} /\ newDefault[r] = "yes" =>
       \A k \in OfType(old[r]) : ~default[k]
  /\ Creating(r) => OfType(old[r]) = {} \/ \E k \in OfType(old[r]) : name[k] = newName[r]
  /\ pc[r] = "create_write" =>
       OfType(old[r]) = {} \/ \E k \in OfType(old[r]) : status[k] = newStatus[r]
  /\ pc[r] = "update_defaults" => old[r] = Written(newType[r], type[d[r]])
  /\ pc[r] = "update_write" /\ newDefault[r] = "yes" =>
       \A k \in OfType(Written(newType[r], type[d[r]])) : k # d[r] => ~default[k]
  /\ pc[r] = "type_write" /\ newType[r] \notin {"keep", old[r]} => OfType(newType[r]) = {}

KnownOK  == \A r \in Request \ overtaken : Known(r)

\* What the rows hold, and the requests that are about to make one.
RowsOK == \A k \in dicts : type[k] \in Type /\ name[k] \in TypeName /\ status[k] \in Status
JobsOK == \A r \in Request :
  /\ Creating(r) => newType[r] \in Type /\ newName[r] \in TypeName /\ newType[r] = old[r]
  /\ pc[r] = "create_write" => newStatus[r] \in Status

\* The rows of a type agree: what TypesUniform says of the trees built of them.
RowsUniform ==
  \A j, k \in dicts \ odd :
    type[j] = type[k] => name[j] = name[k] /\ status[j] = status[k]

Typed == TypeOK /\ RowsOK /\ JobsOK

IInv == Typed /\ KnownOK /\ DefaultsComeLate /\ RowsUniform

-----------------------------------------------------------------------------
(***************************************************************************)
(* Types                                                                   *)
(***************************************************************************)

\* The parts of TypeOK, most of which a step leaves alone.
TableType ==
  /\ dicts \in SUBSET Dict
  /\ type \in [Dict -> Type \cup {"none"}] /\ name \in [Dict -> TypeName \cup {"none"}]
  /\ status \in [Dict -> Status \cup {"none"}] /\ default \in [Dict -> BOOLEAN]
  /\ nextId \in 1..(MaxDict + 1)
JobType ==
  /\ pc \in [Request -> Step]
  /\ d \in [Request -> 0..MaxDict]
  /\ old \in [Request -> Type \cup {"none"}]
  /\ newType \in [Request -> Type \cup {"keep"}]
  /\ newName \in [Request -> TypeName \cup {"keep"}]
  /\ newStatus \in [Request -> Status \cup {"keep"}]
  /\ newDefault \in [Request -> {"yes", "no", "keep"}]
ListType ==
  /\ cache \in {"none", "current", "stale"}
  /\ snap \in [Request -> {"none", "current", "stale"}]
  /\ lateList \in BOOLEAN
HistoryType == overtaken \in SUBSET Request /\ loose \in SUBSET Dict /\ odd \in SUBSET Dict

\* TypeOK is its parts.
LEMMA Parts ==
  /\ TypeOK <=> TableType /\ JobType /\ ListType /\ HistoryType
  /\ TypeOK' <=> TableType' /\ JobType' /\ ListType' /\ HistoryType'
  BY DEF TypeOK, TableType, JobType, ListType, HistoryType

\* The numbers in play.
LEMMA Numbers == MaxDict \in Nat /\ 0 \in 0..MaxDict /\ Dict \subseteq 0..MaxDict /\ 0 \notin Dict
<1>1. MaxDict \in Nat  BY DictionaryConstants
<1>. QED  BY <1>1 DEF Dict

\* A request that takes its parameters and goes on is well typed.
LEMMA AskedType ==
  ASSUME JobType, NEW r \in Request, NEW k \in 0..MaxDict, NEW t \in Type \cup {"none"},
         NEW tt \in Type \cup {"keep"}, NEW n \in TypeName \cup {"keep"},
         NEW s \in Status \cup {"keep"}, NEW f \in {"yes", "no", "keep"}, NEW q \in Step,
         Asked(r, k, t, tt, n, s, f), Goto(r, q)
  PROVE  /\ JobType'
         /\ pc'[r] = q /\ d'[r] = k /\ old'[r] = t /\ newType'[r] = tt /\ newName'[r] = n
         /\ newStatus'[r] = s /\ newDefault'[r] = f
         /\ \A p \in Request \ {r} :
              /\ pc'[p] = pc[p] /\ d'[p] = d[p] /\ old'[p] = old[p] /\ newType'[p] = newType[p]
              /\ newName'[p] = newName[p] /\ newStatus'[p] = newStatus[p]
              /\ newDefault'[p] = newDefault[p]
  BY DEF JobType, Asked, Goto

\* A request that ends, or goes on to clear the list, too.
LEMMA DropType ==
  ASSUME JobType, NEW r \in Request, NEW q \in {"idle", "clear"}, Drop(r, q)
  PROVE  /\ JobType' /\ pc'[r] = q
         /\ \A p \in Request \ {r} :
              /\ pc'[p] = pc[p] /\ d'[p] = d[p] /\ old'[p] = old[p] /\ newType'[p] = newType[p]
              /\ newName'[p] = newName[p] /\ newStatus'[p] = newStatus[p]
              /\ newDefault'[p] = newDefault[p]
<1>1. q \in Step  BY DEF Step
<1>. QED  BY <1>1, AskedType, Numbers DEF Drop

\* A request that goes on with the parameters it has, too.
LEMMA GotoType ==
  ASSUME JobType, NEW r \in Request, NEW q \in Step, Goto(r, q), UNCHANGED jobVars
  PROVE  /\ JobType' /\ pc'[r] = q
         /\ \A p \in Request \ {r} :
              /\ pc'[p] = pc[p] /\ d'[p] = d[p] /\ old'[p] = old[p] /\ newType'[p] = newType[p]
              /\ newName'[p] = newName[p] /\ newStatus'[p] = newStatus[p]
              /\ newDefault'[p] = newDefault[p]
  BY DEF JobType, jobVars, Goto

\* The lists after a write.
LEMMA OvertakenType == ASSUME ListType, ListOvertaken PROVE ListType'
<1>1. \A v \in {"none", "current", "stale"} : Overtaken(v) \in {"none", "current", "stale"}
  BY DEF Overtaken
<1>. QED  BY <1>1 DEF ListType, ListOvertaken

\* A request that ends leaves the lists and the history typed.
LEMMA DoneType ==
  ASSUME ListType, HistoryType, NEW r \in Request, Done(r)
  PROVE  lateList' \in BOOLEAN /\ overtaken' \in SUBSET Request
<1>1. overtaken' \in SUBSET Request  BY DEF Done, HistoryType
<1>2. lateList' = (lateList \/ ((Wrote(r) \/ pc[r] = "clear") /\ cache = "stale"))  BY DEF Done
<1>3. CASE lateList \/ ((Wrote(r) \/ pc[r] = "clear") /\ cache = "stale")
  BY <1>1, <1>2, <1>3
<1>4. CASE ~(lateList \/ ((Wrote(r) \/ pc[r] = "clear") /\ cache = "stale"))
  BY <1>1, <1>2, <1>4
<1>. QED  BY <1>3, <1>4

\* The jobs of all others are as they were, and r does not create, or may.
LEMMA JobsKept ==
  ASSUME JobsOK, NEW r \in Request,
         \A p \in Request \ {r} :
           /\ pc'[p] = pc[p] /\ old'[p] = old[p] /\ newType'[p] = newType[p]
           /\ newName'[p] = newName[p] /\ newStatus'[p] = newStatus[p],
         \/ ~Creating(r)'
         \/ /\ newType'[r] \in Type /\ newName'[r] \in TypeName /\ newType'[r] = old'[r]
            /\ pc'[r] = "create_write" => newStatus'[r] \in Status
  PROVE  JobsOK'
<1>. SUFFICES ASSUME NEW p \in Request
              PROVE  /\ Creating(p)' => newType'[p] \in Type /\ newName'[p] \in TypeName
                                        /\ newType'[p] = old'[p]
                     /\ pc'[p] = "create_write" => newStatus'[p] \in Status
  BY DEF JobsOK
<1>1. CASE p = r  BY <1>1 DEF Creating
<1>2. CASE p # r  BY <1>2 DEF JobsOK, Creating
<1>. QED  BY <1>1, <1>2

\* A request that ends without a write keeps the types.
LEMMA DoneTyped ==
  ASSUME Typed, NEW r \in Request, Done(r), UNCHANGED <<tableVars, cache, snap, loose, odd>>
  PROVE  Typed'
<1>. USE DEF Typed
<1>p. TableType /\ JobType /\ ListType /\ HistoryType  BY Parts
<1>1. Drop(r, "idle")  BY DEF Done
<1>2. /\ JobType' /\ pc'[r] = "idle"
      /\ \A p \in Request \ {r} :
           /\ pc'[p] = pc[p] /\ old'[p] = old[p] /\ newType'[p] = newType[p]
           /\ newName'[p] = newName[p] /\ newStatus'[p] = newStatus[p]
  BY <1>p, <1>1, DropType
<1>3. ~Creating(r)'  BY <1>2 DEF Creating
<1>4. JobsOK'  BY <1>2, <1>3, JobsKept
<1>5. ListType' /\ HistoryType'  BY <1>p, DoneType DEF ListType, HistoryType
<1>6. TableType' /\ RowsOK'  BY <1>p DEF TableType, RowsOK, tableVars
<1>. QED  BY <1>2, <1>4, <1>5, <1>6, Parts

\* A request that has written and goes on to clear the list.
LEMMA FinishTyped ==
  ASSUME Typed, NEW r \in Request, Finish(r), TableType', RowsOK',
         loose' \in SUBSET Dict, odd' \in SUBSET Dict
  PROVE  Typed'
<1>. USE DEF Typed, Finish
<1>p. TableType /\ JobType /\ ListType /\ HistoryType  BY Parts
<1>1. ListType'  BY <1>p, OvertakenType
<1>2. HistoryType'  BY <1>p DEF Busy, HistoryType
<1>3. /\ JobType' /\ pc'[r] = "clear"
      /\ \A p \in Request \ {r} :
           /\ pc'[p] = pc[p] /\ old'[p] = old[p] /\ newType'[p] = newType[p]
           /\ newName'[p] = newName[p] /\ newStatus'[p] = newStatus[p]
  BY <1>p, DropType
<1>4. ~Creating(r)'  BY <1>3 DEF Creating
<1>5. JobsOK'  BY <1>3, <1>4, JobsKept
<1>. QED  BY <1>1, <1>2, <1>3, <1>5, Parts

\* A step of one request that writes neither a row nor the list nor the history.
LEMMA PlainTyped ==
  ASSUME Typed, UNCHANGED <<tableVars, listVars, historyVars>>, JobType', JobsOK'
  PROVE  Typed'
<1>. USE DEF Typed
<1>p. TableType /\ ListType /\ HistoryType  BY Parts
<1>1. TableType' /\ RowsOK'  BY <1>p DEF TableType, RowsOK, tableVars
<1>2. HistoryType'  BY <1>p DEF HistoryType, historyVars
<1>3. ListType'  BY <1>p DEF ListType, listVars
<1>. QED  BY <1>1, <1>2, <1>3, Parts

\* The first step of an update or a removal.
LEMMA StartTyped ==
  ASSUME Typed, UNCHANGED <<tableVars, listVars, historyVars>>,
         NEW r \in Request, NEW k \in 0..MaxDict, NEW t \in Type \cup {"none"},
         NEW tt \in Type \cup {"keep"}, NEW n \in TypeName \cup {"keep"},
         NEW s \in Status \cup {"keep"}, NEW f \in {"yes", "no", "keep"},
         NEW q \in {"update_defaults", "update_write", "remove_write", "type_check",
                    "type_write", "type_remove"},
         Asked(r, k, t, tt, n, s, f), Goto(r, q)
  PROVE  Typed'
<1>1. q \in Step /\ JobType  BY Parts DEF Step, Typed
<1>2. /\ JobType' /\ pc'[r] = q
      /\ \A p \in Request \ {r} :
           /\ pc'[p] = pc[p] /\ old'[p] = old[p] /\ newType'[p] = newType[p]
           /\ newName'[p] = newName[p] /\ newStatus'[p] = newStatus[p]
  BY <1>1 DEF JobType, Asked, Goto
<1>3. ~Creating(r)'  BY <1>2 DEF Creating
<1>4. JobsOK'  BY <1>2, <1>3, JobsKept DEF Typed
<1>. QED  BY <1>2, <1>4, PlainTyped

\* DictService.create keeps the types.
LEMMA CreateTyped ==
  ASSUME Typed, NEW r \in Request,
         \/ \E t \in Type, n \in TypeName, f \in {"yes", "no", "keep"} : CreateCheckType(r, t, n, f)
         \/ CreateCheckName(r) \/ CreateDefaults(r) \/ CreateStatus(r) \/ CreateWrite(r)
  PROVE  Typed'
<1>. USE DEF Typed
<1>p. TableType /\ JobType /\ ListType /\ HistoryType  BY Parts
<1>s. {"create_name", "create_defaults", "create_status", "create_write"} \subseteq Step
  BY DEF Step
<1>1. ASSUME NEW t \in Type, NEW n \in TypeName, NEW f \in {"yes", "no", "keep"},
             CreateCheckType(r, t, n, f)
      PROVE  Typed'
  <2>1. UNCHANGED <<tableVars, listVars, historyVars>> /\ Asked(r, 0, t, t, n, "keep", f)
    BY <1>1 DEF CreateCheckType
  <2>2. PICK q \in {"create_name", "create_defaults", "create_status"} : Goto(r, q)
    BY <1>1 DEF CreateCheckType, DefaultsThen
  <2>3. /\ JobType' /\ old'[r] = t /\ newType'[r] = t /\ newName'[r] = n /\ pc'[r] = q
        /\ \A p \in Request \ {r} :
             /\ pc'[p] = pc[p] /\ old'[p] = old[p] /\ newType'[p] = newType[p]
             /\ newName'[p] = newName[p] /\ newStatus'[p] = newStatus[p]
    BY <1>p, <1>s, <2>1, <2>2, AskedType, Numbers
  <2>4. JobsOK'  BY <2>2, <2>3, JobsKept
  <2>. QED  BY <2>1, <2>3, <2>4, PlainTyped
<1>2. CASE CreateCheckName(r)
  <2>1. UNCHANGED <<tableVars, cache, snap, loose, odd>> /\ pc[r] = "create_name"
    BY <1>2 DEF CreateCheckName
  <2>2. CASE Done(r)  BY <2>1, <2>2, DoneTyped
  <2>3. CASE /\ UNCHANGED <<jobVars, overtaken, lateList>>
             /\ Goto(r, "create_defaults") \/ Goto(r, "create_status")
    <3>1. /\ JobType' /\ pc'[r] \in {"create_defaults", "create_status"}
          /\ \A p \in Request \ {r} :
               /\ pc'[p] = pc[p] /\ old'[p] = old[p] /\ newType'[p] = newType[p]
               /\ newName'[p] = newName[p] /\ newStatus'[p] = newStatus[p]
      BY <1>p, <1>s, <2>3, GotoType
    <3>2. newType'[r] \in Type /\ newName'[r] \in TypeName /\ newType'[r] = old'[r]
      BY <2>1, <2>3 DEF JobsOK, Creating, jobVars
    <3>3. JobsOK'  BY <3>1, <3>2, JobsKept
    <3>4. UNCHANGED <<listVars, historyVars>>  BY <2>1, <2>3 DEF listVars, historyVars
    <3>. QED  BY <2>1, <3>1, <3>3, <3>4, PlainTyped
  <2>. QED  BY <1>2, <2>2, <2>3 DEF CreateCheckName, DefaultsThen
<1>3. CASE CreateDefaults(r)
  <2>1. /\ ListOvertaken /\ overtaken' = overtaken \cup (Busy \ {r})
        /\ UNCHANGED <<dicts, type, name, status, nextId, jobVars, loose, odd>>
        /\ pc[r] = "create_defaults" /\ Goto(r, "create_status")
    BY <1>3 DEF CreateDefaults, DefaultsWritten
  <2>2. ListType'  BY <1>p, <2>1, OvertakenType
  <2>3. HistoryType'  BY <1>p, <2>1 DEF HistoryType, Busy
  <2>4. default' \in [Dict -> BOOLEAN]
    BY <1>3 DEF CreateDefaults, ClearDefaults
  <2>5. TableType' /\ RowsOK'  BY <1>p, <2>1, <2>4 DEF TableType, RowsOK
  <2>6. /\ JobType' /\ pc'[r] = "create_status"
        /\ \A p \in Request \ {r} :
             /\ pc'[p] = pc[p] /\ old'[p] = old[p] /\ newType'[p] = newType[p]
             /\ newName'[p] = newName[p] /\ newStatus'[p] = newStatus[p]
    BY <1>p, <1>s, <2>1, GotoType
  <2>7. newType'[r] \in Type /\ newName'[r] \in TypeName /\ newType'[r] = old'[r]
    BY <2>1 DEF JobsOK, Creating, jobVars
  <2>8. JobsOK'  BY <2>6, <2>7, JobsKept
  <2>. QED  BY <2>2, <2>3, <2>5, <2>6, <2>8, Parts
<1>4. CASE CreateStatus(r)
  <2>1. /\ UNCHANGED <<tableVars, d, old, newType, newName, newDefault, listVars, historyVars>>
        /\ pc[r] = "create_status" /\ Goto(r, "create_write")
    BY <1>4 DEF CreateStatus
  <2>2. PICK s \in Status : newStatus' = [newStatus EXCEPT ![r] = s]
    <3>1. CASE \E k \in OfType(old[r]) : newStatus' = [newStatus EXCEPT ![r] = status[k]]
      <4>1. PICK k \in OfType(old[r]) : newStatus' = [newStatus EXCEPT ![r] = status[k]]  BY <3>1
      <4>2. status[k] \in Status  BY DEF OfType, RowsOK
      <4>. QED  BY <4>1, <4>2
    <3>2. CASE newStatus' = [newStatus EXCEPT ![r] = "1"]
      BY <3>2, DictionaryConstants
    <3>. QED  BY <1>4, <3>1, <3>2 DEF CreateStatus
  <2>3. JobType' /\ pc'[r] = "create_write" /\ newStatus'[r] = s
    BY <1>p, <1>s, <2>1, <2>2 DEF JobType, Goto
  <2>4. \A p \in Request \ {r} :
             /\ pc'[p] = pc[p] /\ old'[p] = old[p] /\ newType'[p] = newType[p]
             /\ newName'[p] = newName[p] /\ newStatus'[p] = newStatus[p]
    BY <1>p, <2>1, <2>2 DEF JobType, Goto
  <2>5. newType'[r] \in Type /\ newName'[r] \in TypeName /\ newType'[r] = old'[r]
    BY <2>1 DEF JobsOK, Creating
  <2>6. JobsOK'  BY <2>3, <2>4, <2>5, JobsKept
  <2>. QED  BY <2>1, <2>3, <2>6, PlainTyped
<1>5. CASE CreateWrite(r)
  <2>. USE <1>5 DEF CreateWrite
  <2>1. /\ newType[r] \in Type /\ newName[r] \in TypeName /\ newStatus[r] \in Status
        /\ Finish(r)
    BY DEF JobsOK, Creating
  <2>2. nextId \in Dict /\ nextId + 1 \in 1..(MaxDict + 1)
    BY <1>p, Numbers DEF TableType, Dict
  <2>3. TableType'  BY <1>p, <2>1, <2>2 DEF TableType
  <2>4. RowsOK'  BY <1>p, <2>1, <2>2 DEF RowsOK, TableType
  <2>5. loose' \in SUBSET Dict /\ odd' \in SUBSET Dict  BY <1>p, <2>2 DEF HistoryType
  <2>. QED  BY <2>1, <2>3, <2>4, <2>5, FinishTyped
<1>. QED  BY <1>1, <1>2, <1>3, <1>4, <1>5

\* A value that is written, or kept.
LEMMA WrittenIs ==
  ASSUME NEW S, "keep" \notin S, NEW x \in S \cup {"keep"}, NEW v \in S
  PROVE  Written(x, v) \in S
  BY DEF Written

\* DictService.update and remove keep the types.
LEMMA RowTyped ==
  ASSUME Typed, NEW r \in Request,
         \/ \E k \in Dict, tt \in Type \cup {"keep"}, n \in TypeName \cup {"keep"},
               f \in {"yes", "no", "keep"} : UpdateFind(r, k, tt, n, f)
         \/ UpdateDefaults(r) \/ UpdateWrite(r)
         \/ \E k \in Dict : RemoveFind(r, k)
         \/ RemoveWrite(r)
  PROVE  Typed'
<1>. USE DEF Typed
<1>p. TableType /\ JobType /\ ListType /\ HistoryType  BY Parts
<1>k. "keep" \notin Type /\ "keep" \notin TypeName /\ "keep" \notin Status
  BY DictionaryConstants
<1>1. ASSUME NEW k \in Dict, NEW tt \in Type \cup {"keep"}, NEW n \in TypeName \cup {"keep"},
             NEW f \in {"yes", "no", "keep"}, UpdateFind(r, k, tt, n, f)
      PROVE  Typed'
  <2>1. PICK q \in {"update_defaults", "update_write"} : Goto(r, q)
    BY <1>1 DEF UpdateFind, DefaultsThen
  <2>2. type[k] \in Type  BY <1>1 DEF UpdateFind, RowsOK
  <2>3. PICK t \in Type \cup {"none"} : Asked(r, k, t, tt, n, "keep", f)
    <3>1. Written(tt, type[k]) \in Type  BY <1>k, <2>2, WrittenIs
    <3>. QED  BY <1>1, <3>1 DEF UpdateFind
  <2>4. UNCHANGED <<tableVars, listVars, historyVars>> /\ k \in 0..MaxDict
    BY <1>1, Numbers DEF UpdateFind
  <2>. QED  BY <2>1, <2>3, <2>4, StartTyped
<1>2. CASE UpdateDefaults(r)
  <2>1. /\ ListOvertaken /\ overtaken' = overtaken \cup (Busy \ {r})
        /\ UNCHANGED <<dicts, type, name, status, nextId, loose, odd>>
    BY <1>2 DEF UpdateDefaults, DefaultsWritten
  <2>2. ListType'  BY <1>p, <2>1, OvertakenType
  <2>3. HistoryType'  BY <1>p, <2>1 DEF HistoryType, Busy
  <2>4. default' \in [Dict -> BOOLEAN]  BY <1>2 DEF UpdateDefaults, ClearDefaults
  <2>5. TableType' /\ RowsOK'  BY <1>p, <2>1, <2>4 DEF TableType, RowsOK
  <2>6. JobType' /\ pc'[r] = "update_write"
    BY <1>p, <1>2 DEF UpdateDefaults, JobType, Goto, Step
  <2>7. \A p \in Request \ {r} :
             /\ pc'[p] = pc[p] /\ old'[p] = old[p] /\ newType'[p] = newType[p]
             /\ newName'[p] = newName[p] /\ newStatus'[p] = newStatus[p]
    BY <1>p, <1>2 DEF UpdateDefaults, JobType, Goto
  <2>8. ~Creating(r)'  BY <2>6 DEF Creating
  <2>9. JobsOK'  BY <2>7, <2>8, JobsKept
  <2>. QED  BY <2>2, <2>3, <2>5, <2>6, <2>9, Parts
<1>3. CASE UpdateWrite(r)
  <2>. USE <1>3 DEF UpdateWrite
  <2>1. CASE d[r] \in dicts
    <3>. DEFINE k == d[r]
    <3>1. k \in Dict /\ type[k] \in Type /\ name[k] \in TypeName
      BY <1>p, <2>1 DEF TableType, RowsOK
    <3>2. Written(newType[r], type[k]) \in Type /\ Written(newName[r], name[k]) \in TypeName
      <4>1. newType[r] \in Type \cup {"keep"} /\ newName[r] \in TypeName \cup {"keep"}
        BY <1>p DEF JobType
      <4>. QED  BY <1>k, <3>1, <4>1, WrittenIs
    <3>3. /\ type' = [type EXCEPT ![k] = Written(newType[r], type[k])]
          /\ name' = [name EXCEPT ![k] = Written(newName[r], name[k])]
          /\ UNCHANGED <<dicts, status, nextId>> /\ Finish(r)
      BY <2>1
    <3>4. default' \in [Dict -> BOOLEAN]
      <4>1. default' = [default EXCEPT ![k] = IF newDefault[r] = "keep" THEN default[k]
                                                ELSE newDefault[r] = "yes"]
        BY <2>1
      <4>2. default \in [Dict -> BOOLEAN]  BY <1>p DEF TableType
      <4>. DEFINE v == IF newDefault[r] = "keep" THEN default[k] ELSE newDefault[r] = "yes"
      <4>3. v \in BOOLEAN
        <5>1. (newDefault[r] = "yes") \in BOOLEAN /\ default[k] \in BOOLEAN
          BY <3>1, <4>2
        <5>2. CASE newDefault[r] = "keep"  BY <5>1, <5>2
        <5>3. CASE newDefault[r] # "keep"  BY <5>1, <5>3
        <5>. QED  BY <5>2, <5>3
      <4>4. default' = [default EXCEPT ![k] = v]  BY <4>1
      <4>. HIDE DEF v, k
      <4>. QED  BY <3>1, <4>2, <4>3, <4>4
    <3>5. TableType'  BY <1>p, <3>2, <3>3, <3>4 DEF TableType
    <3>6. RowsOK'  BY <1>p, <3>1, <3>2, <3>3 DEF RowsOK, TableType
    <3>7. loose' \in SUBSET Dict /\ odd' \in SUBSET Dict
      BY <1>p, <2>1, <3>1 DEF HistoryType
    <3>. QED  BY <3>3, <3>5, <3>6, <3>7, FinishTyped
  <2>2. CASE d[r] \notin dicts  BY <2>2, DoneTyped
  <2>. QED  BY <2>1, <2>2
<1>4. ASSUME NEW k \in Dict, RemoveFind(r, k) PROVE Typed'
  <2>1. /\ UNCHANGED <<tableVars, listVars, historyVars>> /\ Goto(r, "remove_write")
        /\ Asked(r, k, "none", "keep", "keep", "keep", "keep") /\ k \in 0..MaxDict
    BY <1>4, Numbers DEF RemoveFind
  <2>. QED  BY <2>1, StartTyped
<1>5. CASE RemoveWrite(r)
  <2>1. CASE d[r] \in dicts
    <3>1. Deleted({d[r]}) /\ Finish(r)  BY <1>5, <2>1 DEF RemoveWrite
    <3>2. TableType' /\ RowsOK'  BY <1>p, <3>1 DEF Deleted, TableType, RowsOK
    <3>3. loose' \in SUBSET Dict /\ odd' \in SUBSET Dict  BY <1>p, <3>1 DEF Deleted, HistoryType
    <3>. QED  BY <3>1, <3>2, <3>3, FinishTyped
  <2>2. CASE d[r] \notin dicts  BY <1>5, <2>2, DoneTyped DEF RemoveWrite
  <2>. QED  BY <2>1, <2>2
<1>. QED  BY <1>1, <1>2, <1>3, <1>4, <1>5

\* DictService.updateDictType and removeDictType keep the types.
LEMMA TypeTyped ==
  ASSUME Typed, NEW r \in Request,
         \/ \E t \in Type, tt \in Type \cup {"keep"}, n \in TypeName \cup {"keep"},
               s \in Status \cup {"keep"} : TypeFind(r, t, tt, n, s)
         \/ TypeCheck(r) \/ TypeWrite(r)
         \/ \E t \in Type : TypeRemoveFind(r, t)
         \/ TypeRemove(r)
  PROVE  Typed'
<1>. USE DEF Typed
<1>p. TableType /\ JobType /\ ListType /\ HistoryType  BY Parts
<1>k. "keep" \notin Type /\ "keep" \notin TypeName /\ "keep" \notin Status
  BY DictionaryConstants
<1>1. ASSUME NEW t \in Type, NEW tt \in Type \cup {"keep"}, NEW n \in TypeName \cup {"keep"},
             NEW s \in Status \cup {"keep"}, TypeFind(r, t, tt, n, s)
      PROVE  Typed'
  <2>1. PICK q \in {"type_write", "type_check"} : Goto(r, q)  BY <1>1 DEF TypeFind
  <2>2. UNCHANGED <<tableVars, listVars, historyVars>> /\ Asked(r, 0, t, tt, n, s, "keep")
    BY <1>1 DEF TypeFind
  <2>. QED  BY <2>1, <2>2, StartTyped, Numbers
<1>2. CASE TypeCheck(r)
  <2>. USE <1>2 DEF TypeCheck
  <2>1. CASE OfType(newType[r]) # {}  BY <2>1, DoneTyped
  <2>2. CASE OfType(newType[r]) = {}
    <3>1. /\ JobType' /\ pc'[r] = "type_write"
          /\ \A p \in Request \ {r} :
               /\ pc'[p] = pc[p] /\ old'[p] = old[p] /\ newType'[p] = newType[p]
               /\ newName'[p] = newName[p] /\ newStatus'[p] = newStatus[p]
      BY <1>p, <2>2, GotoType DEF Step
    <3>2. ~Creating(r)'  BY <3>1 DEF Creating
    <3>3. JobsOK'  BY <3>1, <3>2, JobsKept
    <3>4. UNCHANGED <<listVars, historyVars>>  BY <2>2 DEF listVars, historyVars
    <3>. QED  BY <3>1, <3>3, <3>4, PlainTyped
  <2>. QED  BY <2>1, <2>2
<1>3. CASE TypeWrite(r)
  <2>. DEFINE S == OfType(old[r])
  <2>1. /\ type' = [k \in Dict |-> IF k \in S THEN Written(newType[r], type[k]) ELSE type[k]]
        /\ name' = [k \in Dict |-> IF k \in S THEN Written(newName[r], name[k]) ELSE name[k]]
        /\ status' = [k \in Dict |-> IF k \in S THEN Written(newStatus[r], status[k]) ELSE status[k]]
        /\ UNCHANGED <<dicts, default, nextId>> /\ Finish(r)
    BY <1>3 DEF TypeWrite
  <2>2. \A k \in S : /\ k \in dicts
                     /\ Written(newType[r], type[k]) \in Type
                     /\ Written(newName[r], name[k]) \in TypeName
                     /\ Written(newStatus[r], status[k]) \in Status
    <3>. SUFFICES ASSUME NEW k \in S
                  PROVE  /\ k \in dicts
                         /\ Written(newType[r], type[k]) \in Type
                         /\ Written(newName[r], name[k]) \in TypeName
                         /\ Written(newStatus[r], status[k]) \in Status
      OBVIOUS
    <3>1. k \in dicts  BY DEF OfType
    <3>2. type[k] \in Type /\ name[k] \in TypeName /\ status[k] \in Status  BY <3>1 DEF RowsOK
    <3>3. /\ newType[r] \in Type \cup {"keep"} /\ newName[r] \in TypeName \cup {"keep"}
          /\ newStatus[r] \in Status \cup {"keep"}
      BY <1>p DEF JobType
    <3>. QED  BY <3>1, <3>2, <3>3, <1>k, WrittenIs
  <2>3. S \subseteq Dict  BY <1>p DEF OfType, TableType
  <2>4. loose' \in SUBSET Dict /\ odd' \in SUBSET Dict
    BY <1>p, <1>3, <2>3 DEF TypeWrite, HistoryType
  <2>. HIDE DEF S
  <2>5. TableType'  BY <1>p, <2>1, <2>2 DEF TableType
  <2>6. RowsOK'  BY <1>p, <2>1, <2>2 DEF RowsOK, TableType
  <2>. QED  BY <2>1, <2>4, <2>5, <2>6, FinishTyped
<1>4. ASSUME NEW t \in Type, TypeRemoveFind(r, t) PROVE Typed'
  <2>1. /\ UNCHANGED <<tableVars, listVars, historyVars>> /\ Goto(r, "type_remove")
        /\ Asked(r, 0, t, "keep", "keep", "keep", "keep")
    BY <1>4 DEF TypeRemoveFind
  <2>. QED  BY <2>1, StartTyped, Numbers
<1>5. CASE TypeRemove(r)
  <2>. DEFINE S == OfType(old[r])
  <2>1. Deleted(S) /\ Finish(r)  BY <1>5 DEF TypeRemove
  <2>. HIDE DEF S
  <2>2. TableType' /\ RowsOK'  BY <1>p, <2>1 DEF Deleted, TableType, RowsOK
  <2>3. loose' \in SUBSET Dict /\ odd' \in SUBSET Dict  BY <1>p, <2>1 DEF Deleted, HistoryType
  <2>. QED  BY <2>1, <2>2, <2>3, FinishTyped
<1>. QED  BY <1>1, <1>2, <1>3, <1>4, <1>5

\* The list store's steps, a failure and the end of the TTL keep the types.
LEMMA ListTyped ==
  ASSUME Typed,
         \/ \E r \in Request : \/ ListGet(r) \/ ListRead(r) \/ ListFill(r) \/ ListClear(r)
                               \/ Abort(r)
         \/ ListLapse
  PROVE  Typed'
<1>. USE DEF Typed
<1>p. TableType /\ JobType /\ ListType /\ HistoryType  BY Parts
<1>1. ASSUME NEW r \in Request, ListGet(r) \/ ListRead(r) \/ ListFill(r) \/ ListClear(r)
      PROVE  Typed'
  <2>1. UNCHANGED <<tableVars, jobVars, historyVars>>
    BY <1>1 DEF ListGet, ListRead, ListFill, ListClear
  <2>2. PICK q \in {"read", "fill", "idle"} : Goto(r, q)
    BY <1>1 DEF ListGet, ListRead, ListFill, ListClear
  <2>3. /\ JobType' /\ pc'[r] = q
        /\ \A p \in Request \ {r} :
             /\ pc'[p] = pc[p] /\ old'[p] = old[p] /\ newType'[p] = newType[p]
             /\ newName'[p] = newName[p] /\ newStatus'[p] = newStatus[p]
    BY <1>p, <2>1, <2>2, GotoType DEF Step
  <2>4. ~Creating(r)'  BY <2>2, <2>3 DEF Creating
  <2>5. JobsOK'  BY <2>3, <2>4, JobsKept
  <2>6. ListType'
    <3>1. CASE ListGet(r)  BY <1>p, <3>1 DEF ListType, ListGet, listVars
    <3>2. CASE ListRead(r)  BY <1>p, <3>2 DEF ListType, ListRead
    <3>3. CASE ListFill(r)
      <4>1. cache' = snap[r] /\ snap' = [snap EXCEPT ![r] = "none"]  BY <3>3 DEF ListFill
      <4>2. lateList' \in BOOLEAN
        <5>1. (snap[r] = "stale") \in BOOLEAN  OBVIOUS
        <5>. QED  BY <3>3, <5>1 DEF ListFill
      <4>. QED  BY <1>p, <4>1, <4>2 DEF ListType
    <3>4. CASE ListClear(r)  BY <1>p, <3>4 DEF ListType, ListClear
    <3>. QED  BY <1>1, <3>1, <3>2, <3>3, <3>4
  <2>7. TableType' /\ RowsOK' /\ HistoryType'
    BY <1>p, <2>1 DEF TableType, RowsOK, HistoryType, tableVars, historyVars
  <2>. QED  BY <2>3, <2>5, <2>6, <2>7, Parts
<1>2. ASSUME NEW r \in Request, Abort(r) PROVE Typed'
  <2>1. Done(r) /\ UNCHANGED <<tableVars, cache, loose, odd>>
        /\ snap' = [snap EXCEPT ![r] = "none"]
    BY <1>2 DEF Abort
  <2>2. /\ JobType' /\ pc'[r] = "idle"
        /\ \A p \in Request \ {r} :
             /\ pc'[p] = pc[p] /\ old'[p] = old[p] /\ newType'[p] = newType[p]
             /\ newName'[p] = newName[p] /\ newStatus'[p] = newStatus[p]
    BY <1>p, <2>1, DropType DEF Done
  <2>3. ~Creating(r)'  BY <2>2 DEF Creating
  <2>4. JobsOK'  BY <2>2, <2>3, JobsKept
  <2>5. lateList' \in BOOLEAN /\ overtaken' \in SUBSET Request  BY <1>p, <2>1, DoneType
  <2>6. ListType'  BY <1>p, <2>1, <2>5 DEF ListType
  <2>7. HistoryType'  BY <1>p, <2>1, <2>5 DEF HistoryType
  <2>8. TableType' /\ RowsOK'  BY <1>p, <2>1 DEF TableType, RowsOK, tableVars
  <2>. QED  BY <2>2, <2>4, <2>6, <2>7, <2>8, Parts
<1>3. CASE ListLapse
  <2>1. UNCHANGED <<tableVars, pc, jobVars, snap, historyVars>> /\ cache' = "none"
        /\ lateList' = FALSE
    BY <1>3 DEF ListLapse
  <2>2. TableType' /\ RowsOK' /\ HistoryType'
    BY <1>p, <2>1 DEF TableType, RowsOK, HistoryType, tableVars, historyVars
  <2>3. JobType' /\ JobsOK'  BY <1>p, <2>1 DEF JobType, JobsOK, Creating, jobVars
  <2>4. ListType'  BY <1>p, <2>1 DEF ListType
  <2>. QED  BY <2>2, <2>3, <2>4, Parts
<1>. QED  BY <1>1, <1>2, <1>3

\* A step by Next is one of those, of a request.
LEMMA StepCases ==
  ASSUME Next
  PROVE  \/ \E r \in Request :
              \/ \E t \in Type, n \in TypeName, f \in {"yes", "no", "keep"} :
                   CreateCheckType(r, t, n, f)
              \/ CreateCheckName(r) \/ CreateDefaults(r) \/ CreateStatus(r) \/ CreateWrite(r)
         \/ \E r \in Request :
              \/ \E k \in Dict, tt \in Type \cup {"keep"}, n \in TypeName \cup {"keep"},
                    f \in {"yes", "no", "keep"} : UpdateFind(r, k, tt, n, f)
              \/ UpdateDefaults(r) \/ UpdateWrite(r)
              \/ \E k \in Dict : RemoveFind(r, k)
              \/ RemoveWrite(r)
         \/ \E r \in Request :
              \/ \E t \in Type, tt \in Type \cup {"keep"}, n \in TypeName \cup {"keep"},
                    s \in Status \cup {"keep"} : TypeFind(r, t, tt, n, s)
              \/ TypeCheck(r) \/ TypeWrite(r)
              \/ \E t \in Type : TypeRemoveFind(r, t)
              \/ TypeRemove(r)
         \/ \/ \E r \in Request : \/ ListGet(r) \/ ListRead(r) \/ ListFill(r) \/ ListClear(r)
                                  \/ Abort(r)
            \/ ListLapse
<1>1. Editor \subseteq Request /\ Reader \subseteq Request  BY DEF Request
<1>2. Default \subseteq {"yes", "no"}  BY DictionaryConstants
<1>3. ASSUME NEW r \in Editor, NEW t \in Type, NEW n \in TypeName, NEW f \in Default \cup {"no"},
             CreateCheckType(r, t, n, f)
      PROVE  \E p \in Request : \E u \in Type, m \in TypeName, g \in {"yes", "no", "keep"} :
               CreateCheckType(p, u, m, g)
  BY <1>1, <1>2, <1>3
<1>4. ASSUME NEW r \in Editor, NEW k \in Dict, NEW tt \in Type \cup {"keep"},
             NEW n \in TypeName \cup {"keep"}, NEW f \in Default \cup {"keep"},
             UpdateFind(r, k, tt, n, f)
      PROVE  \E p \in Request : \E j \in Dict, u \in Type \cup {"keep"},
               m \in TypeName \cup {"keep"}, g \in {"yes", "no", "keep"} :
               UpdateFind(p, j, u, m, g)
  BY <1>1, <1>2, <1>4
<1>. QED  BY <1>1, <1>3, <1>4 DEF Next

\* Every step keeps every variable in its type.
LEMMA TypedPreserved == ASSUME Typed, [Next]_vars PROVE Typed'
<1>1. CASE Next  BY <1>1, StepCases, CreateTyped, RowTyped, TypeTyped, ListTyped
<1>2. CASE UNCHANGED vars
  <2>1. TableType' /\ JobType' /\ ListType' /\ HistoryType'
    <3>p. TableType /\ JobType /\ ListType /\ HistoryType  BY Parts DEF Typed
    <3>1. TableType'  BY <1>2, <3>p DEF TableType, vars, tableVars
    <3>2. JobType'  BY <1>2, <3>p DEF JobType, vars, jobVars
    <3>3. ListType'  BY <1>2, <3>p DEF ListType, vars, listVars
    <3>4. HistoryType'  BY <1>2, <3>p DEF HistoryType, vars, historyVars
    <3>. QED  BY <3>1, <3>2, <3>3, <3>4
  <2>2. RowsOK' /\ JobsOK'
    BY <1>2 DEF Typed, RowsOK, JobsOK, Creating, vars, tableVars, jobVars
  <2>. QED  BY <2>1, <2>2, Parts DEF Typed
<1>. QED  BY <1>1, <1>2

\* The first state is well typed.
LEMMA InitTyped == ASSUME Init PROVE Typed
<1>. USE DEF Init
<1>1. TableType  BY Numbers DEF TableType
<1>2. JobType /\ HistoryType  BY Numbers DEF JobType, HistoryType, Step
<1>3. ListType  BY DEF ListType
<1>4. RowsOK /\ JobsOK  BY DEF RowsOK, JobsOK, Creating
<1>. QED  BY <1>1, <1>2, <1>3, <1>4, Parts DEF Typed

\* Every variable keeps the shape the code gives it, for all constants.
THEOREM TypeCorrect == Spec => []TypeOK
<1>1. Spec => []Typed  BY InitTyped, TypedPreserved, PTL DEF Spec
<1>2. Typed => TypeOK  BY DEF Typed
<1>. QED  BY <1>1, <1>2, PTL

-----------------------------------------------------------------------------
(***************************************************************************)
(* What requests know                                                      *)
(***************************************************************************)

\* The invariant beside the types.
Rest == KnownOK /\ DefaultsComeLate /\ RowsUniform

\* A request that is idle, serves the list or clears it need not know anything.
LEMMA AtRest ==
  ASSUME NEW r \in Request, pc'[r] \in {"idle", "read", "fill", "clear"} PROVE Known(r)'
  BY DEF Known, Creating

\* A write of r overtakes all others that are busy.
LEMMA KnownOvertaken ==
  ASSUME NEW r \in Request, Busy \ {r} \subseteq overtaken',
         \A p \in Request \ {r} : pc'[p] = pc[p],
         r \in overtaken' \/ Known(r)'
  PROVE  KnownOK'
<1>. SUFFICES ASSUME NEW p \in Request, p \notin overtaken' PROVE Known(p)'
  BY DEF KnownOK
<1>1. CASE p # r
  <2>1. p \notin Busy  BY <1>1
  <2>2. pc'[p] \in {"idle", "read", "fill", "clear"}  BY <1>1, <2>1 DEF Busy
  <2>. QED  BY <2>2, AtRest
<1>. QED  BY <1>1

\* A step of r that writes no row leaves the others with what they know.
LEMMA KnownKept ==
  ASSUME KnownOK, NEW r \in Request, UNCHANGED tableVars, overtaken \ {r} \subseteq overtaken',
         \A p \in Request \ {r} :
           /\ pc'[p] = pc[p] /\ d'[p] = d[p] /\ old'[p] = old[p] /\ newType'[p] = newType[p]
           /\ newName'[p] = newName[p] /\ newStatus'[p] = newStatus[p]
           /\ newDefault'[p] = newDefault[p],
         r \in overtaken' \/ Known(r)'
  PROVE  KnownOK'
<1>. SUFFICES ASSUME NEW p \in Request, p \notin overtaken' PROVE Known(p)'
  BY DEF KnownOK
<1>1. CASE p # r
  <2>1. Known(p)  BY <1>1 DEF KnownOK
  <2>2. \A t : OfType(t)' = OfType(t)  BY DEF OfType, tableVars
  <2>3. type' = type /\ name' = name /\ status' = status /\ default' = default  BY DEF tableVars
  <2>. QED  BY <1>1, <2>1, <2>2, <2>3 DEF Known, Creating, Written
<1>. QED  BY <1>1

\* A step that writes no row leaves what holds of them.
LEMMA RowsAsTheyWere ==
  ASSUME DefaultsComeLate, RowsUniform, UNCHANGED tableVars, loose \subseteq loose',
         odd \subseteq odd'
  PROVE  DefaultsComeLate' /\ RowsUniform'
<1>1. DefaultsComeLate'  BY DEF DefaultsComeLate, tableVars
<1>2. RowsUniform'  BY DEF RowsUniform, tableVars
<1>. QED  BY <1>1, <1>2

\* The first step of an operation, which has read but not written.
LEMMA StartRest ==
  ASSUME Typed, Rest, UNCHANGED <<tableVars, listVars, historyVars>>,
         NEW r \in Request,
         \A p \in Request \ {r} :
           /\ pc'[p] = pc[p] /\ d'[p] = d[p] /\ old'[p] = old[p] /\ newType'[p] = newType[p]
           /\ newName'[p] = newName[p] /\ newStatus'[p] = newStatus[p]
           /\ newDefault'[p] = newDefault[p],
         r \in overtaken \/ Known(r)'
  PROVE  Rest'
<1>1. overtaken' = overtaken /\ loose' = loose /\ odd' = odd  BY DEF historyVars
<1>2. KnownOK'  BY <1>1, KnownKept DEF Rest
<1>3. DefaultsComeLate' /\ RowsUniform'  BY <1>1, RowsAsTheyWere DEF Rest
<1>. QED  BY <1>2, <1>3 DEF Rest

\* A request that ends without a write.
LEMMA DoneRest ==
  ASSUME Typed, Rest, NEW r \in Request, Done(r), UNCHANGED <<tableVars, loose, odd>>
  PROVE  Rest'
<1>. USE DEF Rest
<1>1. /\ pc'[r] = "idle"
      /\ \A p \in Request \ {r} :
           /\ pc'[p] = pc[p] /\ d'[p] = d[p] /\ old'[p] = old[p] /\ newType'[p] = newType[p]
           /\ newName'[p] = newName[p] /\ newStatus'[p] = newStatus[p]
           /\ newDefault'[p] = newDefault[p]
  BY Parts, DropType DEF Done, Typed
<1>2. Known(r)'  BY <1>1, AtRest
<1>3. KnownOK'  BY <1>1, <1>2, KnownKept DEF Done
<1>. QED  BY <1>3, RowsAsTheyWere

\* A request that has written and goes on to clear the list.
LEMMA FinishKnown ==
  ASSUME Typed, NEW r \in Request, Finish(r) PROVE KnownOK'
<1>1. /\ pc'[r] = "clear"
      /\ \A p \in Request \ {r} : pc'[p] = pc[p]
  BY Parts, DropType DEF Finish, Typed
<1>2. Known(r)'  BY <1>1, AtRest
<1>. QED  BY <1>1, <1>2, KnownOvertaken DEF Finish

\* Rows that are removed leave the others as they were.
LEMMA DeletedRest ==
  ASSUME Typed, Rest, NEW r \in Request, NEW S \in SUBSET Dict, Deleted(S), Finish(r)
  PROVE  Rest'
<1>. USE DEF Rest
<1>1. KnownOK'  BY FinishKnown
<1>d. dicts \subseteq Dict  BY Parts DEF Typed, TableType
<1>2. \A k \in dicts' : /\ k \in dicts \ S /\ type'[k] = type[k] /\ name'[k] = name[k]
                        /\ status'[k] = status[k]
                        /\ (k \in loose' <=> k \in loose) /\ (k \in odd' <=> k \in odd)
  BY <1>d DEF Deleted
<1>3. \A k \in dicts' : default'[k] => default[k]  BY <1>d, <1>2 DEF Deleted
<1>4. DefaultsComeLate'
  <2>. SUFFICES ASSUME NEW j \in dicts', NEW k \in dicts', j # k, type'[j] = type'[k],
                       default'[j], default'[k]
                PROVE  j \in loose' \/ k \in loose'
    BY DEF DefaultsComeLate
  <2>1. default[j] /\ default[k]  BY <1>3
  <2>2. {j, k} \cap loose # {}  BY <1>2, <2>1 DEF DefaultsComeLate
  <2>. QED  BY <1>2, <2>2
<1>5. RowsUniform'
  <2>. SUFFICES ASSUME NEW j \in dicts' \ odd', NEW k \in dicts' \ odd', type'[j] = type'[k]
                PROVE  name'[j] = name'[k] /\ status'[j] = status'[k]
    BY DEF RowsUniform
  <2>1. j \in dicts \ odd /\ k \in dicts \ odd /\ type[j] = type[k]  BY <1>2
  <2>2. name[j] = name[k] /\ status[j] = status[k]  BY <2>1 DEF RowsUniform
  <2>. QED  BY <1>2, <2>2
<1>. QED  BY <1>1, <1>4, <1>5

\* Switching defaults off keeps what holds of the rows.
LEMMA ClearedRows ==
  ASSUME Typed, Rest, NEW t, NEW k, ClearDefaults(t, k),
         UNCHANGED <<dicts, type, name, status, loose, odd>>
  PROVE  /\ \A j \in OfType(t) : j # k => ~default'[j]
         /\ DefaultsComeLate' /\ RowsUniform'
<1>d. dicts \subseteq Dict  BY Parts DEF Typed, TableType
<1>1. \A j \in OfType(t) : j # k => ~default'[j]  BY <1>d DEF ClearDefaults, OfType
<1>2. \A j \in dicts : default'[j] => default[j]  BY <1>d DEF ClearDefaults
<1>3. DefaultsComeLate'  BY <1>2 DEF Rest, DefaultsComeLate
<1>4. RowsUniform'  BY DEF Rest, RowsUniform
<1>. QED  BY <1>1, <1>3, <1>4

\* A new row that is not odd has the name and status of its type's rows; one that is
\* default and not loose finds no other default.
LEMMA CreateWriteRest == ASSUME Typed, Rest, NEW r \in Request, CreateWrite(r) PROVE Rest'
<1>. USE DEF Rest
<1>. DEFINE n == nextId
            t == newType[r]
<1>w. /\ dicts' = dicts \cup {n}
      /\ type' = [type EXCEPT ![n] = t]
      /\ name' = [name EXCEPT ![n] = newName[r]]
      /\ status' = [status EXCEPT ![n] = newStatus[r]]
      /\ default' = [default EXCEPT ![n] = (newDefault[r] = "yes")]
      /\ loose \subseteq loose' /\ odd \subseteq odd'
      /\ newDefault[r] = "yes" /\ r \in overtaken => n \in loose'
      /\ r \in overtaken \/ OfType(t) \cap odd # {} => n \in odd'
      /\ pc[r] = "create_write" /\ Finish(r)
  BY DEF CreateWrite
<1>p. TableType /\ JobType  BY Parts DEF Typed
<1>n. n \in Dict
  <2>1. nextId \in 1..(MaxDict + 1) /\ nextId <= MaxDict  BY <1>p DEF CreateWrite, TableType
  <2>. QED  BY <2>1, Numbers DEF Dict
<1>k. r \notin overtaken =>
        /\ newDefault[r] = "yes" => \A k \in OfType(t) : ~default[k]
        /\ OfType(t) = {} \/ \E k \in OfType(t) : name[k] = newName[r]
        /\ OfType(t) = {} \/ \E k \in OfType(t) : status[k] = newStatus[r]
  <2>1. t = old[r]  BY <1>w DEF Typed, JobsOK, Creating
  <2>2. r \notin overtaken => Known(r)  BY DEF KnownOK
  <2>. QED  BY <1>w, <2>1, <2>2 DEF Known, Creating
<1>. HIDE DEF n, t
<1>o. \A k \in dicts \ {n} : /\ type'[k] = type[k] /\ name'[k] = name[k]
                             /\ status'[k] = status[k] /\ default'[k] = default[k]
  BY <1>w, <1>p DEF TableType
<1>s. /\ type'[n] = t /\ name'[n] = newName[r] /\ status'[n] = newStatus[r]
      /\ default'[n] => newDefault[r] = "yes"
  BY <1>w, <1>p, <1>n DEF TableType
<1>1. KnownOK'  BY <1>w, FinishKnown
<1>2. ASSUME NEW k \in dicts \ {n}, type[k] = t, default[k], default'[n] PROVE n \in loose'
  <2>1. newDefault[r] = "yes"  BY <1>2, <1>s
  <2>2. k \in OfType(t)  BY <1>2 DEF OfType
  <2>. QED  BY <1>2, <2>1, <2>2, <1>k, <1>w
<1>3. DefaultsComeLate'
  <2>. SUFFICES ASSUME NEW j \in dicts', NEW k \in dicts', j # k, type'[j] = type'[k],
                       default'[j], default'[k]
                PROVE  j \in loose' \/ k \in loose'
    BY DEF DefaultsComeLate
  <2>1. CASE j = n
    <3>1. k \in dicts \ {n}  BY <1>w, <2>1
    <3>2. type[k] = t /\ default[k]  BY <3>1, <2>1, <1>o, <1>s
    <3>. QED  BY <3>1, <3>2, <2>1, <1>2
  <2>2. CASE k = n
    <3>1. j \in dicts \ {n}  BY <1>w, <2>2
    <3>2. type[j] = t /\ default[j]  BY <3>1, <2>2, <1>o, <1>s
    <3>. QED  BY <3>1, <3>2, <2>2, <1>2
  <2>3. CASE j # n /\ k # n
    <3>1. {j, k} \cap loose # {}  BY <2>3, <1>w, <1>o DEF DefaultsComeLate
    <3>. QED  BY <3>1, <1>w
  <2>. QED  BY <2>1, <2>2, <2>3
<1>4. ASSUME NEW k \in dicts \ {n}, k \notin odd, type[k] = t, n \notin odd'
      PROVE  name[k] = newName[r] /\ status[k] = newStatus[r]
  <2>1. r \notin overtaken /\ OfType(t) \cap odd = {}  BY <1>4, <1>w
  <2>2. k \in OfType(t)  BY <1>4 DEF OfType
  <2>3. PICK j \in OfType(t) : name[j] = newName[r]  BY <2>1, <2>2, <1>k
  <2>4. PICK i \in OfType(t) : status[i] = newStatus[r]  BY <2>1, <2>2, <1>k
  <2>5. name[k] = name[j] /\ status[k] = status[i]
    BY <2>1, <2>2, <2>3, <2>4 DEF RowsUniform, OfType
  <2>. QED  BY <2>3, <2>4, <2>5
<1>5. RowsUniform'
  <2>. SUFFICES ASSUME NEW j \in dicts' \ odd', NEW k \in dicts' \ odd', type'[j] = type'[k]
                PROVE  name'[j] = name'[k] /\ status'[j] = status'[k]
    BY DEF RowsUniform
  <2>0. j \notin odd /\ k \notin odd  BY <1>w
  <2>1. CASE j = n /\ k # n
    <3>1. k \in dicts \ {n}  BY <1>w, <2>1
    <3>2. type[k] = t  BY <3>1, <2>1, <1>o, <1>s
    <3>3. name[k] = newName[r] /\ status[k] = newStatus[r]  BY <3>1, <3>2, <2>0, <2>1, <1>4
    <3>. QED  BY <3>1, <3>3, <2>1, <1>o, <1>s
  <2>2. CASE k = n /\ j # n
    <3>1. j \in dicts \ {n}  BY <1>w, <2>2
    <3>2. type[j] = t  BY <3>1, <2>2, <1>o, <1>s
    <3>3. name[j] = newName[r] /\ status[j] = newStatus[r]  BY <3>1, <3>2, <2>0, <2>2, <1>4
    <3>. QED  BY <3>1, <3>3, <2>2, <1>o, <1>s
  <2>3. CASE j # n /\ k # n
    <3>1. j \in dicts \ {n} /\ k \in dicts \ {n}  BY <2>3, <1>w
    <3>2. type[j] = type[k]  BY <3>1, <1>o
    <3>3. name[j] = name[k] /\ status[j] = status[k]  BY <3>1, <3>2, <2>0 DEF RowsUniform
    <3>. QED  BY <3>1, <3>3, <1>o
  <2>4. CASE j = n /\ k = n  BY <2>4
  <2>. QED  BY <2>1, <2>2, <2>3, <2>4
<1>. QED  BY <1>1, <1>3, <1>5

\* DictService.create keeps the invariant.
LEMMA CreateRest ==
  ASSUME Typed, Rest, NEW r \in Request,
         \/ \E t \in Type, n \in TypeName, f \in {"yes", "no", "keep"} : CreateCheckType(r, t, n, f)
         \/ CreateCheckName(r) \/ CreateDefaults(r) \/ CreateStatus(r) \/ CreateWrite(r)
  PROVE  Rest'
<1>p. TableType /\ JobType  BY Parts DEF Typed
<1>s. {"create_name", "create_defaults", "create_status", "create_write"} \subseteq Step
  BY DEF Step
<1>1. ASSUME NEW t \in Type, NEW n \in TypeName, NEW f \in {"yes", "no", "keep"},
             CreateCheckType(r, t, n, f)
      PROVE  Rest'
  <2>1. /\ UNCHANGED <<tableVars, listVars, historyVars>> /\ Asked(r, 0, t, t, n, "keep", f)
        /\ OfType(t) = {} \/ \E k \in OfType(t) : name[k] = n
    BY <1>1 DEF CreateCheckType
  <2>2. PICK q \in {"create_name", "create_defaults", "create_status"} :
          Goto(r, q) /\ (q = "create_status" => f # "yes")
    BY <1>1 DEF CreateCheckType, DefaultsThen
  <2>3. /\ pc'[r] = q /\ old'[r] = t /\ newType'[r] = t /\ newName'[r] = n /\ newDefault'[r] = f
        /\ \A p \in Request \ {r} :
             /\ pc'[p] = pc[p] /\ d'[p] = d[p] /\ old'[p] = old[p] /\ newType'[p] = newType[p]
             /\ newName'[p] = newName[p] /\ newStatus'[p] = newStatus[p]
             /\ newDefault'[p] = newDefault[p]
    BY <1>p, <1>s, <2>1, <2>2, AskedType, Numbers
  <2>4. OfType(t)' = OfType(t) /\ name' = name  BY <2>1 DEF OfType, tableVars
  <2>5. Known(r)'  BY <2>1, <2>2, <2>3, <2>4 DEF Known
  <2>. QED  BY <2>1, <2>3, <2>5, StartRest
<1>2. CASE CreateCheckName(r)
  <2>1. UNCHANGED <<tableVars, cache, snap, loose, odd>> /\ pc[r] = "create_name"
    BY <1>2 DEF CreateCheckName
  <2>2. CASE Done(r)  BY <2>1, <2>2, DoneRest
  <2>3. ASSUME UNCHANGED <<jobVars, overtaken, lateList>>,
               NEW q \in {"create_defaults", "create_status"}, Goto(r, q),
               q = "create_status" => newDefault[r] # "yes"
        PROVE  Rest'
    <3>1. /\ pc'[r] = q /\ UNCHANGED jobVars
          /\ \A p \in Request \ {r} :
               /\ pc'[p] = pc[p] /\ d'[p] = d[p] /\ old'[p] = old[p] /\ newType'[p] = newType[p]
               /\ newName'[p] = newName[p] /\ newStatus'[p] = newStatus[p]
               /\ newDefault'[p] = newDefault[p]
      BY <1>p, <1>s, <2>3, GotoType
    <3>2. UNCHANGED <<listVars, historyVars>>  BY <2>1, <2>3 DEF listVars, historyVars
    <3>3. r \in overtaken \/ Known(r)'
      <4>1. r \in overtaken \/ Known(r)  BY DEF Rest, KnownOK
      <4>2. \A t : OfType(t)' = OfType(t)  BY <2>1 DEF OfType, tableVars
      <4>3. name' = name  BY <2>1 DEF tableVars
      <4>. QED  BY <2>1, <2>3, <3>1, <4>1, <4>2, <4>3 DEF Known, Creating, jobVars
    <3>. QED  BY <2>1, <3>1, <3>2, <3>3, StartRest
  <2>4. Done(r) \/ \E q \in {"create_defaults", "create_status"} :
          /\ UNCHANGED <<jobVars, overtaken, lateList>> /\ Goto(r, q)
          /\ q = "create_status" => newDefault[r] # "yes"
    BY <1>2 DEF CreateCheckName, DefaultsThen
  <2>. QED  BY <2>2, <2>3, <2>4
<1>3. CASE CreateDefaults(r)
  <2>1. /\ Goto(r, "create_status") /\ ClearDefaults(old[r], 0)
        /\ pc[r] = "create_defaults" /\ overtaken' = overtaken \cup (Busy \ {r})
        /\ UNCHANGED <<dicts, type, name, status, nextId, jobVars, loose, odd>>
    BY <1>3 DEF CreateDefaults, DefaultsWritten
  <2>2. /\ pc'[r] = "create_status"
        /\ \A p \in Request \ {r} : pc'[p] = pc[p]
    BY <1>p, <1>s, <2>1, GotoType
  <2>3. /\ \A j \in OfType(old[r]) : j # 0 => ~default'[j]
        /\ DefaultsComeLate' /\ RowsUniform'
    BY <2>1, ClearedRows
  <2>4. \A j \in OfType(old[r]) : j # 0  BY <1>p, Numbers DEF OfType, TableType
  <2>5. r \in overtaken' \/ Known(r)'
    <3>1. r \in overtaken \/ Known(r)  BY DEF Rest, KnownOK
    <3>2. OfType(old[r])' = OfType(old[r]) /\ UNCHANGED <<old, name, newName>>
      BY <2>1 DEF OfType, jobVars
    <3>. QED  BY <2>1, <2>2, <2>3, <2>4, <3>1, <3>2 DEF Known, Creating
  <2>6. KnownOK'  BY <2>1, <2>2, <2>5, KnownOvertaken
  <2>. QED  BY <2>3, <2>6 DEF Rest
<1>4. CASE CreateStatus(r)
  <2>1. /\ UNCHANGED <<tableVars, d, old, newType, newName, newDefault, listVars, historyVars>>
        /\ pc[r] = "create_status" /\ Goto(r, "create_write")
    BY <1>4 DEF CreateStatus
  <2>2. PICK s : newStatus' = [newStatus EXCEPT ![r] = s]
    BY <1>4 DEF CreateStatus
  <2>3. /\ pc'[r] = "create_write"
        /\ \A p \in Request \ {r} :
             /\ pc'[p] = pc[p] /\ d'[p] = d[p] /\ old'[p] = old[p] /\ newType'[p] = newType[p]
             /\ newName'[p] = newName[p] /\ newStatus'[p] = newStatus[p]
             /\ newDefault'[p] = newDefault[p]
    BY <1>p, <2>1, <2>2 DEF JobType, Goto
  <2>4. OfType(old[r]) = {} \/ \E k \in OfType(old[r]) : status[k] = newStatus'[r]
    BY <1>p, <1>4 DEF CreateStatus, JobType
  <2>5. r \in overtaken \/ Known(r)'
    <3>1. r \in overtaken \/ Known(r)  BY DEF Rest, KnownOK
    <3>2. OfType(old[r])' = OfType(old[r]) /\ UNCHANGED <<old, name, newName, status, default, newDefault>>
      BY <2>1 DEF OfType, tableVars
    <3>. QED  BY <2>1, <2>3, <2>4, <3>1, <3>2 DEF Known, Creating
  <2>. QED  BY <2>1, <2>3, <2>5, StartRest
<1>5. CASE CreateWrite(r)  BY <1>5, CreateWriteRest
<1>. QED  BY <1>1, <1>2, <1>3, <1>4, <1>5

\* An update that moves or renames a row makes it odd; one that makes it default while
\* others are, or moves it as default, makes it loose.
LEMMA UpdateWriteRest ==
  ASSUME Typed, Rest, NEW r \in Request, UpdateWrite(r), d[r] \in dicts
  PROVE  Rest'
<1>. USE DEF Rest
<1>. DEFINE n == d[r]
            t == Written(newType[r], type[n])
<1>p. TableType /\ JobType  BY Parts DEF Typed
<1>n. n \in Dict /\ n \in dicts  BY <1>p DEF TableType
<1>w. /\ pc[r] = "update_write" /\ Finish(r)
      /\ UNCHANGED <<dicts, status>>
      /\ type' = [type EXCEPT ![n] = t]
      /\ name' = [name EXCEPT ![n] = Written(newName[r], name[n])]
      /\ default' = [default EXCEPT ![n] = IF newDefault[r] = "keep" THEN default[n]
                                             ELSE newDefault[r] = "yes"]
      /\ loose' = IF MadeLoose(r) THEN loose \cup {n}
                  ELSE IF newDefault[r] = "keep" THEN loose ELSE loose \ {n}
      /\ odd' = IF Moved(r) \/ newName[r] \notin {"keep", name[n]} THEN odd \cup {n} ELSE odd
  BY DEF UpdateWrite
<1>m. ~Moved(r) => t = type[n]  BY DEF Moved, Written
<1>k. newDefault[r] = "yes" /\ r \notin overtaken => \A k \in OfType(t) : k # n => ~default[k]
  BY <1>w DEF KnownOK, Known
<1>c. Moved(r) => newType[r] # "keep" /\ newType[r] # type[n]  BY DEF Moved
<1>e. MadeLoose(r) <=> \/ newDefault[r] = "yes" /\ r \in overtaken
                       \/ newDefault[r] = "keep" /\ default[n] /\ Moved(r)
  BY DEF MadeLoose
<1>r. Written(newName[r], name[n]) = name[n] \/ newName[r] \notin {"keep", name[n]}
  BY DEF Written
<1>1. KnownOK'  BY <1>w, FinishKnown
<1>. HIDE DEF n, t
<1>o. \A k \in dicts \ {n} : /\ type'[k] = type[k] /\ name'[k] = name[k] /\ status'[k] = status[k]
                             /\ default'[k] = default[k] /\ (k \in loose' <=> k \in loose)
                             /\ (k \in odd' <=> k \in odd)
  BY <1>w, <1>p DEF TableType
<1>2. ASSUME NEW k \in dicts \ {n}, type'[n] = type[k], default[k], default'[n]
      PROVE  n \in loose' \/ k \in loose
  <2>1. type'[n] = t /\ k \in OfType(t)  BY <1>2, <1>w, <1>p, <1>n DEF OfType, TableType
  <2>2. CASE newDefault[r] = "keep"
    <3>1. default[n]  BY <1>2, <1>w, <1>p, <1>n, <2>2 DEF TableType
    <3>2. CASE Moved(r)  BY <1>w, <1>e, <2>2, <3>1, <3>2
    <3>3. CASE ~Moved(r)
      <4>1. type[n] = type[k]  BY <1>2, <1>m, <2>1, <3>3
      <4>2. {n, k} \cap loose # {}  BY <1>2, <1>n, <3>1, <4>1 DEF DefaultsComeLate
      <4>. QED  BY <1>w, <1>e, <2>2, <4>2
    <3>. QED  BY <3>2, <3>3
  <2>3. CASE newDefault[r] = "yes"
    <3>1. r \in overtaken  BY <1>2, <1>k, <2>1, <2>3
    <3>. QED  BY <1>w, <1>e, <2>3, <3>1
  <2>4. CASE newDefault[r] = "no"
    <3>1. default' = [default EXCEPT ![n] = (newDefault[r] = "yes")]  BY <1>w, <2>4
    <3>2. ~default'[n]  BY <1>p, <1>n, <2>4, <3>1 DEF TableType
    <3>. QED  BY <1>2, <3>2
  <2>. QED  BY <1>p, <2>2, <2>3, <2>4 DEF JobType
<1>3. DefaultsComeLate'
  <2>. SUFFICES ASSUME NEW j \in dicts', NEW k \in dicts', j # k, type'[j] = type'[k],
                       default'[j], default'[k]
                PROVE  j \in loose' \/ k \in loose'
    BY DEF DefaultsComeLate
  <2>1. CASE j = n
    <3>1. k \in dicts \ {n} /\ type'[n] = type[k] /\ default[k]  BY <2>1, <1>w, <1>o
    <3>. QED  BY <3>1, <2>1, <1>2, <1>o
  <2>2. CASE k = n
    <3>1. j \in dicts \ {n} /\ type'[n] = type[j] /\ default[j]  BY <2>2, <1>w, <1>o
    <3>. QED  BY <3>1, <2>2, <1>2, <1>o
  <2>3. CASE j # n /\ k # n
    <3>1. {j, k} \cap loose # {}  BY <2>3, <1>w, <1>o DEF DefaultsComeLate
    <3>. QED  BY <3>1, <2>3, <1>w, <1>o
  <2>. QED  BY <2>1, <2>2, <2>3
<1>4. RowsUniform'
  <2>. SUFFICES ASSUME NEW j \in dicts' \ odd', NEW k \in dicts' \ odd', type'[j] = type'[k]
                PROVE  name'[j] = name'[k] /\ status'[j] = status'[k]
    BY DEF RowsUniform
  <2>1. \A i \in dicts' \ odd' : /\ i \in dicts \ odd /\ type'[i] = type[i] /\ name'[i] = name[i]
                                 /\ status'[i] = status[i]
    <3>. SUFFICES ASSUME NEW i \in dicts' \ odd'
                  PROVE  /\ i \in dicts \ odd /\ type'[i] = type[i] /\ name'[i] = name[i]
                         /\ status'[i] = status[i]
      OBVIOUS
    <3>1. CASE i = n
      <4>1. ~Moved(r) /\ newName[r] \in {"keep", name[n]}  BY <3>1, <1>w
      <4>2. t = type[n] /\ Written(newName[r], name[n]) = name[n]  BY <4>1, <1>m, <1>r
      <4>. QED  BY <3>1, <4>1, <4>2, <1>w, <1>p, <1>n DEF TableType
    <3>2. CASE i # n  BY <3>2, <1>w, <1>o
    <3>. QED  BY <3>1, <3>2
  <2>2. name[j] = name[k] /\ status[j] = status[k]  BY <2>1 DEF RowsUniform
  <2>. QED  BY <2>1, <2>2
<1>. QED  BY <1>1, <1>3, <1>4

\* DictService.update and remove keep the invariant.
LEMMA RowRest ==
  ASSUME Typed, Rest, NEW r \in Request,
         \/ \E k \in Dict, tt \in Type \cup {"keep"}, n \in TypeName \cup {"keep"},
               f \in {"yes", "no", "keep"} : UpdateFind(r, k, tt, n, f)
         \/ UpdateDefaults(r) \/ UpdateWrite(r)
         \/ \E k \in Dict : RemoveFind(r, k)
         \/ RemoveWrite(r)
  PROVE  Rest'
<1>p. TableType /\ JobType  BY Parts DEF Typed
<1>1. ASSUME NEW k \in Dict, NEW tt \in Type \cup {"keep"}, NEW n \in TypeName \cup {"keep"},
             NEW f \in {"yes", "no", "keep"}, UpdateFind(r, k, tt, n, f)
      PROVE  Rest'
  <2>. DEFINE t == IF f = "yes" THEN Written(tt, type[k]) ELSE "none"
              q == DefaultsThen(f, "update_defaults", "update_write")
  <2>1. /\ UNCHANGED <<tableVars, listVars, historyVars>>
        /\ Asked(r, k, t, tt, n, "keep", f) /\ Goto(r, q)
    BY <1>1 DEF UpdateFind
  <2>2. /\ q = "update_defaults" => t = Written(tt, type[k])
        /\ q = "update_write" => f # "yes"
        /\ q \in {"update_defaults", "update_write"}
    BY DEF DefaultsThen
  <2>. HIDE DEF t, q
  <2>3. /\ pc'[r] = q /\ d'[r] = k /\ old'[r] = t /\ newType'[r] = tt /\ newDefault'[r] = f
        /\ \A p \in Request \ {r} :
             /\ pc'[p] = pc[p] /\ d'[p] = d[p] /\ old'[p] = old[p] /\ newType'[p] = newType[p]
             /\ newName'[p] = newName[p] /\ newStatus'[p] = newStatus[p]
             /\ newDefault'[p] = newDefault[p]
    BY <1>p, <2>1 DEF JobType, Asked, Goto
  <2>4. Known(r)'  BY <2>1, <2>2, <2>3 DEF Known, Creating, tableVars, Written
  <2>. QED  BY <2>1, <2>3, <2>4, StartRest
<1>2. CASE UpdateDefaults(r)
  <2>1. /\ pc' = [pc EXCEPT ![r] = "update_write"] /\ ClearDefaults(old[r], d[r])
        /\ pc[r] = "update_defaults" /\ overtaken' = overtaken \cup (Busy \ {r})
        /\ UNCHANGED <<dicts, type, name, status, d, newType, newDefault, loose, odd>>
    BY <1>2 DEF UpdateDefaults, DefaultsWritten, Goto
  <2>2. pc'[r] = "update_write" /\ \A p \in Request \ {r} : pc'[p] = pc[p]
    BY <1>p, <2>1 DEF JobType
  <2>3. /\ \A j \in OfType(old[r]) : j # d[r] => ~default'[j]
        /\ DefaultsComeLate' /\ RowsUniform'
    BY <2>1, ClearedRows
  <2>4. r \in overtaken' \/ Known(r)'
    <3>1. r \in overtaken \/ old[r] = Written(newType[r], type[d[r]])
      BY <2>1 DEF Rest, KnownOK, Known
    <3>3. CASE r \in overtaken  BY <3>3, <2>1
    <3>4. CASE old[r] = Written(newType[r], type[d[r]])
      <4>1. Written(newType[r], type[d[r]])' = old[r]  BY <3>4, <2>1 DEF Written
      <4>2. \A j \in OfType(Written(newType[r], type[d[r]]))' : j # d'[r] => ~default'[j]
        BY <2>1, <2>3, <4>1 DEF OfType
      <4>. QED  BY <2>2, <4>2 DEF Known, Creating
    <3>. QED  BY <3>1, <3>3, <3>4
  <2>5. KnownOK'  BY <2>1, <2>2, <2>4, KnownOvertaken
  <2>. QED  BY <2>3, <2>5 DEF Rest
<1>3. CASE UpdateWrite(r)
  <2>1. CASE d[r] \in dicts  BY <1>3, <2>1, UpdateWriteRest
  <2>2. CASE d[r] \notin dicts  BY <1>3, <2>2, DoneRest DEF UpdateWrite
  <2>. QED  BY <2>1, <2>2
<1>4. ASSUME NEW k \in Dict, RemoveFind(r, k) PROVE Rest'
  <2>1. /\ UNCHANGED <<tableVars, listVars, historyVars>> /\ Goto(r, "remove_write")
        /\ Asked(r, k, "none", "keep", "keep", "keep", "keep")
    BY <1>4 DEF RemoveFind
  <2>2. /\ pc'[r] = "remove_write"
        /\ \A p \in Request \ {r} :
             /\ pc'[p] = pc[p] /\ d'[p] = d[p] /\ old'[p] = old[p] /\ newType'[p] = newType[p]
             /\ newName'[p] = newName[p] /\ newStatus'[p] = newStatus[p]
             /\ newDefault'[p] = newDefault[p]
    BY <1>p, <2>1 DEF JobType, Asked, Goto
  <2>3. Known(r)'  BY <2>2 DEF Known, Creating
  <2>. QED  BY <2>1, <2>2, <2>3, StartRest
<1>5. CASE RemoveWrite(r)
  <2>1. CASE d[r] \in dicts
    <3>1. Deleted({d[r]}) /\ Finish(r) /\ {d[r]} \in SUBSET Dict
      BY <1>5, <1>p, <2>1 DEF RemoveWrite, TableType
    <3>. QED  BY <3>1, DeletedRest
  <2>2. CASE d[r] \notin dicts  BY <1>5, <2>2, DoneRest DEF RemoveWrite
  <2>. QED  BY <2>1, <2>2
<1>. QED  BY <1>1, <1>2, <1>3, <1>4, <1>5

\* A type that is given a new code meets no row of that code unless it was overtaken.
LEMMA TypeWriteRest == ASSUME Typed, Rest, NEW r \in Request, TypeWrite(r) PROVE Rest'
<1>. USE DEF Rest
<1>. DEFINE S == OfType(old[r])
            t == newType[r]
<1>p. TableType /\ JobType  BY Parts DEF Typed
<1>w. /\ pc[r] = "type_write" /\ Finish(r) /\ UNCHANGED <<dicts, default>>
      /\ type' = [k \in Dict |-> IF k \in S THEN Written(t, type[k]) ELSE type[k]]
      /\ name' = [k \in Dict |-> IF k \in S THEN Written(newName[r], name[k]) ELSE name[k]]
      /\ status' = [k \in Dict |-> IF k \in S THEN Written(newStatus[r], status[k]) ELSE status[k]]
      /\ loose' = IF t # "keep" /\ r \in overtaken
                  THEN loose \cup {k \in S : default[k]} ELSE loose
      /\ odd' = IF t # "keep" /\ r \in overtaken THEN odd \cup S ELSE odd
  BY DEF TypeWrite
<1>k. r \in overtaken \/ t \in {"keep", old[r]} \/ OfType(t) = {}
  BY <1>w DEF KnownOK, Known
<1>s. \A k \in dicts : k \in S <=> type[k] = old[r]  BY DEF OfType
<1>d. dicts \subseteq Dict  BY <1>p DEF TableType
<1>1. KnownOK'  BY <1>w, FinishKnown
<1>. HIDE DEF S
<1>2. ASSUME NEW j \in S, NEW k \in dicts \ S, j \in dicts, type'[j] = type'[k]
      PROVE  t # "keep" /\ r \in overtaken
  <2>1. type'[k] = type[k] /\ type'[j] = Written(t, type[j]) /\ type[j] = old[r]
    BY <1>2, <1>w, <1>d, <1>s
  <2>2. type[k] # old[r]  BY <1>2, <1>s
  <2>3. t # "keep" /\ type[k] = t  BY <1>2, <2>1, <2>2 DEF Written
  <2>4. k \in OfType(t)  BY <2>3 DEF OfType
  <2>. QED  BY <2>2, <2>3, <2>4, <1>k
<1>3. ASSUME NEW j \in dicts, NEW k \in dicts, (j \in S) <=> (k \in S), type'[j] = type'[k]
      PROVE  type[j] = type[k]
  <2>1. CASE j \in S  BY <1>3, <2>1, <1>s
  <2>2. CASE j \notin S  BY <1>3, <2>2, <1>w, <1>d
  <2>. QED  BY <2>1, <2>2
<1>4. DefaultsComeLate'
  <2>. SUFFICES ASSUME NEW j \in dicts, NEW k \in dicts, j # k, type'[j] = type'[k],
                       default[j], default[k]
                PROVE  j \in loose' \/ k \in loose'
    BY <1>w DEF DefaultsComeLate
  <2>1. CASE j \in S /\ k \notin S  BY <2>1, <1>2, <1>w
  <2>2. CASE k \in S /\ j \notin S
    <3>1. t # "keep" /\ r \in overtaken  BY <2>2, <1>2
    <3>. QED  BY <2>2, <3>1, <1>w
  <2>3. CASE (j \in S) <=> (k \in S)
    <3>1. {j, k} \cap loose # {}  BY <2>3, <1>3 DEF DefaultsComeLate
    <3>. QED  BY <3>1, <1>w
  <2>. QED  BY <2>1, <2>2, <2>3
<1>5. RowsUniform'
  <2>. SUFFICES ASSUME NEW j \in dicts, NEW k \in dicts, j \notin odd', k \notin odd',
                       type'[j] = type'[k]
                PROVE  name'[j] = name'[k] /\ status'[j] = status'[k]
    BY <1>w DEF RowsUniform
  <2>1. CASE j \in S /\ k \notin S
    <3>1. t # "keep" /\ r \in overtaken  BY <2>1, <1>2
    <3>. QED  BY <2>1, <3>1, <1>w
  <2>2. CASE k \in S /\ j \notin S
    <3>1. t # "keep" /\ r \in overtaken  BY <2>2, <1>2
    <3>. QED  BY <2>2, <3>1, <1>w
  <2>3. CASE (j \in S) <=> (k \in S)
    <3>1. j \notin odd /\ k \notin odd  BY <1>w
    <3>2. type[j] = type[k]  BY <2>3, <1>3
    <3>3. name[j] = name[k] /\ status[j] = status[k]  BY <3>1, <3>2 DEF RowsUniform
    <3>4. CASE j \in S  BY <2>3, <3>3, <3>4, <1>w, <1>d DEF Written
    <3>5. CASE j \notin S  BY <2>3, <3>3, <3>5, <1>w, <1>d
    <3>. QED  BY <3>4, <3>5
  <2>. QED  BY <2>1, <2>2, <2>3
<1>. QED  BY <1>1, <1>4, <1>5

\* DictService.updateDictType and removeDictType keep the invariant.
LEMMA TypeRest ==
  ASSUME Typed, Rest, NEW r \in Request,
         \/ \E t \in Type, tt \in Type \cup {"keep"}, n \in TypeName \cup {"keep"},
               s \in Status \cup {"keep"} : TypeFind(r, t, tt, n, s)
         \/ TypeCheck(r) \/ TypeWrite(r)
         \/ \E t \in Type : TypeRemoveFind(r, t)
         \/ TypeRemove(r)
  PROVE  Rest'
<1>p. TableType /\ JobType  BY Parts DEF Typed
<1>1. ASSUME NEW t \in Type, NEW tt \in Type \cup {"keep"}, NEW n \in TypeName \cup {"keep"},
             NEW s \in Status \cup {"keep"}, TypeFind(r, t, tt, n, s)
      PROVE  Rest'
  <2>1. /\ UNCHANGED <<tableVars, listVars, historyVars>> /\ Asked(r, 0, t, tt, n, s, "keep")
    BY <1>1 DEF TypeFind
  <2>2. PICK q \in {"type_write", "type_check"} :
          Goto(r, q) /\ (q = "type_write" => tt \in {"keep", t})
    BY <1>1 DEF TypeFind
  <2>3. /\ pc'[r] = q /\ old'[r] = t /\ newType'[r] = tt
        /\ \A p \in Request \ {r} :
             /\ pc'[p] = pc[p] /\ d'[p] = d[p] /\ old'[p] = old[p] /\ newType'[p] = newType[p]
             /\ newName'[p] = newName[p] /\ newStatus'[p] = newStatus[p]
             /\ newDefault'[p] = newDefault[p]
    BY <1>p, <2>1, <2>2 DEF JobType, Asked, Goto
  <2>4. Known(r)'  BY <2>2, <2>3 DEF Known, Creating
  <2>. QED  BY <2>1, <2>3, <2>4, StartRest
<1>2. CASE TypeCheck(r)
  <2>. USE <1>2 DEF TypeCheck
  <2>1. CASE OfType(newType[r]) # {}  BY <2>1, DoneRest
  <2>2. CASE OfType(newType[r]) = {}
    <3>1. /\ pc'[r] = "type_write" /\ UNCHANGED <<tableVars, jobVars>>
          /\ \A p \in Request \ {r} :
               /\ pc'[p] = pc[p] /\ d'[p] = d[p] /\ old'[p] = old[p] /\ newType'[p] = newType[p]
               /\ newName'[p] = newName[p] /\ newStatus'[p] = newStatus[p]
               /\ newDefault'[p] = newDefault[p]
      BY <1>p, <2>2, GotoType DEF Step
    <3>2. UNCHANGED <<listVars, historyVars>>  BY <2>2 DEF listVars, historyVars
    <3>3. OfType(newType[r])' = {}  BY <2>2, <3>1 DEF OfType, tableVars, jobVars
    <3>4. Known(r)'  BY <3>1, <3>3 DEF Known, Creating
    <3>. QED  BY <3>1, <3>2, <3>4, StartRest
  <2>. QED  BY <2>1, <2>2
<1>3. CASE TypeWrite(r)  BY <1>3, TypeWriteRest
<1>4. ASSUME NEW t \in Type, TypeRemoveFind(r, t) PROVE Rest'
  <2>1. /\ UNCHANGED <<tableVars, listVars, historyVars>> /\ Goto(r, "type_remove")
        /\ Asked(r, 0, t, "keep", "keep", "keep", "keep")
    BY <1>4 DEF TypeRemoveFind
  <2>2. /\ pc'[r] = "type_remove"
        /\ \A p \in Request \ {r} :
             /\ pc'[p] = pc[p] /\ d'[p] = d[p] /\ old'[p] = old[p] /\ newType'[p] = newType[p]
             /\ newName'[p] = newName[p] /\ newStatus'[p] = newStatus[p]
             /\ newDefault'[p] = newDefault[p]
    BY <1>p, <2>1 DEF JobType, Asked, Goto
  <2>3. Known(r)'  BY <2>2 DEF Known, Creating
  <2>. QED  BY <2>1, <2>2, <2>3, StartRest
<1>5. CASE TypeRemove(r)
  <2>1. Deleted(OfType(old[r])) /\ Finish(r) /\ OfType(old[r]) \in SUBSET Dict
    BY <1>5, <1>p DEF TypeRemove, OfType, TableType
  <2>. QED  BY <2>1, DeletedRest
<1>. QED  BY <1>1, <1>2, <1>3, <1>4, <1>5

\* The list store's steps, a failure and the end of the TTL keep the invariant.
LEMMA ListRest ==
  ASSUME Typed, Rest,
         \/ \E r \in Request : \/ ListGet(r) \/ ListRead(r) \/ ListFill(r) \/ ListClear(r)
                               \/ Abort(r)
         \/ ListLapse
  PROVE  Rest'
<1>p. TableType /\ JobType  BY Parts DEF Typed
<1>1. ASSUME NEW r \in Request, ListGet(r) \/ ListRead(r) \/ ListFill(r) \/ ListClear(r)
      PROVE  Rest'
  <2>1. UNCHANGED <<tableVars, jobVars, historyVars>>
    BY <1>1 DEF ListGet, ListRead, ListFill, ListClear
  <2>2. PICK q \in {"read", "fill", "idle"} : Goto(r, q)
    BY <1>1 DEF ListGet, ListRead, ListFill, ListClear
  <2>3. /\ pc'[r] = q
        /\ \A p \in Request \ {r} :
             /\ pc'[p] = pc[p] /\ d'[p] = d[p] /\ old'[p] = old[p] /\ newType'[p] = newType[p]
             /\ newName'[p] = newName[p] /\ newStatus'[p] = newStatus[p]
             /\ newDefault'[p] = newDefault[p]
    BY <1>p, <2>1, <2>2, GotoType DEF Step
  <2>4. Known(r)'  BY <2>3, AtRest
  <2>5. overtaken' = overtaken /\ loose' = loose /\ odd' = odd  BY <2>1 DEF historyVars
  <2>6. KnownOK'  BY <2>1, <2>3, <2>4, <2>5, KnownKept DEF Rest
  <2>7. DefaultsComeLate' /\ RowsUniform'  BY <2>1, <2>5, RowsAsTheyWere DEF Rest
  <2>. QED  BY <2>6, <2>7 DEF Rest
<1>2. ASSUME NEW r \in Request, Abort(r) PROVE Rest'
  <2>1. Done(r) /\ UNCHANGED <<tableVars, loose, odd>>  BY <1>2 DEF Abort
  <2>. QED  BY <2>1, DoneRest
<1>3. CASE ListLapse
  <2>1. UNCHANGED <<tableVars, pc, jobVars, historyVars>>  BY <1>3 DEF ListLapse
  <2>2. KnownOK'
    BY <2>1 DEF Rest, KnownOK, Known, Creating, OfType, Written, tableVars, jobVars, historyVars
  <2>3. DefaultsComeLate' /\ RowsUniform'  BY <2>1, RowsAsTheyWere DEF Rest, historyVars
  <2>. QED  BY <2>2, <2>3 DEF Rest
<1>. QED  BY <1>1, <1>2, <1>3

\* Every step keeps the invariant.
LEMMA Inductive == ASSUME IInv, [Next]_vars PROVE IInv'
<1>1. Typed /\ Rest  BY DEF IInv, Rest
<1>2. Typed'  BY <1>1, TypedPreserved
<1>3. CASE Next  BY <1>1, <1>2, <1>3, StepCases, CreateRest, RowRest, TypeRest, ListRest DEF IInv, Rest
<1>4. CASE UNCHANGED vars
  <2>1. UNCHANGED <<tableVars, pc, jobVars, historyVars>>  BY <1>4 DEF vars
  <2>2. KnownOK'
    BY <1>1, <2>1 DEF Rest, KnownOK, Known, Creating, OfType, Written, tableVars, jobVars, historyVars
  <2>3. DefaultsComeLate' /\ RowsUniform'  BY <1>1, <2>1, RowsAsTheyWere DEF Rest, historyVars
  <2>. QED  BY <1>2, <2>2, <2>3 DEF IInv
<1>. QED  BY <1>3, <1>4

\* The first state satisfies it: there is no row.
LEMMA InitInvariant == ASSUME Init PROVE IInv
<1>1. Typed  BY InitTyped
<1>2. \A r \in Request : pc[r] = "idle"  BY DEF Init
<1>3. KnownOK  BY <1>2 DEF KnownOK, Known, Creating
<1>4. DefaultsComeLate /\ RowsUniform  BY DEF Init, DefaultsComeLate, RowsUniform
<1>. QED  BY <1>1, <1>3, <1>4 DEF IInv

\* The inductive invariant holds in every reachable state.
THEOREM Invariant == Spec => []IInv
  BY InitInvariant, Inductive, PTL DEF Spec

\* Of two default rows of a type one was moved there as default or made default by a
\* request that another overtook: DictService.create, update and updateDictType.
THEOREM TwoDefaultsComeLate == Spec => []DefaultsComeLate
<1>1. IInv => DefaultsComeLate  BY DEF IInv
<1>. QED  BY <1>1, Invariant, PTL

\* Rows of a type that nobody renamed or moved one by one, and that no overtaken request
\* wrote, have one name and one status: the copies of the type in its rows.
THEOREM TypesStayUniform == Spec => []TypesUniform
<1>1. RowsUniform => TypesUniform
  <2>1. SUFFICES ASSUME RowsUniform, NEW S \in Found, NEW u \in TypeNodes(S \ odd),
                        NEW v \in TypeNodes(S \ odd), u.type = v.type
                 PROVE  u.name = v.name /\ u.status = v.status
    BY DEF TypesUniform
  <2>. DEFINE Node(k) == [type |-> type[k], name |-> name[k], status |-> status[k],
                          children |-> {j \in S \ odd : type[j] = type[k]}]
  <2>2. PICK j \in S \ odd : u = Node(j)  BY DEF TypeNodes
  <2>3. PICK k \in S \ odd : v = Node(k)  BY DEF TypeNodes
  <2>4. j \in dicts \ odd /\ k \in dicts \ odd  BY <2>2, <2>3 DEF Found
  <2>. QED  BY <2>1, <2>2, <2>3, <2>4 DEF RowsUniform
<1>2. IInv => RowsUniform  BY DEF IInv
<1>. QED  BY <1>1, <1>2, Invariant, PTL

-----------------------------------------------------------------------------
(***************************************************************************)
(* What overlapping requests break, and what a single one does             *)
(***************************************************************************)

\* Requests of administrators never overlap between their first query and their write.
WritersApart == \A a, b \in Busy : a = b

\* No update that says nothing of isDefault moves a default row to another type.
DefaultsStay == \A r \in Request :
  pc[r] = "update_write" /\ newDefault[r] = "keep" /\ d[r] \in dicts /\ default[d[r]] => ~Moved(r)

\* No update gives one row another type, or another name of its type.
RowsStay == \A r \in Request :
  pc[r] = "update_write" /\ d[r] \in dicts => ~Moved(r) /\ newName[r] \in {"keep", name[d[r]]}

\* A writer that is the only one to be busy overtakes nobody.
LEMMA ApartOvertakesNone ==
  ASSUME WritersApart, overtaken = {}, [Next]_vars
  PROVE  overtaken' = {}
<1>1. ASSUME NEW r \in Request, Done(r) PROVE overtaken' = {}
  BY <1>1 DEF Done
<1>2. ASSUME NEW r \in Request, DefaultsWritten(r) \/ Finish(r),
             pc[r] \notin {"idle", "read", "fill", "clear"}
      PROVE  overtaken' = {}
  <2>1. Busy \ {r} = {}  BY <1>2 DEF WritersApart, Busy
  <2>. QED  BY <1>2, <2>1 DEF DefaultsWritten, Finish
<1>3. UNCHANGED historyVars => overtaken' = {}  BY DEF historyVars
<1>4. ASSUME NEW r \in Request,
             CreateDefaults(r) \/ CreateWrite(r) \/ UpdateDefaults(r) \/ UpdateWrite(r)
             \/ RemoveWrite(r) \/ TypeWrite(r) \/ TypeRemove(r)
      PROVE  overtaken' = {}
  BY <1>1, <1>2, <1>4 DEF CreateDefaults, CreateWrite, UpdateDefaults, UpdateWrite, RemoveWrite,
                          TypeWrite, TypeRemove
<1>5. ASSUME NEW r \in Request, CreateCheckName(r) \/ TypeCheck(r) \/ Abort(r)
      PROVE  overtaken' = {}
  BY <1>1, <1>5 DEF CreateCheckName, TypeCheck, Abort
<1>6. CASE Next
  <2>1. ASSUME NEW r \in Request,
               \/ \E t \in Type, n \in TypeName, f \in {"yes", "no", "keep"} :
                    CreateCheckType(r, t, n, f)
               \/ CreateStatus(r)
               \/ \E k \in Dict, tt \in Type \cup {"keep"}, n \in TypeName \cup {"keep"},
                     f \in {"yes", "no", "keep"} : UpdateFind(r, k, tt, n, f)
               \/ \E k \in Dict : RemoveFind(r, k)
               \/ \E t \in Type, tt \in Type \cup {"keep"}, n \in TypeName \cup {"keep"},
                     s \in Status \cup {"keep"} : TypeFind(r, t, tt, n, s)
               \/ \E t \in Type : TypeRemoveFind(r, t)
               \/ ListGet(r) \/ ListRead(r) \/ ListFill(r) \/ ListClear(r)
        PROVE  overtaken' = {}
    BY <1>3, <2>1 DEF CreateCheckType, CreateStatus, UpdateFind, RemoveFind, TypeFind,
                      TypeRemoveFind, ListGet, ListRead, ListFill, ListClear
  <2>2. ListLapse => overtaken' = {}  BY <1>3 DEF ListLapse
  <2>. QED  BY <1>4, <1>5, <1>6, <2>1, <2>2, StepCases
<1>7. CASE UNCHANGED vars  BY <1>3, <1>7 DEF vars
<1>. QED  BY <1>6, <1>7

\* The history of rows grows in the writes of a row or of a type only.
LEMMA HistorySteps ==
  ASSUME [Next]_vars
  PROVE  \/ loose' \subseteq loose /\ odd' \subseteq odd
         \/ \E r \in Request :
              CreateWrite(r) \/ (UpdateWrite(r) /\ d[r] \in dicts) \/ TypeWrite(r)
<1>. DEFINE Goal == \/ loose' \subseteq loose /\ odd' \subseteq odd
                    \/ \E r \in Request :
                         CreateWrite(r) \/ (UpdateWrite(r) /\ d[r] \in dicts) \/ TypeWrite(r)
<1>1. UNCHANGED <<loose, odd>> => Goal  OBVIOUS
<1>2. ASSUME NEW r \in Request,
             \/ \E t \in Type, n \in TypeName, f \in {"yes", "no", "keep"} :
                  CreateCheckType(r, t, n, f)
             \/ CreateStatus(r)
             \/ \E k \in Dict, tt \in Type \cup {"keep"}, n \in TypeName \cup {"keep"},
                   f \in {"yes", "no", "keep"} : UpdateFind(r, k, tt, n, f)
             \/ \E k \in Dict : RemoveFind(r, k)
             \/ \E t \in Type, tt \in Type \cup {"keep"}, n \in TypeName \cup {"keep"},
                   s \in Status \cup {"keep"} : TypeFind(r, t, tt, n, s)
             \/ \E t \in Type : TypeRemoveFind(r, t)
             \/ ListGet(r) \/ ListRead(r) \/ ListFill(r) \/ ListClear(r)
      PROVE  Goal
  <2>1. UNCHANGED historyVars
    BY <1>2 DEF CreateCheckType, CreateStatus, UpdateFind, RemoveFind, TypeFind,
                TypeRemoveFind, ListGet, ListRead, ListFill, ListClear
  <2>. QED  BY <2>1 DEF historyVars
<1>3. ASSUME NEW r \in Request,
             CreateCheckName(r) \/ TypeCheck(r) \/ Abort(r) \/ CreateDefaults(r)
             \/ UpdateDefaults(r)
      PROVE  Goal
  BY <1>3 DEF CreateCheckName, TypeCheck, Abort, CreateDefaults, UpdateDefaults
<1>4. ASSUME NEW r \in Request, RemoveWrite(r) \/ TypeRemove(r) PROVE Goal
  BY <1>4 DEF RemoveWrite, TypeRemove, Deleted
<1>5. ASSUME NEW r \in Request, UpdateWrite(r), d[r] \notin dicts PROVE Goal
  BY <1>5 DEF UpdateWrite
<1>6. ListLapse \/ UNCHANGED vars => Goal  BY DEF ListLapse, vars, historyVars
<1>7. Goal
  <2>1. ASSUME NEW r \in Request, CreateWrite(r) \/ (UpdateWrite(r) /\ d[r] \in dicts) \/ TypeWrite(r)
        PROVE  Goal
    BY <2>1
  <2>. HIDE DEF Goal
  <2>. QED  BY <1>2, <1>3, <1>4, <1>5, <1>6, <2>1, StepCases
<1>. QED  BY <1>7

\* DictService keeps one default per type at most, when requests do not overlap and no
\* update moves a default row without saying what becomes of its isDefault: these are the
\* only two ways to a second default.  For any number of rows and types.
THEOREM OneDefaultWhenApart ==
  Spec /\ []WritersApart /\ []DefaultsStay
    => [](\A j, k \in dicts : type[j] = type[k] /\ default[j] /\ default[k] => j = k)
<1>. DEFINE Inv == overtaken = {} /\ loose = {}
            One == \A j, k \in dicts : type[j] = type[k] /\ default[j] /\ default[k] => j = k
<1>1. Init => Inv  BY DEF Init
<1>2. Inv /\ WritersApart /\ DefaultsStay /\ [Next]_vars => Inv'
  <2>1. SUFFICES ASSUME Inv, WritersApart, DefaultsStay, [Next]_vars PROVE loose' = {}
    BY ApartOvertakesNone
  <2>2. ASSUME NEW r \in Request, CreateWrite(r) PROVE loose' = {}
    BY <2>1, <2>2 DEF CreateWrite
  <2>3. ASSUME NEW r \in Request, UpdateWrite(r), d[r] \in dicts PROVE loose' = {}
    <3>1. ~MadeLoose(r)  BY <2>1, <2>3 DEF MadeLoose, DefaultsStay, UpdateWrite
    <3>. QED  BY <2>1, <2>3, <3>1 DEF UpdateWrite
  <2>4. ASSUME NEW r \in Request, TypeWrite(r) PROVE loose' = {}
    BY <2>1, <2>4 DEF TypeWrite
  <2>. QED  BY <2>1, <2>2, <2>3, <2>4, HistorySteps
<1>3. Inv /\ DefaultsComeLate => One  BY DEF DefaultsComeLate
<1>. HIDE DEF One
<1>4. Spec /\ []WritersApart /\ []DefaultsStay => []One
  BY <1>1, <1>2, <1>3, TwoDefaultsComeLate, PTL DEF Spec
<1>. QED  BY <1>4 DEF One

\* DictService.getDictTree answers one node per type, whatever a search finds, when
\* requests do not overlap and no update renames or moves a single row of a type: these
\* are the only ways to two names or states of one type.
THEOREM OneNodeWhenApart ==
  Spec /\ []WritersApart /\ []RowsStay
    => [](\A S \in Found : \A u, v \in TypeNodes(S) : u.type = v.type => u = v)
<1>. DEFINE Inv == overtaken = {} /\ odd = {}
            One == \A S \in Found : \A u, v \in TypeNodes(S) : u.type = v.type => u = v
<1>1. Init => Inv  BY DEF Init
<1>2. Inv /\ WritersApart /\ RowsStay /\ [Next]_vars => Inv'
  <2>1. SUFFICES ASSUME Inv, WritersApart, RowsStay, [Next]_vars PROVE odd' = {}
    BY ApartOvertakesNone
  <2>2. ASSUME NEW r \in Request, CreateWrite(r) PROVE odd' = {}
    BY <2>1, <2>2 DEF CreateWrite
  <2>3. ASSUME NEW r \in Request, UpdateWrite(r), d[r] \in dicts PROVE odd' = {}
    BY <2>1, <2>3 DEF UpdateWrite, RowsStay
  <2>4. ASSUME NEW r \in Request, TypeWrite(r) PROVE odd' = {}
    BY <2>1, <2>4 DEF TypeWrite
  <2>. QED  BY <2>1, <2>2, <2>3, <2>4, HistorySteps
<1>3. Inv /\ RowsUniform => One
  <2>1. SUFFICES ASSUME Inv, RowsUniform, NEW S \in Found, NEW u \in TypeNodes(S),
                        NEW v \in TypeNodes(S), u.type = v.type
                 PROVE  u = v
    OBVIOUS
  <2>. DEFINE Node(k) == [type |-> type[k], name |-> name[k], status |-> status[k],
                          children |-> {j \in S : type[j] = type[k]}]
  <2>2. PICK j \in S : u = Node(j)  BY DEF TypeNodes
  <2>3. PICK k \in S : v = Node(k)  BY DEF TypeNodes
  <2>4. j \in dicts \ odd /\ k \in dicts \ odd  BY <2>1, <2>2, <2>3 DEF Found
  <2>5. type[j] = type[k]  BY <2>1, <2>2, <2>3
  <2>6. name[j] = name[k] /\ status[j] = status[k]  BY <2>1, <2>4, <2>5 DEF RowsUniform
  <2>. QED  BY <2>2, <2>3, <2>5, <2>6
<1>4. IInv => RowsUniform  BY DEF IInv
<1>. HIDE DEF One
<1>5. Spec /\ []WritersApart /\ []RowsStay => []One
  BY <1>1, <1>2, <1>3, <1>4, Invariant, PTL DEF Spec
<1>. QED  BY <1>5 DEF One

-----------------------------------------------------------------------------
(***************************************************************************)
(* The list                                                                *)
(***************************************************************************)

\* The steps of the list store as they look in a request for dictionary rows: one that
\* has switched defaults off has written, and will clear the list after its second write.
ListStep(r) == IF pc[r] \in {"read", "fill", "clear"} THEN pc[r]
               ELSE IF Wrote(r) THEN "clear" ELSE "idle"
ListPc == [r \in Request |-> ListStep(r)]

\* Only who is to write a default switches others off.
DefaultsAsked == \A r \in Request :
  pc[r] \in {"create_defaults", "update_defaults"} => newDefault[r] = "yes"

\* A step of ListStore, or none.
ListGoal == (List!Next \/ UNCHANGED List!vars) /\ DefaultsAsked'

Others(r) == \A p \in Request \ {r} : pc'[p] = pc[p] /\ newDefault'[p] = newDefault[p]

\* Only r moves in the list store.
LEMMA ListMoved ==
  ASSUME NEW r \in Request, Others(r) PROVE ListPc' = [ListPc EXCEPT ![r] = ListStep(r)']
  BY DEF Others, ListPc, ListStep, Wrote

\* Only r may be about to switch defaults off that was not.
LEMMA AskedKept ==
  ASSUME DefaultsAsked, NEW r \in Request, Others(r),
         pc'[r] \in {"create_defaults", "update_defaults"} => newDefault'[r] = "yes"
  PROVE  DefaultsAsked'
<1>. SUFFICES ASSUME NEW p \in Request, pc'[p] \in {"create_defaults", "update_defaults"}
              PROVE  newDefault'[p] = "yes"
  BY DEF DefaultsAsked
<1>1. CASE p = r  BY <1>1
<1>2. CASE p # r  BY <1>2 DEF Others, DefaultsAsked
<1>. QED  BY <1>1, <1>2

\* A step that neither touches the list nor moves in the list store.
LEMMA QuietIsStutter ==
  ASSUME DefaultsAsked, NEW r \in Request, Others(r), UNCHANGED listVars,
         ListStep(r)' = ListStep(r),
         pc'[r] \in {"create_defaults", "update_defaults"} => newDefault'[r] = "yes"
  PROVE  ListGoal
<1>1. ListPc' = ListPc  BY ListMoved DEF ListPc
<1>2. UNCHANGED List!vars  BY <1>1 DEF List!vars, ListPc, ListStep, listVars
<1>. QED  BY <1>2, AskedKept DEF ListGoal

\* A write of the table is a Write of the list store.
LEMMA OvertakenIsWrite ==
  ASSUME DefaultsAsked, NEW r \in Request, Others(r), ListOvertaken,
         ListStep(r) \in {"idle", "clear"}, ListStep(r)' = "clear",
         pc'[r] \notin {"create_defaults", "update_defaults"}
  PROVE  ListGoal
<1>1. ListPc' = [ListPc EXCEPT ![r] = "clear"]  BY ListMoved
<1>2. ListPc[r] \in {"idle", "clear"}  BY DEF ListPc
<1>3. /\ cache' = List!Overtaken(cache) /\ lateList' = lateList
      /\ snap' = [q \in Request |-> List!Overtaken(snap[q])]
  BY DEF ListOvertaken, Overtaken, List!Overtaken
<1>4. List!Write(r)  BY <1>1, <1>2, <1>3 DEF List!Write, ListPc, ListStep
<1>. QED  BY <1>4, AskedKept DEF List!Next, ListGoal

\* A request that ends early aborts in the list store, if it was to clear the list.
LEMMA DoneIsAbort ==
  ASSUME JobType, lateList \in BOOLEAN, List!TypeOK, DefaultsAsked, NEW r \in Request, Done(r),
         cache' = cache,
         \/ snap' = [snap EXCEPT ![r] = "none"]
         \/ snap' = snap /\ pc[r] # "fill"
  PROVE  ListGoal
<1>1. Drop(r, "idle")  BY DEF Done
<1>2. pc'[r] = "idle" /\ Others(r)  BY <1>1, DropType DEF Others
<1>3. ListStep(r)' = "idle"  BY <1>2 DEF ListStep, Wrote
<1>4. ListPc' = [ListPc EXCEPT ![r] = "idle"]  BY <1>2, <1>3, ListMoved
<1>5. DefaultsAsked'  BY <1>2, AskedKept
<1>6. ListPc[r] = ListStep(r)  BY DEF ListPc
<1>7. snap' = [snap EXCEPT ![r] = "none"]
  <2>1. CASE snap' = snap /\ pc[r] # "fill"
    <3>1. ListStep(r) # "fill"  BY <2>1 DEF ListStep
    <3>2. snap[r] = "none" /\ snap \in [Request -> {"none", "current", "stale"}]
      BY <3>1, <1>6 DEF List!TypeOK, List!List, ListPc, ListStep
    <3>. QED  BY <2>1, <3>2
  <2>. QED  BY <2>1
<1>8. ListStep(r) = "clear" <=> Wrote(r) \/ pc[r] = "clear"
  BY DEF ListStep, Wrote
<1>9. lateList' = (lateList \/ (ListStep(r) = "clear" /\ cache = "stale"))
  BY <1>8 DEF Done
<1>10. CASE ListStep(r) = "idle"
  <2>1. ListPc' = ListPc  BY <1>4, <1>6, <1>10 DEF ListPc
  <2>2. snap' = snap
    <3>1. snap[r] = "none" /\ snap \in [Request -> {"none", "current", "stale"}]
      BY <1>6, <1>10 DEF List!TypeOK, List!List, ListPc, ListStep
    <3>. QED  BY <1>7, <3>1
  <2>3. lateList' = lateList  BY <1>9, <1>10
  <2>4. UNCHANGED List!vars  BY <2>1, <2>2, <2>3 DEF List!vars, ListPc, ListStep
  <2>. QED  BY <2>4, <1>5 DEF ListGoal
<1>11. CASE ListStep(r) # "idle"
  <2>1. List!Abort(r)
    BY <1>4, <1>6, <1>7, <1>9, <1>11 DEF List!Abort, ListPc, ListStep
  <2>. QED  BY <2>1, <1>5 DEF List!Next, ListGoal
<1>. QED  BY <1>10, <1>11

\* A request that has written its row goes on to clear the list.
LEMMA FinishIsWrite ==
  ASSUME JobType, DefaultsAsked, NEW r \in Request, Finish(r),
         pc[r] \notin {"read", "fill", "clear"}
  PROVE  ListGoal
<1>1. pc'[r] = "clear" /\ Others(r)  BY DropType DEF Finish, Others
<1>2. ListStep(r)' = "clear" /\ ListStep(r) \in {"idle", "clear"}  BY <1>1 DEF ListStep
<1>. QED  BY <1>1, <1>2, OvertakenIsWrite DEF Finish

\* The operations on rows and types are steps of the list store, or leave it alone.
LEMMA WriterListSteps ==
  ASSUME Typed, List!TypeOK, DefaultsAsked, NEW r \in Request,
         \/ \E t \in Type, n \in TypeName, f \in {"yes", "no", "keep"} : CreateCheckType(r, t, n, f)
         \/ CreateCheckName(r) \/ CreateDefaults(r) \/ CreateStatus(r) \/ CreateWrite(r)
         \/ \E k \in Dict, tt \in Type \cup {"keep"}, n \in TypeName \cup {"keep"},
               f \in {"yes", "no", "keep"} : UpdateFind(r, k, tt, n, f)
         \/ UpdateDefaults(r) \/ UpdateWrite(r)
         \/ \E k \in Dict : RemoveFind(r, k)
         \/ RemoveWrite(r)
         \/ \E t \in Type, tt \in Type \cup {"keep"}, n \in TypeName \cup {"keep"},
               s \in Status \cup {"keep"} : TypeFind(r, t, tt, n, s)
         \/ TypeCheck(r) \/ TypeWrite(r)
         \/ \E t \in Type : TypeRemoveFind(r, t)
         \/ TypeRemove(r)
  PROVE  ListGoal
<1>p. JobType /\ lateList \in BOOLEAN  BY Parts DEF Typed, ListType
<1>0. ASSUME UNCHANGED listVars, pc[r] = "idle",
             NEW k, NEW t, NEW tt, NEW n, NEW s, NEW f, Asked(r, k, t, tt, n, s, f),
             NEW q \in Step \ {"read", "fill", "clear"}, Goto(r, q),
             q \in {"create_status", "create_write", "update_write"} => f # "yes",
             q \in {"create_defaults", "update_defaults"} => f = "yes"
      PROVE  ListGoal
  <2>1. pc'[r] = q /\ newDefault'[r] = f /\ Others(r)
    BY <1>p, <1>0 DEF JobType, Asked, Goto, Others
  <2>2. ListStep(r) = "idle" /\ ListStep(r)' = "idle"
    BY <1>0, <2>1 DEF ListStep, Wrote
  <2>. QED  BY <1>0, <2>1, <2>2, QuietIsStutter
<1>1. ASSUME NEW t \in Type, NEW n \in TypeName, NEW f \in {"yes", "no", "keep"},
             CreateCheckType(r, t, n, f)
      PROVE  ListGoal
  <2>1. UNCHANGED listVars /\ Asked(r, 0, t, t, n, "keep", f) /\ pc[r] = "idle"
    BY <1>1 DEF CreateCheckType
  <2>2. PICK q \in {"create_name", "create_defaults", "create_status"} :
          Goto(r, q) /\ (q = "create_status" => f # "yes") /\ (q = "create_defaults" => f = "yes")
    BY <1>1 DEF CreateCheckType, DefaultsThen
  <2>. QED  BY <2>1, <2>2, <1>0 DEF Step
<1>2. CASE CreateCheckName(r)
  <2>1. pc[r] = "create_name" /\ UNCHANGED <<cache, snap>>  BY <1>2 DEF CreateCheckName
  <2>2. CASE Done(r)  BY <1>p, <2>1, <2>2, DoneIsAbort
  <2>3. ASSUME UNCHANGED <<jobVars, lateList>>,
               NEW q \in {"create_defaults", "create_status"}, Goto(r, q),
               q = "create_status" => newDefault[r] # "yes",
               q = "create_defaults" => newDefault[r] = "yes"
        PROVE  ListGoal
    <3>1. pc'[r] = q /\ newDefault' = newDefault /\ Others(r)
      BY <1>p, <2>3 DEF JobType, Goto, Others, jobVars
    <3>2. ListStep(r) = "idle" /\ ListStep(r)' = "idle"  BY <2>1, <2>3, <3>1 DEF ListStep, Wrote
    <3>3. UNCHANGED listVars  BY <2>1, <2>3 DEF listVars
    <3>. QED  BY <2>3, <3>1, <3>2, <3>3, QuietIsStutter
  <2>4. Done(r) \/ \E q \in {"create_defaults", "create_status"} :
          /\ UNCHANGED <<jobVars, lateList>> /\ Goto(r, q)
          /\ q = "create_status" => newDefault[r] # "yes"
          /\ q = "create_defaults" => newDefault[r] = "yes"
    BY <1>2 DEF CreateCheckName, DefaultsThen
  <2>. QED  BY <2>2, <2>3, <2>4
<1>3. CASE CreateDefaults(r)
  <2>1. /\ pc[r] = "create_defaults" /\ Goto(r, "create_status") /\ newDefault' = newDefault
        /\ ListOvertaken
    BY <1>3 DEF CreateDefaults, DefaultsWritten, jobVars
  <2>2. pc'[r] = "create_status" /\ Others(r)  BY <1>p, <2>1 DEF JobType, Goto, Others
  <2>3. newDefault[r] = "yes"  BY <2>1 DEF DefaultsAsked
  <2>4. ListStep(r) = "idle" /\ ListStep(r)' = "clear"
    BY <2>1, <2>2, <2>3 DEF ListStep, Wrote
  <2>. QED  BY <2>1, <2>2, <2>4, OvertakenIsWrite
<1>4. CASE CreateStatus(r)
  <2>1. /\ pc[r] = "create_status" /\ Goto(r, "create_write") /\ newDefault' = newDefault
        /\ UNCHANGED listVars
    BY <1>4 DEF CreateStatus
  <2>2. pc'[r] = "create_write" /\ Others(r)  BY <1>p, <2>1 DEF JobType, Goto, Others
  <2>3. ListStep(r)' = ListStep(r)  BY <2>1, <2>2 DEF ListStep, Wrote
  <2>. QED  BY <2>1, <2>2, <2>3, QuietIsStutter
<1>5. CASE CreateWrite(r)
  <2>1. Finish(r) /\ pc[r] = "create_write"  BY <1>5 DEF CreateWrite
  <2>. QED  BY <1>p, <2>1, FinishIsWrite
<1>6. ASSUME NEW k \in Dict, NEW tt \in Type \cup {"keep"}, NEW n \in TypeName \cup {"keep"},
             NEW f \in {"yes", "no", "keep"}, UpdateFind(r, k, tt, n, f)
      PROVE  ListGoal
  <2>1. PICK q \in {"update_defaults", "update_write"} :
          Goto(r, q) /\ (q = "update_write" => f # "yes") /\ (q = "update_defaults" => f = "yes")
    BY <1>6 DEF UpdateFind, DefaultsThen
  <2>2. PICK t : Asked(r, k, t, tt, n, "keep", f)  BY <1>6 DEF UpdateFind
  <2>3. UNCHANGED listVars /\ pc[r] = "idle"  BY <1>6 DEF UpdateFind
  <2>. QED  BY <2>1, <2>2, <2>3, <1>0 DEF Step
<1>7. CASE UpdateDefaults(r)
  <2>1. /\ pc[r] = "update_defaults" /\ Goto(r, "update_write") /\ newDefault' = newDefault
        /\ ListOvertaken
    BY <1>7 DEF UpdateDefaults, DefaultsWritten
  <2>2. pc'[r] = "update_write" /\ Others(r)  BY <1>p, <2>1 DEF JobType, Goto, Others
  <2>3. newDefault[r] = "yes"  BY <2>1 DEF DefaultsAsked
  <2>4. ListStep(r) = "idle" /\ ListStep(r)' = "clear"
    BY <2>1, <2>2, <2>3 DEF ListStep, Wrote
  <2>. QED  BY <2>1, <2>2, <2>4, OvertakenIsWrite
<1>8. CASE UpdateWrite(r)
  <2>1. pc[r] = "update_write"  BY <1>8 DEF UpdateWrite
  <2>2. CASE d[r] \in dicts  BY <1>p, <1>8, <2>1, <2>2, FinishIsWrite DEF UpdateWrite
  <2>3. CASE d[r] \notin dicts
    <3>1. Done(r) /\ UNCHANGED <<cache, snap>>  BY <1>8, <2>3 DEF UpdateWrite
    <3>. QED  BY <1>p, <2>1, <3>1, DoneIsAbort
  <2>. QED  BY <2>2, <2>3
<1>9. ASSUME NEW k \in Dict, RemoveFind(r, k) PROVE ListGoal
  <2>1. /\ UNCHANGED listVars /\ Goto(r, "remove_write") /\ pc[r] = "idle"
        /\ Asked(r, k, "none", "keep", "keep", "keep", "keep")
    BY <1>9 DEF RemoveFind
  <2>. QED  BY <2>1, <1>0 DEF Step
<1>10. CASE RemoveWrite(r)
  <2>1. pc[r] = "remove_write"  BY <1>10 DEF RemoveWrite
  <2>2. CASE d[r] \in dicts  BY <1>p, <1>10, <2>1, <2>2, FinishIsWrite DEF RemoveWrite
  <2>3. CASE d[r] \notin dicts
    <3>1. Done(r) /\ UNCHANGED <<cache, snap>>  BY <1>10, <2>3 DEF RemoveWrite
    <3>. QED  BY <1>p, <2>1, <3>1, DoneIsAbort
  <2>. QED  BY <2>2, <2>3
<1>11. ASSUME NEW t \in Type, NEW tt \in Type \cup {"keep"}, NEW n \in TypeName \cup {"keep"},
              NEW s \in Status \cup {"keep"}, TypeFind(r, t, tt, n, s)
       PROVE  ListGoal
  <2>1. /\ UNCHANGED listVars /\ pc[r] = "idle" /\ Asked(r, 0, t, tt, n, s, "keep")
    BY <1>11 DEF TypeFind
  <2>2. PICK q \in {"type_write", "type_check"} : Goto(r, q)  BY <1>11 DEF TypeFind
  <2>. QED  BY <2>1, <2>2, <1>0 DEF Step
<1>12. CASE TypeCheck(r)
  <2>1. pc[r] = "type_check" /\ UNCHANGED <<cache, snap>>  BY <1>12 DEF TypeCheck
  <2>2. CASE Done(r)  BY <1>p, <2>1, <2>2, DoneIsAbort
  <2>3. CASE Goto(r, "type_write") /\ UNCHANGED <<jobVars, lateList>>
    <3>1. pc'[r] = "type_write" /\ newDefault' = newDefault /\ Others(r)
      BY <1>p, <2>3 DEF JobType, Goto, Others, jobVars
    <3>2. ListStep(r) = "idle" /\ ListStep(r)' = "idle"  BY <2>1, <3>1 DEF ListStep, Wrote
    <3>3. UNCHANGED listVars  BY <2>1, <2>3 DEF listVars
    <3>. QED  BY <3>1, <3>2, <3>3, QuietIsStutter
  <2>. QED  BY <1>12, <2>2, <2>3 DEF TypeCheck
<1>13. CASE TypeWrite(r)
  <2>1. Finish(r) /\ pc[r] = "type_write"  BY <1>13 DEF TypeWrite
  <2>. QED  BY <1>p, <2>1, FinishIsWrite
<1>14. ASSUME NEW t \in Type, TypeRemoveFind(r, t) PROVE ListGoal
  <2>1. /\ UNCHANGED listVars /\ Goto(r, "type_remove") /\ pc[r] = "idle"
        /\ Asked(r, 0, t, "keep", "keep", "keep", "keep")
    BY <1>14 DEF TypeRemoveFind
  <2>. QED  BY <2>1, <1>0 DEF Step
<1>15. CASE TypeRemove(r)
  <2>1. Finish(r) /\ pc[r] = "type_remove"  BY <1>15 DEF TypeRemove
  <2>. QED  BY <1>p, <2>1, FinishIsWrite
<1>. QED
  BY <1>1, <1>2, <1>3, <1>4, <1>5, <1>6, <1>7, <1>8, <1>9, <1>10, <1>11, <1>12, <1>13, <1>14, <1>15

\* So are the readers' steps, the clearing, a failure and the end of the TTL.
LEMMA ReaderListSteps ==
  ASSUME Typed, List!TypeOK, DefaultsAsked,
         \/ \E r \in Request : \/ ListGet(r) \/ ListRead(r) \/ ListFill(r) \/ ListClear(r)
                               \/ Abort(r)
         \/ ListLapse
  PROVE  ListGoal
<1>p. JobType /\ lateList \in BOOLEAN  BY Parts DEF Typed, ListType
<1>0. ASSUME NEW r \in Request, NEW q \in {"idle", "read", "fill"}, Goto(r, q), UNCHANGED jobVars
      PROVE  /\ ListPc' = [ListPc EXCEPT ![r] = q]
             /\ DefaultsAsked'
  <2>1. pc'[r] = q /\ Others(r)  BY <1>p, <1>0 DEF JobType, Goto, Others, jobVars
  <2>2. ListStep(r)' = q  BY <2>1 DEF ListStep, Wrote
  <2>. QED  BY <2>1, <2>2, ListMoved, AskedKept
<1>1. ASSUME NEW r \in Request, ListGet(r) PROVE ListGoal
  <2>1. ListPc[r] = "idle"  BY <1>1 DEF ListPc, ListStep, ListGet, Wrote
  <2>2. ListPc' = [ListPc EXCEPT ![r] = "read"] /\ DefaultsAsked'  BY <1>0, <1>1 DEF ListGet
  <2>3. List!Get(r)  BY <1>1, <2>1, <2>2 DEF ListGet, List!Get, ListPc, ListStep, listVars
  <2>. QED  BY <2>2, <2>3 DEF List!Next, ListGoal
<1>2. ASSUME NEW r \in Request, ListRead(r) PROVE ListGoal
  <2>1. ListPc[r] = "read"  BY <1>2 DEF ListPc, ListStep, ListRead
  <2>2. ListPc' = [ListPc EXCEPT ![r] = "fill"] /\ DefaultsAsked'  BY <1>0, <1>2 DEF ListRead
  <2>3. List!Read(r)  BY <1>2, <2>1, <2>2 DEF ListRead, List!Read, ListPc, ListStep
  <2>. QED  BY <2>2, <2>3 DEF List!Next, ListGoal
<1>3. ASSUME NEW r \in Request, ListFill(r) PROVE ListGoal
  <2>1. ListPc[r] = "fill"  BY <1>3 DEF ListPc, ListStep, ListFill
  <2>2. ListPc' = [ListPc EXCEPT ![r] = "idle"] /\ DefaultsAsked'  BY <1>0, <1>3 DEF ListFill
  <2>3. List!Fill(r)  BY <1>3, <2>1, <2>2 DEF ListFill, List!Fill, ListPc, ListStep
  <2>. QED  BY <2>2, <2>3 DEF List!Next, ListGoal
<1>4. ASSUME NEW r \in Request, ListClear(r) PROVE ListGoal
  <2>1. ListPc[r] = "clear"  BY <1>4 DEF ListPc, ListStep, ListClear
  <2>2. ListPc' = [ListPc EXCEPT ![r] = "idle"] /\ DefaultsAsked'  BY <1>0, <1>4 DEF ListClear
  <2>3. List!Clear(r)  BY <1>4, <2>1, <2>2 DEF ListClear, List!Clear, ListPc, ListStep
  <2>. QED  BY <2>2, <2>3 DEF List!Next, ListGoal
<1>5. ASSUME NEW r \in Request, Abort(r) PROVE ListGoal
  <2>1. Done(r) /\ cache' = cache /\ snap' = [snap EXCEPT ![r] = "none"]  BY <1>5 DEF Abort
  <2>. QED  BY <1>p, <2>1, DoneIsAbort
<1>6. CASE ListLapse
  <2>1. List!Lapse  BY <1>6 DEF ListLapse, List!Lapse, Wrote, jobVars
  <2>2. DefaultsAsked'  BY <1>6 DEF ListLapse, DefaultsAsked, jobVars
  <2>. QED  BY <2>1, <2>2 DEF List!Next, ListGoal
<1>. QED  BY <1>1, <1>2, <1>3, <1>4, <1>5, <1>6

\* The shape of the list store's variables survives its steps.
LEMMA ListTypePreserved == List!TypeOK /\ [List!Next]_(List!vars) => List!TypeOK'
<1>. SUFFICES ASSUME List!TypeOK, List!Next \/ UNCHANGED List!vars PROVE List!TypeOK'
  OBVIOUS
<1>. USE DEF List!TypeOK, List!List, List!Step
<1>1. ASSUME NEW r \in Request, List!Get(r) PROVE List!TypeOK'    BY <1>1 DEF List!Get
<1>2. ASSUME NEW r \in Request, List!Read(r) PROVE List!TypeOK'   BY <1>2 DEF List!Read
<1>3. ASSUME NEW r \in Request, List!Fill(r) PROVE List!TypeOK'   BY <1>3 DEF List!Fill
<1>4. ASSUME NEW r \in Request, List!Write(r) PROVE List!TypeOK'
  BY <1>4 DEF List!Write, List!Overtaken
<1>5. ASSUME NEW r \in Request, List!Clear(r) PROVE List!TypeOK'  BY <1>5 DEF List!Clear
<1>6. ASSUME NEW r \in Request, List!Abort(r) PROVE List!TypeOK'  BY <1>6 DEF List!Abort
<1>7. CASE List!Lapse           BY <1>7 DEF List!Lapse
<1>8. CASE UNCHANGED List!vars  BY <1>8 DEF List!vars
<1>. QED  BY <1>1, <1>2, <1>3, <1>4, <1>5, <1>6, <1>7, <1>8 DEF List!Next

\* DictService and DictStoreService keep the list of dictionary rows as ListStore says.
THEOREM ListRefined == Spec => ImplementsListStore
<1>. DEFINE Inv == Typed /\ DefaultsAsked /\ List!TypeOK
<1>1. Init => List!Init /\ Inv
  <2>. SUFFICES ASSUME Init PROVE List!Init /\ Inv  OBVIOUS
  <2>1. \A r \in Request : pc[r] = "idle"  BY DEF Init
  <2>2. DefaultsAsked  BY <2>1 DEF DefaultsAsked
  <2>3. List!Init  BY DEF Init, List!Init, Wrote
  <2>4. List!TypeOK  BY <2>3 DEF List!Init, List!TypeOK, List!List, List!Step
  <2>. QED  BY <2>2, <2>3, <2>4, InitTyped
<1>2. Inv /\ [Next]_vars => [List!Next]_(List!vars) /\ DefaultsAsked'
  <2>. SUFFICES ASSUME Inv, [Next]_vars PROVE ListGoal  BY DEF ListGoal
  <2>1. CASE Next  BY <2>1, StepCases, WriterListSteps, ReaderListSteps
  <2>2. CASE UNCHANGED vars
    <3>1. UNCHANGED List!vars
      BY <2>2 DEF vars, listVars, jobVars, List!vars, Wrote
    <3>2. DefaultsAsked'  BY <2>2 DEF vars, jobVars, DefaultsAsked
    <3>. QED  BY <3>1, <3>2 DEF ListGoal
  <2>. QED  BY <2>1, <2>2
<1>3. Inv /\ [Next]_vars => Inv'
  BY <1>2, TypedPreserved, ListTypePreserved
<1>. QED  BY <1>1, <1>2, <1>3, PTL DEF Spec, List!Spec, ImplementsListStore

\* The theorems of ListStoreProofs, read for the list of dictionary rows.
Store == INSTANCE ListStoreProofs WITH
           late <- lateList,
           pc <- [r \in Request |-> IF pc[r] \in {"read", "fill", "clear"} THEN pc[r]
                                    ELSE IF Wrote(r) THEN "clear" ELSE "idle"]

\* So the list of dictionary rows in Redis is the table as it is, unless a request that
\* wrote the table has yet to clear it (it may still be between its two writes), a reader
\* stored it after a write it had not seen, or a writer ended before its clear.
THEOREM DictListIsExplained ==
  Spec => [](cache = "stale" /\ ~lateList
               => \E r \in Request : pc[r] = "clear" \/ Wrote(r))
<1>1. List!Init => Store!Init
  BY DEF List!Init, Store!Init
<1>2. [List!Next]_(List!vars) => [Store!Next]_(Store!vars)
  BY DEF List!Next, Store!Next, List!vars, Store!vars, List!Get, Store!Get, List!Read, Store!Read,
         List!Fill, Store!Fill, List!Write, Store!Write, List!Clear, Store!Clear, List!Abort,
         Store!Abort, List!Lapse, Store!Lapse, List!Overtaken, Store!Overtaken
<1>3. List!Spec => Store!Spec
  BY <1>1, <1>2, PTL DEF List!Spec, Store!Spec
<1>4. Spec => []Store!StaleExplained
  BY <1>3, ListRefined, Store!StaleIsExplained, PTL DEF ImplementsListStore
<1>5. Store!StaleExplained
      => (cache = "stale" /\ ~lateList => \E r \in Request : pc[r] = "clear" \/ Wrote(r))
  BY DEF Store!StaleExplained
<1>. QED  BY <1>4, <1>5, PTL
=============================================================================
