--------------------------- MODULE SessionProofs ---------------------------
(***************************************************************************)
(* Session, for any number of requests, logins and password changes: the   *)
(* type invariant and the four safety invariants the runs check.  Each of  *)
(* the four follows from a strengthening that also says what the requests  *)
(* in flight hold; each strengthening is inductive relative to TypeOK, one *)
(* proof step per action that writes what it mentions.  The last theorems  *)
(* say what causes the exceptions that the four name.                      *)
(***************************************************************************)
EXTENDS Session, TLAPS

\* The values that stand for nothing, and the first row, are of their types.
LEMMA ConstantTypes == NoToken \in Token /\ NoKeys \in Keys /\ InitRow \in Row
  BY DEF NoToken, NoKeys, InitRow, Token, Keys, Row

\* A login stores all keys of the account.
LEMMA LoginKeysType == ASSUME NEW t \in Token PROVE LoginKeys(t) \in Keys
  BY DEF LoginKeys, Keys

\* The fields of what Redis holds.
LEMMA KeysFields ==
  ASSUME NEW k \in Keys
  PROVE  k.token \in Token /\ k.refresh \in Token /\ k.version \in Nat /\ k.info \in BOOLEAN
  BY DEF Keys

\* Changing one field keeps what Redis holds well typed.
LEMMA KeysUpdate ==
  ASSUME NEW k \in Keys, NEW t \in Token, NEW v \in Nat, NEW i \in BOOLEAN
  PROVE  /\ [k EXCEPT !.token = t] \in Keys
         /\ [k EXCEPT !.refresh = t] \in Keys
         /\ [k EXCEPT !.version = v] \in Keys
         /\ [k EXCEPT !.info = i] \in Keys
         /\ ClearUserCache(k) \in Keys
  BY DEF Keys, ClearUserCache

\* So it is with the user's row.
LEMMA RowUpdate ==
  ASSUME NEW r \in Row, NEW x \in BOOLEAN, NEW e \in BOOLEAN, NEW w \in Nat
  PROVE  /\ [r EXCEPT !.exists = x] \in Row
         /\ [r EXCEPT !.pw = w] \in Row
         /\ [r EXCEPT !.enabled = e, !.pw = w] \in Row
  BY DEF Row

\* The fields of the row.
LEMMA RowFields == ASSUME NEW r \in Row PROVE r.pw \in Nat
  BY DEF Row

\* A step keeps every variable in its type.
LEMMA TypePreserved == ASSUME TypeOK, [Next]_vars PROVE TypeOK'
<1>. USE DEF TypeOK, Step, Kind, At, Goto, Mark
<1>1. ASSUME NEW p \in Request, LoginReadUser(p) PROVE TypeOK'
  BY <1>1, RowFields DEF LoginReadUser
<1>2. ASSUME NEW p \in Request, LoginStore(p) PROVE TypeOK'
  <2>. DEFINE t == [login |-> logins + 1, pw |-> seen[p]]
  <2>1. redis' \in Keys
    <3>1. redis' = LoginKeys(t)
      BY <1>2 DEF LoginStore
    <3>2. t \in Token
      BY DEF Token
    <3>3. QED
      BY <3>1, <3>2, LoginKeysType
  <2>2. overtaken' \in SUBSET Kind
    <3>1. overtaken' = {"login"} \/ overtaken' = {}
      BY <1>2 DEF LoginStore
    <3>2. QED
      BY <3>1
  <2>3. logins' \in Nat /\ pc' \in [Request -> Step] /\ seen' \in [Request -> Nat]
    BY <1>2 DEF LoginStore
  <2>4. closed' = FALSE /\ UNCHANGED <<db, tok, ver, resets>>
    BY <1>2 DEF LoginStore
  <2>5. QED
    BY <2>1, <2>2, <2>3, <2>4
<1>3. ASSUME NEW p \in Request, RefreshCheckToken(p) PROVE TypeOK'
  BY <1>3, KeysFields DEF RefreshCheckToken
<1>4. ASSUME NEW p \in Request, RefreshCheckVersion(p) PROVE TypeOK'
  BY <1>4, ConstantTypes DEF RefreshCheckVersion
<1>5. ASSUME NEW p \in Request, RefreshStore(p) PROVE TypeOK'
  BY <1>5, ConstantTypes, KeysUpdate DEF RefreshStore
<1>6. ASSUME NEW p \in Request,
             \/ AuthCheckToken(p) \/ AuthCheckVersion(p) \/ AuthReadInfo(p)
             \/ AuthReadUser(p) \/ Serve(p) \/ ChangeReadUser(p)
             \/ UpdateFind(p) \/ RemoveFind(p)
      PROVE  TypeOK'
  BY <1>6 DEF AuthCheckToken, AuthCheckVersion, AuthReadInfo, AuthReadUser, Serve,
              ChangeReadUser, UpdateFind, RemoveFind
<1>7. ASSUME NEW p \in Request, AuthStoreInfo(p) PROVE TypeOK'
  BY <1>7, KeysUpdate DEF AuthStoreInfo
<1>8. ASSUME NEW p \in Request, Logout(p) PROVE TypeOK'
  BY <1>8, ConstantTypes DEF Logout, LogoutKeys
<1>9. ASSUME NEW p \in Request, ChangeReadVersion(p) PROVE TypeOK'
  BY <1>9, KeysFields DEF ChangeReadVersion
<1>10. ASSUME NEW p \in Request, ChangeWriteDb(p) PROVE TypeOK'
  <2>1. db' \in Row
    <3>1. db.pw + 1 \in Nat
      BY RowFields
    <3>2. db' = [db EXCEPT !.pw = db.pw + 1] \/ db' = db
      BY <1>10 DEF ChangeWriteDb
    <3>3. QED
      BY <3>1, <3>2, RowUpdate
  <2>2. QED
    BY <1>10, <2>1 DEF ChangeWriteDb
<1>11. ASSUME NEW p \in Request, ChangeWriteRedis(p) PROVE TypeOK'
  <2>1. redis' \in Keys
    <3>1. NextVersion(ver[p]) \in Nat
      BY DEF NextVersion
    <3>2. redis' = ClearUserCache([redis EXCEPT !.version = NextVersion(ver[p])])
      BY <1>11 DEF ChangeWriteRedis
    <3>3. QED
      BY <3>1, <3>2, KeysUpdate
  <2>2. QED
    BY <1>11, <2>1 DEF ChangeWriteRedis
<1>12. ASSUME NEW p \in Request, UpdateWrite(p) PROVE TypeOK'
  <2>1. CASE ~db.exists
    BY <1>12, <2>1 DEF UpdateWrite
  <2>2. CASE db.exists
    <3>1. PICK e \in BOOLEAN, w \in {db.pw, db.pw + 1} :
               /\ db' = [db EXCEPT !.enabled = e, !.pw = w]
               /\ resets' = IF w = db.pw THEN resets ELSE resets \cup {w}
      BY <1>12, <2>2 DEF UpdateWrite
    <3>2. w \in Nat
      BY RowFields
    <3>3. db' \in Row /\ resets' \in SUBSET Nat
      BY <3>1, <3>2, RowUpdate
    <3>4. QED
      BY <1>12, <2>2, <3>3 DEF UpdateWrite
  <2>3. QED
    BY <2>1, <2>2
<1>13. ASSUME NEW p \in Request, UpdateClear(p) PROVE TypeOK'
  BY <1>13, KeysUpdate DEF UpdateClear
<1>14. ASSUME NEW p \in Request, UpdateFail(p) PROVE TypeOK'
  BY <1>14 DEF UpdateFail
<1>15. ASSUME NEW p \in Request, RemoveKeys(p) PROVE TypeOK'
  BY <1>15, ConstantTypes, KeysFields, KeysUpdate DEF RemoveKeys
<1>16. ASSUME NEW p \in Request, RemoveRow(p) PROVE TypeOK'
  BY <1>16, RowUpdate DEF RemoveRow
<1>17. CASE Expire
  <2>1. redis' \in Keys
    <3>1. /\ [redis EXCEPT !.token = NoToken] \in Keys
          /\ [redis EXCEPT !.refresh = NoToken] \in Keys
          /\ [redis EXCEPT !.version = 0] \in Keys
          /\ [redis EXCEPT !.info = FALSE] \in Keys
      BY ConstantTypes, KeysUpdate
    <3>2. QED
      BY <1>17, <3>1 DEF Expire
  <2>2. QED
    BY <1>17, <2>1 DEF Expire
<1>18. CASE Restart
  BY <1>18, ConstantTypes DEF Restart
<1>19. CASE UNCHANGED vars
  BY <1>19 DEF vars
<1>20. QED
  BY <1>1, <1>2, <1>3, <1>4, <1>5, <1>6, <1>7, <1>8, <1>9, <1>10, <1>11, <1>12,
     <1>13, <1>14, <1>15, <1>16, <1>17, <1>18, <1>19 DEF Next

\* Typing: every action keeps the shape of every variable.
THEOREM TypeCorrect == Spec => []TypeOK
<1>1. Init => TypeOK
  <2>1. Init => /\ logins \in Nat
                /\ pc \in [Request -> Step]
                /\ seen \in [Request -> Nat]
                /\ ver \in [Request -> Nat]
    BY DEF Init, Step
  <2>2. QED
    BY <2>1, ConstantTypes DEF Init, TypeOK
<1>2. TypeOK /\ [Next]_vars => TypeOK'
  BY TypePreserved
<1>3. QED
  BY <1>1, <1>2, PTL DEF Spec
-----------------------------------------------------------------------------
(***************************************************************************)
(* What a step may do to the tokens                                        *)
(***************************************************************************)

\* Nothing but a deletion happens to the tokens and the version; no overtaken
\* write is forgotten, and the session is closed only with every key deleted.
TokensQuiet ==
  /\ redis'.token \in {redis.token, NoToken}
  /\ redis'.refresh \in {redis.refresh, NoToken}
  /\ redis'.version \in {redis.version, 0}
  /\ overtaken \subseteq overtaken'
  /\ closed' = closed \/ (closed' = TRUE /\ redis' = NoKeys)

\* No request enters or leaves the middle of a password change, and no password
\* is written.
PasswordQuiet ==
  /\ \A p \in Request : At(p, "change_redis")' <=> At(p, "change_redis")
  /\ \A p \in Request : At(p, "change_db")' <=> At(p, "change_db")
  /\ db'.pw = db.pw
  /\ resets' = resets

\* A step that changes neither the keys nor the histories leaves the tokens alone.
LEMMA QuietUnchanged ==
  ASSUME UNCHANGED <<redis, closed, overtaken>> PROVE TokensQuiet
  BY DEF TokensQuiet

\* Only a login, a refresh and a password change store a token or a version.
LEMMA TokenSteps ==
  ASSUME TypeOK, [Next]_vars
  PROVE  \/ \E p \in Request : LoginStore(p) \/ RefreshStore(p) \/ ChangeWriteRedis(p)
         \/ TokensQuiet
<1>. USE DEF Mark, TokensQuiet
<1>1. ASSUME NEW p \in Request,
             \/ LoginReadUser(p) \/ RefreshCheckToken(p) \/ RefreshCheckVersion(p)
             \/ AuthCheckToken(p) \/ AuthCheckVersion(p) \/ AuthReadInfo(p)
             \/ AuthReadUser(p) \/ Serve(p) \/ ChangeReadUser(p) \/ ChangeReadVersion(p)
             \/ ChangeWriteDb(p) \/ UpdateFind(p) \/ UpdateWrite(p) \/ RemoveFind(p)
             \/ RemoveRow(p)
      PROVE  TokensQuiet
  <2>1. UNCHANGED <<redis, closed, overtaken>>
    BY <1>1 DEF LoginReadUser, RefreshCheckToken, RefreshCheckVersion, AuthCheckToken,
         AuthCheckVersion, AuthReadInfo, AuthReadUser, Serve, ChangeReadUser,
         ChangeReadVersion, ChangeWriteDb, UpdateFind, UpdateWrite, RemoveFind, RemoveRow
  <2>2. QED
    BY <2>1, QuietUnchanged
<1>2. ASSUME NEW p \in Request, AuthStoreInfo(p) PROVE TokensQuiet
  BY <1>2 DEF AuthStoreInfo, TypeOK, Keys
<1>3. ASSUME NEW p \in Request, Logout(p) PROVE TokensQuiet
  BY <1>3 DEF Logout, LogoutKeys, NoKeys
<1>4. ASSUME NEW p \in Request, UpdateClear(p) PROVE TokensQuiet
  BY <1>4 DEF UpdateClear, ClearUserCache, TypeOK, Keys
<1>5. ASSUME NEW p \in Request, UpdateFail(p) PROVE TokensQuiet
  BY <1>5 DEF UpdateFail
<1>6. ASSUME NEW p \in Request, RemoveKeys(p) PROVE TokensQuiet
  BY <1>6 DEF RemoveKeys, NoKeys, TypeOK, Keys
<1>7. CASE Expire
  BY <1>7 DEF Expire, TypeOK, Keys
<1>8. CASE Restart
  BY <1>8 DEF Restart
<1>9. CASE UNCHANGED vars
  BY <1>9, QuietUnchanged DEF vars
<1>10. QED
  BY <1>1, <1>2, <1>3, <1>4, <1>5, <1>6, <1>7, <1>8, <1>9 DEF Next

\* What the three storing steps do to Redis, field by field.
LEMMA StoreFields ==
  ASSUME TypeOK, NEW p \in Request
  PROVE  /\ LoginStore(p) =>
              /\ redis'.token = redis'.refresh
              /\ redis'.token.pw = seen[p]
              /\ redis'.info
         /\ RefreshStore(p) =>
              /\ redis'.token = tok[p]
              /\ redis'.refresh = redis.refresh
              /\ redis'.version = redis.version
              /\ redis'.info = redis.info
         /\ ChangeWriteRedis(p) =>
              /\ redis'.token = redis.token
              /\ redis'.refresh = redis.refresh
              /\ redis'.version = ver[p] + 1
              /\ ~redis'.info
<1>. USE DEF TypeOK, Keys
<1>1. ASSUME LoginStore(p)
      PROVE  redis'.token = redis'.refresh /\ redis'.token.pw = seen[p] /\ redis'.info
  BY <1>1 DEF LoginStore, LoginKeys
<1>2. ASSUME RefreshStore(p)
      PROVE  /\ redis'.token = tok[p]
             /\ redis'.refresh = redis.refresh
             /\ redis'.version = redis.version
             /\ redis'.info = redis.info
  BY <1>2 DEF RefreshStore
<1>3. ASSUME ChangeWriteRedis(p)
      PROVE  /\ redis'.token = redis.token
             /\ redis'.refresh = redis.refresh
             /\ redis'.version = ver[p] + 1
             /\ ~redis'.info
  BY <1>3 DEF ChangeWriteRedis, ClearUserCache, NextVersion
<1>4. QED
  BY <1>1, <1>2, <1>3

-----------------------------------------------------------------------------
(***************************************************************************)
(* The pairing of the two tokens                                           *)
(***************************************************************************)

\* The stored access and refresh token stem from one login, unless a refresh came late.
THEOREM TokensStayPaired == Spec => []TokensPaired
<1>1. Init => TokensPaired
  BY DEF Init, TokensPaired, NoKeys
<1>2. TypeOK /\ TokensPaired /\ [Next]_vars => TokensPaired'
  <2>. SUFFICES ASSUME TypeOK, TokensPaired, [Next]_vars PROVE TokensPaired'
    OBVIOUS
  <2>1. ASSUME NEW p \in Request, LoginStore(p) PROVE TokensPaired'
    BY <2>1, StoreFields DEF TokensPaired
  <2>2. ASSUME NEW p \in Request, RefreshStore(p) PROVE TokensPaired'
    BY <2>2, StoreFields DEF TokensPaired, RefreshStore, Mark
  <2>3. ASSUME NEW p \in Request, ChangeWriteRedis(p) PROVE TokensPaired'
    BY <2>3, StoreFields DEF TokensPaired, ChangeWriteRedis, Mark
  <2>4. CASE TokensQuiet
    BY <2>4 DEF TokensQuiet, TokensPaired
  <2>5. QED
    BY <2>1, <2>2, <2>3, <2>4, TokenSteps
<1>3. QED
  BY <1>1, <1>2, TypeCorrect, PTL DEF Spec

(***************************************************************************)
(* The finality of a logout                                                *)
(***************************************************************************)

\* While the session is closed: no refresh token is stored, so a refresh that is
\* still to store its token is late by then; and version 1 is written only by a
\* password change that found no version.
Holds(p) == pc[p] \in {"refresh_version", "refresh_store"} => tok[p] # NoToken

ClosedKeys ==
  closed => /\ redis.refresh = NoToken
            /\ redis.token # NoToken => "refresh" \in overtaken
            /\ redis.version = 1 => "bump" \in overtaken

ClosedInv == (\A p \in Request : Holds(p)) /\ ClosedKeys

\* A refresh in flight holds the token it presented.
LEMMA RefreshHolds ==
  ASSUME TypeOK, ClosedInv, [Next]_vars
  PROVE  (\A p \in Request : Holds(p))'
<1>. SUFFICES ASSUME NEW q \in Request PROVE Holds(q)'
  OBVIOUS
<1>0. Holds(q)
  BY DEF ClosedInv
<1>. USE <1>0 DEF TypeOK, At, Goto, Holds
<1>1. ASSUME NEW p \in Request, RefreshCheckToken(p) PROVE Holds(q)'
  BY <1>1 DEF RefreshCheckToken
<1>2. ASSUME NEW p \in Request, RefreshCheckVersion(p) PROVE Holds(q)'
  BY <1>2 DEF RefreshCheckVersion
<1>3. ASSUME NEW p \in Request, RefreshStore(p) PROVE Holds(q)'
  BY <1>3 DEF RefreshStore
<1>4. ASSUME NEW p \in Request,
             \/ LoginReadUser(p) \/ LoginStore(p)
             \/ AuthCheckToken(p) \/ AuthCheckVersion(p) \/ AuthReadInfo(p)
             \/ AuthReadUser(p) \/ AuthStoreInfo(p) \/ Serve(p) \/ Logout(p)
      PROVE  Holds(q)'
  BY <1>4 DEF LoginReadUser, LoginStore, AuthCheckToken, AuthCheckVersion, AuthReadInfo,
              AuthReadUser, AuthStoreInfo, Serve, Logout
<1>5. ASSUME NEW p \in Request,
             \/ ChangeReadUser(p) \/ ChangeReadVersion(p) \/ ChangeWriteDb(p)
             \/ ChangeWriteRedis(p)
      PROVE  Holds(q)'
  BY <1>5 DEF ChangeReadUser, ChangeReadVersion, ChangeWriteDb, ChangeWriteRedis
<1>6. ASSUME NEW p \in Request,
             \/ UpdateFind(p) \/ UpdateWrite(p) \/ UpdateClear(p) \/ UpdateFail(p)
             \/ RemoveFind(p) \/ RemoveKeys(p) \/ RemoveRow(p)
      PROVE  Holds(q)'
  BY <1>6 DEF UpdateFind, UpdateWrite, UpdateClear, UpdateFail, RemoveFind, RemoveKeys,
              RemoveRow
<1>7. CASE Expire \/ UNCHANGED vars
  BY <1>7 DEF Expire, vars
<1>8. CASE Restart
  BY <1>8 DEF Restart
<1>9. QED
  BY <1>1, <1>2, <1>3, <1>4, <1>5, <1>6, <1>7, <1>8 DEF Next

\* After a logout the session is usable again only if two writes came late.
THEOREM LogoutIsFinal == Spec => []LogoutFinal
<1>1. Init => ClosedInv
  BY DEF Init, ClosedInv, ClosedKeys, Holds
<1>2. TypeOK /\ ClosedInv /\ [Next]_vars => ClosedInv'
  <2>. SUFFICES ASSUME TypeOK, ClosedInv, [Next]_vars PROVE ClosedInv'
    OBVIOUS
  <2>1. ASSUME NEW p \in Request, LoginStore(p) PROVE ClosedKeys'
    BY <2>1 DEF LoginStore, ClosedKeys
  <2>2. ASSUME NEW p \in Request, RefreshStore(p) PROVE ClosedKeys'
    BY <2>2, StoreFields DEF RefreshStore, ClosedInv, ClosedKeys, Holds, Mark, At
  <2>3. ASSUME NEW p \in Request, ChangeWriteRedis(p) PROVE ClosedKeys'
    <3>1. ver[p] \in Nat
      BY DEF TypeOK
    <3>2. redis'.version = 1 => "bump" \in overtaken'
      <4>1. CASE ver[p] = 0
        BY <2>3, <4>1 DEF ChangeWriteRedis, Mark
      <4>2. CASE ver[p] # 0
        BY <2>3, <3>1, <4>2, StoreFields
      <4>3. QED
        BY <4>1, <4>2
    <3>3. QED
      BY <2>3, <3>2, StoreFields DEF ChangeWriteRedis, ClosedInv, ClosedKeys, Mark
  <2>4. ASSUME TokensQuiet PROVE ClosedKeys'
    <3>1. CASE redis' = NoKeys
      BY <3>1 DEF ClosedKeys, NoKeys
    <3>2. CASE closed' = closed
      BY <2>4, <3>2 DEF TokensQuiet, ClosedInv, ClosedKeys
    <3>3. QED
      BY <2>4, <3>1, <3>2 DEF TokensQuiet
  <2>5. ClosedKeys'
    BY <2>1, <2>2, <2>3, <2>4, TokenSteps
  <2>6. QED
    BY <2>5, RefreshHolds DEF ClosedInv
<1>3. ClosedInv => LogoutFinal
  BY DEF ClosedInv, ClosedKeys, LogoutFinal, Usable
<1>4. QED
  BY <1>1, <1>2, <1>3, TypeCorrect, PTL DEF Spec

-----------------------------------------------------------------------------
(***************************************************************************)
(* Disabled and removed users                                              *)
(***************************************************************************)

InfoFresh == overtaken \cap {"login", "fill", "abort"} = {}

\* DisabledOut, and: a request that is about to delete the row deleted info before.
DisabledInv ==
  /\ redis.info /\ ~Live(db) /\ InfoFresh => \E p \in Request : At(p, "update_clear")
  /\ \A p \in Request : At(p, "remove_row") /\ InfoFresh => ~redis.info

\* Steps that neither store info, nor touch the row's status, nor end an update.
InfoQuiet ==
  /\ redis'.info => redis.info
  /\ db'.exists = db.exists /\ db'.enabled = db.enabled
  /\ overtaken \subseteq overtaken'
  /\ \A p \in Request : At(p, "update_clear") => At(p, "update_clear")'
  /\ \A p \in Request : At(p, "remove_row")' => At(p, "remove_row")

\* The steps that write user:info or the row; all others leave both alone.
LEMMA InfoSteps ==
  ASSUME TypeOK, [Next]_vars
  PROVE  \/ \E p \in Request :
              \/ LoginStore(p) \/ AuthStoreInfo(p)
              \/ UpdateWrite(p) \/ UpdateClear(p) \/ UpdateFail(p)
              \/ RemoveKeys(p) \/ RemoveRow(p)
         \/ Restart
         \/ InfoQuiet
<1>. USE DEF TypeOK, At, Goto, Mark, InfoQuiet
<1>1. ASSUME NEW p \in Request,
             \/ LoginReadUser(p) \/ RefreshCheckToken(p)
             \/ AuthCheckToken(p) \/ AuthCheckVersion(p) \/ AuthReadInfo(p)
             \/ AuthReadUser(p) \/ Serve(p)
      PROVE  InfoQuiet
  BY <1>1 DEF LoginReadUser, RefreshCheckToken, AuthCheckToken, AuthCheckVersion,
              AuthReadInfo, AuthReadUser, Serve
<1>2. ASSUME NEW p \in Request,
             \/ ChangeReadUser(p) \/ ChangeReadVersion(p)
             \/ UpdateFind(p) \/ RemoveFind(p) \/ RefreshCheckVersion(p)
      PROVE  InfoQuiet
  BY <1>2 DEF ChangeReadUser, ChangeReadVersion, UpdateFind, RemoveFind, RefreshCheckVersion
<1>3. ASSUME NEW p \in Request, RefreshStore(p) PROVE InfoQuiet
  BY <1>3, StoreFields DEF RefreshStore
<1>4. ASSUME NEW p \in Request, Logout(p) PROVE InfoQuiet
  BY <1>4 DEF Logout, LogoutKeys, NoKeys
<1>5. ASSUME NEW p \in Request, ChangeWriteDb(p) PROVE InfoQuiet
  <2>1. db'.exists = db.exists /\ db'.enabled = db.enabled
    BY <1>5 DEF ChangeWriteDb, Row
  <2>2. QED
    BY <1>5, <2>1 DEF ChangeWriteDb
<1>6. ASSUME NEW p \in Request, ChangeWriteRedis(p) PROVE InfoQuiet
  BY <1>6, StoreFields DEF ChangeWriteRedis
<1>7. CASE Expire
  BY <1>7 DEF Expire, Keys
<1>8. CASE UNCHANGED vars
  BY <1>8 DEF vars
<1>9. QED
  BY <1>1, <1>2, <1>3, <1>4, <1>5, <1>6, <1>7, <1>8 DEF Next

\* A disabled or removed user keeps no user:info, save for the named late writes.
THEOREM DisabledStaysOut == Spec => []DisabledOut
<1>1. Init => DisabledInv
  BY DEF Init, DisabledInv, InitRow, NoKeys, At
<1>2. TypeOK /\ DisabledInv /\ [Next]_vars => DisabledInv'
  <2>. SUFFICES ASSUME TypeOK, DisabledInv, [Next]_vars PROVE DisabledInv'
    OBVIOUS
  <2>. USE DEF DisabledInv, InfoFresh, TypeOK, At, Goto, Mark
  <2>1. ASSUME NEW p \in Request, LoginStore(p) PROVE DisabledInv'
    <3>1. CASE overtaken' = {"login"}
      BY <3>1
    <3>2. CASE overtaken' # {"login"}
      <4>1. Live(db) /\ ~\E q \in Request : pc[q] \in {"change_db", "remove_row"}
        BY <2>1, <3>2 DEF LoginStore
      <4>2. QED
        BY <2>1, <4>1 DEF LoginStore
    <3>3. QED
      BY <3>1, <3>2
  <2>2. ASSUME NEW p \in Request, AuthStoreInfo(p) PROVE DisabledInv'
    <3>1. CASE ~Live(db) \/ \E q \in Request : At(q, "remove_row")
      BY <2>2, <3>1 DEF AuthStoreInfo
    <3>2. CASE ~(~Live(db) \/ \E q \in Request : At(q, "remove_row"))
      BY <2>2, <3>2 DEF AuthStoreInfo
    <3>3. QED
      BY <3>1, <3>2
  <2>3. ASSUME NEW p \in Request, UpdateWrite(p) PROVE DisabledInv'
    <3>1. CASE db.exists
      BY <2>3, <3>1 DEF UpdateWrite
    <3>2. CASE ~db.exists
      BY <2>3, <3>2 DEF UpdateWrite
    <3>3. QED
      BY <3>1, <3>2
  <2>4. ASSUME NEW p \in Request, UpdateClear(p) PROVE DisabledInv'
    BY <2>4 DEF UpdateClear, ClearUserCache, Keys
  <2>5. ASSUME NEW p \in Request, UpdateFail(p) PROVE DisabledInv'
    BY <2>5 DEF UpdateFail
  <2>6. ASSUME NEW p \in Request, RemoveKeys(p) PROVE DisabledInv'
    BY <2>6 DEF RemoveKeys, NoKeys
  <2>7. ASSUME NEW p \in Request, RemoveRow(p) PROVE DisabledInv'
    BY <2>7 DEF RemoveRow
  <2>8. CASE Restart
    <3>1. CASE \E p \in Request : HalfDone(p)
      BY <2>8, <3>1 DEF Restart
    <3>2. CASE ~\E p \in Request : HalfDone(p)
      BY <2>8, <3>2 DEF Restart, HalfDone
    <3>3. QED
      BY <3>1, <3>2
  <2>9. CASE InfoQuiet
    BY <2>9 DEF InfoQuiet, Live
  <2>10. QED
    BY <2>1, <2>2, <2>3, <2>4, <2>5, <2>6, <2>7, <2>8, <2>9, InfoSteps
<1>3. DisabledInv => DisabledOut
  BY DEF DisabledInv, InfoFresh, DisabledOut
<1>4. QED
  BY <1>1, <1>2, <1>3, TypeCorrect, PTL DEF Spec

-----------------------------------------------------------------------------
(***************************************************************************)
(* Password changes                                                        *)
(***************************************************************************)

PwClean == overtaken \cap {"login", "refresh", "bump", "abort"} = {}

\* No token in Redis is older than a finished password change, as long as the
\* version is 1; and between its Redis half and its MySQL half, a change has left a
\* version other than 1.
PasswordInv ==
  /\ PwClean /\ redis.version = 1 /\ (\A p \in Request : ~At(p, "change_redis"))
       => ~ChangedSince(redis.token) /\ ~ChangedSince(redis.refresh)
  /\ \A p \in Request : At(p, "change_db") /\ PwClean => redis.version # 1

\* The steps that write the passwords, of the row or of what a request has read.
LEMMA PasswordSteps ==
  ASSUME TypeOK, [Next]_vars
  PROVE  \/ \E p \in Request :
              LoginStore(p) \/ ChangeWriteDb(p) \/ ChangeWriteRedis(p) \/ UpdateWrite(p)
         \/ Restart
         \/ PasswordQuiet
<1>. USE DEF TypeOK, At, Goto, PasswordQuiet
<1>1. ASSUME NEW p \in Request,
             \/ LoginReadUser(p)
             \/ RefreshCheckToken(p) \/ RefreshCheckVersion(p) \/ RefreshStore(p)
             \/ AuthCheckToken(p) \/ AuthCheckVersion(p) \/ AuthReadInfo(p)
      PROVE  PasswordQuiet
  BY <1>1 DEF LoginReadUser, RefreshCheckToken, RefreshCheckVersion, RefreshStore,
              AuthCheckToken, AuthCheckVersion, AuthReadInfo
<1>2. ASSUME NEW p \in Request,
             \/ AuthReadUser(p) \/ AuthStoreInfo(p) \/ Serve(p) \/ Logout(p)
             \/ ChangeReadUser(p) \/ ChangeReadVersion(p)
      PROVE  PasswordQuiet
  BY <1>2 DEF AuthReadUser, AuthStoreInfo, Serve, Logout, ChangeReadUser, ChangeReadVersion
<1>3. ASSUME NEW p \in Request,
             \/ UpdateFind(p) \/ UpdateClear(p) \/ UpdateFail(p)
             \/ RemoveFind(p) \/ RemoveKeys(p)
      PROVE  PasswordQuiet
  BY <1>3 DEF UpdateFind, UpdateClear, UpdateFail, RemoveFind, RemoveKeys
<1>4. ASSUME NEW p \in Request, RemoveRow(p) PROVE PasswordQuiet
  BY <1>4 DEF RemoveRow, Row
<1>5. CASE Expire \/ UNCHANGED vars
  BY <1>5 DEF Expire, vars
<1>6. QED
  BY <1>1, <1>2, <1>3, <1>4, <1>5 DEF Next

\* A token at least as new as the row's password is older than no change.
LEMMA CurrentToken ==
  ASSUME TypeOK, NEW t \in Token, t.pw = db.pw PROVE ~ChangedSince(t)
<1>1. db.pw \in Nat
  BY RowFields DEF TypeOK
<1>2. QED
  BY <1>1 DEF ChangedSince

\* A password written by an administrator does not count as a change.
LEMMA ResetKeepsTokens ==
  ASSUME TypeOK, NEW p \in Request, UpdateWrite(p), NEW t \in Token, ~ChangedSince(t)
  PROVE  ~(t # NoToken /\ \E n \in (t.pw + 1)..db'.pw : n \notin resets')
<1>1. db.pw \in Nat /\ t.pw \in Nat /\ resets \in SUBSET Nat
  BY RowFields DEF TypeOK, Token
<1>2. CASE ~db.exists
  BY <1>2 DEF UpdateWrite, ChangedSince
<1>3. CASE db.exists
  <2>1. PICK e \in BOOLEAN, w \in {db.pw, db.pw + 1} :
             /\ db' = [db EXCEPT !.enabled = e, !.pw = w]
             /\ resets' = IF w = db.pw THEN resets ELSE resets \cup {w}
    BY <1>3 DEF UpdateWrite
  <2>2. db'.pw = w
    BY <2>1 DEF TypeOK, Row
  <2>3. CASE w = db.pw
    BY <2>1, <2>2, <2>3 DEF ChangedSince
  <2>4. CASE w = db.pw + 1
    <3>1. resets' = resets \cup {db.pw + 1}
      BY <2>1, <2>4, <1>1
    <3>2. ASSUME NEW n \in (t.pw + 1)..(db.pw + 1), n \notin resets'
          PROVE  n \in (t.pw + 1)..db.pw /\ n \notin resets
      BY <1>1, <3>1, <3>2
    <3>3. QED
      BY <2>2, <2>4, <3>2 DEF ChangedSince
  <2>5. QED
    BY <2>1, <2>3, <2>4
<1>4. QED
  BY <1>2, <1>3

\* Once a password change is through, no older token is usable, save for the named
\* late writes.
THEOREM PasswordsStayCurrent == Spec => []PasswordCurrent
<1>1. Init => PasswordInv
  BY DEF Init, PasswordInv, NoKeys, ChangedSince, At
<1>2. TypeOK /\ PasswordInv /\ [Next]_vars => PasswordInv'
  <2>. SUFFICES ASSUME TypeOK, PasswordInv, [Next]_vars PROVE PasswordInv'
    OBVIOUS
  <2>. DEFINE Half(s) == \E p \in Request : At(p, s)
              Old(t) == t # NoToken /\ \E n \in (t.pw + 1)..db'.pw : n \notin resets'
  <2>0. /\ redis.token \in Token /\ redis.refresh \in Token
        /\ redis'.token \in Token /\ redis'.refresh \in Token
    BY TypePreserved, KeysFields DEF TypeOK
  <2>1. ASSUME NEW p \in Request, LoginStore(p) PROVE PasswordInv'
    <3>1. CASE overtaken' = {"login"}
      BY <3>1 DEF PasswordInv, PwClean
    <3>2. CASE overtaken' # {"login"}
      <4>1. seen[p] = db.pw /\ ~\E q \in Request : pc[q] \in {"change_db", "remove_row"}
        BY <2>1, <3>2 DEF LoginStore
      <4>2. ~ChangedSince(redis'.token) /\ ~ChangedSince(redis'.refresh)
        BY <2>1, <4>1, <2>0, StoreFields, CurrentToken
      <4>3. UNCHANGED <<db, resets>>
        BY <2>1 DEF LoginStore
      <4>4. \A q \in Request : ~At(q, "change_db")'
        BY <2>1, <4>1 DEF LoginStore, At, Goto, TypeOK
      <4>5. QED
        BY <4>2, <4>3, <4>4 DEF PasswordInv, ChangedSince
    <3>3. QED
      BY <3>1, <3>2
  <2>2. ASSUME NEW p \in Request, RefreshStore(p) PROVE PasswordInv'
    <3>1. CASE redis.refresh # tok[p] \/ redis.version # 1
      BY <2>2, <3>1 DEF RefreshStore, Mark, PasswordInv, PwClean
    <3>2. CASE ~(redis.refresh # tok[p] \/ redis.version # 1)
      <4>1. /\ redis'.token = redis.refresh
            /\ redis'.refresh = redis.refresh
            /\ redis'.version = 1
            /\ UNCHANGED <<db, resets, overtaken>>
        BY <2>2, <3>2, StoreFields DEF RefreshStore, Mark
      <4>2. /\ \A q \in Request : At(q, "change_redis")' <=> At(q, "change_redis")
            /\ \A q \in Request : At(q, "change_db")' <=> At(q, "change_db")
        BY <2>2 DEF RefreshStore, At, Goto, TypeOK
      <4>3. QED
        BY <3>2, <4>1, <4>2 DEF PasswordInv, PwClean, ChangedSince
    <3>3. QED
      BY <3>1, <3>2
  <2>3. ASSUME NEW p \in Request, ChangeWriteDb(p) PROVE PasswordInv'
    <3>1. UNCHANGED <<redis, overtaken>>
      BY <2>3 DEF ChangeWriteDb
    <3>2. CASE At(p, "change_both")
      <4>1. At(p, "change_redis")' /\ \A q \in Request : At(q, "change_db")' => At(q, "change_db")
        BY <2>3, <3>2 DEF ChangeWriteDb, At, Goto, TypeOK
      <4>2. QED
        BY <3>1, <4>1 DEF PasswordInv, PwClean
    <3>3. CASE At(p, "change_db")
      <4>1. \A q \in Request : At(q, "change_db")' => At(q, "change_db")
        BY <2>3, <3>3 DEF ChangeWriteDb, At, Goto, TypeOK
      <4>2. QED
        BY <3>1, <3>3, <4>1 DEF PasswordInv, PwClean
    <3>4. QED
      BY <2>3, <3>2, <3>3 DEF ChangeWriteDb, At
  <2>4. ASSUME NEW p \in Request, ChangeWriteRedis(p) PROVE PasswordInv'
    <3>1. CASE ver[p] = 0
      BY <2>4, <3>1 DEF ChangeWriteRedis, Mark, PasswordInv, PwClean
    <3>2. CASE ver[p] # 0
      <4>1. ver[p] \in Nat
        BY DEF TypeOK
      <4>2. redis'.version # 1
        BY <2>4, <3>2, <4>1, StoreFields
      <4>3. QED
        BY <4>2 DEF PasswordInv
    <3>3. QED
      BY <3>1, <3>2
  <2>5. ASSUME NEW p \in Request, UpdateWrite(p) PROVE PasswordInv'
    <3>1. UNCHANGED <<redis, overtaken>>
      BY <2>5 DEF UpdateWrite
    <3>2. /\ \A q \in Request : At(q, "change_redis")' <=> At(q, "change_redis")
          /\ \A q \in Request : At(q, "change_db")' <=> At(q, "change_db")
      BY <2>5 DEF UpdateWrite, At, Goto, TypeOK
    <3>3. ASSUME NEW t \in Token, ~ChangedSince(t) PROVE ~Old(t)
      BY <2>5, <3>3, ResetKeepsTokens
    <3>4. QED
      BY <2>0, <3>1, <3>2, <3>3 DEF PasswordInv, PwClean, ChangedSince
  <2>6. CASE Restart
    <3>1. CASE \E p \in Request : HalfDone(p)
      BY <2>6, <3>1 DEF Restart, Mark, PasswordInv, PwClean
    <3>2. CASE ~\E p \in Request : HalfDone(p)
      <4>1. UNCHANGED <<redis, db, resets, overtaken>>
        BY <2>6, <3>2 DEF Restart, Mark
      <4>2. \A p \in Request : ~At(p, "change_redis") /\ ~At(p, "change_db")'
        BY <2>6, <3>2 DEF Restart, HalfDone, At
      <4>3. QED
        BY <4>1, <4>2 DEF PasswordInv, PwClean, ChangedSince
    <3>3. QED
      BY <3>1, <3>2
  <2>7. ASSUME PasswordQuiet, TokensQuiet PROVE PasswordInv'
    <3>1. PwClean' => PwClean
      BY <2>7 DEF TokensQuiet, PwClean
    <3>2. redis'.version = 1 => redis.version = 1
      BY <2>7 DEF TokensQuiet
    <3>3. ASSUME NEW t \in Token, ~ChangedSince(t) PROVE ~Old(t)
      BY <2>7, <3>3 DEF PasswordQuiet, ChangedSince
    <3>4. ~Old(NoToken)
      OBVIOUS
    <3>5. QED
      BY <2>0, <2>7, <3>1, <3>2, <3>3, <3>4
      DEF PasswordInv, PasswordQuiet, TokensQuiet, ChangedSince
  <2>8. QED
    BY <2>1, <2>2, <2>3, <2>4, <2>5, <2>6, <2>7, PasswordSteps, TokenSteps
<1>3. PasswordInv => PasswordCurrent
  BY DEF PasswordInv, PwClean, PasswordCurrent, Usable
<1>4. QED
  BY <1>1, <1>2, <1>3, TypeCorrect, PTL DEF Spec

-----------------------------------------------------------------------------
(***************************************************************************)
(* The one way to a token of an earlier password                           *)
(***************************************************************************)

\* No token, stored or presented, and no row read is of a password yet to be chosen.
NotAhead ==
  /\ redis.token.pw <= db.pw
  /\ redis.refresh.pw <= db.pw
  /\ \A p \in Request : tok[p].pw <= db.pw /\ seen[p] <= db.pw

\* What the requests have read: the stored refresh token and the row's password.
Reads ==
  \A q \in Request :
    /\ tok'[q] \in {tok[q], redis.refresh, NoToken}
    /\ seen'[q] \in {seen[q], db.pw, 0}

LEMMA ReadsOnly == ASSUME TypeOK, [Next]_vars PROVE Reads
<1>. USE DEF TypeOK, Reads
<1>1. ASSUME NEW p \in Request,
             LoginReadUser(p) \/ LoginStore(p) \/ RefreshCheckToken(p)
             \/ RefreshCheckVersion(p) \/ RefreshStore(p)
      PROVE  Reads
  BY <1>1 DEF LoginReadUser, LoginStore, RefreshCheckToken, RefreshCheckVersion, RefreshStore
<1>2. ASSUME NEW p \in Request,
             \/ AuthCheckToken(p) \/ AuthCheckVersion(p) \/ AuthReadInfo(p)
             \/ AuthReadUser(p) \/ AuthStoreInfo(p) \/ Serve(p) \/ Logout(p)
      PROVE  Reads
  BY <1>2 DEF AuthCheckToken, AuthCheckVersion, AuthReadInfo, AuthReadUser, AuthStoreInfo,
              Serve, Logout
<1>3. ASSUME NEW p \in Request,
             \/ ChangeReadUser(p) \/ ChangeReadVersion(p) \/ ChangeWriteDb(p)
             \/ ChangeWriteRedis(p)
      PROVE  Reads
  BY <1>3 DEF ChangeReadUser, ChangeReadVersion, ChangeWriteDb, ChangeWriteRedis
<1>4. ASSUME NEW p \in Request,
             \/ UpdateFind(p) \/ UpdateWrite(p) \/ UpdateClear(p) \/ UpdateFail(p)
             \/ RemoveFind(p) \/ RemoveKeys(p) \/ RemoveRow(p)
      PROVE  Reads
  BY <1>4 DEF UpdateFind, UpdateWrite, UpdateClear, UpdateFail, RemoveFind, RemoveKeys,
              RemoveRow
<1>5. CASE Expire \/ UNCHANGED vars
  BY <1>5 DEF Expire, vars
<1>6. CASE Restart
  BY <1>6 DEF Restart
<1>7. QED
  BY <1>1, <1>2, <1>3, <1>4, <1>5, <1>6 DEF Next

\* A password is only ever replaced by a later one.
LEMMA PasswordsGrow == ASSUME TypeOK, [Next]_vars PROVE db.pw <= db'.pw
<1>1. db.pw \in Nat
  BY RowFields DEF TypeOK
<1>2. ASSUME NEW p \in Request, ChangeWriteDb(p) PROVE db.pw <= db'.pw
  <2>1. db' = [db EXCEPT !.pw = db.pw + 1] \/ db' = db
    BY <1>2 DEF ChangeWriteDb
  <2>2. db'.pw = db.pw + 1 \/ db'.pw = db.pw
    BY <2>1 DEF TypeOK, Row
  <2>3. QED
    BY <1>1, <2>2
<1>3. ASSUME NEW p \in Request, UpdateWrite(p) PROVE db.pw <= db'.pw
  <2>1. CASE ~db.exists
    BY <1>1, <1>3, <2>1 DEF UpdateWrite
  <2>2. CASE db.exists
    <3>1. PICK e \in BOOLEAN, w \in {db.pw, db.pw + 1} :
               db' = [db EXCEPT !.enabled = e, !.pw = w]
      BY <1>3, <2>2 DEF UpdateWrite
    <3>2. db'.pw = w
      BY <3>1 DEF TypeOK, Row
    <3>3. QED
      BY <1>1, <3>2
  <2>3. QED
    BY <2>1, <2>2
<1>4. ASSUME NEW p \in Request, LoginStore(p) \/ ChangeWriteRedis(p) PROVE db.pw <= db'.pw
  BY <1>1, <1>4 DEF LoginStore, ChangeWriteRedis
<1>5. CASE UNCHANGED db
  BY <1>1, <1>5
<1>6. CASE PasswordQuiet
  BY <1>1, <1>6 DEF PasswordQuiet
<1>7. QED
  BY <1>2, <1>3, <1>4, <1>5, <1>6, PasswordSteps DEF Restart

LEMMA NotAheadInductive ==
  ASSUME TypeOK, NotAhead, [Next]_vars
  PROVE  NotAhead'
<1>1. TypeOK'
  BY TypePreserved
<1>2. db.pw \in Nat /\ db'.pw \in Nat /\ db.pw <= db'.pw
  BY <1>1, RowFields, PasswordsGrow DEF TypeOK
<1>3. /\ redis.token \in Token /\ redis.refresh \in Token
      /\ redis'.token \in Token /\ redis'.refresh \in Token
  BY <1>1, KeysFields DEF TypeOK
<1>4. ASSUME NEW n \in Nat, n <= db.pw PROVE n <= db'.pw
  BY <1>2, <1>4
<1>5. NoToken.pw = 0
  BY DEF NoToken
<1>6. ASSUME NEW q \in Request PROVE tok'[q].pw <= db'.pw /\ seen'[q] <= db'.pw
  <2>1. /\ tok'[q] \in {tok[q], redis.refresh, NoToken}
        /\ seen'[q] \in {seen[q], db.pw, 0}
    BY ReadsOnly DEF Reads
  <2>2. tok[q].pw \in Nat /\ seen[q] \in Nat /\ redis.refresh.pw \in Nat
    BY <1>3 DEF TypeOK, Token
  <2>3. tok[q].pw <= db.pw /\ redis.refresh.pw <= db.pw /\ seen[q] <= db.pw
    BY DEF NotAhead
  <2>4. tok'[q].pw \in Nat /\ tok'[q].pw <= db.pw
    BY <1>2, <1>5, <2>1, <2>2, <2>3
  <2>5. seen'[q] \in Nat /\ seen'[q] <= db.pw
    BY <1>2, <2>1, <2>2, <2>3
  <2>6. QED
    BY <1>4, <2>4, <2>5
<1>7. redis'.token.pw <= db.pw /\ redis'.refresh.pw <= db.pw
  <2>1. ASSUME NEW p \in Request, LoginStore(p)
        PROVE  redis'.token.pw <= db.pw /\ redis'.refresh.pw <= db.pw
    BY <2>1, StoreFields DEF NotAhead
  <2>2. ASSUME NEW p \in Request, RefreshStore(p)
        PROVE  redis'.token.pw <= db.pw /\ redis'.refresh.pw <= db.pw
    BY <2>2, StoreFields DEF NotAhead
  <2>3. ASSUME NEW p \in Request, ChangeWriteRedis(p)
        PROVE  redis'.token.pw <= db.pw /\ redis'.refresh.pw <= db.pw
    BY <2>3, StoreFields DEF NotAhead
  <2>4. CASE TokensQuiet
    BY <1>2, <1>5, <2>4 DEF NotAhead, TokensQuiet
  <2>5. QED
    BY <2>1, <2>2, <2>3, <2>4, TokenSteps
<1>8. redis'.token.pw \in Nat /\ redis'.refresh.pw \in Nat
  BY <1>3 DEF Token
<1>9. QED
  BY <1>4, <1>6, <1>7, <1>8 DEF NotAhead

\* The comment at redis-key.constants.ts:26 fails in one way only: the token is of an
\* earlier password, and an administrator chose every password since (user.service.ts:506
\* writes it and leaves the version alone).
THEOREM OnlyResetsLeaveTokens ==
  Spec => [](~PasswordModifiedInvalidates =>
               /\ redis.token.pw < db.pw
               /\ (redis.token.pw + 1)..db.pw \subseteq resets)
<1>1. Init => NotAhead
  BY DEF Init, NotAhead, InitRow, NoKeys, NoToken
<1>2. ASSUME TypeOK, NotAhead, PasswordCurrent, ~PasswordModifiedInvalidates
      PROVE  /\ redis.token.pw < db.pw
             /\ (redis.token.pw + 1)..db.pw \subseteq resets
  <2>1. redis.token.pw \in Nat /\ db.pw \in Nat
    BY <1>2, KeysFields, RowFields DEF TypeOK, Token
  <2>2. redis.token.pw < db.pw
    BY <1>2, <2>1 DEF NotAhead, PasswordModifiedInvalidates
  <2>3. ~ChangedSince(redis.token)
    BY <1>2 DEF PasswordCurrent, PasswordModifiedInvalidates, HalfDone, At
  <2>4. redis.token # NoToken
    BY <1>2 DEF PasswordModifiedInvalidates, Usable
  <2>5. QED
    BY <2>2, <2>3, <2>4 DEF ChangedSince
<1>3. QED
  BY <1>1, <1>2, NotAheadInductive, TypeCorrect, PasswordsStayCurrent, PTL DEF Spec

-----------------------------------------------------------------------------
(***************************************************************************)
(* Requests that come one after the other                                  *)
(***************************************************************************)

\* A logout finds no refresh between its look at the stored token and its store.
LogoutFindsNoRefresh ==
  [][(\E p \in Request : Logout(p)) =>
       \A q \in Request : pc[q] \notin {"refresh_version", "refresh_store"}]_vars

\* The session stays without tokens, and no refresh has one to store.
ClosedQuietly ==
  closed => /\ redis.token = NoToken /\ redis.refresh = NoToken
            /\ \A q \in Request : pc[q] \notin {"refresh_version", "refresh_store"}

\* Only a logout closes the session.
LEMMA LoggedOut ==
  ASSUME [Next]_vars, closed', ~\E p \in Request : Logout(p) PROVE closed
BY DEF Next, vars, LoginReadUser, LoginStore, RefreshCheckToken, RefreshCheckVersion,
       RefreshStore, AuthCheckToken, AuthCheckVersion, AuthReadInfo, AuthReadUser,
       AuthStoreInfo, Serve, ChangeReadUser, ChangeReadVersion, ChangeWriteDb,
       ChangeWriteRedis, UpdateFind, UpdateWrite, UpdateClear, UpdateFail, RemoveFind,
       RemoveKeys, RemoveRow, Expire, Restart

\* A session without a refresh token begins no refresh.
LEMMA RefreshesBegin ==
  ASSUME TypeOK, NEW q \in Request, [Next]_vars,
         pc'[q] \in {"refresh_version", "refresh_store"}
  PROVE  redis.refresh # NoToken \/ pc[q] \in {"refresh_version", "refresh_store"}
<1>. USE DEF TypeOK, At, Goto
<1>1. ASSUME NEW p \in Request,
             \/ LoginReadUser(p) \/ LoginStore(p)
             \/ RefreshCheckToken(p) \/ RefreshCheckVersion(p) \/ RefreshStore(p)
             \/ AuthCheckToken(p) \/ AuthCheckVersion(p) \/ AuthReadInfo(p)
      PROVE  redis.refresh # NoToken \/ pc[q] \in {"refresh_version", "refresh_store"}
  BY <1>1 DEF LoginReadUser, LoginStore, RefreshCheckToken, RefreshCheckVersion,
              RefreshStore, AuthCheckToken, AuthCheckVersion, AuthReadInfo
<1>2. ASSUME NEW p \in Request,
             \/ AuthReadUser(p) \/ AuthStoreInfo(p) \/ Serve(p) \/ Logout(p)
             \/ ChangeReadUser(p) \/ ChangeReadVersion(p) \/ ChangeWriteDb(p)
             \/ ChangeWriteRedis(p)
      PROVE  pc[q] \in {"refresh_version", "refresh_store"}
  BY <1>2 DEF AuthReadUser, AuthStoreInfo, Serve, Logout, ChangeReadUser, ChangeReadVersion,
              ChangeWriteDb, ChangeWriteRedis
<1>3. ASSUME NEW p \in Request,
             \/ UpdateFind(p) \/ UpdateWrite(p) \/ UpdateClear(p) \/ UpdateFail(p)
             \/ RemoveFind(p) \/ RemoveKeys(p) \/ RemoveRow(p)
      PROVE  pc[q] \in {"refresh_version", "refresh_store"}
  BY <1>3 DEF UpdateFind, UpdateWrite, UpdateClear, UpdateFail, RemoveFind, RemoveKeys,
              RemoveRow
<1>4. CASE Restart \/ Expire \/ UNCHANGED vars
  BY <1>4 DEF Restart, Expire, vars
<1>5. QED
  BY <1>1, <1>2, <1>3, <1>4 DEF Next

\* Without a refresh under way a logout is final without exception: until the next login
\* no token is stored, whatever password changes write to the version
\* (auth.service.ts:499).  It is the refresh, and only it, that can bring a session back.
THEOREM LogoutFinalWithoutRefresh ==
  Spec /\ LogoutFindsNoRefresh => [](closed => redis.token = NoToken)
<1>. DEFINE Calm == (\E p \in Request : Logout(p)) =>
                      \A q \in Request : pc[q] \notin {"refresh_version", "refresh_store"}
<1>1. Init => ClosedQuietly
  BY DEF Init, ClosedQuietly
<1>2. TypeOK /\ ClosedQuietly /\ [Next]_vars /\ [Calm]_vars => ClosedQuietly'
  <2>. SUFFICES ASSUME TypeOK, ClosedQuietly, [Next]_vars, [Calm]_vars, closed'
                PROVE  /\ redis'.token = NoToken /\ redis'.refresh = NoToken
                       /\ \A q \in Request :
                            pc'[q] \notin {"refresh_version", "refresh_store"}
    BY DEF ClosedQuietly
  <2>1. CASE \E p \in Request : Logout(p)
    <3>1. PICK p \in Request : Logout(p)
      BY <2>1
    <3>2. pc' # pc
      BY <3>1 DEF Logout, At, Goto, TypeOK
    <3>3. \A q \in Request : pc[q] \notin {"refresh_version", "refresh_store"}
      BY <2>1, <3>2 DEF vars
    <3>4. QED
      BY <3>1, <3>3 DEF Logout, LogoutKeys, NoKeys, Goto, TypeOK
  <2>2. CASE ~\E p \in Request : Logout(p)
    <3>1. closed
      BY <2>2, LoggedOut
    <3>2. /\ redis.token = NoToken /\ redis.refresh = NoToken
          /\ \A q \in Request : pc[q] \notin {"refresh_version", "refresh_store"}
      BY <3>1 DEF ClosedQuietly
    <3>3. \A q \in Request : pc'[q] \notin {"refresh_version", "refresh_store"}
      BY <3>2, RefreshesBegin
    <3>4. ~\E p \in Request : LoginStore(p) \/ RefreshStore(p)
      BY <3>2 DEF LoginStore, RefreshStore, At
    <3>5. ASSUME NEW p \in Request, ChangeWriteRedis(p)
          PROVE  redis'.token = NoToken /\ redis'.refresh = NoToken
      BY <3>2, <3>5, StoreFields
    <3>6. CASE TokensQuiet
      BY <3>2, <3>3, <3>6 DEF TokensQuiet
    <3>7. QED
      BY <3>3, <3>4, <3>5, <3>6, TokenSteps
  <2>3. QED
    BY <2>1, <2>2
<1>3. ClosedQuietly => (closed => redis.token = NoToken)
  BY DEF ClosedQuietly
<1>. HIDE DEF Calm
<1>4. Spec /\ [][Calm]_vars => [](closed => redis.token = NoToken)
  BY <1>1, <1>2, <1>3, TypeCorrect, PTL DEF Spec
<1>5. QED
  BY <1>4 DEF Calm, LogoutFindsNoRefresh

\* Requests never overlap: at most one is under way.
Apart == \A p, q \in Request : ~At(p, "idle") /\ ~At(q, "idle") => p = q

\* What the one request under way has read still holds when it writes, and a refresh
\* presented the token that is stored, if one is.
ReadsHold ==
  /\ \A p \in Request : At(p, "login_store") => Live(db) /\ seen[p] = db.pw
  /\ \A p \in Request : At(p, "auth_store") => Live(db)
  /\ \A p \in Request :
       pc[p] \in {"refresh_version", "refresh_store"} => redis.refresh \in {tok[p], NoToken}
  /\ redis.token # NoToken /\ redis.refresh # NoToken
       => redis.token.login = redis.refresh.login
  /\ overtaken \cap {"login", "fill"} = {}

LEMMA ReadsKeepHolding == ASSUME TypeOK, ReadsHold, Apart, [Next]_vars PROVE ReadsHold'
<1>0. ASSUME NEW p \in Request, NEW q \in Request, ~At(p, "idle"), q # p
      PROVE  pc[q] = "idle"
  BY <1>0 DEF Apart, At
<1>. USE DEF TypeOK, At, Goto, Mark, ReadsHold
<1>1. ASSUME NEW p \in Request, LoginReadUser(p) PROVE ReadsHold'
  BY <1>1 DEF LoginReadUser
<1>2. ASSUME NEW p \in Request, LoginStore(p) PROVE ReadsHold'
  <2>1. \A q \in Request : pc'[q] = "idle" /\ pc[q] \notin {"change_db", "remove_row"}
    BY <1>0, <1>2 DEF LoginStore
  <2>2. overtaken' = {}
    BY <1>2, <2>1 DEF LoginStore
  <2>3. redis'.token = redis'.refresh
    BY <1>2, StoreFields
  <2>4. QED
    BY <2>1, <2>2, <2>3
<1>3. ASSUME NEW p \in Request, RefreshCheckToken(p) PROVE ReadsHold'
  BY <1>3 DEF RefreshCheckToken
<1>4. ASSUME NEW p \in Request, RefreshCheckVersion(p) PROVE ReadsHold'
  BY <1>4 DEF RefreshCheckVersion
<1>5. ASSUME NEW p \in Request, RefreshStore(p) PROVE ReadsHold'
  <2>1. \A q \in Request : pc'[q] = "idle"
    BY <1>0, <1>5 DEF RefreshStore
  <2>2. redis'.token = tok[p] /\ redis'.refresh = redis.refresh
        /\ redis.refresh \in {tok[p], NoToken}
    BY <1>5, StoreFields DEF RefreshStore
  <2>3. overtaken' \subseteq overtaken \cup {"refresh"}
    BY <1>5 DEF RefreshStore
  <2>4. QED
    BY <2>1, <2>2, <2>3
<1>6. ASSUME NEW p \in Request,
             \/ AuthCheckToken(p) \/ AuthCheckVersion(p) \/ AuthReadInfo(p)
             \/ AuthReadUser(p) \/ Serve(p) \/ ChangeReadUser(p) \/ ChangeReadVersion(p)
             \/ UpdateFind(p) \/ RemoveFind(p)
      PROVE  ReadsHold'
  <2>1. UNCHANGED <<db, redis, tok, seen, overtaken>>
    BY <1>6 DEF AuthCheckToken, AuthCheckVersion, AuthReadInfo, AuthReadUser, Serve,
                ChangeReadUser, ChangeReadVersion, UpdateFind, RemoveFind
  <2>2. \A q \in Request :
          /\ pc'[q] \in {"login_store", "refresh_version", "refresh_store"} => pc'[q] = pc[q]
          /\ pc'[q] = "auth_store" => pc[q] = "auth_store" \/ Live(db)
    BY <1>6 DEF AuthCheckToken, AuthCheckVersion, AuthReadInfo, AuthReadUser, Serve,
                ChangeReadUser, ChangeReadVersion, UpdateFind, RemoveFind
  <2>3. QED
    BY <2>1, <2>2 DEF Live
<1>7. ASSUME NEW p \in Request, AuthStoreInfo(p) PROVE ReadsHold'
  <2>1. \A q \in Request : pc'[q] \in {"idle", "granted"} /\ pc[q] # "remove_row"
    BY <1>0, <1>7 DEF AuthStoreInfo
  <2>2. overtaken' = overtaken
    BY <1>7, <2>1 DEF AuthStoreInfo
  <2>3. redis'.token = redis.token /\ redis'.refresh = redis.refresh
    BY <1>7 DEF AuthStoreInfo, Keys
  <2>4. QED
    BY <2>1, <2>2, <2>3
<1>8. ASSUME NEW p \in Request,
             \/ Logout(p) \/ ChangeWriteDb(p) \/ ChangeWriteRedis(p)
             \/ UpdateWrite(p) \/ UpdateClear(p) \/ UpdateFail(p)
             \/ RemoveKeys(p) \/ RemoveRow(p)
      PROVE  ReadsHold'
  <2>1. pc[p] \in {"granted", "change_both", "change_db", "change_redis", "update_write",
                   "update_clear", "remove_keys", "remove_row"}
    BY <1>8 DEF Logout, ChangeWriteDb, ChangeWriteRedis, UpdateWrite, UpdateClear, UpdateFail,
                RemoveKeys, RemoveRow
  <2>2. \A q \in Request :
          pc'[q] \notin {"login_store", "auth_store", "refresh_version", "refresh_store"}
    <3>1. \A q \in Request : q # p => pc[q] = "idle"
      BY <1>0, <2>1
    <3>2. \E s \in {"idle", "change_redis", "change_db", "update_clear", "remove_row"} :
            pc' = [pc EXCEPT ![p] = s]
      BY <1>8 DEF Logout, ChangeWriteDb, ChangeWriteRedis, UpdateWrite, UpdateClear,
                  UpdateFail, RemoveKeys, RemoveRow
    <3>3. QED
      BY <3>1, <3>2
  <2>3. /\ redis'.token \in {redis.token, NoToken}
        /\ redis'.refresh \in {redis.refresh, NoToken}
    <3>1. \A q \in Request : q # p => pc[q] = "idle"
      BY <1>0, <2>1
    <3>2. ~\E q \in Request : LoginStore(q) \/ RefreshStore(q)
      BY <2>1, <3>1 DEF LoginStore, RefreshStore
    <3>3. TokensQuiet \/ \E q \in Request : ChangeWriteRedis(q)
      BY <3>2, TokenSteps
    <3>4. QED
      BY <3>3, StoreFields DEF TokensQuiet
  <2>4. overtaken' \subseteq overtaken \cup {"bump", "abort"}
    BY <1>8 DEF Logout, ChangeWriteDb, ChangeWriteRedis, UpdateWrite, UpdateClear, UpdateFail,
                RemoveKeys, RemoveRow
  <2>5. QED
    BY <2>2, <2>3, <2>4
<1>9. CASE Expire
  <2>1. /\ redis'.token \in {redis.token, NoToken}
        /\ redis'.refresh \in {redis.refresh, NoToken}
    BY <1>9 DEF Expire, Keys
  <2>2. UNCHANGED <<db, pc, tok, seen, overtaken>>
    BY <1>9 DEF Expire
  <2>3. QED
    BY <2>1, <2>2 DEF Live
<1>10. CASE Restart
  BY <1>10 DEF Restart
<1>11. CASE UNCHANGED vars
  BY <1>11 DEF vars, Live
<1>12. QED
  BY <1>1, <1>2, <1>3, <1>4, <1>5, <1>6, <1>7, <1>8, <1>9, <1>10, <1>11 DEF Next

\* When requests never overlap, the two stored tokens always stem from one login
\* (auth.service.ts:255), and a disabled or removed user keeps no user:info unless the
\* update that should delete it failed or died half-way (auth.service.ts:304): the late
\* refresh, login and cache fill that TokensPaired and DisabledOut except are all overlaps.
THEOREM KeysAgreeWhenApart ==
  Spec /\ []Apart =>
    [](/\ redis.token # NoToken /\ redis.refresh # NoToken
            => redis.token.login = redis.refresh.login
       /\ redis.info /\ ~Live(db) /\ "abort" \notin overtaken
            => \E p \in Request : At(p, "update_clear"))
<1>1. Init => ReadsHold
  BY DEF Init, ReadsHold, NoKeys, At
<1>2. ReadsHold /\ DisabledOut
      => /\ redis.token # NoToken /\ redis.refresh # NoToken
              => redis.token.login = redis.refresh.login
         /\ redis.info /\ ~Live(db) /\ "abort" \notin overtaken
              => \E p \in Request : At(p, "update_clear")
  BY DEF ReadsHold, DisabledOut
<1>3. QED
  BY <1>1, <1>2, ReadsKeepHolding, TypeCorrect, DisabledStaysOut, PTL DEF Spec

=============================================================================
