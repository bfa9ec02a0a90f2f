------------------------------- MODULE Session -------------------------------
(***************************************************************************)
(* The login session of ONE account: its row in the users table, its keys  *)
(* in Redis (user:token, user:refresh_token, user:version, user:info; the  *)
(* key user:permissions is always written and deleted with user:info), and *)
(* the requests that work on them.  Source: AuthService, JwtStrategy and   *)
(* UserService.                                                            *)
(*                                                                         *)
(* The server is one Node process (ecosystem.config.js: instances 1, fork) *)
(* with one Redis connection, so a request is interrupted exactly at its   *)
(* awaits: an action below is what happens between two of them.  The Redis *)
(* commands of one Promise.all are sent back to back on that connection    *)
(* and form one action; a Promise.all that also writes MySQL does not.     *)
(*                                                                         *)
(* Abstractions.  A JWT is the login it descends from and the password     *)
(* that login used.  A request that presents a token which is not the one  *)
(* stored, or a wrong password, is refused without effect and is left out. *)
(* pv is 1 in every token (auth.service.ts:127), so a version check        *)
(* compares the stored version with 1.                                     *)
(***************************************************************************)
EXTENDS Naturals

CONSTANTS
  Request,    \* requests in flight at one time
  MaxLogins,  \* bound: logins that store a session
  MaxPw,      \* bound: password generations
  Admin       \* does an administrator edit or remove the account meanwhile?

ASSUME SessionConstants == MaxLogins \in Nat /\ MaxPw \in Nat /\ Admin \in BOOLEAN

VARIABLES
  db,         \* the row of users: does it exist, is it enabled, which password
  redis,      \* the keys of the account
  logins,     \* logins that stored a session so far
  pc,         \* where each request stands
  tok,        \* refresh token a request presented
  seen,       \* password of the users row a login read
  ver,        \* user:version a request read
  closed,     \* history: logged out, and no login since
  overtaken,  \* history: kinds of writes, since the last login, whose reads no longer held
  resets      \* history: password generations written by an administrator

vars == <<db, redis, logins, pc, tok, seen, ver, closed, overtaken, resets>>

Row     == [exists : BOOLEAN, enabled : BOOLEAN, pw : Nat]
Token   == [login : Nat, pw : Nat]
NoToken == [login |-> 0, pw |-> 0]       \* the key is absent
Keys    == [token : Token, refresh : Token, version : Nat, info : BOOLEAN]
NoKeys  == [token |-> NoToken, refresh |-> NoToken, version |-> 0, info |-> FALSE]
InitRow == [exists |-> TRUE, enabled |-> TRUE, pw |-> 0]

Step == {"idle", "login_store",
         "refresh_version", "refresh_store",
         "auth_version", "auth_info", "auth_user", "auth_store", "granted",
         "change_version", "change_both", "change_db", "change_redis",
         "update_write", "update_clear",
         "remove_keys", "remove_row"}

Kind == {"login", "refresh", "bump", "fill", "abort"}

Init ==
  /\ db = InitRow
  /\ redis = NoKeys
  /\ logins = 0
  /\ pc  = [p \in Request |-> "idle"]
  /\ tok = [p \in Request |-> NoToken]
  /\ seen = [p \in Request |-> 0]
  /\ ver = [p \in Request |-> 0]
  /\ closed = FALSE
  /\ overtaken = {}
  /\ resets = {}

-----------------------------------------------------------------------------
At(p, s)  == pc[p] = s
Goto(p, s) == pc' = [pc EXCEPT ![p] = s]

\* The account may log in: the row is there and its status is enabled.
Live(r) == r.exists /\ r.enabled

\* The write of kind k is overtaken when `lost` holds.
Mark(k, lost) == overtaken' = IF lost THEN overtaken \cup {k} ELSE overtaken

\* A request is between a write to MySQL and the write to Redis that belongs to it.
HalfDone(p) == pc[p] \in {"update_clear", "change_db", "change_redis"}

\* What the four operations that rewrite several keys leave in Redis.
LoginKeysReused(t) ==     \* faulty: a refresh token found in Redis is kept
  [token |-> t, version |-> 1, info |-> TRUE,
   refresh |-> IF redis.refresh = NoToken THEN t ELSE redis.refresh]
LoginKeys(t) == [token |-> t, refresh |-> t, version |-> 1, info |-> TRUE]

LogoutKeysPartial == [NoKeys EXCEPT !.version = redis.version]   \* faulty: version kept
LogoutKeys == NoKeys

ClearedInfoKept(k) == k                                          \* faulty: nothing deleted
ClearUserCache(k) == [k EXCEPT !.info = FALSE]

NextVersionSame(v) == IF v = 0 THEN 1 ELSE v                     \* faulty: not increased
NextVersionDown(v) == v - 2                                      \* faulty: decreased
NextVersion(v) == v + 1

(***************************************************************************)
(* Login: AuthController.login -> validateUser -> login                    *)
(***************************************************************************)

\* The row is read; bcrypt compares with the password of that row.
LoginReadUser(p) ==
  /\ At(p, "idle")
  /\ Live(db)
  /\ seen' = [seen EXCEPT ![p] = db.pw]
  /\ Goto(p, "login_store")
  /\ UNCHANGED <<db, redis, logins, tok, ver, closed, overtaken, resets>>

\* Both tokens are signed and all keys written, the version always as 1.
LoginStore(p) ==
  LET t == [login |-> logins + 1, pw |-> seen[p]] IN
  /\ At(p, "login_store")
  /\ logins < MaxLogins
  /\ logins' = logins + 1
  /\ redis' = LoginKeys(t)
  /\ seen' = [seen EXCEPT ![p] = 0]
  /\ Goto(p, "idle")
  /\ closed' = FALSE
  /\ overtaken' = IF \/ ~Live(db)
                     \/ seen[p] # db.pw
                     \/ \E q \in Request : pc[q] \in {"change_db", "remove_row"}
                  THEN {"login"} ELSE {}
  /\ UNCHANGED <<db, tok, ver, resets>>

(***************************************************************************)
(* AuthService.refresh                                                     *)
(***************************************************************************)

RefreshCheckToken(p) ==
  /\ At(p, "idle")
  /\ redis.refresh # NoToken
  /\ tok' = [tok EXCEPT ![p] = redis.refresh]
  /\ Goto(p, "refresh_version")
  /\ UNCHANGED <<db, redis, logins, seen, ver, closed, overtaken, resets>>

RefreshCheckVersion(p) ==
  /\ At(p, "refresh_version")
  /\ IF redis.version = 1
     THEN Goto(p, "refresh_store") /\ UNCHANGED tok
     ELSE Goto(p, "idle") /\ tok' = [tok EXCEPT ![p] = NoToken]
  /\ UNCHANGED <<db, redis, logins, seen, ver, closed, overtaken, resets>>

\* Overtaken: what the two checks saw is no longer so.
RefreshStore(p) ==
  /\ At(p, "refresh_store")
  /\ redis' = [redis EXCEPT !.token = tok[p]]
  /\ Mark("refresh", redis.refresh # tok[p] \/ redis.version # 1)
  /\ tok' = [tok EXCEPT ![p] = NoToken]
  /\ Goto(p, "idle")
  /\ UNCHANGED <<db, logins, seen, ver, closed, resets>>

(***************************************************************************)
(* JwtAuthGuard -> JwtStrategy.validate -> AuthService.validateToken       *)
(***************************************************************************)

AuthCheckToken(p) ==
  /\ At(p, "idle")
  /\ redis.token # NoToken
  /\ Goto(p, "auth_version")
  /\ UNCHANGED <<db, redis, logins, tok, seen, ver, closed, overtaken, resets>>

AuthCheckVersion(p) ==
  /\ At(p, "auth_version")
  /\ Goto(p, IF redis.version = 1 THEN "auth_info" ELSE "idle")
  /\ UNCHANGED <<db, redis, logins, tok, seen, ver, closed, overtaken, resets>>

\* A cached user is accepted as it is, without a look at the database.
AuthReadInfo(p) ==
  /\ At(p, "auth_info")
  /\ Goto(p, IF redis.info THEN "granted" ELSE "auth_user")
  /\ UNCHANGED <<db, redis, logins, tok, seen, ver, closed, overtaken, resets>>

AuthReadUser(p) ==
  /\ At(p, "auth_user")
  /\ Goto(p, IF Live(db) THEN "auth_store" ELSE "idle")
  /\ UNCHANGED <<db, redis, logins, tok, seen, ver, closed, overtaken, resets>>

AuthStoreInfo(p) ==
  /\ At(p, "auth_store")
  /\ redis' = [redis EXCEPT !.info = TRUE]
  /\ Mark("fill", ~Live(db) \/ \E q \in Request : At(q, "remove_row"))
  /\ Goto(p, "granted")
  /\ UNCHANGED <<db, logins, tok, seen, ver, closed, resets>>

\* Any other protected route: it does not touch this state.
Serve(p) ==
  /\ At(p, "granted")
  /\ Goto(p, "idle")
  /\ UNCHANGED <<db, redis, logins, tok, seen, ver, closed, overtaken, resets>>

(***************************************************************************)
(* AuthService.logout                                                      *)
(***************************************************************************)

Logout(p) ==
  /\ At(p, "granted")
  /\ redis' = LogoutKeys
  /\ closed' = TRUE
  /\ Goto(p, "idle")
  /\ UNCHANGED <<db, logins, tok, seen, ver, overtaken, resets>>

(***************************************************************************)
(* UserService.changePassword, called by the account itself                *)
(***************************************************************************)

ChangeReadUser(p) ==
  /\ At(p, "granted")
  /\ Goto(p, IF db.exists THEN "change_version" ELSE "idle")
  /\ UNCHANGED <<db, redis, logins, tok, seen, ver, closed, overtaken, resets>>

ChangeReadVersion(p) ==
  /\ At(p, "change_version")
  /\ ver' = [ver EXCEPT ![p] = redis.version]
  /\ Goto(p, "change_both")
  /\ UNCHANGED <<db, redis, logins, tok, seen, closed, overtaken, resets>>

\* The MySQL half of the Promise.all; prisma rejects it when the row is gone.
ChangeWriteDb(p) ==
  /\ pc[p] \in {"change_both", "change_db"}
  /\ db.pw < MaxPw
  /\ db' = IF db.exists THEN [db EXCEPT !.pw = @ + 1] ELSE db
  /\ IF At(p, "change_both")
     THEN Goto(p, "change_redis")
     ELSE Goto(p, "idle")
  /\ UNCHANGED <<redis, logins, tok, seen, ver, closed, overtaken, resets>>

\* The Redis half: version read + 1, or 1 when none was found; info deleted.
ChangeWriteRedis(p) ==
  /\ pc[p] \in {"change_both", "change_redis"}
  /\ redis' = ClearUserCache([redis EXCEPT !.version = NextVersion(ver[p])])
  /\ Mark("bump", ver[p] = 0)
  /\ ver' = [ver EXCEPT ![p] = 0]
  /\ Goto(p, IF At(p, "change_both") THEN "change_db" ELSE "idle")
  /\ UNCHANGED <<db, logins, tok, seen, closed, resets>>

(***************************************************************************)
(* UserService.update and remove, called by an administrator               *)
(***************************************************************************)

UpdateFind(p) ==
  /\ Admin
  /\ At(p, "idle")
  /\ db.exists
  /\ Goto(p, "update_write")
  /\ UNCHANGED <<db, redis, logins, tok, seen, ver, closed, overtaken, resets>>

\* status and/or password are written; the version in Redis is left as it is.
UpdateWrite(p) ==
  /\ At(p, "update_write")
  /\ IF ~db.exists
     THEN Goto(p, "idle") /\ UNCHANGED <<db, resets>>
     ELSE /\ \E e \in BOOLEAN, w \in {db.pw, db.pw + 1} :
               /\ w <= MaxPw
               /\ db' = [db EXCEPT !.enabled = e, !.pw = w]
               /\ resets' = IF w = db.pw THEN resets ELSE resets \cup {w}
          /\ Goto(p, "update_clear")
  /\ UNCHANGED <<redis, logins, tok, seen, ver, closed, overtaken>>

\* Role codes, when given, are rebound before; then info is deleted.
UpdateClear(p) ==
  /\ At(p, "update_clear")
  /\ redis' = ClearUserCache(redis)
  /\ Goto(p, "idle")
  /\ UNCHANGED <<db, logins, tok, seen, ver, closed, overtaken, resets>>

\* bindUserRoles throws (unknown role code): the cache is never cleared.
UpdateFail(p) ==
  /\ At(p, "update_clear")
  /\ Goto(p, "idle")
  /\ Mark("abort", TRUE)
  /\ UNCHANGED <<db, redis, logins, tok, seen, ver, closed, resets>>

RemoveFind(p) ==
  /\ Admin
  /\ At(p, "idle")
  /\ db.exists
  /\ Goto(p, "remove_keys")
  /\ UNCHANGED <<db, redis, logins, tok, seen, ver, closed, overtaken, resets>>

\* All keys but user:refresh_token.
RemoveKeys(p) ==
  /\ At(p, "remove_keys")
  /\ redis' = [NoKeys EXCEPT !.refresh = redis.refresh]
  /\ Goto(p, "remove_row")
  /\ UNCHANGED <<db, logins, tok, seen, ver, closed, overtaken, resets>>

RemoveRow(p) ==
  /\ At(p, "remove_row")
  /\ db' = [db EXCEPT !.exists = FALSE]
  /\ Goto(p, "idle")
  /\ UNCHANGED <<redis, logins, tok, seen, ver, closed, overtaken, resets>>

(***************************************************************************)
(* The environment: keys reach their TTL, the process dies                 *)
(***************************************************************************)

\* The access token lives 2h.  Every write of user:version or user:info gives
\* it 7 days, as the refresh token got at the login: they do not lapse before it.
Expire ==
  /\ \/ redis' = [redis EXCEPT !.token = NoToken]
     \/ redis' = [redis EXCEPT !.refresh = NoToken]
     \/ redis.refresh = NoToken /\ redis' = [redis EXCEPT !.version = 0]
     \/ redis.refresh = NoToken /\ redis' = [redis EXCEPT !.info = FALSE]
  /\ UNCHANGED <<db, logins, pc, tok, seen, ver, closed, overtaken, resets>>

\* PM2 restarts the process (max_memory_restart): requests in flight are gone.
Restart ==
  /\ pc'  = [p \in Request |-> "idle"]
  /\ tok' = [p \in Request |-> NoToken]
  /\ seen' = [p \in Request |-> 0]
  /\ ver' = [p \in Request |-> 0]
  /\ Mark("abort", \E p \in Request : HalfDone(p))
  /\ UNCHANGED <<db, redis, logins, closed, resets>>

Next ==
  \/ \E p \in Request :
       \/ LoginReadUser(p) \/ LoginStore(p)
       \/ RefreshCheckToken(p) \/ RefreshCheckVersion(p) \/ RefreshStore(p)
       \/ AuthCheckToken(p) \/ AuthCheckVersion(p) \/ AuthReadInfo(p)
       \/ AuthReadUser(p) \/ AuthStoreInfo(p) \/ Serve(p)
       \/ Logout(p)
       \/ ChangeReadUser(p) \/ ChangeReadVersion(p)
       \/ ChangeWriteDb(p) \/ ChangeWriteRedis(p)
       \/ UpdateFind(p) \/ UpdateWrite(p) \/ UpdateClear(p) \/ UpdateFail(p)
       \/ RemoveFind(p) \/ RemoveKeys(p) \/ RemoveRow(p)
  \/ Expire
  \/ Restart

Spec == Init /\ [][Next]_vars

-----------------------------------------------------------------------------
(***************************************************************************)
(* Properties                                                              *)
(***************************************************************************)

\* Every variable keeps the shape the code gives it.
TypeOK ==
  /\ db \in Row
  /\ redis \in Keys
  /\ logins \in Nat
  /\ pc  \in [Request -> Step]
  /\ tok \in [Request -> Token]
  /\ seen \in [Request -> Nat]
  /\ ver \in [Request -> Nat]
  /\ closed \in BOOLEAN
  /\ overtaken \in SUBSET Kind
  /\ resets \in SUBSET Nat

\* A request with the stored access token passes both checks of validateToken.
Usable == redis.token # NoToken /\ redis.version = 1

\* The account changed its own password after the one token t was made with.
ChangedSince(t) ==
  t # NoToken /\ \E n \in (t.pw + 1)..db.pw : n \notin resets

\* Logging out (auth.service.ts:499) is final: until the next login the session
\* comes back only by TWO writes that both came too late, a refresh that stores
\* its token over the deleted one and a password change that writes version 1.
LogoutFinal == closed /\ Usable => {"refresh", "bump"} \subseteq overtaken

\* The access and the refresh token in Redis descend from the same login (the
\* client of a later login is never served with an earlier client's token),
\* unless a refresh stored its token after that later login (auth.service.ts:255).
TokensPaired ==
  /\ redis.token # NoToken
  /\ redis.refresh # NoToken
  /\ "refresh" \notin overtaken
  => redis.token.login = redis.refresh.login

\* Once changePassword is through (user.service.ts:733), no token made with an
\* earlier password is usable: not across logins, refreshes, restarts and expiry,
\* unless a late login or refresh, a change that found no version, or a change cut
\* in half by a restart wrote in between.
PasswordCurrent ==
  /\ Usable
  /\ overtaken \cap {"login", "refresh", "bump", "abort"} = {}
  /\ \A p \in Request : ~At(p, "change_redis")
  => ~ChangedSince(redis.token)

\* A disabled or removed user has no user:info to be accepted by
\* (auth.service.ts:304), except while the update is about to delete it, unless a
\* login or a cache fill that read the row earlier stored it afterwards, or the
\* update failed or died between its two writes.
DisabledOut ==
  /\ redis.info
  /\ ~Live(db)
  /\ overtaken \cap {"login", "fill", "abort"} = {}
  => \E p \in Request : At(p, "update_clear")

(***************************************************************************)
(* What a comment says of the code                                         *)
(***************************************************************************)

\* redis-key.constants.ts:26: when the password is modified, by whomever, the new
\* version invalidates the old token.
PasswordModifiedInvalidates ==
  Usable /\ overtaken = {} /\ (\A p \in Request : ~HalfDone(p))
    => redis.token.pw = db.pw
=============================================================================
