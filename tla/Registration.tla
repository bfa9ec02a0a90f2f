---------------------------- MODULE Registration ----------------------------
(***************************************************************************)
(* One-time codes and what they guard: the picture captcha of the login    *)
(* form (CaptchaService) and the code mailed to an address                 *)
(* (VerificationCodeService), which AuthService.register spends on a new   *)
(* account; and the accounts, which administrators create, change, remove  *)
(* and page through (UserService).  An action is the code between two      *)
(* awaits.                                                                 *)
(*                                                                         *)
(* Abstractions.  The n-th code issued is n (two codes drawn equal, one    *)
(* chance in 9000, are taken for different); 0 stands for no code.  A      *)
(* request with a wrong code is refused without effect and left out; so is *)
(* one that finds no default role.  The login that ends a registration is  *)
(* in module Session.  An account is its name and address; a check that    *)
(* the write after it repeats is left out.  A filter is the set of the     *)
(* names it matches, a page of rows their number.                          *)
(***************************************************************************)
EXTENDS Naturals, FiniteSets

CONSTANTS
  Request,    \* requests in flight at one time
  Email,      \* addresses that register
  Captcha,    \* captcha ids (random UUIDs, one per picture)
  Name,       \* user names
  Filter,     \* filters that a list is asked for with
  PageNo,     \* pages that are asked for, counted from 1
  MaxSize,    \* bound: rows of a page (100 in the code)
  MaxIssued   \* bound: codes issued

ASSUME RegistrationConstants ==
  /\ MaxIssued \in Nat /\ PageNo \subseteq Nat \ {0} /\ MaxSize \in Nat \ {0}
  /\ Email \cap Captcha = {} /\ Email # {} /\ "none" \notin Email
  /\ Name # {} /\ IsFiniteSet(Name) /\ Filter \subseteq SUBSET Name

Key     == Email \cup Captcha       \* verification_code:<email>, captcha:img:<id>
Address == Email \cup {"none"}      \* users.email, which may be null
NoCode == [code |-> 0, lapsed |-> FALSE]

VARIABLES
  store,      \* what Redis holds under each key: the code, and is expiresAt past?
  users,      \* the accounts: name, email and how they came to be (known, given)
  issued,     \* codes issued so far
  pc,         \* where each request stands
  key,        \* the key it works on
  held,       \* the code it read
  name,       \* the user name it asks for
  known,      \* names of the accounts there when it checked the email
  page,       \* the page it was asked for, and what its two queries answered
  shifted,    \* history: requests between whose two queries users was written
  spent,      \* history: codes whose verification succeeded, as often as it did
  latest,     \* history: the last code issued under each key
  dead,       \* history: codes that lapsed
  clobbered,  \* history: keys whose code was deleted in place of an older one
  cut         \* history: keys whose code a send deleted that never stored its own

requestVars == <<pc, key, held, name, known>>
pageVars == <<page, shifted>>
vars == <<store, users, issued, requestVars, pageVars, spent, latest, dead, clobbered, cut>>

Step == {"idle", "send_read", "send_delete", "send_store", "verify_lapsed", "verify_delete",
         "register_name", "register_email", "register_create", "page"}

NoKey  == CHOOSE k \in Key : TRUE
NoName == CHOOSE n \in Name : TRUE
NoPage == [filter |-> {}, current |-> 1, size |-> 1, records |-> 0, total |-> 0, awaited |-> {}]

Init ==
  /\ store = [k \in Key |-> NoCode]
  /\ users = {}
  /\ issued = 0
  /\ pc    = [p \in Request |-> "idle"]
  /\ key   = [p \in Request |-> NoKey]
  /\ held  = [p \in Request |-> 0]
  /\ name  = [p \in Request |-> NoName]
  /\ known = [p \in Request |-> {}]
  /\ page  = [p \in Request |-> NoPage]
  /\ shifted = {}
  /\ spent = [n \in 1..MaxIssued |-> 0]
  /\ latest = [k \in Key |-> 0]
  /\ dead = {}
  /\ clobbered = {}
  /\ cut = {}

-----------------------------------------------------------------------------
At(p, s)   == pc[p] = s
Goto(p, s) == pc' = [pc EXCEPT ![p] = s]

\* A request ends: what it held is forgotten.
Done(p) ==
  /\ Goto(p, "idle")
  /\ key'   = [key EXCEPT ![p] = NoKey]
  /\ held'  = [held EXCEPT ![p] = 0]
  /\ name'  = [name EXCEPT ![p] = NoName]
  /\ known' = [known EXCEPT ![p] = {}]

\* users was written: a page of which one half was answered may not add up.
HalfWay == {p \in Request : At(p, "page") /\ page[p].awaited \notin {{"find", "count"}, {}}}
Shift == shifted' = shifted \cup HalfWay
Added(u) == users' = users \cup {u} /\ Shift

EmailTaken(e) == \E u \in users : u.email = e
NameTaken(n)  == \E u \in users : u.name = n

DeleteNothing(k) == store' = store                       \* faulty: the code stays
DeleteEntry(k) == store' = [j \in Key \ {k} |-> store[j]]  \* faulty: the slot is lost too
DeleteCode(k) == store' = [store EXCEPT ![k] = NoCode]

\* A fresh code is stored under k.
IssueCode(k) ==
  /\ issued < MaxIssued
  /\ issued' = issued + 1
  /\ store' = [store EXCEPT ![k] = [code |-> issued + 1, lapsed |-> FALSE]]
  /\ latest' = [latest EXCEPT ![k] = issued + 1]
  /\ clobbered' = clobbered \ {k}
  /\ cut' = cut \ {k}

(***************************************************************************)
(* Sending a code: AuthService.sendVerificationCode, generateAndStoreCode; *)
(* CaptchaService.generateCaptcha                                          *)
(***************************************************************************)

SendCheckEmail(p, e) ==
  /\ At(p, "idle")
  /\ ~EmailTaken(e)
  /\ key' = [key EXCEPT ![p] = e]
  /\ Goto(p, "send_read")
  /\ UNCHANGED <<pageVars, store, users, issued, held, name, known, spent, latest, dead, clobbered, cut>>

SendRead(p) ==
  /\ At(p, "send_read")
  /\ Goto(p, IF store[key[p]] = NoCode THEN "send_store" ELSE "send_delete")
  /\ UNCHANGED <<pageVars, store, users, issued, key, held, name, known, spent, latest, dead, clobbered, cut>>

SendDeleteOnly(p) ==                      \* faulty: the new code is not stored
  /\ At(p, "send_delete")
  /\ DeleteCode(key[p])
  /\ Done(p)
  /\ UNCHANGED <<pageVars, users, issued, spent, latest, dead, clobbered, cut>>

SendDelete(p) ==
  /\ At(p, "send_delete")
  /\ DeleteCode(key[p])
  /\ Goto(p, "send_store")
  /\ UNCHANGED <<pageVars, users, issued, key, held, name, known, spent, latest, dead, clobbered, cut>>

SendStore(p) ==
  /\ At(p, "send_store")
  /\ IssueCode(key[p])
  /\ Done(p)
  /\ UNCHANGED <<pageVars, users, spent, dead>>

\* Redis or the database fails the request, or the process restarts: it ends where it
\* is.  A send that deleted the last code and has not stored its own leaves none.
Abort(p) ==
  /\ ~At(p, "idle")
  /\ Done(p)
  /\ page' = [page EXCEPT ![p] = NoPage]
  /\ shifted' = shifted \ {p}
  /\ cut' = IF At(p, "send_store") /\ store[key[p]].code # latest[key[p]]
            THEN cut \cup {key[p]} ELSE cut
  /\ UNCHANGED <<store, users, issued, spent, latest, dead, clobbered>>

GenerateCaptcha(k) ==
  /\ latest[k] = 0
  /\ IssueCode(k)
  /\ UNCHANGED <<pageVars, users, requestVars, spent, dead>>

(***************************************************************************)
(* Verifying: VerificationCodeService.verifyCode and, with the same steps, *)
(* CaptchaService.verifyCaptcha                                            *)
(***************************************************************************)

\* The client presents the stored code, or any code when the stored one is past
\* its expiresAt.
VerifyRead(p, k) ==
  /\ At(p, "idle")
  /\ store[k] # NoCode
  /\ key'  = [key EXCEPT ![p] = k]
  /\ held' = [held EXCEPT ![p] = store[k].code]
  /\ Goto(p, IF store[k].lapsed THEN "verify_lapsed" ELSE "verify_delete")
  /\ UNCHANGED <<pageVars, store, users, issued, name, known, spent, latest, dead, clobbered, cut>>

VerifyCodeRead(p)    == \E k \in Email : VerifyRead(p, k)
VerifyCaptchaRead(p) == \E k \in Captcha : VerifyRead(p, k)

\* The key is deleted, whatever code it holds by now.
Delete(p) ==
  /\ DeleteCode(key[p])
  /\ clobbered' = IF store[key[p]].code \in {0, held[p]} THEN clobbered
                  ELSE clobbered \cup {key[p]}

VerifyLapsed(p) ==
  /\ At(p, "verify_lapsed")
  /\ Delete(p)
  /\ Done(p)
  /\ UNCHANGED <<pageVars, users, issued, spent, latest, dead, cut>>

\* The code was right: it is deleted, and register or login goes on.
VerifyDelete(p) ==
  /\ At(p, "verify_delete")
  /\ Delete(p)
  /\ spent' = [spent EXCEPT ![held[p]] = @ + 1]
  /\ IF key[p] \in Email
     THEN Goto(p, "register_name") /\ UNCHANGED <<key, held, name, known>>
     ELSE Done(p)
  /\ UNCHANGED <<pageVars, users, issued, latest, dead, cut>>

(***************************************************************************)
(* AuthService.register                                                    *)
(***************************************************************************)

RegisterCheckName(p, n) ==
  /\ At(p, "register_name")
  /\ IF NameTaken(n)
     THEN Done(p)
     ELSE /\ name' = [name EXCEPT ![p] = n]
          /\ Goto(p, "register_email")
          /\ UNCHANGED <<key, held, known>>
  /\ UNCHANGED <<pageVars, store, users, issued, spent, latest, dead, clobbered, cut>>

EmailOverlooked(e) == FALSE               \* faulty: the address is not looked up
EmailRefused(e) == EmailTaken(e)

RegisterCheckEmail(p) ==
  /\ At(p, "register_email")
  /\ IF EmailRefused(key[p])
     THEN Done(p)
     ELSE /\ known' = [known EXCEPT ![p] = {u.name : u \in users}]
          /\ Goto(p, "register_create")
          /\ UNCHANGED <<key, held, name>>
  /\ UNCHANGED <<pageVars, store, users, issued, spent, latest, dead, clobbered, cut>>

\* users.user_name is unique: a second row of that name is rejected.
RegisterCreate(p) ==
  /\ At(p, "register_create")
  /\ IF NameTaken(name[p])
     THEN UNCHANGED <<users, shifted>>
     ELSE Added([name |-> name[p], email |-> key[p], known |-> known[p], given |-> FALSE])
  /\ Done(p)
  /\ UNCHANGED <<store, issued, page, spent, latest, dead, clobbered, cut>>

(***************************************************************************)
(* UserService.create, update and remove: an administrator may give an     *)
(* account any address, or none                                            *)
(***************************************************************************)

\* The account of an administrator's making; only an address that is one can be shared.
Given(n, e) == [name |-> n, email |-> e, known |-> {}, given |-> e # "none"]

\* A role that is not found fails the request, but the row stays.
UserCreate(n, e) ==
  /\ ~NameTaken(n)
  /\ Added(Given(n, e))
  /\ UNCHANGED <<store, issued, requestVars, page, spent, latest, dead, clobbered, cut>>

UserUpdate(n, e) ==
  /\ NameTaken(n)
  /\ users' = {u \in users : u.name # n} \cup {Given(n, e)}
  /\ Shift
  /\ UNCHANGED <<store, issued, requestVars, page, spent, latest, dead, clobbered, cut>>

\* Who comes back under the name is somebody else: the histories forget it.
UserRemove(n) ==
  /\ NameTaken(n)
  /\ users' = {[u EXCEPT !.known = @ \ {n}] : u \in {v \in users : v.name # n}}
  /\ known' = [p \in Request |-> known[p] \ {n}]
  /\ Shift
  /\ UNCHANGED <<store, issued, pc, key, held, name, page, spent, latest, dead, clobbered, cut>>

(***************************************************************************)
(* UserService.findPaginated: the page and the total are two queries, sent *)
(* together                                                                *)
(***************************************************************************)

Matching(f) == {n \in f : NameTaken(n)}

SkipPast(c, z) == c * z                   \* faulty: pages are counted from 0
Skip(c, z) == (c - 1) * z
Window(n, skip, take) ==                  \* of n rows, those of OFFSET skip LIMIT take
  IF n <= skip THEN 0 ELSE IF n - skip < take THEN n - skip ELSE take

FindPaginated(p, f, c, z) ==
  /\ At(p, "idle")
  /\ page' = [page EXCEPT ![p] = [filter |-> f, current |-> c, size |-> z,
                                  records |-> 0, total |-> 0, awaited |-> {"find", "count"}]]
  /\ Goto(p, "page")
  /\ UNCHANGED <<store, users, issued, key, held, name, known, shifted,
                 spent, latest, dead, clobbered, cut>>

FindMany(p) ==
  /\ At(p, "page")
  /\ "find" \in page[p].awaited
  /\ LET g == page[p] IN
     page' = [page EXCEPT ![p] =
                [g EXCEPT !.awaited = @ \ {"find"},
                          !.records = Window(Cardinality(Matching(g.filter)),
                                             Skip(g.current, g.size), g.size)]]
  /\ UNCHANGED <<store, users, issued, requestVars, shifted, spent, latest, dead, clobbered, cut>>

CountAll(p) ==
  /\ At(p, "page")
  /\ "count" \in page[p].awaited
  /\ LET g == page[p] IN
     page' = [page EXCEPT ![p] = [g EXCEPT !.awaited = @ \ {"count"},
                                           !.total = Cardinality(Matching(g.filter))]]
  /\ UNCHANGED <<store, users, issued, requestVars, shifted, spent, latest, dead, clobbered, cut>>

PageAnswer(p) ==
  /\ At(p, "page")
  /\ page[p].awaited = {}
  /\ page' = [page EXCEPT ![p] = NoPage]
  /\ shifted' = shifted \ {p}
  /\ Done(p)
  /\ UNCHANGED <<store, users, issued, spent, latest, dead, clobbered, cut>>

(***************************************************************************)
(* Time: expiresAt passes, Redis drops the key                             *)
(***************************************************************************)

Lapse(k) ==
  /\ store[k] # NoCode
  /\ ~store[k].lapsed
  /\ store' = [store EXCEPT ![k].lapsed = TRUE]
  /\ dead' = dead \cup {store[k].code}
  /\ UNCHANGED <<pageVars, users, issued, requestVars, spent, latest, clobbered, cut>>

Evict(k) ==
  /\ store[k].lapsed
  /\ store' = [store EXCEPT ![k] = NoCode]
  /\ UNCHANGED <<pageVars, users, issued, requestVars, spent, latest, dead, clobbered, cut>>

Next ==
  \/ \E p \in Request :
       \/ \E e \in Email : SendCheckEmail(p, e)
       \/ SendRead(p) \/ SendDelete(p) \/ SendStore(p)
       \/ VerifyCodeRead(p) \/ VerifyCaptchaRead(p)
       \/ VerifyLapsed(p) \/ VerifyDelete(p)
       \/ \E n \in Name : RegisterCheckName(p, n)
       \/ RegisterCheckEmail(p) \/ RegisterCreate(p)
       \/ \E f \in Filter, c \in PageNo, z \in 1..MaxSize : FindPaginated(p, f, c, z)
       \/ FindMany(p) \/ CountAll(p) \/ PageAnswer(p)
       \/ Abort(p)
  \/ \E n \in Name, e \in Address : UserCreate(n, e) \/ UserUpdate(n, e)
  \/ \E n \in Name : UserRemove(n)
  \/ \E k \in Captcha : GenerateCaptcha(k)
  \/ \E k \in Key : Lapse(k) \/ Evict(k)

Spec == Init /\ [][Next]_vars

-----------------------------------------------------------------------------
(***************************************************************************)
(* Properties                                                              *)
(***************************************************************************)

Code    == [code : 0..MaxIssued, lapsed : BOOLEAN]
Account == [name : Name, email : Address, known : SUBSET Name, given : BOOLEAN]
Page    == [filter : SUBSET Name, current : Nat \ {0}, size : 1..MaxSize,
            records : Nat, total : Nat, awaited : SUBSET {"find", "count"}]

\* Every variable keeps the shape the code gives it.
TypeOK ==
  /\ store \in [Key -> Code]
  /\ users \in SUBSET Account
  /\ issued \in 0..MaxIssued
  /\ pc \in [Request -> Step]
  /\ key \in [Request -> Key]
  /\ held \in [Request -> 0..MaxIssued]
  /\ name \in [Request -> Name]
  /\ known \in [Request -> SUBSET Name]
  /\ page \in [Request -> Page]
  /\ shifted \in SUBSET Request
  /\ spent \in [1..MaxIssued -> Nat]
  /\ latest \in [Key -> 0..MaxIssued]
  /\ dead \in SUBSET (1..MaxIssued)
  /\ clobbered \in SUBSET Key
  /\ cut \in SUBSET Key

\* A code that was accepted once is not in Redis any more: whoever presents it
\* later is refused (verification-code.service.ts:129, captcha.service.ts:124).
SpentStaysSpent == \A k \in Key, n \in 1..MaxIssued : spent[n] > 0 => store[k].code # n

\* The last code issued under a key can be presented until it is used, lapses, or a
\* request for a new one replaces it, unless the verification of an older code
\* deleted it (the del of verification-code.service.ts:117 and 129 names the key only)
\* or a send ended between its del (62) and its set (83).
CodeKept ==
  \A k \in Key :
    LET n == latest[k] IN
    \/ n = 0
    \/ store[k].code = n
    \/ n \in dead \/ spent[n] > 0
    \/ k \in clobbered \/ k \in cut
    \/ \E p \in Request : At(p, "send_store") /\ key[p] = k

\* Two accounts share an address only if their registrations overlapped: neither
\* was there when the other's check looked (auth.service.ts:438), or if an administrator
\* gave one of them an address (user.service.ts:444, 511 look nothing up).
SharedEmailNeedsOverlap ==
  \A a, b \in users :
    a # b /\ a.email = b.email /\ a.email # "none" /\ ~a.given /\ ~b.given
    => a.name \notin b.known /\ b.name \notin a.known

\* The page answered holds the rows whose numbers belong on it, of as many as the total
\* says there are (user.service.ts:372, pagination.pipe.ts:49), unless users was written
\* between its two queries.
PagesAddUp ==
  \A p \in Request \ shifted :
    LET g == page[p] IN
    At(p, "page") /\ g.awaited = {} =>
      g.records = Cardinality({i \in 1..g.total : (g.current - 1) * g.size < i
                                                  /\ i <= g.current * g.size})
=============================================================================
