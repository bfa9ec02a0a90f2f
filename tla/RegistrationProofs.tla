-------------------------- MODULE RegistrationProofs --------------------------
(***************************************************************************)
(* What holds of Registration for every set of requests, addresses,        *)
(* captchas and names, and every bound: TypeOK, SpentStaysSpent,           *)
(* SharedEmailNeedsOverlap, CodeKept and PagesAddUp.                       *)
(***************************************************************************)
EXTENDS Registration, FiniteSetTheorems, TLAPS

\* The codes in Redis are pairwise different codes that were issued, and a request
\* that is about to delete a code read it under the key it will delete.
CodesInv ==
  /\ \A k \in Key : store[k].code <= issued
  /\ \A j, k \in Key : store[j].code = store[k].code /\ store[k].code # 0 => j = k
  /\ \A n \in 1..MaxIssued : spent[n] > 0 => n <= issued
  /\ \A p \in Request :
       At(p, "verify_delete") =>
         /\ held[p] \in 1..issued
         /\ \A k \in Key : store[k].code = held[p] => k = key[p]

\* A request past the verification of a mailed code works on that address.
MailKeys ==
  \A p \in Request :
    pc[p] \in {"register_name", "register_email", "register_create"} => key[p] \in Email

\* What a registration knows of the accounts: every name it saw is taken, and no
\* account it saw has the address it checked, unless an administrator gave it.
OverlapInv ==
  /\ \A u \in users : \A n \in u.known : NameTaken(n)
  /\ \A a, b \in users : a.name = b.name => a = b
  /\ \A p \in Request :
       At(p, "register_create") =>
         /\ \A n \in known[p] : NameTaken(n)
         /\ \A u \in users : u.email = key[p] /\ ~u.given => u.name \notin known[p]

-----------------------------------------------------------------------------
\* A request that starts or ends holds a key and a name of the right kind.
LEMMA Defaults == NoKey \in Key /\ NoName \in Name
  BY RegistrationConstants DEF Key, NoKey, NoName

\* Done leaves the local variables of every request well typed.
LEMMA DoneType ==
  ASSUME TypeOK, NEW p \in Request, Done(p)
  PROVE  /\ pc' \in [Request -> Step]
         /\ key' \in [Request -> Key]
         /\ held' \in [Request -> 0..MaxIssued]
         /\ name' \in [Request -> Name]
         /\ known' \in [Request -> SUBSET Name]
<1>1. 0 \in 0..MaxIssued  BY RegistrationConstants
<1>2. "idle" \in Step     BY DEF Step
<1>. QED  BY <1>1, <1>2, Defaults DEF Done, Goto, TypeOK

\* Issuing a code keeps the store, the counter and the histories well typed.
LEMMA IssueType ==
  ASSUME TypeOK, NEW k \in Key, IssueCode(k)
  PROVE  /\ store' \in [Key -> Code]
         /\ issued' \in 0..MaxIssued
         /\ latest' \in [Key -> 0..MaxIssued]
         /\ clobbered' \in SUBSET Key /\ cut' \in SUBSET Key
<1>1. issued + 1 \in 0..MaxIssued  BY RegistrationConstants DEF TypeOK, IssueCode
<1>. QED  BY <1>1 DEF TypeOK, IssueCode, Code

\* So does deleting one.
LEMMA DeleteType ==
  ASSUME TypeOK, NEW k \in Key, DeleteCode(k)
  PROVE  store' \in [Key -> Code]
<1>1. NoCode \in Code  BY RegistrationConstants DEF NoCode, Code
<1>. QED  BY <1>1 DEF TypeOK, DeleteCode

\* A key that holds a code which has not lapsed holds one that was issued.
LEMMA StoredCode ==
  ASSUME NEW c \in Code, c # NoCode, ~c.lapsed
  PROVE  c.code \in 1..MaxIssued
<1>1. PICK n \in 0..MaxIssued, b \in BOOLEAN : c = [code |-> n, lapsed |-> b]  BY DEF Code
<1>2. b = FALSE  BY <1>1
<1>3. n # 0  BY <1>1, <1>2 DEF NoCode
<1>. QED  BY <1>1, <1>3, RegistrationConstants

\* An account that is added is one.
LEMMA AddedType ==
  ASSUME TypeOK, NEW u \in Account, Added(u)
  PROVE  users' \in SUBSET Account /\ shifted' \in SUBSET Request
BY DEF Added, Shift, HalfWay, TypeOK

\* The account an administrator makes or changes is one.
LEMMA GivenType == ASSUME NEW n \in Name, NEW e \in Address PROVE Given(n, e) \in Account
BY DEF Given, Account

LEMMA NoPageType == NoPage \in Page
BY RegistrationConstants DEF NoPage, Page

\* A window of n rows holds a number of them.
LEMMA WindowType ==
  ASSUME NEW n \in Nat, NEW k \in Int, NEW z \in Nat, k >= 0
  PROVE  Window(n, k, z) \in Nat
BY DEF Window

\* The rows that match are finitely many: there are finitely many names.
LEMMA MatchingType ==
  ASSUME TypeOK, NEW f \in SUBSET Name
  PROVE  Cardinality(Matching(f)) \in Nat
<1>1. Matching(f) \subseteq Name  BY DEF Matching
<1>. QED  BY <1>1, RegistrationConstants, FS_Subset, FS_CardinalityType

\* The fields of a page of rows.
LEMMA PageFields ==
  ASSUME NEW g \in Page
  PROVE  /\ g.filter \in SUBSET Name /\ g.current \in Nat \ {0} /\ g.size \in Nat \ {0}
         /\ g.records \in Nat /\ g.total \in Nat
         /\ \A a \in Nat, w \in SUBSET g.awaited :
              /\ [g EXCEPT !.awaited = w, !.records = a] \in Page
              /\ [g EXCEPT !.awaited = w, !.total = a] \in Page
<1>1. g.current \in Nat \ {0} /\ g.size \in 1..MaxSize  BY DEF Page
<1>2. g.current \in Nat \ {0} /\ g.size \in Nat \ {0}  BY <1>1, RegistrationConstants
<1>3. g.filter \in SUBSET Name /\ g.records \in Nat /\ g.total \in Nat  BY DEF Page
<1>4. ASSUME NEW a \in Nat, NEW w \in SUBSET g.awaited
      PROVE  /\ [g EXCEPT !.awaited = w, !.records = a] \in Page
             /\ [g EXCEPT !.awaited = w, !.total = a] \in Page
  <2>1. w \in SUBSET {"find", "count"}  BY DEF Page
  <2>. QED  BY <2>1 DEF Page
<1>. QED  BY <1>2, <1>3, <1>4

\* The answers of the two queries are numbers.
LEMMA PageType ==
  ASSUME TypeOK, NEW p \in Request, FindMany(p) \/ CountAll(p)
  PROVE  page' \in [Request -> Page]
<1>. DEFINE g == page[p]
            n == Cardinality(Matching(g.filter))
<1>1. g \in Page  BY DEF TypeOK
<1>2. n \in Nat  BY <1>1, PageFields, MatchingType
<1>3. CASE FindMany(p)
  <2>1. Skip(g.current, g.size) \in Int /\ Skip(g.current, g.size) >= 0
    <3>1. ASSUME NEW c \in Nat \ {0}, NEW z \in Nat \ {0}
          PROVE  (c - 1) * z \in Int /\ (c - 1) * z >= 0
      OBVIOUS
    <3>. QED  BY <1>1, <3>1, PageFields DEF Skip
  <2>2. Window(n, Skip(g.current, g.size), g.size) \in Nat
    BY <1>1, <1>2, <2>1, PageFields, WindowType
  <2>3. page' = [page EXCEPT ![p] = [g EXCEPT !.awaited = @ \ {"find"},
                                             !.records = Window(n, Skip(g.current, g.size), g.size)]]
    BY <1>3 DEF FindMany
  <2>4. g.awaited \ {"find"} \in SUBSET g.awaited  OBVIOUS
  <2>5. [g EXCEPT !.awaited = @ \ {"find"}, !.records = Window(n, Skip(g.current, g.size), g.size)]
          \in Page
    BY <1>1, <2>2, <2>4, PageFields
  <2>. QED  BY <2>3, <2>5 DEF TypeOK
<1>4. CASE CountAll(p)
  <2>3. page' = [page EXCEPT ![p] = [g EXCEPT !.awaited = @ \ {"count"}, !.total = n]]
    BY <1>4 DEF CountAll
  <2>5. [g EXCEPT !.awaited = @ \ {"count"}, !.total = n] \in Page
    BY <1>1, <1>2, PageFields
  <2>. QED  BY <2>3, <2>5 DEF TypeOK
<1>. QED  BY <1>3, <1>4

\* A step keeps every variable in its type.
LEMMA TypePreserved ==
  ASSUME TypeOK, MailKeys, [Next]_vars
  PROVE  TypeOK'
<1>. USE DEF Goto, pageVars
<1>1. ASSUME NEW p \in Request, NEW e \in Email, SendCheckEmail(p, e) PROVE TypeOK'
  BY <1>1 DEF SendCheckEmail, TypeOK, Step, Key
<1>2. ASSUME NEW p \in Request, SendRead(p) PROVE TypeOK'
  BY <1>2 DEF SendRead, TypeOK, Step
<1>3. ASSUME NEW p \in Request, SendDelete(p) PROVE TypeOK'
  <2>1. key[p] \in Key  BY DEF TypeOK
  <2>2. store' \in [Key -> Code]  BY <1>3, <2>1, DeleteType DEF SendDelete
  <2>. QED  BY <1>3, <2>2 DEF SendDelete, TypeOK, Step
<1>4. ASSUME NEW p \in Request, SendStore(p) PROVE TypeOK'
  <2>1. key[p] \in Key  BY DEF TypeOK
  <2>2. IssueCode(key[p]) /\ Done(p) /\ UNCHANGED <<pageVars, users, spent, dead>>  BY <1>4 DEF SendStore
  <2>. QED  BY <2>1, <2>2, DoneType, IssueType DEF TypeOK
<1>5. ASSUME NEW k \in Captcha, GenerateCaptcha(k) PROVE TypeOK'
  <2>1. k \in Key  BY DEF Key
  <2>2. IssueCode(k) /\ UNCHANGED <<pageVars, users, requestVars, spent, dead>>  BY <1>5 DEF GenerateCaptcha
  <2>. QED  BY <2>1, <2>2, IssueType DEF TypeOK, requestVars
<1>6. ASSUME NEW p \in Request, NEW k \in Key, VerifyRead(p, k) PROVE TypeOK'
  <2>1. store[k].code \in 0..MaxIssued  BY DEF TypeOK, Code
  <2>. QED  BY <1>6, <2>1 DEF VerifyRead, TypeOK, Step
<1>7. ASSUME NEW p \in Request, VerifyLapsed(p) PROVE TypeOK'
  <2>1. key[p] \in Key  BY DEF TypeOK
  <2>2. Delete(p) /\ Done(p) /\ UNCHANGED <<pageVars, users, issued, spent, latest, dead, cut>>
    BY <1>7 DEF VerifyLapsed
  <2>3. store' \in [Key -> Code] /\ clobbered' \in SUBSET Key
    BY <2>1, <2>2, DeleteType DEF Delete, TypeOK
  <2>. QED  BY <2>2, <2>3, DoneType DEF TypeOK
<1>8. ASSUME NEW p \in Request, VerifyDelete(p) PROVE TypeOK'
  <2>1. key[p] \in Key  BY DEF TypeOK
  <2>2. store' \in [Key -> Code] /\ clobbered' \in SUBSET Key
    BY <1>8, <2>1, DeleteType DEF VerifyDelete, Delete, TypeOK
  <2>9. ASSUME NEW n \in 1..MaxIssued PROVE spent[n] + 1 \in Nat
    <3>1. spent[n] \in Nat  BY DEF TypeOK
    <3>. QED  BY <3>1
  <2>3. spent' \in [1..MaxIssued -> Nat]  BY <1>8, <2>9 DEF VerifyDelete, TypeOK
  <2>4. UNCHANGED <<pageVars, users, issued, latest, dead, cut>>  BY <1>8 DEF VerifyDelete
  <2>5. CASE key[p] \in Email
    BY <1>8, <2>2, <2>3, <2>4, <2>5 DEF VerifyDelete, TypeOK, Step
  <2>6. CASE key[p] \notin Email
    <3>1. Done(p)  BY <1>8, <2>6 DEF VerifyDelete
    <3>. QED  BY <3>1, <2>2, <2>3, <2>4, DoneType DEF TypeOK
  <2>. QED  BY <2>5, <2>6
<1>9. ASSUME NEW p \in Request, NEW n \in Name, RegisterCheckName(p, n) PROVE TypeOK'
  <2>1. UNCHANGED <<pageVars, store, users, issued, spent, latest, dead, clobbered, cut>>
    BY <1>9 DEF RegisterCheckName
  <2>2. CASE NameTaken(n)
    BY <1>9, <2>1, <2>2, DoneType DEF RegisterCheckName, TypeOK
  <2>3. CASE ~NameTaken(n)
    BY <1>9, <2>1, <2>3 DEF RegisterCheckName, TypeOK, Step
  <2>. QED  BY <2>2, <2>3
<1>10. ASSUME NEW p \in Request, RegisterCheckEmail(p) PROVE TypeOK'
  <2>1. UNCHANGED <<pageVars, store, users, issued, spent, latest, dead, clobbered, cut>>
    BY <1>10 DEF RegisterCheckEmail
  <2>2. CASE EmailRefused(key[p])
    BY <1>10, <2>1, <2>2, DoneType DEF RegisterCheckEmail, TypeOK
  <2>3. CASE ~EmailRefused(key[p])
    <3>1. {u.name : u \in users} \in SUBSET Name  BY DEF TypeOK, Account
    <3>. QED  BY <1>10, <2>1, <2>3, <3>1 DEF RegisterCheckEmail, TypeOK, Step
  <2>. QED  BY <2>2, <2>3
<1>11. ASSUME NEW p \in Request, RegisterCreate(p) PROVE TypeOK'
  <2>0. At(p, "register_create") BY <1>11 DEF RegisterCreate
  <2>1. Done(p) /\ UNCHANGED <<store, issued, page, spent, latest, dead, clobbered, cut>>
    BY <1>11 DEF RegisterCreate
  <2>3. key[p] \in Address  BY <2>0 DEF At, MailKeys, Address
  <2>4. users' \in SUBSET Account /\ shifted' \in SUBSET Request
    <3>1. [name |-> name[p], email |-> key[p], known |-> known[p], given |-> FALSE] \in Account
      BY <2>3 DEF TypeOK, Account
    <3>2. CASE NameTaken(name[p])
      BY <1>11, <3>2 DEF RegisterCreate, TypeOK
    <3>3. CASE ~NameTaken(name[p])
      BY <1>11, <3>1, <3>3, AddedType DEF RegisterCreate
    <3>. QED  BY <3>2, <3>3
  <2>. QED  BY <2>1, <2>4, DoneType DEF TypeOK
<1>12. ASSUME NEW k \in Key, Lapse(k) PROVE TypeOK'
  <2>0. store[k] \in Code /\ store[k] # NoCode /\ ~store[k].lapsed  BY <1>12 DEF Lapse, TypeOK
  <2>1. store[k].code \in 1..MaxIssued
    BY <2>0, StoredCode
  <2>2. [store[k] EXCEPT !.lapsed = TRUE] \in Code  BY <2>0 DEF Code
  <2>. QED  BY <1>12, <2>1, <2>2 DEF Lapse, TypeOK, requestVars
<1>13. ASSUME NEW k \in Key, Evict(k) PROVE TypeOK'
  <2>1. NoCode \in Code  BY RegistrationConstants DEF NoCode, Code
  <2>. QED  BY <1>13, <2>1 DEF Evict, TypeOK, requestVars
<1>14. CASE UNCHANGED vars
  BY <1>14 DEF vars, requestVars, TypeOK
<1>15. ASSUME NEW n \in Name, NEW e \in Address, UserCreate(n, e) PROVE TypeOK'
  <2>1. Given(n, e) \in Account  BY GivenType
  <2>2. users' \in SUBSET Account /\ shifted' \in SUBSET Request
    BY <1>15, <2>1, AddedType DEF UserCreate
  <2>. QED  BY <1>15, <2>2 DEF UserCreate, TypeOK, requestVars
<1>16. ASSUME NEW n \in Name, NEW e \in Address, UserUpdate(n, e) PROVE TypeOK'
  <2>1. Given(n, e) \in Account  BY GivenType
  <2>2. users' \in SUBSET Account  BY <1>16, <2>1 DEF UserUpdate, TypeOK
  <2>3. shifted' \in SUBSET Request  BY <1>16 DEF UserUpdate, Shift, HalfWay, TypeOK
  <2>. QED  BY <1>16, <2>2, <2>3 DEF UserUpdate, TypeOK, requestVars
<1>17. ASSUME NEW n \in Name, UserRemove(n) PROVE TypeOK'
  <2>1. \A u \in Account : [u EXCEPT !.known = @ \ {n}] \in Account  BY DEF Account
  <2>2. users' \in SUBSET Account  BY <1>17, <2>1 DEF UserRemove, TypeOK
  <2>3. shifted' \in SUBSET Request  BY <1>17 DEF UserRemove, Shift, HalfWay, TypeOK
  <2>4. known' \in [Request -> SUBSET Name]  BY <1>17 DEF UserRemove, TypeOK
  <2>. QED  BY <1>17, <2>2, <2>3, <2>4 DEF UserRemove, TypeOK
<1>18. ASSUME NEW p \in Request, NEW f \in Filter, NEW c \in PageNo, NEW z \in 1..MaxSize,
              FindPaginated(p, f, c, z)
       PROVE  TypeOK'
  <2>1. [filter |-> f, current |-> c, size |-> z, records |-> 0, total |-> 0,
         awaited |-> {"find", "count"}] \in Page
    BY RegistrationConstants DEF Page
  <2>. QED  BY <1>18, <2>1 DEF FindPaginated, TypeOK, Step
<1>19. ASSUME NEW p \in Request, FindMany(p) \/ CountAll(p) PROVE TypeOK'
  <2>1. page' \in [Request -> Page]  BY <1>19, PageType
  <2>. QED  BY <1>19, <2>1 DEF FindMany, CountAll, TypeOK, requestVars
<1>20. ASSUME NEW p \in Request, PageAnswer(p) PROVE TypeOK'
  <2>1. NoPage \in Page  BY NoPageType
  <2>2. page' \in [Request -> Page] /\ shifted' \in SUBSET Request
    BY <1>20, <2>1 DEF PageAnswer, TypeOK
  <2>3. Done(p) /\ UNCHANGED <<store, users, issued, spent, latest, dead, clobbered, cut>>
    BY <1>20 DEF PageAnswer
  <2>. QED  BY <2>2, <2>3, DoneType DEF TypeOK
<1>21. ASSUME NEW p \in Request, Abort(p) PROVE TypeOK'
  <2>1. NoPage \in Page  BY NoPageType
  <2>2. page' \in [Request -> Page] /\ shifted' \in SUBSET Request
    BY <1>21, <2>1 DEF Abort, TypeOK
  <2>3. Done(p) /\ UNCHANGED <<store, users, issued, spent, latest, dead, clobbered>>
    BY <1>21 DEF Abort
  <2>4. cut' \in SUBSET Key
    <3>1. key[p] \in Key  BY DEF TypeOK
    <3>. QED  BY <1>21, <3>1 DEF Abort, TypeOK
  <2>. QED  BY <2>2, <2>3, <2>4, DoneType DEF TypeOK
<1>. QED
  BY <1>1, <1>2, <1>3, <1>4, <1>5, <1>6, <1>7, <1>8, <1>9, <1>10, <1>11, <1>12, <1>13, <1>14,
     <1>15, <1>16, <1>17, <1>18, <1>19, <1>20, <1>21
     DEF Next, VerifyCodeRead, VerifyCaptchaRead, Key

\* A request keeps the address it registers; one that starts over has left the
\* register steps.
LEMMA MailKeysPreserved ==
  ASSUME TypeOK, MailKeys, [Next]_vars
  PROVE  MailKeys'
<1>. SUFFICES ASSUME NEW q \in Request,
                     pc'[q] \in {"register_name", "register_email", "register_create"}
              PROVE  key'[q] \in Email
  BY DEF MailKeys
<1>. USE DEF Goto, At, TypeOK, MailKeys, Done
<1>1. ASSUME NEW p \in Request, NEW e \in Email, SendCheckEmail(p, e) PROVE key'[q] \in Email
  BY <1>1 DEF SendCheckEmail
<1>2. ASSUME NEW p \in Request, SendRead(p) \/ SendDelete(p) \/ SendStore(p) PROVE key'[q] \in Email
  BY <1>2 DEF SendRead, SendDelete, SendStore
<1>3. ASSUME NEW p \in Request, NEW k \in Key, VerifyRead(p, k) PROVE key'[q] \in Email
  BY <1>3 DEF VerifyRead
<1>4. ASSUME NEW p \in Request, VerifyLapsed(p) \/ VerifyDelete(p) PROVE key'[q] \in Email
  BY <1>4 DEF VerifyLapsed, VerifyDelete
<1>5. ASSUME NEW p \in Request, NEW n \in Name, RegisterCheckName(p, n) PROVE key'[q] \in Email
  BY <1>5 DEF RegisterCheckName
<1>6. ASSUME NEW p \in Request, RegisterCheckEmail(p) \/ RegisterCreate(p) PROVE key'[q] \in Email
  BY <1>6 DEF RegisterCheckEmail, RegisterCreate
<1>7. ASSUME NEW k \in Key, GenerateCaptcha(k) \/ Lapse(k) \/ Evict(k) PROVE key'[q] \in Email
  BY <1>7 DEF GenerateCaptcha, Lapse, Evict, requestVars
<1>8. CASE UNCHANGED vars
  BY <1>8 DEF vars, requestVars
<1>9. ASSUME NEW n \in Name, NEW e \in Address,
             UserCreate(n, e) \/ UserUpdate(n, e) \/ UserRemove(n)
      PROVE  key'[q] \in Email
  BY <1>9 DEF UserCreate, UserUpdate, UserRemove, requestVars
<1>10. ASSUME NEW p \in Request, NEW f, NEW c, NEW z, FindPaginated(p, f, c, z)
       PROVE  key'[q] \in Email
  BY <1>10 DEF FindPaginated
<1>11. ASSUME NEW p \in Request, FindMany(p) \/ CountAll(p) \/ PageAnswer(p) \/ Abort(p)
       PROVE  key'[q] \in Email
  BY <1>11 DEF FindMany, CountAll, PageAnswer, Abort, requestVars
<1>12. Address # {}  BY DEF Address
<1>. QED
  BY <1>1, <1>2, <1>3, <1>4, <1>5, <1>6, <1>7, <1>8, <1>9, <1>10, <1>11, <1>12
     DEF Next, VerifyCodeRead, VerifyCaptchaRead, Key

LEMMA TypeAndKeys == Spec => [](TypeOK /\ MailKeys)
<1>1. Init => TypeOK /\ MailKeys
  <2>1. NoCode \in Code  BY RegistrationConstants DEF NoCode, Code
  <2>2. 0 \in 0..MaxIssued /\ 0 \in Nat  BY RegistrationConstants
  <2>3. "idle" \in Step  BY DEF Step
  <2>. QED  BY <2>1, <2>2, <2>3, Defaults, NoPageType DEF Init, TypeOK, MailKeys
<1>2. TypeOK /\ MailKeys /\ [Next]_vars => (TypeOK /\ MailKeys)'
  BY TypePreserved, MailKeysPreserved
<1>. QED  BY <1>1, <1>2, PTL DEF Spec

\* Every variable keeps the shape the code gives it, for all constants.
THEOREM TypeCorrect == Spec => []TypeOK
BY TypeAndKeys, PTL

-----------------------------------------------------------------------------
\* Deleting the code of one key touches no other key's code.
LEMMA DeleteStore ==
  ASSUME TypeOK, NEW k \in Key, DeleteCode(k)
  PROVE  \A j \in Key : store'[j].code = IF j = k THEN 0 ELSE store[j].code
BY DEF DeleteCode, TypeOK, NoCode

\* A fresh code is larger than every code issued before.
LEMMA IssueStore ==
  ASSUME TypeOK, NEW k \in Key, IssueCode(k)
  PROVE  /\ issued' = issued + 1
         /\ \A j \in Key : store'[j].code = IF j = k THEN issued + 1 ELSE store[j].code
BY DEF IssueCode, TypeOK

\* Numbers the provers need to know as such.
LEMMA Numbers ==
  ASSUME TypeOK
  PROVE  /\ MaxIssued \in Nat /\ issued \in Nat
         /\ \A k \in Key : store[k].code \in Nat
         /\ \A n \in 1..MaxIssued : spent[n] \in Nat
         /\ \A p \in Request : held[p] \in Nat /\ key[p] \in Key
<1>1. \A k \in Key : store[k] \in Code  BY DEF TypeOK
<1>2. \A c \in Code : c.code \in Nat  BY RegistrationConstants DEF Code
<1>. QED  BY <1>1, <1>2, RegistrationConstants DEF TypeOK

\* What a step that leaves the codes alone preserves: no request has come to the
\* point of deleting a code, and those that had still hold it.
LEMMA CodesQuiet ==
  ASSUME CodesInv, SpentStaysSpent,
         \A k \in Key : store'[k].code = store[k].code,
         UNCHANGED <<issued, spent>>,
         \A p \in Request : pc'[p] = "verify_delete" =>
           pc[p] = "verify_delete" /\ held'[p] = held[p] /\ key'[p] = key[p]
  PROVE  (CodesInv /\ SpentStaysSpent)'
BY DEF CodesInv, SpentStaysSpent, At

\* Deleting the code of a key preserves it as well.
LEMMA CodesDelete ==
  ASSUME TypeOK, CodesInv, SpentStaysSpent, NEW k \in Key, DeleteCode(k),
         UNCHANGED <<issued, spent>>,
         \A p \in Request : pc'[p] = "verify_delete" =>
           pc[p] = "verify_delete" /\ held'[p] = held[p] /\ key'[p] = key[p]
  PROVE  (CodesInv /\ SpentStaysSpent)'
BY DeleteStore, Numbers DEF CodesInv, SpentStaysSpent, At

\* So does issuing a code.
LEMMA CodesIssue ==
  ASSUME TypeOK, CodesInv, SpentStaysSpent, NEW k \in Key, IssueCode(k),
         UNCHANGED spent,
         \A p \in Request : pc'[p] = "verify_delete" =>
           pc[p] = "verify_delete" /\ held'[p] = held[p] /\ key'[p] = key[p]
  PROVE  (CodesInv /\ SpentStaysSpent)'
BY IssueStore, Numbers DEF CodesInv, SpentStaysSpent, At

\* Together they are kept by every step.
LEMMA CodesStay == Spec => [](CodesInv /\ SpentStaysSpent)
<1>1. Init => CodesInv /\ SpentStaysSpent
  BY RegistrationConstants DEF Init, CodesInv, SpentStaysSpent, NoCode, At
<1>2. TypeOK /\ CodesInv /\ SpentStaysSpent /\ [Next]_vars => (CodesInv /\ SpentStaysSpent)'
  <2>. SUFFICES ASSUME TypeOK, CodesInv, SpentStaysSpent, [Next]_vars
                PROVE  (CodesInv /\ SpentStaysSpent)'
    OBVIOUS
  <2>. DEFINE Quiet(p) == pc'[p] = "verify_delete" =>
                pc[p] = "verify_delete" /\ held'[p] = held[p] /\ key'[p] = key[p]
              Goal == (CodesInv /\ SpentStaysSpent)'
  <2>1. ASSUME NEW p \in Request, NEW e \in Email, SendCheckEmail(p, e) PROVE Goal
    <3>1. \A q \in Request : Quiet(q)  BY <2>1 DEF SendCheckEmail, Goto, TypeOK
    <3>. QED  BY <2>1, <3>1, CodesQuiet DEF SendCheckEmail
  <2>2. ASSUME NEW p \in Request, SendRead(p) PROVE Goal
    <3>1. \A q \in Request : Quiet(q)  BY <2>2 DEF SendRead, Goto, TypeOK
    <3>. QED  BY <2>2, <3>1, CodesQuiet DEF SendRead
  <2>3. ASSUME NEW p \in Request, SendDelete(p) PROVE Goal
    <3>1. \A q \in Request : Quiet(q)  BY <2>3 DEF SendDelete, Goto, TypeOK
    <3>. QED  BY <2>3, <3>1, CodesDelete, Numbers DEF SendDelete
  <2>4. ASSUME NEW p \in Request, SendStore(p) PROVE Goal
    <3>1. \A q \in Request : Quiet(q)  BY <2>4 DEF SendStore, Done, Goto, TypeOK
    <3>. QED  BY <2>4, <3>1, CodesIssue, Numbers DEF SendStore
  <2>5. ASSUME NEW k \in Captcha, GenerateCaptcha(k) PROVE Goal
    <3>1. \A q \in Request : Quiet(q)  BY <2>5 DEF GenerateCaptcha, requestVars
    <3>. QED  BY <2>5, <3>1, CodesIssue DEF GenerateCaptcha, Key
  <2>6. ASSUME NEW p \in Request, NEW k \in Key, VerifyRead(p, k) PROVE Goal
    <3>1. store[k] \in Code /\ store[k] # NoCode  BY <2>6 DEF VerifyRead, TypeOK
    <3>2. CASE store[k].lapsed
      <4>1. \A q \in Request : Quiet(q)  BY <2>6, <3>2 DEF VerifyRead, Goto, TypeOK
      <4>. QED  BY <2>6, <4>1, CodesQuiet DEF VerifyRead
    <3>3. CASE ~store[k].lapsed
      <4>1. store[k].code \in 1..MaxIssued  BY <3>1, <3>3, StoredCode
      <4>2. /\ pc' = [pc EXCEPT ![p] = "verify_delete"]
            /\ key' = [key EXCEPT ![p] = k]
            /\ held' = [held EXCEPT ![p] = store[k].code]
            /\ UNCHANGED <<store, issued, spent>>
        BY <2>6, <3>3 DEF VerifyRead, Goto
      <4>. QED  BY <4>1, <4>2, Numbers DEF CodesInv, SpentStaysSpent, At, TypeOK
    <3>. QED  BY <3>2, <3>3
  <2>7. ASSUME NEW p \in Request, VerifyLapsed(p) PROVE Goal
    <3>1. \A q \in Request : Quiet(q)  BY <2>7 DEF VerifyLapsed, Done, Goto, TypeOK
    <3>. QED  BY <2>7, <3>1, CodesDelete, Numbers DEF VerifyLapsed, Delete
  <2>8. ASSUME NEW p \in Request, VerifyDelete(p) PROVE Goal
    <3>1. /\ held[p] \in 1..issued
          /\ \A k \in Key : store[k].code = held[p] => k = key[p]
      BY <2>8 DEF VerifyDelete, CodesInv
    <3>2. \A k \in Key : store'[k].code = IF k = key[p] THEN 0 ELSE store[k].code
      BY <2>8, DeleteStore, Numbers DEF VerifyDelete, Delete
    <3>3. \A q \in Request : Quiet(q)  BY <2>8 DEF VerifyDelete, Done, Goto, TypeOK
    <3>4. issued' = issued  BY <2>8 DEF VerifyDelete
    <3>5. \A n \in 1..MaxIssued : spent'[n] > 0 => spent[n] > 0 \/ n = held[p]
      BY <2>8 DEF VerifyDelete, TypeOK
    <3>. QED  BY <3>1, <3>2, <3>3, <3>4, <3>5, Numbers DEF CodesInv, SpentStaysSpent, At
  <2>9. ASSUME NEW p \in Request, NEW n \in Name, RegisterCheckName(p, n) PROVE Goal
    <3>1. \A q \in Request : Quiet(q)  BY <2>9 DEF RegisterCheckName, Done, Goto, TypeOK
    <3>. QED  BY <2>9, <3>1, CodesQuiet DEF RegisterCheckName
  <2>10. ASSUME NEW p \in Request, RegisterCheckEmail(p) PROVE Goal
    <3>1. \A q \in Request : Quiet(q)  BY <2>10 DEF RegisterCheckEmail, Done, Goto, TypeOK
    <3>. QED  BY <2>10, <3>1, CodesQuiet DEF RegisterCheckEmail
  <2>11. ASSUME NEW p \in Request, RegisterCreate(p) PROVE Goal
    <3>1. \A q \in Request : Quiet(q)  BY <2>11 DEF RegisterCreate, Done, Goto, TypeOK
    <3>. QED  BY <2>11, <3>1, CodesQuiet DEF RegisterCreate
  <2>12. ASSUME NEW k \in Key, Lapse(k) PROVE Goal
    <3>1. \A j \in Key : store'[j].code = store[j].code  BY <2>12 DEF Lapse, TypeOK, Code
    <3>. QED  BY <2>12, <3>1, CodesQuiet DEF Lapse, requestVars
  <2>13. ASSUME NEW k \in Key, Evict(k) PROVE Goal
    <3>1. DeleteCode(k)  BY <2>13 DEF Evict, DeleteCode
    <3>. QED  BY <2>13, <3>1, CodesDelete DEF Evict, requestVars
  <2>14. CASE UNCHANGED vars
    BY <2>14, CodesQuiet DEF vars, requestVars
  <2>15. ASSUME NEW n \in Name, NEW e \in Address,
                UserCreate(n, e) \/ UserUpdate(n, e) \/ UserRemove(n)
         PROVE  Goal
    BY <2>15, CodesQuiet DEF UserCreate, UserUpdate, UserRemove, requestVars
  <2>16. ASSUME NEW p \in Request, NEW f, NEW c, NEW z, FindPaginated(p, f, c, z) PROVE Goal
    <3>1. \A q \in Request : Quiet(q)  BY <2>16 DEF FindPaginated, Goto, TypeOK
    <3>. QED  BY <2>16, <3>1, CodesQuiet DEF FindPaginated
  <2>17. ASSUME NEW p \in Request, FindMany(p) \/ CountAll(p) \/ PageAnswer(p) \/ Abort(p)
         PROVE  Goal
    <3>1. \A q \in Request : Quiet(q)
      BY <2>17 DEF FindMany, CountAll, PageAnswer, Abort, Done, Goto, TypeOK, requestVars
    <3>. QED  BY <2>17, <3>1, CodesQuiet DEF FindMany, CountAll, PageAnswer, Abort
  <2>18. Address # {}  BY DEF Address
  <2>. QED
    BY <2>1, <2>2, <2>3, <2>4, <2>5, <2>6, <2>7, <2>8, <2>9, <2>10, <2>11, <2>12, <2>13, <2>14,
       <2>15, <2>16, <2>17, <2>18
       DEF Next, VerifyCodeRead, VerifyCaptchaRead, Key
<1>. QED  BY <1>1, <1>2, TypeCorrect, PTL DEF Spec

\* A code that was accepted once is never in Redis again, however the requests that
\* send and verify codes interleave.
THEOREM SpentCodesStaySpent == Spec => []SpentStaysSpent
BY CodesStay, PTL

-----------------------------------------------------------------------------
\* No account is lost and no request gets to the creation of one: names stay taken.
LEMMA OverlapQuiet ==
  ASSUME OverlapInv, SharedEmailNeedsOverlap, users' = users,
         \A p \in Request : pc'[p] = "register_create" =>
           pc[p] = "register_create" /\ known'[p] = known[p] /\ key'[p] = key[p]
  PROVE  (OverlapInv /\ SharedEmailNeedsOverlap)'
BY DEF OverlapInv, SharedEmailNeedsOverlap, NameTaken, At

\* An account that an administrator makes or changes takes nobody's name away.
LEMMA GivenOverlap ==
  ASSUME TypeOK, MailKeys, OverlapInv, SharedEmailNeedsOverlap, NEW n \in Name,
         NEW e \in Address,
         UNCHANGED <<pc, key, known>>,
         users' = {u \in users : u.name # n} \cup {Given(n, e)}
  PROVE  (OverlapInv /\ SharedEmailNeedsOverlap)'
<1>. DEFINE new == Given(n, e)
<1>1. /\ new.name = n /\ new.known = {} /\ new.email = e
      /\ new.given = (e # "none")
  BY DEF Given
<1>2. \A u \in users' : u = new \/ (u \in users /\ u.name # n)  OBVIOUS
<1>3. \A j : NameTaken(j) => NameTaken(j)'
  <2>1. ASSUME NEW j, NameTaken(j) PROVE NameTaken(j)'
    <3>1. CASE j = n  BY <1>1, <3>1 DEF NameTaken
    <3>2. CASE j # n  BY <2>1, <3>2 DEF NameTaken
    <3>. QED  BY <3>1, <3>2
  <2>. QED  BY <2>1
<1>4. \A p \in Request : At(p, "register_create") => key[p] # "none"
  BY RegistrationConstants DEF MailKeys, At
<1>5. OverlapInv'
  <2>1. \A u \in users' : \A j \in u.known : NameTaken(j)'
    BY <1>1, <1>2, <1>3 DEF OverlapInv
  <2>2. \A a, b \in users' : a.name = b.name => a = b
    BY <1>1, <1>2 DEF OverlapInv
  <2>3. ASSUME NEW p \in Request, At(p, "register_create")'
        PROVE  /\ \A j \in known'[p] : NameTaken(j)'
               /\ \A u \in users' : u.email = key'[p] /\ ~u.given => u.name \notin known'[p]
    <3>1. At(p, "register_create")  BY <2>3 DEF At
    <3>2. \A j \in known'[p] : NameTaken(j)'  BY <3>1, <1>3 DEF OverlapInv
    <3>3. ASSUME NEW u \in users', u.email = key'[p], ~u.given PROVE u.name \notin known'[p]
      <4>1. CASE u \in users  BY <3>1, <3>3, <4>1 DEF OverlapInv
      <4>2. CASE u = new
        <5>1. key[p] = "none"  BY <1>1, <3>3, <4>2
        <5>. QED  BY <5>1, <3>1, <1>4
      <4>. QED  BY <1>2, <4>1, <4>2
    <3>. QED  BY <3>2, <3>3
  <2>. QED  BY <2>1, <2>2, <2>3 DEF OverlapInv
<1>6. SharedEmailNeedsOverlap'
  BY <1>1, <1>2 DEF SharedEmailNeedsOverlap, OverlapInv
<1>. QED  BY <1>5, <1>6

\* An account that is removed is forgotten by the others.
LEMMA RemoveOverlap ==
  ASSUME TypeOK, OverlapInv, SharedEmailNeedsOverlap, NEW n \in Name, UserRemove(n)
  PROVE  (OverlapInv /\ SharedEmailNeedsOverlap)'
<1>. DEFINE F(u) == [u EXCEPT !.known = @ \ {n}]
<1>1. users' = {F(u) : u \in {v \in users : v.name # n}}  BY DEF UserRemove
<1>2. \A u \in users : /\ F(u).name = u.name /\ F(u).email = u.email /\ F(u).given = u.given
                      /\ F(u).known = u.known \ {n}
  BY DEF TypeOK, Account
<1>. HIDE DEF F
<1>3. \A u \in users' : \E v \in users : v.name # n /\ u = F(v)  BY <1>1
<1>4. \A j : NameTaken(j) /\ j # n => NameTaken(j)'
  <2>1. SUFFICES ASSUME NEW j, NEW u \in users, u.name = j, j # n PROVE NameTaken(j)'
    BY DEF NameTaken
  <2>2. F(u) \in users'  BY <1>1, <2>1
  <2>3. F(u).name = j  BY <1>2, <2>1
  <2>. QED  BY <2>2, <2>3 DEF NameTaken
<1>5. \A p \in Request : known'[p] = known[p] \ {n} /\ pc'[p] = pc[p] /\ key'[p] = key[p]
  BY DEF UserRemove
<1>6. \A u \in users' : \A j \in u.known : NameTaken(j)'
  <2>1. SUFFICES ASSUME NEW u \in users', NEW j \in u.known PROVE NameTaken(j)'
    OBVIOUS
  <2>2. PICK v \in users : v.name # n /\ u = F(v)  BY <1>3
  <2>3. j \in v.known /\ j # n  BY <1>2, <2>2
  <2>. QED  BY <1>4, <2>3 DEF OverlapInv
<1>7. \A a, b \in users' : a.name = b.name => a = b
  <2>1. SUFFICES ASSUME NEW a \in users', NEW b \in users', a.name = b.name PROVE a = b
    OBVIOUS
  <2>2. PICK v \in users : a = F(v)  BY <1>3
  <2>3. PICK w \in users : b = F(w)  BY <1>3
  <2>4. v.name = w.name  BY <1>2, <2>1, <2>2, <2>3
  <2>5. v = w  BY <2>4 DEF OverlapInv
  <2>. QED  BY <2>2, <2>3, <2>5
<1>8. ASSUME NEW p \in Request, At(p, "register_create")'
      PROVE  /\ \A j \in known'[p] : NameTaken(j)'
             /\ \A u \in users' : u.email = key'[p] /\ ~u.given => u.name \notin known'[p]
  <2>1. At(p, "register_create")  BY <1>5, <1>8 DEF At
  <2>2. \A j \in known'[p] : NameTaken(j)'  BY <1>4, <1>5, <2>1 DEF OverlapInv
  <2>3. ASSUME NEW u \in users', u.email = key'[p], ~u.given PROVE u.name \notin known'[p]
    <3>1. PICK v \in users : v.name # n /\ u = F(v)  BY <1>3
    <3>2. v.email = key[p] /\ ~v.given /\ v.name = u.name  BY <1>2, <1>5, <2>3, <3>1
    <3>. QED  BY <1>5, <2>1, <3>2 DEF OverlapInv
  <2>. QED  BY <2>2, <2>3
<1>9. OverlapInv'  BY <1>6, <1>7, <1>8 DEF OverlapInv
<1>10. SharedEmailNeedsOverlap'
  <2>1. SUFFICES ASSUME NEW a \in users', NEW b \in users', a # b, a.email = b.email,
                        a.email # "none", ~a.given, ~b.given
                 PROVE  a.name \notin b.known /\ b.name \notin a.known
    BY DEF SharedEmailNeedsOverlap
  <2>2. PICK v \in users : a = F(v)  BY <1>3
  <2>3. PICK w \in users : b = F(w)  BY <1>3
  <2>4. v # w  BY <2>1, <2>2, <2>3
  <2>5. v.email = w.email /\ v.email # "none" /\ ~v.given /\ ~w.given
    BY <1>2, <2>1, <2>2, <2>3
  <2>6. v.name \notin w.known /\ w.name \notin v.known
    BY <2>4, <2>5 DEF SharedEmailNeedsOverlap
  <2>. QED  BY <1>2, <2>2, <2>3, <2>6
<1>. QED  BY <1>9, <1>10

\* Every step keeps both.
LEMMA OverlapStays == Spec => [](OverlapInv /\ SharedEmailNeedsOverlap)
<1>1. Init => OverlapInv /\ SharedEmailNeedsOverlap
  BY DEF Init, OverlapInv, SharedEmailNeedsOverlap, At
<1>2. TypeOK /\ MailKeys /\ OverlapInv /\ SharedEmailNeedsOverlap /\ [Next]_vars
        => (OverlapInv /\ SharedEmailNeedsOverlap)'
  <2>. SUFFICES ASSUME TypeOK, MailKeys, OverlapInv, SharedEmailNeedsOverlap, [Next]_vars
                PROVE  (OverlapInv /\ SharedEmailNeedsOverlap)'
    OBVIOUS
  <2>. DEFINE Quiet(p) == pc'[p] = "register_create" =>
                pc[p] = "register_create" /\ known'[p] = known[p] /\ key'[p] = key[p]
              Goal == (OverlapInv /\ SharedEmailNeedsOverlap)'
  <2>. USE DEF Goto
  <2>1. ASSUME NEW p \in Request, NEW e \in Email, SendCheckEmail(p, e) PROVE Goal
    <3>1. \A q \in Request : Quiet(q)  BY <2>1 DEF SendCheckEmail, TypeOK
    <3>. QED  BY <2>1, <3>1, OverlapQuiet DEF SendCheckEmail
  <2>2. ASSUME NEW p \in Request, SendRead(p) \/ SendDelete(p) \/ SendStore(p) PROVE Goal
    <3>1. \A q \in Request : Quiet(q)  BY <2>2 DEF SendRead, SendDelete, SendStore, Done, TypeOK
    <3>. QED  BY <2>2, <3>1, OverlapQuiet DEF SendRead, SendDelete, SendStore
  <2>3. ASSUME NEW p \in Request, NEW k \in Key, VerifyRead(p, k) PROVE Goal
    <3>1. \A q \in Request : Quiet(q)  BY <2>3 DEF VerifyRead, TypeOK
    <3>. QED  BY <2>3, <3>1, OverlapQuiet DEF VerifyRead
  <2>4. ASSUME NEW p \in Request, VerifyLapsed(p) \/ VerifyDelete(p) PROVE Goal
    <3>1. \A q \in Request : Quiet(q)  BY <2>4 DEF VerifyLapsed, VerifyDelete, Done, TypeOK
    <3>. QED  BY <2>4, <3>1, OverlapQuiet DEF VerifyLapsed, VerifyDelete
  <2>5. ASSUME NEW p \in Request, NEW n \in Name, RegisterCheckName(p, n) PROVE Goal
    <3>1. \A q \in Request : Quiet(q)  BY <2>5 DEF RegisterCheckName, Done, TypeOK
    <3>. QED  BY <2>5, <3>1, OverlapQuiet DEF RegisterCheckName
  <2>6. ASSUME NEW p \in Request, RegisterCheckEmail(p) PROVE Goal
    <3>1. users' = users  BY <2>6 DEF RegisterCheckEmail
    <3>2. CASE EmailRefused(key[p])
      <4>1. \A q \in Request : Quiet(q)  BY <2>6, <3>2 DEF RegisterCheckEmail, Done, TypeOK
      <4>. QED  BY <3>1, <4>1, OverlapQuiet
    <3>3. CASE ~EmailRefused(key[p])
      <4>1. /\ known'[p] = {u.name : u \in users} /\ key' = key
            /\ \A q \in Request \ {p} : pc'[q] = pc[q] /\ known'[q] = known[q]
        BY <2>6, <3>3 DEF RegisterCheckEmail, TypeOK
      <4>2. \A u \in users : u.email # key[p]  BY <3>3 DEF EmailRefused, EmailTaken
      <4>. QED  BY <3>1, <4>1, <4>2 DEF OverlapInv, SharedEmailNeedsOverlap, NameTaken, At
    <3>. QED  BY <3>2, <3>3
  <2>7. ASSUME NEW p \in Request, RegisterCreate(p) PROVE Goal
    <3>1. \A q \in Request : Quiet(q)  BY <2>7 DEF RegisterCreate, Done, TypeOK
    <3>2. CASE NameTaken(name[p])
      BY <2>7, <3>1, <3>2, OverlapQuiet DEF RegisterCreate
    <3>3. CASE ~NameTaken(name[p])
      <4>. DEFINE new == [name |-> name[p], email |-> key[p], known |-> known[p], given |-> FALSE]
      <4>1. users' = users \cup {new}  BY <2>7, <3>3 DEF RegisterCreate, Added
      <4>2. /\ \A n \in known[p] : NameTaken(n)
            /\ \A u \in users : u.email = key[p] /\ ~u.given => u.name \notin known[p]
        BY <2>7 DEF RegisterCreate, OverlapInv
      <4>3. \A u \in users : u.name # new.name /\ new.name \notin u.known
        BY <3>3 DEF NameTaken, OverlapInv
      <4>n. new.name = name[p] /\ new.email = key[p] /\ new.known = known[p]
        OBVIOUS
      <4>. HIDE DEF new
      <4>4. SharedEmailNeedsOverlap'
        <5>1. \A u \in users' : u \in users \/ u = new  BY <4>1
        <5>2. \A u \in users : u.email = new.email /\ ~u.given =>
                u.name \notin new.known /\ new.name \notin u.known
          BY <4>2, <4>3, <4>n
        <5>. QED  BY <5>1, <5>2 DEF SharedEmailNeedsOverlap
      <4>5. \A n : NameTaken(n) => NameTaken(n)'
        <5>1. users \subseteq users'  BY <4>1
        <5>. QED  BY <5>1 DEF NameTaken
      <4>6. /\ \A u \in users' : \A n \in u.known : NameTaken(n)'
            /\ \A a, b \in users' : a.name = b.name => a = b
        BY <4>1, <4>2, <4>3, <4>5, <4>n DEF OverlapInv
      <4>7. ASSUME NEW q \in Request, At(q, "register_create")'
            PROVE  /\ \A n \in known'[q] : NameTaken(n)'
                   /\ \A u \in users' : u.email = key'[q] /\ ~u.given => u.name \notin known'[q]
        <5>1. pc[q] = "register_create" /\ known'[q] = known[q] /\ key'[q] = key[q]
          BY <3>1, <4>7 DEF At
        <5>2. name[p] \notin known[q]  BY <3>3, <5>1 DEF OverlapInv, At
        <5>. QED  BY <4>1, <4>5, <4>n, <5>1, <5>2 DEF OverlapInv, At
      <4>. QED  BY <4>4, <4>6, <4>7 DEF OverlapInv
    <3>. QED  BY <3>2, <3>3
  <2>8. ASSUME NEW k \in Key, GenerateCaptcha(k) \/ Lapse(k) \/ Evict(k) PROVE Goal
    BY <2>8, OverlapQuiet DEF GenerateCaptcha, Lapse, Evict, requestVars
  <2>9. CASE UNCHANGED vars
    BY <2>9, OverlapQuiet DEF vars, requestVars
  <2>10. ASSUME NEW n \in Name, NEW e \in Address, UserCreate(n, e) \/ UserUpdate(n, e)
         PROVE  Goal
    <3>1. UNCHANGED <<pc, key, known>>  BY <2>10 DEF UserCreate, UserUpdate, requestVars
    <3>2. users' = {u \in users : u.name # n} \cup {Given(n, e)}
      BY <2>10 DEF UserCreate, UserUpdate, Added, NameTaken
    <3>. QED  BY <3>1, <3>2, GivenOverlap
  <2>11. ASSUME NEW n \in Name, UserRemove(n) PROVE Goal
    BY <2>11, RemoveOverlap
  <2>12. ASSUME NEW p \in Request, NEW f, NEW c, NEW z, FindPaginated(p, f, c, z) PROVE Goal
    <3>1. \A q \in Request : Quiet(q)  BY <2>12 DEF FindPaginated, TypeOK
    <3>. QED  BY <2>12, <3>1, OverlapQuiet DEF FindPaginated
  <2>13. ASSUME NEW p \in Request, FindMany(p) \/ CountAll(p) \/ PageAnswer(p) \/ Abort(p)
         PROVE  Goal
    <3>1. \A q \in Request : Quiet(q)
      BY <2>13 DEF FindMany, CountAll, PageAnswer, Abort, Done, TypeOK, requestVars
    <3>. QED  BY <2>13, <3>1, OverlapQuiet DEF FindMany, CountAll, PageAnswer, Abort
  <2>14. Address # {}  BY DEF Address
  <2>. QED
    BY <2>1, <2>2, <2>3, <2>4, <2>5, <2>6, <2>7, <2>8, <2>9, <2>10, <2>11, <2>12, <2>13, <2>14
       DEF Next, VerifyCodeRead, VerifyCaptchaRead, Key
<1>. QED  BY <1>1, <1>2, TypeAndKeys, PTL DEF Spec

\* Two accounts with one address were registered at overlapping times: the later
\* one's check of the address ran before the earlier one existed.
THEOREM SharedEmailsOverlapped == Spec => []SharedEmailNeedsOverlap
BY OverlapStays, PTL

-----------------------------------------------------------------------------
\* What is stored is the last code issued under its key; a code past its expiresAt is
\* recorded as such, and so is the one a request found past it.
LapseInv ==
  /\ \A k \in Key : store[k].code \in {0, latest[k]}
  /\ \A k \in Key : store[k].lapsed => store[k].code \in dead
  /\ \A p \in Request : At(p, "verify_lapsed") => held[p] \in dead

\* A request about to store a new code goes on to do so.
SendersStay ==
  \A p \in Request : At(p, "send_store") => At(p, "send_store")' /\ key'[p] = key[p]

\* No request has just found a code past its expiresAt.
NoneNewlyLapsed ==
  \A p \in Request : At(p, "verify_lapsed")' => At(p, "verify_lapsed") /\ held'[p] = held[p]

\* A step that leaves the codes alone keeps them.
LEMMA KeptQuiet ==
  ASSUME LapseInv, CodeKept, SendersStay, NoneNewlyLapsed,
         UNCHANGED <<store, spent, latest, dead, clobbered, cut>>
  PROVE  (LapseInv /\ CodeKept)'
BY DEF LapseInv, CodeKept, SendersStay, NoneNewlyLapsed

\* Deleting what a key holds loses its last code only if there was one to be kept, and
\* what follows the deletion says why it need not be.
LEMMA KeptDelete ==
  ASSUME TypeOK, LapseInv, CodeKept, NEW k \in Key, DeleteCode(k),
         SendersStay, NoneNewlyLapsed, UNCHANGED <<latest, dead, cut>>,
         clobbered \subseteq clobbered',
         \A n \in 1..MaxIssued : spent[n] > 0 => spent'[n] > 0,
         \/ store[k].code \in dead \/ store[k].code = 0
         \/ store[k].code \in 1..MaxIssued /\ spent'[store[k].code] > 0
         \/ k \in clobbered'
         \/ \E p \in Request : At(p, "send_store")' /\ key'[p] = k
  PROVE  (LapseInv /\ CodeKept)'
<1>1. \A j \in Key : store'[j] = IF j = k THEN NoCode ELSE store[j]
  BY DEF DeleteCode, TypeOK
<1>2. LapseInv'
  BY <1>1 DEF LapseInv, NoneNewlyLapsed, NoCode
<1>3. ASSUME NEW j \in Key
      PROVE  \/ latest'[j] = 0
             \/ store'[j].code = latest'[j]
             \/ latest'[j] \in dead' \/ spent'[latest'[j]] > 0
             \/ j \in clobbered' \/ j \in cut'
             \/ \E p \in Request : At(p, "send_store")' /\ key'[p] = j
  <2>1. \/ latest[j] = 0
        \/ store[j].code = latest[j]
        \/ latest[j] \in dead \/ spent[latest[j]] > 0
        \/ j \in clobbered \/ j \in cut
        \/ \E p \in Request : At(p, "send_store") /\ key[p] = j
    BY DEF CodeKept
  <2>2. latest[j] # 0 => latest[j] \in 1..MaxIssued  BY RegistrationConstants DEF TypeOK
  <2>3. CASE store[j].code = latest[j] /\ j = k
    BY <2>3
  <2>4. CASE \E p \in Request : At(p, "send_store") /\ key[p] = j
    BY <2>4 DEF SendersStay
  <2>. QED  BY <1>1, <2>1, <2>2, <2>3, <2>4
<1>. QED  BY <1>2, <1>3 DEF CodeKept

\* A new code is kept at first, and does not disturb the others.
LEMMA KeptIssue ==
  ASSUME TypeOK, LapseInv, CodeKept, NEW k \in Key, IssueCode(k), UNCHANGED <<spent, dead>>,
         \A p \in Request : At(p, "send_store") /\ key[p] # k
                              => At(p, "send_store")' /\ key'[p] = key[p],
         NoneNewlyLapsed
  PROVE  (LapseInv /\ CodeKept)'
<1>1. /\ \A j \in Key \ {k} : store'[j] = store[j] /\ latest'[j] = latest[j]
      /\ store'[k].code = issued + 1 /\ store'[k].lapsed = FALSE /\ latest'[k] = issued + 1
      /\ clobbered' = clobbered \ {k} /\ cut' = cut \ {k}
  BY DEF IssueCode, TypeOK
<1>2. LapseInv'
  BY <1>1 DEF LapseInv, NoneNewlyLapsed
<1>3. ASSUME NEW j \in Key \ {k}
      PROVE  \/ latest'[j] = 0
             \/ store'[j].code = latest'[j]
             \/ latest'[j] \in dead' \/ spent'[latest'[j]] > 0
             \/ j \in clobbered' \/ j \in cut'
             \/ \E p \in Request : At(p, "send_store")' /\ key'[p] = j
  <2>1. CASE \E p \in Request : At(p, "send_store") /\ key[p] = j
    BY <2>1
  <2>. QED  BY <1>1, <2>1 DEF CodeKept
<1>. QED  BY <1>1, <1>2, <1>3 DEF CodeKept

\* A send that ends before it stores its code cuts the key, if there was a code to keep.
LEMMA KeptAbort ==
  ASSUME TypeOK, LapseInv, CodeKept, NEW p \in Request, Abort(p)
  PROVE  (LapseInv /\ CodeKept)'
<1>1. /\ UNCHANGED <<store, spent, latest, dead, clobbered>> /\ cut \subseteq cut'
      /\ At(p, "send_store") /\ store[key[p]].code # latest[key[p]] => key[p] \in cut'
  BY DEF Abort
<1>2. /\ \A q \in Request \ {p} : pc'[q] = pc[q] /\ key'[q] = key[q] /\ held'[q] = held[q]
      /\ pc'[p] = "idle"
  BY DEF Abort, Done, Goto, TypeOK
<1>3. LapseInv'  BY <1>1, <1>2 DEF LapseInv, At
<1>4. ASSUME NEW k \in Key
      PROVE  \/ latest'[k] = 0
             \/ store'[k].code = latest'[k]
             \/ latest'[k] \in dead' \/ spent'[latest'[k]] > 0
             \/ k \in clobbered' \/ k \in cut'
             \/ \E q \in Request : At(q, "send_store")' /\ key'[q] = k
  <2>1. CASE \E q \in Request : At(q, "send_store") /\ key[q] = k
    BY <1>1, <1>2, <2>1 DEF At
  <2>. QED  BY <1>1, <2>1 DEF CodeKept
<1>. QED  BY <1>3, <1>4 DEF CodeKept

\* Every step keeps both.
LEMMA KeptStays == Spec => [](LapseInv /\ CodeKept)
<1>1. Init => LapseInv /\ CodeKept
  BY DEF Init, LapseInv, CodeKept, NoCode, At
<1>2. TypeOK /\ CodesInv /\ LapseInv /\ CodeKept /\ [Next]_vars => (LapseInv /\ CodeKept)'
  <2>. SUFFICES ASSUME TypeOK, CodesInv, LapseInv, CodeKept, [Next]_vars
                PROVE  (LapseInv /\ CodeKept)'
    OBVIOUS
  <2>. DEFINE Goal == (LapseInv /\ CodeKept)'
              Calm == SendersStay /\ NoneNewlyLapsed
              Same == UNCHANGED <<store, spent, latest, dead, clobbered, cut>>
  <2>0. Calm /\ Same => Goal  BY KeptQuiet
  <2>. HIDE DEF Goal
  <2>. USE DEF Goto, SendersStay, NoneNewlyLapsed, At
  <2>1. ASSUME NEW p \in Request, NEW e \in Email, SendCheckEmail(p, e) PROVE Goal
    BY <2>1, <2>0 DEF SendCheckEmail, TypeOK
  <2>2. ASSUME NEW p \in Request, SendRead(p) PROVE Goal
    BY <2>2, <2>0 DEF SendRead, TypeOK
  <2>3. ASSUME NEW p \in Request, SendDelete(p) PROVE Goal
    <3>1. Calm /\ At(p, "send_store")' /\ key'[p] = key[p]  BY <2>3 DEF SendDelete, TypeOK
    <3>2. DeleteCode(key[p]) /\ UNCHANGED <<spent, latest, dead, clobbered, cut>>
      BY <2>3 DEF SendDelete
    <3>. QED  BY <3>1, <3>2, KeptDelete, Numbers DEF Goal
  <2>4. ASSUME NEW p \in Request, SendStore(p) PROVE Goal
    <3>1. IssueCode(key[p]) /\ UNCHANGED <<spent, dead>>  BY <2>4 DEF SendStore
    <3>2. NoneNewlyLapsed /\ \A q \in Request \ {p} : pc'[q] = pc[q] /\ key'[q] = key[q]
      BY <2>4 DEF SendStore, Done, TypeOK
    <3>. QED  BY <3>1, <3>2, KeptIssue, Numbers DEF Goal
  <2>5. ASSUME NEW k \in Captcha, GenerateCaptcha(k) PROVE Goal
    <3>1. IssueCode(k) /\ UNCHANGED <<spent, dead, pc, key, held>>
      BY <2>5 DEF GenerateCaptcha, requestVars
    <3>. QED  BY <3>1, KeptIssue DEF Goal, Key
  <2>6. ASSUME NEW p \in Request, NEW k \in Key, VerifyRead(p, k) PROVE Goal
    <3>1. Same /\ SendersStay  BY <2>6 DEF VerifyRead, TypeOK
    <3>2. \A q \in Request : At(q, "verify_lapsed")' => held'[q] \in dead
      BY <2>6 DEF VerifyRead, TypeOK, LapseInv
    <3>. QED  BY <3>1, <3>2 DEF Goal, LapseInv, CodeKept
  <2>7. ASSUME NEW p \in Request, VerifyLapsed(p) PROVE Goal
    <3>1. Calm  BY <2>7 DEF VerifyLapsed, Done, TypeOK
    <3>2. held[p] \in dead  BY <2>7 DEF VerifyLapsed, LapseInv
    <3>3. DeleteCode(key[p]) /\ UNCHANGED <<spent, latest, dead, cut>>
      BY <2>7 DEF VerifyLapsed, Delete
    <3>4. /\ clobbered \subseteq clobbered'
          /\ store[key[p]].code \in {0, held[p]} \/ key[p] \in clobbered'
      BY <2>7 DEF VerifyLapsed, Delete
    <3>. QED  BY <3>1, <3>2, <3>3, <3>4, KeptDelete, Numbers DEF Goal
  <2>8. ASSUME NEW p \in Request, VerifyDelete(p) PROVE Goal
    <3>1. Calm  BY <2>8 DEF VerifyDelete, Done, TypeOK
    <3>2. held[p] \in 1..MaxIssued
      <4>1. held[p] \in 1..issued  BY <2>8 DEF VerifyDelete, CodesInv
      <4>. QED  BY <4>1, RegistrationConstants DEF TypeOK
    <3>3. DeleteCode(key[p]) /\ UNCHANGED <<latest, dead, cut>>
      BY <2>8 DEF VerifyDelete, Delete
    <3>4. /\ clobbered \subseteq clobbered'
          /\ store[key[p]].code \in {0, held[p]} \/ key[p] \in clobbered'
      BY <2>8 DEF VerifyDelete, Delete
    <3>5. spent' = [spent EXCEPT ![held[p]] = @ + 1]  BY <2>8 DEF VerifyDelete
    <3>6. spent'[held[p]] > 0  BY <3>2, <3>5, Numbers DEF TypeOK
    <3>7. \A n \in 1..MaxIssued : spent[n] > 0 => spent'[n] > 0
      BY <3>5, <3>6 DEF TypeOK
    <3>. QED  BY <3>1, <3>2, <3>3, <3>4, <3>6, <3>7, KeptDelete, Numbers DEF Goal
  <2>9. ASSUME NEW p \in Request, NEW n \in Name, RegisterCheckName(p, n) PROVE Goal
    <3>1. Calm  BY <2>9 DEF RegisterCheckName, Done, TypeOK
    <3>2. Same  BY <2>9 DEF RegisterCheckName
    <3>. QED  BY <2>0, <3>1, <3>2
  <2>10. ASSUME NEW p \in Request, RegisterCheckEmail(p) \/ RegisterCreate(p) PROVE Goal
    <3>1. Calm  BY <2>10 DEF RegisterCheckEmail, RegisterCreate, Done, TypeOK
    <3>2. Same  BY <2>10 DEF RegisterCheckEmail, RegisterCreate
    <3>. QED  BY <2>0, <3>1, <3>2
  <2>11. ASSUME NEW k \in Key, Lapse(k) PROVE Goal
    <3>1. /\ \A j \in Key : store'[j].code = store[j].code
          /\ \A j \in Key \ {k} : store'[j] = store[j]
          /\ dead' = dead \cup {store[k].code}
          /\ UNCHANGED <<pc, key, held, spent, latest, clobbered, cut>>
      BY <2>11 DEF Lapse, TypeOK, Code, requestVars
    <3>. QED  BY <3>1 DEF Goal, LapseInv, CodeKept
  <2>12. ASSUME NEW k \in Key, Evict(k) PROVE Goal
    <3>1. DeleteCode(k) /\ UNCHANGED <<pc, key, held, spent, latest, dead, clobbered, cut>>
      BY <2>12 DEF Evict, DeleteCode, requestVars
    <3>2. store[k].code \in dead  BY <2>12 DEF Evict, LapseInv
    <3>. QED  BY <3>1, <3>2, KeptDelete DEF Goal
  <2>13. ASSUME UNCHANGED vars PROVE Goal
    <3>1. Calm  BY <2>13 DEF vars, requestVars
    <3>2. Same  BY <2>13 DEF vars
    <3>. QED  BY <2>0, <3>1, <3>2
  <2>16. ASSUME NEW n \in Name, NEW e \in Address,
                UserCreate(n, e) \/ UserUpdate(n, e) \/ UserRemove(n)
         PROVE  Goal
    BY <2>16, <2>0 DEF UserCreate, UserUpdate, UserRemove, requestVars
  <2>17. ASSUME NEW p \in Request, NEW f, NEW c, NEW z, FindPaginated(p, f, c, z) PROVE Goal
    BY <2>17, <2>0 DEF FindPaginated, TypeOK
  <2>18. ASSUME NEW p \in Request, FindMany(p) \/ CountAll(p) \/ PageAnswer(p) PROVE Goal
    <3>1. Calm  BY <2>18 DEF FindMany, CountAll, PageAnswer, Done, TypeOK, requestVars
    <3>2. Same  BY <2>18 DEF FindMany, CountAll, PageAnswer
    <3>. QED  BY <2>0, <3>1, <3>2
  <2>19. Address # {}  BY DEF Address
  <2>20. ASSUME NEW p \in Request, Abort(p) PROVE Goal
    BY <2>20, KeptAbort DEF Goal
  <2>. HIDE DEF Goto, SendersStay, NoneNewlyLapsed, At
  <2>14. Email \subseteq Key /\ Captcha \subseteq Key  BY DEF Key
  <2>15. Goal
    BY <2>1, <2>2, <2>3, <2>4, <2>5, <2>6, <2>7, <2>8, <2>9, <2>10, <2>11, <2>12, <2>13, <2>14,
       <2>16, <2>17, <2>18, <2>19, <2>20
       DEF Next, VerifyCodeRead, VerifyCaptchaRead
  <2>. QED  BY <2>15 DEF Goal
<1>. QED  BY <1>1, <1>2, TypeCorrect, CodesStay, PTL DEF Spec

\* The last code issued under a key can be presented until it is spent, lapses or is
\* replaced, unless the verification of an older code deleted it or a send ended between
\* its del and its set.
THEOREM CodesAreKept == Spec => []CodeKept
BY KeptStays, PTL

-----------------------------------------------------------------------------
\* The rows that belong on a page are as many as the database answers.
LEMMA RowsOfPage ==
  ASSUME NEW n \in Nat, NEW c \in Nat \ {0}, NEW z \in Nat \ {0}
  PROVE  Window(n, Skip(c, z), z)
           = Cardinality({i \in 1..n : (c - 1) * z < i /\ i <= c * z})
<1>. DEFINE k == (c - 1) * z
<1>1. k \in Nat /\ c * z = k + z
  <2>1. (c - 1) \in Nat  OBVIOUS
  <2>2. k \in Nat  BY <2>1
  <2>3. c * z = (c - 1) * z + z  OBVIOUS
  <2>. QED  BY <2>2, <2>3
<1>2. Skip(c, z) = k  BY DEF Skip
<1>. HIDE DEF k
<1>3. {i \in 1..n : k < i /\ i <= c * z} = (k + 1)..(IF n < k + z THEN n ELSE k + z)
  BY <1>1
<1>4. ASSUME NEW b \in Nat
      PROVE  Cardinality((k + 1)..b) = IF k + 1 > b THEN 0 ELSE b - k
  <2>1. Cardinality((k + 1)..b) = IF k + 1 > b THEN 0 ELSE b - (k + 1) + 1
    BY <1>1, FS_Interval
  <2>. QED  BY <1>1, <2>1
<1>5. CASE n < k + z
  <2>1. Cardinality((k + 1)..n) = IF k + 1 > n THEN 0 ELSE n - k  BY <1>4
  <2>2. Window(n, k, z) = IF n <= k THEN 0 ELSE n - k  BY <1>1, <1>5 DEF Window
  <2>3. Window(n, k, z) = Cardinality((k + 1)..n)  BY <1>1, <2>1, <2>2
  <2>. QED  BY <1>2, <1>3, <1>5, <2>3 DEF k
<1>6. CASE ~(n < k + z)
  <2>1. Cardinality((k + 1)..(k + z)) = IF k + 1 > k + z THEN 0 ELSE (k + z) - k
    BY <1>1, <1>4
  <2>2. Window(n, k, z) = z  BY <1>1, <1>6 DEF Window
  <2>3. Window(n, k, z) = Cardinality((k + 1)..(k + z))  BY <1>1, <2>1, <2>2
  <2>. QED  BY <1>2, <1>3, <1>6, <2>3 DEF k
<1>. QED  BY <1>5, <1>6

\* What a query of a page has answered is what the other will be answered, too.
Fits(g) ==
  LET n == Cardinality(Matching(g.filter)) IN
  /\ g.awaited = {"count"} => g.records = Window(n, Skip(g.current, g.size), g.size)
  /\ g.awaited = {"find"} => g.total = n
  /\ g.awaited = {} => g.records = Window(g.total, Skip(g.current, g.size), g.size)
PagesFit == \A p \in Request \ shifted : At(p, "page") => Fits(page[p])

\* A step that leaves the accounts and the pages alone keeps it.
LEMMA FitQuiet ==
  ASSUME PagesFit, users' = users, shifted' = shifted,
         \A p \in Request : pc'[p] = "page" => pc[p] = "page" /\ page'[p] = page[p]
  PROVE  PagesFit'
<1>1. \A f : Matching(f)' = Matching(f)  BY DEF Matching, NameTaken
<1>2. \A p \in Request : At(p, "page")' => At(p, "page") /\ page'[p] = page[p]  BY DEF At
<1>3. SUFFICES ASSUME NEW p \in Request \ shifted', At(p, "page")' PROVE Fits(page[p])'
  BY DEF PagesFit
<1>4. Fits(page[p])  BY <1>2, <1>3 DEF PagesFit
<1>5. page'[p] = page[p]  BY <1>2, <1>3
<1>. QED  BY <1>1, <1>4, <1>5 DEF Fits

\* So does one that writes the accounts: it shifts every page that is half way.
LEMMA FitShift ==
  ASSUME TypeOK, PagesFit, Shift, page' = page,
         \A p \in Request : pc'[p] = "page" => pc[p] = "page"
  PROVE  PagesFit'
<1>1. SUFFICES ASSUME NEW p \in Request \ shifted', At(p, "page")' PROVE Fits(page[p])'
  BY DEF PagesFit
<1>2. At(p, "page") /\ p \notin shifted /\ p \notin HalfWay  BY <1>1 DEF At, Shift
<1>3. page[p].awaited \in {{"find", "count"}, {}}  BY <1>2 DEF HalfWay
<1>4. Fits(page[p]) /\ page'[p] = page[p]  BY <1>2 DEF PagesFit
<1>. QED  BY <1>3, <1>4 DEF Fits

\* So do the steps of a page.
LEMMA FitPage ==
  ASSUME TypeOK, PagesFit, NEW p \in Request,
         \/ \E f, c, z : FindPaginated(p, f, c, z)
         \/ FindMany(p) \/ CountAll(p) \/ PageAnswer(p)
  PROVE  PagesFit'
<1>. USE DEF TypeOK, Goto, At
<1>1. users' = users /\ shifted' \subseteq shifted /\ shifted \ {p} \subseteq shifted'
  BY DEF FindPaginated, FindMany, CountAll, PageAnswer
<1>2. \A q \in Request \ {p} : pc'[q] = pc[q] /\ page'[q] = page[q]
  BY DEF FindPaginated, FindMany, CountAll, PageAnswer, Done, requestVars
<1>3. \A f : Matching(f)' = Matching(f)  BY <1>1 DEF Matching, NameTaken
<1>4. ASSUME NEW q \in Request \ shifted', q # p, At(q, "page")' PROVE Fits(page[q])'
  <2>1. Fits(page[q]) /\ page'[q] = page[q]  BY <1>1, <1>2, <1>4 DEF PagesFit
  <2>. QED  BY <1>3, <2>1 DEF Fits
<1>5. ASSUME p \notin shifted', At(p, "page")' PROVE Fits(page[p])'
  <2>. DEFINE g == page[p]
              n == Cardinality(Matching(g.filter))
  <2>1. CASE \E f, c, z : FindPaginated(p, f, c, z)
    <3>1. PICK f, c, z : FindPaginated(p, f, c, z)  BY <2>1
    <3>2. page'[p] = [filter |-> f, current |-> c, size |-> z,
                      records |-> 0, total |-> 0, awaited |-> {"find", "count"}]
      BY <3>1 DEF FindPaginated
    <3>3. page'[p].awaited = {"find", "count"}  BY <3>2
    <3>4. "find" \in page'[p].awaited /\ "count" \in page'[p].awaited  BY <3>3
    <3>5. page'[p].awaited # {"find"}  BY <3>4
    <3>6. page'[p].awaited # {"count"}  BY <3>4
    <3>7. page'[p].awaited # {}  BY <3>4
    <3>. QED  BY <3>5, <3>6, <3>7 DEF Fits
  <2>2. g \in Page /\ g.awaited \subseteq {"find", "count"}  BY DEF Page
  <2>3. CASE FindMany(p)
    <3>1. page'[p] = [g EXCEPT !.awaited = @ \ {"find"},
                              !.records = Window(n, Skip(g.current, g.size), g.size)]
      BY <2>3 DEF FindMany
    <3>2. Fits(g)  BY <1>1, <1>5, <2>3 DEF FindMany, PagesFit
    <3>. DEFINE h == page'[p]
    <3>3. /\ h.awaited = g.awaited \ {"find"} /\ h.total = g.total /\ h.filter = g.filter
          /\ h.current = g.current /\ h.size = g.size
          /\ h.records = Window(n, Skip(g.current, g.size), g.size)
      BY <2>2, <3>1 DEF Page
    <3>4. "find" \in g.awaited  BY <2>3 DEF FindMany
    <3>5. h.awaited = {} => g.awaited = {"find"}  BY <3>3, <3>4
    <3>6. h.awaited # {"find"}  BY <3>3
    <3>7. Matching(page[p].filter)' = Matching(g.filter)  BY <1>3, <3>3
    <3>. QED  BY <3>2, <3>3, <3>5, <3>6, <3>7 DEF Fits
  <2>4. CASE CountAll(p)
    <3>1. page'[p] = [g EXCEPT !.awaited = @ \ {"count"}, !.total = n]
      BY <2>4 DEF CountAll
    <3>2. Fits(g)  BY <1>1, <1>5, <2>4 DEF CountAll, PagesFit
    <3>. DEFINE h == page'[p]
    <3>3. /\ h.awaited = g.awaited \ {"count"} /\ h.total = n /\ h.filter = g.filter
          /\ h.current = g.current /\ h.size = g.size /\ h.records = g.records
      BY <2>2, <3>1 DEF Page
    <3>4. "count" \in g.awaited  BY <2>4 DEF CountAll
    <3>5. h.awaited = {} => g.awaited = {"count"}  BY <3>3, <3>4
    <3>6. h.awaited # {"count"}  BY <3>3
    <3>7. Matching(page[p].filter)' = Matching(g.filter)  BY <1>3, <3>3
    <3>. QED  BY <3>2, <3>3, <3>5, <3>6, <3>7 DEF Fits
  <2>5. CASE PageAnswer(p)
    BY <1>5, <2>5 DEF PageAnswer, Done
  <2>. QED  BY <2>1, <2>3, <2>4, <2>5
<1>. QED  BY <1>4, <1>5 DEF PagesFit

\* So does a request that ends early: its page is forgotten.
LEMMA FitAbort ==
  ASSUME TypeOK, PagesFit, NEW p \in Request, Abort(p)
  PROVE  PagesFit'
<1>1. /\ \A q \in Request \ {p} : pc'[q] = pc[q] /\ page'[q] = page[q]
      /\ pc'[p] = "idle" /\ users' = users /\ shifted' = shifted \ {p}
  BY DEF Abort, Done, Goto, TypeOK
<1>2. \A f : Matching(f)' = Matching(f)  BY <1>1 DEF Matching, NameTaken
<1>3. SUFFICES ASSUME NEW q \in Request \ shifted', At(q, "page")' PROVE Fits(page[q])'
  BY DEF PagesFit
<1>4. q # p /\ Fits(page[q]) /\ page'[q] = page[q]  BY <1>1, <1>3 DEF PagesFit, At
<1>. QED  BY <1>2, <1>4 DEF Fits

\* A page of accounts holds the rows that belong on it, of as many as its total says,
\* unless an account was added, changed or removed between its two queries.
THEOREM PagesAlwaysAddUp == Spec => []PagesAddUp
<1>1. Init => PagesFit  BY DEF Init, PagesFit, At
<1>2. TypeOK /\ PagesFit /\ [Next]_vars => PagesFit'
  <2>. SUFFICES ASSUME TypeOK, PagesFit, [Next]_vars PROVE PagesFit'
    OBVIOUS
  <2>. DEFINE Quiet(p) == pc'[p] = "page" => pc[p] = "page" /\ page'[p] = page[p]
  <2>. USE DEF Goto
  <2>1. ASSUME NEW p \in Request, NEW e \in Email, SendCheckEmail(p, e) PROVE PagesFit'
    <3>1. \A q \in Request : Quiet(q)  BY <2>1 DEF SendCheckEmail, TypeOK, pageVars
    <3>. QED  BY <2>1, <3>1, FitQuiet DEF SendCheckEmail, pageVars
  <2>2. ASSUME NEW p \in Request, SendRead(p) \/ SendDelete(p) \/ SendStore(p) PROVE PagesFit'
    <3>1. \A q \in Request : Quiet(q)
      BY <2>2 DEF SendRead, SendDelete, SendStore, Done, TypeOK, pageVars
    <3>. QED  BY <2>2, <3>1, FitQuiet DEF SendRead, SendDelete, SendStore, pageVars
  <2>3. ASSUME NEW p \in Request, NEW k \in Key, VerifyRead(p, k) PROVE PagesFit'
    <3>1. \A q \in Request : Quiet(q)  BY <2>3 DEF VerifyRead, TypeOK, pageVars
    <3>. QED  BY <2>3, <3>1, FitQuiet DEF VerifyRead, pageVars
  <2>4. ASSUME NEW p \in Request, VerifyLapsed(p) \/ VerifyDelete(p) PROVE PagesFit'
    <3>1. \A q \in Request : Quiet(q)
      BY <2>4 DEF VerifyLapsed, VerifyDelete, Done, TypeOK, pageVars
    <3>. QED  BY <2>4, <3>1, FitQuiet DEF VerifyLapsed, VerifyDelete, pageVars
  <2>5. ASSUME NEW p \in Request, NEW n \in Name, RegisterCheckName(p, n) PROVE PagesFit'
    <3>1. \A q \in Request : Quiet(q)  BY <2>5 DEF RegisterCheckName, Done, TypeOK, pageVars
    <3>. QED  BY <2>5, <3>1, FitQuiet DEF RegisterCheckName, pageVars
  <2>6. ASSUME NEW p \in Request, RegisterCheckEmail(p) PROVE PagesFit'
    <3>1. \A q \in Request : Quiet(q)  BY <2>6 DEF RegisterCheckEmail, Done, TypeOK, pageVars
    <3>. QED  BY <2>6, <3>1, FitQuiet DEF RegisterCheckEmail, pageVars
  <2>7. ASSUME NEW p \in Request, RegisterCreate(p) PROVE PagesFit'
    <3>1. page' = page /\ \A q \in Request : pc'[q] = "page" => pc[q] = "page"
      BY <2>7 DEF RegisterCreate, Done, TypeOK
    <3>2. CASE NameTaken(name[p])
      BY <2>7, <3>1, <3>2, FitQuiet DEF RegisterCreate
    <3>3. CASE ~NameTaken(name[p])
      BY <2>7, <3>1, <3>3, FitShift DEF RegisterCreate, Added
    <3>. QED  BY <3>2, <3>3
  <2>8. ASSUME NEW k \in Key, GenerateCaptcha(k) \/ Lapse(k) \/ Evict(k) PROVE PagesFit'
    BY <2>8, FitQuiet DEF GenerateCaptcha, Lapse, Evict, requestVars, pageVars
  <2>9. ASSUME NEW n \in Name, NEW e \in Address,
               UserCreate(n, e) \/ UserUpdate(n, e) \/ UserRemove(n)
        PROVE  PagesFit'
    BY <2>9, FitShift DEF UserCreate, UserUpdate, UserRemove, Added, requestVars
  <2>10. CASE UNCHANGED vars
    BY <2>10, FitQuiet DEF vars, requestVars, pageVars
  <2>11. Address # {}  BY DEF Address
  <2>. QED
    BY <2>1, <2>2, <2>3, <2>4, <2>5, <2>6, <2>7, <2>8, <2>9, <2>10, <2>11, FitPage, FitAbort
       DEF Next, VerifyCodeRead, VerifyCaptchaRead, Key
<1>3. TypeOK /\ PagesFit => PagesAddUp
  <2>1. SUFFICES ASSUME TypeOK, PagesFit, NEW p \in Request \ shifted,
                        At(p, "page"), page[p].awaited = {}
                 PROVE  page[p].records = Cardinality(
                          {i \in 1..page[p].total : (page[p].current - 1) * page[p].size < i
                                                    /\ i <= page[p].current * page[p].size})
    BY DEF PagesAddUp
  <2>2. page[p] \in Page  BY <2>1 DEF TypeOK
  <2>3. page[p].records = Window(page[p].total, Skip(page[p].current, page[p].size), page[p].size)
    BY <2>1 DEF PagesFit, Fits
  <2>. QED  BY <2>2, <2>3, PageFields, RowsOfPage
<1>. QED  BY <1>1, <1>2, <1>3, TypeCorrect, PTL DEF Spec

-----------------------------------------------------------------------------
(***************************************************************************)
(* What overlapping requests break                                         *)
(***************************************************************************)

Verifying(p) == pc[p] \in {"verify_lapsed", "verify_delete"}

\* No request but p moves.
Alone(p) == \A q \in Request \ {p} : pc'[q] = pc[q] /\ key'[q] = key[q] /\ held'[q] = held[q]

\* A step that takes nobody to the verification of a code or to a new account, spends no
\* code and stores none; an account is as it was, or is one an administrator gave.
Calm ==
  /\ \A q \in Request : pc'[q] \in {"verify_lapsed", "verify_delete", "register_create"}
                        => pc'[q] = pc[q] /\ key'[q] = key[q] /\ held'[q] = held[q]
  /\ UNCHANGED <<spent, clobbered, latest>>
  /\ \A k \in Key : store'[k].code \in {0, store[k].code}
  /\ \A u \in users' : \/ u.given \/ u.email = "none"
                       \/ \E v \in users : v.name = u.name /\ v.email = u.email /\ ~v.given

\* The other steps, one by one.
LEMMA StepsSorted ==
  ASSUME TypeOK, [Next]_vars
  PROVE  \/ Calm
         \/ \E p \in Request, k \in Key : VerifyRead(p, k)
         \/ \E p \in Request : VerifyLapsed(p) \/ VerifyDelete(p)
         \/ \E p \in Request : RegisterCheckEmail(p) \/ RegisterCreate(p)
         \/ \E p \in Request : SendStore(p)
         \/ \E k \in Captcha : GenerateCaptcha(k)
<1>. DEFINE Quiet == \A q \in Request :
              pc'[q] \in {"verify_lapsed", "verify_delete", "register_create"}
              => pc'[q] = pc[q] /\ key'[q] = key[q] /\ held'[q] = held[q]
<1>0. ASSUME Quiet, UNCHANGED <<store, users, spent, clobbered, latest>> PROVE Calm
  <2>1. \A u \in users : u.given \/ \E v \in users : v.name = u.name /\ v.email = u.email /\ ~v.given
    BY DEF TypeOK, Account
  <2>. QED  BY <1>0, <2>1 DEF Calm
<1>1. ASSUME NEW p \in Request, NEW e \in Email, SendCheckEmail(p, e) PROVE Calm
  BY <1>1, <1>0 DEF SendCheckEmail, Goto, TypeOK
<1>2. ASSUME NEW p \in Request, SendRead(p) PROVE Calm
  BY <1>2, <1>0 DEF SendRead, Goto, TypeOK
<1>3. ASSUME NEW p \in Request, SendDelete(p) PROVE Calm
  <2>1. Quiet  BY <1>3 DEF SendDelete, Goto, TypeOK
  <2>2. \A k \in Key : store'[k].code \in {0, store[k].code}
    BY <1>3, DeleteStore, Numbers DEF SendDelete
  <2>3. \A u \in users : u.given \/ \E v \in users : v.name = u.name /\ v.email = u.email /\ ~v.given
    BY DEF TypeOK, Account
  <2>. QED  BY <1>3, <2>1, <2>2, <2>3 DEF Calm, SendDelete
<1>4. ASSUME NEW p \in Request, NEW n \in Name, RegisterCheckName(p, n) PROVE Calm
  BY <1>4, <1>0 DEF RegisterCheckName, Done, Goto, TypeOK
<1>5. ASSUME NEW p \in Request, NEW f, NEW c, NEW z, FindPaginated(p, f, c, z) PROVE Calm
  BY <1>5, <1>0 DEF FindPaginated, Goto, TypeOK
<1>6. ASSUME NEW p \in Request, FindMany(p) \/ CountAll(p) \/ PageAnswer(p) PROVE Calm
  <2>1. Quiet
    BY <1>6 DEF FindMany, CountAll, PageAnswer, Done, Goto, TypeOK, requestVars
  <2>. QED  BY <1>6, <2>1, <1>0 DEF FindMany, CountAll, PageAnswer
<1>12. ASSUME NEW p \in Request, Abort(p) PROVE Calm
  <2>1. Quiet  BY <1>12 DEF Abort, Done, Goto, TypeOK
  <2>. QED  BY <1>12, <2>1, <1>0 DEF Abort
<1>7. ASSUME NEW n \in Name, NEW e \in Address, UserCreate(n, e) \/ UserUpdate(n, e) PROVE Calm
  <2>1. users' \subseteq users \cup {Given(n, e)}
    BY <1>7 DEF UserCreate, UserUpdate, Added
  <2>2. UNCHANGED <<pc, key, held, store, spent, clobbered, latest>>
    BY <1>7 DEF UserCreate, UserUpdate, requestVars
  <2>3. Given(n, e).given \/ Given(n, e).email = "none"  BY DEF Given
  <2>4. \A u \in users : u.given \/ \E v \in users : v.name = u.name /\ v.email = u.email /\ ~v.given
    BY DEF TypeOK, Account
  <2>. QED  BY <2>1, <2>2, <2>3, <2>4 DEF Calm
<1>8. ASSUME NEW n \in Name, UserRemove(n) PROVE Calm
  <2>1. UNCHANGED <<pc, key, held, store, spent, clobbered, latest>>
    BY <1>8 DEF UserRemove
  <2>2. ASSUME NEW u \in users'
        PROVE  u.given \/ \E v \in users : v.name = u.name /\ v.email = u.email /\ ~v.given
    <3>1. PICK v \in users : u = [v EXCEPT !.known = @ \ {n}]  BY <1>8, <2>2 DEF UserRemove
    <3>2. v \in Account  BY DEF TypeOK
    <3>3. u.name = v.name /\ u.email = v.email /\ u.given = v.given /\ v.given \in BOOLEAN
      BY <3>1, <3>2 DEF Account
    <3>. QED  BY <3>3
  <2>. QED  BY <2>1, <2>2 DEF Calm
<1>9. ASSUME NEW k \in Key, Lapse(k) \/ Evict(k) PROVE Calm
  <2>1. UNCHANGED <<pc, key, held, users, spent, clobbered, latest>>
    BY <1>9 DEF Lapse, Evict, requestVars
  <2>2. \A j \in Key : store'[j].code \in {0, store[j].code}
    <3>1. CASE Lapse(k)  BY <3>1 DEF Lapse, TypeOK, Code
    <3>2. CASE Evict(k)  BY <3>2, DeleteStore DEF Evict, DeleteCode
    <3>. QED  BY <1>9, <3>1, <3>2
  <2>3. \A u \in users : u.given \/ \E v \in users : v.name = u.name /\ v.email = u.email /\ ~v.given
    BY DEF TypeOK, Account
  <2>. QED  BY <2>1, <2>2, <2>3 DEF Calm
<1>10. UNCHANGED vars => Calm  BY <1>0 DEF vars, requestVars
<1>11. Address # {} /\ Email \subseteq Key /\ Captcha \subseteq Key  BY DEF Address, Key
<1>. QED
  BY <1>1, <1>2, <1>3, <1>4, <1>5, <1>6, <1>7, <1>8, <1>9, <1>10, <1>11, <1>12
     DEF Next, VerifyCodeRead, VerifyCaptchaRead

\* What the steps that are not calm leave alone.
LEMMA OthersStay ==
  ASSUME TypeOK, NEW p \in Request,
         \/ \E k \in Key : VerifyRead(p, k)
         \/ VerifyLapsed(p) \/ VerifyDelete(p) \/ RegisterCheckEmail(p) \/ RegisterCreate(p)
         \/ SendStore(p)
  PROVE  Alone(p)
<1>1. ASSUME NEW k \in Key, VerifyRead(p, k) PROVE Alone(p)
  BY <1>1 DEF VerifyRead, Goto, Alone, TypeOK
<1>2. Done(p) => Alone(p)  BY DEF Done, Goto, Alone, TypeOK
<1>3. VerifyDelete(p) => Alone(p)
  BY <1>2 DEF VerifyDelete, Goto, Alone, TypeOK
<1>4. RegisterCheckEmail(p) => Alone(p)
  BY <1>2 DEF RegisterCheckEmail, Goto, Alone, TypeOK
<1>. QED  BY <1>1, <1>2, <1>3, <1>4 DEF VerifyLapsed, RegisterCreate, SendStore

-----------------------------------------------------------------------------
\* Verifications of one key never overlap.
VerifiesApart ==
  \A p, q \in Request : Verifying(p) /\ Verifying(q) /\ key[p] = key[q] => p = q

\* A code is held under one key, and nobody spent one that somebody is about to spend.
OnceInv ==
  /\ \A n \in 1..MaxIssued : spent[n] <= 1
  /\ \A p \in Request : At(p, "verify_delete") => held[p] \in 1..MaxIssued /\ spent[held[p]] = 0
  /\ \A p, q \in Request :
       At(p, "verify_delete") /\ At(q, "verify_delete") /\ held[p] = held[q] => key[p] = key[q]

\* A request that reads a code reads one that nobody spent.
LEMMA OnceRead ==
  ASSUME TypeOK, CodesInv, SpentStaysSpent, OnceInv, NEW p \in Request, NEW k \in Key,
         VerifyRead(p, k)
  PROVE  OnceInv'
<1>1. spent' = spent /\ held'[p] = store[k].code /\ key'[p] = k /\ Alone(p)
  BY OthersStay DEF VerifyRead, TypeOK
<1>2. ASSUME At(p, "verify_delete")'
      PROVE  /\ held'[p] \in 1..MaxIssued /\ spent[held'[p]] = 0
             /\ \A q \in Request : At(q, "verify_delete") /\ held[q] = held'[p] => key[q] = k
  <2>1. store[k] \in Code /\ store[k] # NoCode /\ ~store[k].lapsed
    BY <1>2 DEF VerifyRead, At, Goto, TypeOK
  <2>2. held'[p] \in 1..MaxIssued  BY <1>1, <2>1, StoredCode
  <2>3. ~(spent[held'[p]] > 0)  BY <1>1, <2>2 DEF SpentStaysSpent
  <2>. QED  BY <1>1, <2>2, <2>3, Numbers DEF CodesInv
<1>3. \A q \in Request \ {p} : At(q, "verify_delete")' => At(q, "verify_delete")
  BY <1>1 DEF Alone, At
<1>. QED  BY <1>1, <1>2, <1>3 DEF OnceInv, Alone, At

\* A request that spends a code is the only one about to.
LEMMA OnceSpent ==
  ASSUME TypeOK, OnceInv, VerifiesApart, NEW p \in Request, VerifyDelete(p)
  PROVE  OnceInv'
<1>. DEFINE n == held[p]
<1>1. At(p, "verify_delete") /\ n \in 1..MaxIssued /\ spent[n] = 0
  BY DEF VerifyDelete, OnceInv
<1>2. spent' = [spent EXCEPT ![n] = 1]  BY <1>1 DEF VerifyDelete
<1>3. Alone(p) /\ ~At(p, "verify_delete")'
  BY OthersStay DEF VerifyDelete, Done, Goto, At, TypeOK
<1>4. ASSUME NEW q \in Request \ {p}, At(q, "verify_delete") PROVE held[q] # n
  BY <1>1, <1>4 DEF OnceInv, VerifiesApart, Verifying, At
<1>5. \A j \in 1..MaxIssued : spent'[j] = IF j = n THEN 1 ELSE spent[j]
  BY <1>1, <1>2 DEF TypeOK
<1>6. \A j \in 1..MaxIssued : spent'[j] <= 1  BY <1>5 DEF OnceInv
<1>7. \A q \in Request : At(q, "verify_delete")'
        => /\ At(q, "verify_delete") /\ key'[q] = key[q] /\ held'[q] = held[q]
           /\ held[q] \in 1..MaxIssued /\ held[q] # n /\ spent[held[q]] = 0
  BY <1>3, <1>4 DEF Alone, At, OnceInv
<1>8. \A q \in Request : At(q, "verify_delete")' => spent'[held[q]] = 0
  BY <1>5, <1>7
<1>. QED  BY <1>6, <1>7, <1>8 DEF OnceInv

\* Every code is accepted once at most, as long as no two verifications of one address or
\* picture overlap: with the read and the del of VerificationCodeService.verifyCode in one
\* step, "one-time" would hold outright.
THEOREM CodesSpentOnceWhenApart ==
  Spec /\ []VerifiesApart => [](\A n \in 1..MaxIssued : spent[n] <= 1)
<1>1. Init => OnceInv  BY DEF Init, OnceInv, At
<1>2. TypeOK /\ CodesInv /\ SpentStaysSpent /\ OnceInv /\ VerifiesApart /\ [Next]_vars => OnceInv'
  <2>. SUFFICES ASSUME TypeOK, CodesInv, SpentStaysSpent, OnceInv, VerifiesApart, [Next]_vars
                PROVE  OnceInv'
    OBVIOUS
  <2>1. Calm => OnceInv'  BY DEF Calm, OnceInv, At
  <2>2. ASSUME NEW p \in Request, VerifyLapsed(p) \/ RegisterCheckEmail(p) \/ RegisterCreate(p)
                                  \/ SendStore(p)
        PROVE  OnceInv'
    <3>1. Alone(p)  BY <2>2, OthersStay
    <3>2. spent' = spent  BY <2>2 DEF VerifyLapsed, RegisterCheckEmail, RegisterCreate, SendStore
    <3>3. ~At(p, "verify_delete")'
      BY <2>2 DEF VerifyLapsed, RegisterCheckEmail, RegisterCreate, SendStore, Done, Goto, At,
                  TypeOK
    <3>. QED  BY <3>1, <3>2, <3>3 DEF OnceInv, Alone, At
  <2>3. ASSUME NEW k \in Captcha, GenerateCaptcha(k) PROVE OnceInv'
    BY <2>3 DEF GenerateCaptcha, requestVars, OnceInv, At
  <2>. QED  BY <2>1, <2>2, <2>3, OnceRead, OnceSpent, StepsSorted
<1>3. OnceInv => \A n \in 1..MaxIssued : spent[n] <= 1  BY DEF OnceInv
<1>. QED  BY <1>1, <1>2, <1>3, TypeCorrect, CodesStay, PTL DEF Spec

-----------------------------------------------------------------------------
\* No code is stored under a key while the verification of one before it is under way.
SendsApart ==
  \A p, q \in Request : Verifying(p) /\ At(q, "send_store") => key[p] # key[q]

\* What a verification is about to delete is what it read, or nothing.
OwnInv ==
  /\ clobbered = {}
  /\ \A p \in Request : Verifying(p) => /\ store[key[p]].code \in {0, held[p]}
                                        /\ latest[key[p]] # 0

\* A code that was issued and neither used nor lapsed can be presented, as long as no code
\* is sent while an older one of that address is being verified: besides that overlap, only
\* a send of the same address loses a code that was mailed, between its del and its set
\* (verification-code.service.ts:62, 83) or for good when it ends there.
THEOREM CodesKeptWhenApart ==
  Spec /\ []SendsApart
    => [](\A k \in Key : LET n == latest[k] IN
            \/ n = 0 \/ store[k].code = n \/ n \in dead \/ spent[n] > 0 \/ k \in cut
            \/ \E p \in Request : At(p, "send_store") /\ key[p] = k)
<1>. DEFINE Kept == \A k \in Key : LET n == latest[k] IN
                      \/ n = 0 \/ store[k].code = n \/ n \in dead \/ spent[n] > 0 \/ k \in cut
                      \/ \E p \in Request : At(p, "send_store") /\ key[p] = k
<1>1. Init => OwnInv  BY DEF Init, OwnInv, Verifying
<1>2. TypeOK /\ LapseInv /\ OwnInv /\ SendsApart /\ [Next]_vars => OwnInv'
  <2>. SUFFICES ASSUME TypeOK, LapseInv, OwnInv, SendsApart, [Next]_vars PROVE OwnInv'
    OBVIOUS
  <2>0. \A p \in Request : key[p] \in Key  BY DEF TypeOK
  <2>1. Calm => OwnInv'  BY <2>0 DEF Calm, OwnInv, Verifying
  <2>2. ASSUME NEW p \in Request, NEW k \in Key, VerifyRead(p, k) PROVE OwnInv'
    <3>1. Alone(p) /\ UNCHANGED <<store, latest, clobbered, cut>> /\ key'[p] = k
          /\ held'[p] = store[k].code /\ store[k] # NoCode
      BY <2>2, OthersStay DEF VerifyRead, TypeOK
    <3>2. store[k].code # 0
      <4>1. CASE store[k].lapsed
        <5>1. store[k].code \in 1..MaxIssued  BY <4>1 DEF LapseInv, TypeOK
        <5>. QED  BY <5>1
      <4>2. CASE ~store[k].lapsed
        <5>1. store[k].code \in 1..MaxIssued  BY <3>1, <4>2, StoredCode DEF TypeOK
        <5>. QED  BY <5>1
      <4>. QED  BY <4>1, <4>2
    <3>3. latest[k] # 0  BY <3>2 DEF LapseInv
    <3>. QED  BY <2>0, <3>1, <3>3 DEF OwnInv, Verifying, Alone
  <2>3. ASSUME NEW p \in Request, VerifyLapsed(p) \/ VerifyDelete(p) PROVE OwnInv'
    <3>1. Verifying(p) /\ Delete(p) /\ latest' = latest
      BY <2>3 DEF VerifyLapsed, VerifyDelete, Verifying, At
    <3>2. clobbered' = {}  BY <3>1 DEF Delete, OwnInv
    <3>3. \A k \in Key : store'[k].code \in {0, store[k].code}
      BY <2>0, <3>1, DeleteStore DEF Delete
    <3>4. Alone(p) /\ ~Verifying(p)'
      BY <2>3, OthersStay DEF VerifyLapsed, VerifyDelete, Done, Goto, Verifying, TypeOK
    <3>. QED  BY <2>0, <3>1, <3>2, <3>3, <3>4 DEF OwnInv, Alone, Verifying
  <2>4. ASSUME NEW p \in Request, RegisterCheckEmail(p) \/ RegisterCreate(p) PROVE OwnInv'
    <3>1. UNCHANGED <<store, latest, clobbered, cut>> /\ Alone(p)
      BY <2>4, OthersStay DEF RegisterCheckEmail, RegisterCreate
    <3>2. ~Verifying(p)'
      BY <2>4 DEF RegisterCheckEmail, RegisterCreate, Done, Goto, Verifying, TypeOK
    <3>. QED  BY <3>1, <3>2 DEF OwnInv, Alone, Verifying
  <2>5. ASSUME NEW p \in Request, SendStore(p) PROVE OwnInv'
    <3>1. At(p, "send_store") /\ IssueCode(key[p]) /\ Alone(p) /\ ~Verifying(p)'
      BY <2>5, OthersStay DEF SendStore, Done, Goto, Verifying, TypeOK
    <3>2. clobbered' = {}  BY <3>1 DEF IssueCode, OwnInv
    <3>3. \A k \in Key \ {key[p]} : store'[k].code = store[k].code /\ latest'[k] = latest[k]
      BY <2>0, <3>1, IssueStore DEF IssueCode, TypeOK
    <3>4. ASSUME NEW q \in Request, Verifying(q)'
          PROVE  Verifying(q) /\ key'[q] = key[q] /\ held'[q] = held[q] /\ key[q] \in Key \ {key[p]}
      BY <2>0, <3>1, <3>4 DEF SendsApart, Alone, Verifying
    <3>. QED  BY <3>2, <3>3, <3>4 DEF OwnInv
  <2>6. ASSUME NEW k \in Captcha, GenerateCaptcha(k) PROVE OwnInv'
    <3>1. k \in Key /\ latest[k] = 0 /\ IssueCode(k) /\ UNCHANGED <<pc, key, held>>
      BY <2>6 DEF GenerateCaptcha, requestVars, Key
    <3>2. clobbered' = {}  BY <3>1 DEF IssueCode, OwnInv
    <3>3. \A j \in Key \ {k} : store'[j].code = store[j].code /\ latest'[j] = latest[j]
      BY <3>1, IssueStore DEF IssueCode, TypeOK
    <3>4. \A q \in Request : Verifying(q) => key[q] \in Key \ {k}
      BY <2>0, <3>1 DEF OwnInv
    <3>. QED  BY <3>1, <3>2, <3>3, <3>4 DEF OwnInv, Verifying
  <2>. QED  BY <2>1, <2>2, <2>3, <2>4, <2>5, <2>6, StepsSorted
<1>3. OwnInv /\ CodeKept => Kept  BY DEF OwnInv, CodeKept
<1>. HIDE DEF Kept
<1>4. Spec /\ []SendsApart => []Kept
  BY <1>1, <1>2, <1>3, TypeCorrect, KeptStays, PTL DEF Spec
<1>. QED  BY <1>4 DEF Kept

-----------------------------------------------------------------------------
\* No two registrations of one address are both between their check and their write.
CreatesApart ==
  \A p, q \in Request :
    At(p, "register_create") /\ At(q, "register_create") /\ key[p] = key[q] => p = q

\* Accounts that registered have an address each, and the address about to be
\* registered is not theirs.
AddressInv ==
  /\ \A a, b \in users : a.email = b.email /\ a.email # "none" /\ ~a.given /\ ~b.given => a = b
  /\ \A p \in Request : At(p, "register_create")
       => key[p] \in Email /\ \A u \in users : u.email = key[p] => u.given

\* Every account that registered has its address to itself, among those that registered,
\* as long as no two registrations of one address overlap between the look-up and the
\* insert (auth.service.ts:438, 460).
THEOREM AddressesOwnWhenApart ==
  Spec /\ []CreatesApart
    => [](\A a, b \in users :
            a.email = b.email /\ a.email # "none" /\ ~a.given /\ ~b.given => a = b)
<1>. DEFINE Own == \A a, b \in users :
                     a.email = b.email /\ a.email # "none" /\ ~a.given /\ ~b.given => a = b
<1>1. Init => AddressInv  BY DEF Init, AddressInv, At
<1>2. TypeOK /\ MailKeys /\ OverlapInv' /\ AddressInv /\ CreatesApart /\ [Next]_vars => AddressInv'
  <2>. SUFFICES ASSUME TypeOK, MailKeys, OverlapInv', AddressInv, CreatesApart, [Next]_vars
                PROVE  AddressInv'
    OBVIOUS
  <2>n. "none" \notin Email  BY RegistrationConstants
  <2>1. CASE Calm
    <3>1. ASSUME NEW a \in users', NEW b \in users', a.email = b.email, a.email # "none",
                 ~a.given, ~b.given
          PROVE  a = b
      <4>1. PICK v \in users : v.name = a.name /\ v.email = a.email /\ ~v.given
        BY <2>1, <3>1 DEF Calm
      <4>2. PICK w \in users : w.name = b.name /\ w.email = b.email /\ ~w.given
        BY <2>1, <3>1 DEF Calm
      <4>3. v = w  BY <3>1, <4>1, <4>2 DEF AddressInv
      <4>. QED  BY <4>1, <4>2, <4>3 DEF OverlapInv
    <3>2. ASSUME NEW p \in Request, At(p, "register_create")'
          PROVE  key'[p] \in Email /\ \A u \in users' : u.email = key'[p] => u.given
      <4>1. At(p, "register_create") /\ key'[p] = key[p]  BY <2>1, <3>2 DEF Calm, At
      <4>2. key[p] \in Email /\ \A u \in users : u.email = key[p] => u.given
        BY <4>1 DEF AddressInv
      <4>. QED  BY <2>1, <2>n, <4>1, <4>2 DEF Calm
    <3>. QED  BY <3>1, <3>2 DEF AddressInv
  <2>2. ASSUME NEW p \in Request,
               (\E k \in Key : VerifyRead(p, k)) \/ VerifyLapsed(p) \/ VerifyDelete(p)
               \/ SendStore(p)
        PROVE  AddressInv'
    <3>1. Alone(p)  BY <2>2, OthersStay
    <3>2. users' = users /\ ~At(p, "register_create")'
      BY <2>2 DEF VerifyRead, VerifyLapsed, VerifyDelete, SendStore, Done, Goto, At, TypeOK
    <3>. QED  BY <3>1, <3>2 DEF AddressInv, Alone, At
  <2>3. ASSUME NEW p \in Request, RegisterCheckEmail(p) PROVE AddressInv'
    <3>1. Alone(p) /\ users' = users  BY <2>3, OthersStay DEF RegisterCheckEmail
    <3>2. At(p, "register_create")' => key'[p] = key[p] /\ ~EmailTaken(key[p])
      BY <2>3 DEF RegisterCheckEmail, EmailRefused, Done, Goto, At, TypeOK
    <3>3. key[p] \in Email  BY <2>3 DEF RegisterCheckEmail, MailKeys, At
    <3>. QED  BY <3>1, <3>2, <3>3 DEF AddressInv, Alone, At, EmailTaken
  <2>4. ASSUME NEW p \in Request, RegisterCreate(p) PROVE AddressInv'
    <3>. DEFINE new == [name |-> name[p], email |-> key[p], known |-> known[p], given |-> FALSE]
    <3>1. Alone(p) /\ ~At(p, "register_create")'
      BY <2>4, OthersStay DEF RegisterCreate, Done, Goto, At, TypeOK
    <3>2. users' = users \/ users' = users \cup {new}  BY <2>4 DEF RegisterCreate, Added
    <3>3. \A u \in users : u.email = key[p] => u.given
      BY <2>4 DEF RegisterCreate, AddressInv
    <3>4. ASSUME NEW q \in Request \ {p}, At(q, "register_create") PROVE key[q] # key[p]
      BY <2>4, <3>4 DEF RegisterCreate, CreatesApart
    <3>5. new.email = key[p] /\ ~new.given  OBVIOUS
    <3>. HIDE DEF new
    <3>6. \A a, b \in users' :
            a.email = b.email /\ a.email # "none" /\ ~a.given /\ ~b.given => a = b
      BY <3>2, <3>3, <3>5 DEF AddressInv
    <3>7. ASSUME NEW q \in Request, At(q, "register_create")'
          PROVE  key'[q] \in Email /\ \A u \in users' : u.email = key'[q] => u.given
      <4>1. q # p /\ At(q, "register_create") /\ key'[q] = key[q]
        BY <3>1, <3>7 DEF Alone, At
      <4>2. key[q] # new.email  BY <3>4, <3>5, <4>1
      <4>. QED  BY <3>2, <4>1, <4>2 DEF AddressInv
    <3>. QED  BY <3>6, <3>7 DEF AddressInv
  <2>5. ASSUME NEW k \in Captcha, GenerateCaptcha(k) PROVE AddressInv'
    BY <2>5 DEF GenerateCaptcha, requestVars, AddressInv, At
  <2>. QED  BY <2>1, <2>2, <2>3, <2>4, <2>5, StepsSorted
<1>3. AddressInv => Own  BY DEF AddressInv
<1>. HIDE DEF Own
<1>4. Spec /\ []CreatesApart => []Own
  BY <1>1, <1>2, <1>3, TypeAndKeys, OverlapStays, PTL DEF Spec
<1>. QED  BY <1>4 DEF Own
=============================================================================
