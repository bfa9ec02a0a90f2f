----------------------------- MODULE NoticeProofs -----------------------------
(***************************************************************************)
(* Theorems about Notice, for any number of dispatches, toggles, rules,    *)
(* infos and addresses.  Lemmas named ...Fields say what a step does to    *)
(* the dispatch that takes it; the invariants are proved from them.        *)
(***************************************************************************)
EXTENDS Notice, Integers, WellFoundedInduction, TLAPS

Bounds == MaxRule \in Nat /\ MaxInfo \in Nat /\ MaxEdit \in Nat /\ Size \subseteq Nat

LEMMA Numbers ==
  ASSUME Bounds
  PROVE  /\ Rule \subseteq Nat \ {0} /\ Rule \subseteq 0..MaxRule /\ 0 \in 0..MaxRule
         /\ Info \subseteq Nat \ {0} /\ Info \subseteq 0..MaxInfo /\ 0 \in 0..MaxInfo
         /\ Size \cup {0} \subseteq Nat
BY DEF Bounds, Rule, Info

-----------------------------------------------------------------------------
(***************************************************************************)
(* The parts of TypeOK                                                     *)
(***************************************************************************)

Amount == [Rule -> Size \cup {0}]
Verdict == {"none", "open", "no_rule", "no_address", "failed", "partly", "sent", "cut"}

RuleTypes ==
  /\ rules \in SUBSET Rule /\ on \in SUBSET rules /\ record \in SUBSET rules
  /\ mails \in Amount /\ made \in [Rule -> 0..MaxRule]
  /\ nextRule \in 1..(MaxRule + 1) /\ edits \in 0..MaxEdit
  /\ seen \in [Editor -> [rule : 0..MaxRule, on : BOOLEAN]]
InfoTypes ==
  /\ infos \in SUBSET Info /\ nextInfo \in 1..(MaxInfo + 1)
  /\ content \in [Info -> 0..MaxRule] /\ lead \in [Info -> 0..MaxRule]
  /\ success \in [Info -> Nat] /\ total \in [Info -> Nat]
  /\ logOk \in [Info -> Nat] /\ logBad \in [Info -> Nat]
  /\ cut \in SUBSET infos /\ short \in SUBSET infos
JobTypes ==
  /\ pc \in [Dispatch -> Step]
  /\ todo \in [Dispatch -> SUBSET Rule] /\ quiet \in [Dispatch -> SUBSET Rule]
  /\ size \in [Dispatch -> Amount]
  /\ info \in [Dispatch -> 0..MaxInfo] /\ first \in [Dispatch -> BOOLEAN]
  /\ cur \in [Dispatch -> 0..MaxRule] /\ text \in [Dispatch -> 0..MaxRule]
  /\ left \in [Dispatch -> Nat] /\ got \in [Dispatch -> Nat]
  /\ last \in [Dispatch -> BOOLEAN]
  /\ sumOk \in [Dispatch -> Nat] /\ sumAll \in [Dispatch -> Nat]
  /\ verdict \in [Dispatch -> Verdict]

LEMMA TypeParts == TypeOK <=> RuleTypes /\ InfoTypes /\ JobTypes
BY DEF TypeOK, RuleTypes, InfoTypes, JobTypes, Amount, Verdict

\* How a dispatch stands with its counts: got is among the mails of the rule at work.
Stands(d) ==
  /\ pc[d] = "idle" <=> verdict[d] # "open"
  /\ pc[d] \in {"idle", "info"} => info[d] = 0 /\ first[d] /\ sumOk[d] = 0 /\ sumAll[d] = 0
  /\ pc[d] \in {"idle", "stats"} => todo[d] = {}
  /\ pc[d] \notin {"mail", "log"} => left[d] = 0 /\ got[d] = 0
  /\ pc[d] \in {"mail", "log"} => /\ cur[d] \in Rule \ todo[d]
                                  /\ left[d] + got[d] <= size[d][cur[d]]
  /\ pc[d] = "mail" => left[d] > 0
  /\ pc[d] = "log" => info[d] # 0
  /\ sumOk[d] <= sumAll[d]
AllStand == \A d \in Dispatch : Stands(d)

-----------------------------------------------------------------------------
(***************************************************************************)
(* What the steps of a dispatch do to it                                   *)
(***************************************************************************)

\* The other dispatches are left alone.
Alone(d) ==
  \A e \in Dispatch \ {d} :
    /\ pc'[e] = pc[e] /\ todo'[e] = todo[e] /\ quiet'[e] = quiet[e] /\ size'[e] = size[e]
    /\ info'[e] = info[e] /\ first'[e] = first[e] /\ cur'[e] = cur[e] /\ text'[e] = text[e]
    /\ left'[e] = left[e] /\ got'[e] = got[e] /\ last'[e] = last[e]
    /\ sumOk'[e] = sumOk[e] /\ sumAll'[e] = sumAll[e] /\ verdict'[e] = verdict[e]

\* Where a dispatch goes when the mails of its rule are sent.
Then(d, S, t) == IF Saves(d, t) THEN "content" ELSE AfterRule(S)

LEMMA ThenWhere ==
  ASSUME NEW d, NEW S, NEW t
  PROVE  /\ Then(d, S, t) \in {"content", "stats", "rule"}
         /\ Then(d, S, t) = "stats" => S = {}
BY DEF Then, AfterRule

LEMMA FindRulesFields ==
  ASSUME Bounds, RuleTypes, JobTypes, NEW d \in Dispatch, FindRules(d)
  PROVE  /\ JobTypes' /\ Alone(d)
         /\ pc[d] = "idle" /\ pc'[d] \in {"info", "rule"}
         /\ verdict'[d] = "open" /\ size'[d] \in Amount /\ todo'[d] \subseteq Rule
         /\ UNCHANGED <<info, first, workVars, sumVars>>
<1>. USE DEF JobTypes, workVars, sumVars
<1>1. on \subseteq Rule  BY DEF RuleTypes
<1>2. \A z \in Sizes(on) : z \in Amount
  BY DEF Sizes, Amount, RuleTypes
<1>3. PICK z \in Sizes(on) : size' = [size EXCEPT ![d] = z]  BY DEF FindRules
<1>4. size' \in [Dispatch -> Amount] /\ size'[d] = z  BY <1>2, <1>3
<1>5. /\ pc[d] = "idle"
      /\ pc' = [pc EXCEPT ![d] = IF on \cap record # {} THEN "info" ELSE "rule"]
      /\ todo' = [todo EXCEPT ![d] = on]
      /\ quiet' = [quiet EXCEPT ![d] = on \ record]
      /\ verdict' = [verdict EXCEPT ![d] = "open"]
      /\ UNCHANGED <<info, first, workVars, sumVars>>
  BY DEF FindRules, Goto
<1>6. pc' \in [Dispatch -> Step] /\ pc'[d] \in {"info", "rule"}  BY <1>5 DEF Step
<1>7. todo' \in [Dispatch -> SUBSET Rule] /\ todo'[d] = on /\ quiet' \in [Dispatch -> SUBSET Rule]
  BY <1>1, <1>5
<1>8. verdict' \in [Dispatch -> Verdict] /\ verdict'[d] = "open"  BY <1>5 DEF Verdict
<1>9. Alone(d)  BY <1>3, <1>5 DEF Alone
<1>. QED  BY <1>1, <1>2, <1>4, <1>5, <1>6, <1>7, <1>8, <1>9

LEMMA NoRuleFields ==
  ASSUME JobTypes, NEW d \in Dispatch, NoRule(d)
  PROVE  /\ JobTypes' /\ Alone(d)
         /\ pc[d] = "idle" /\ verdict'[d] = "no_rule"
         /\ UNCHANGED <<pc, todo, quiet, size, info, first, workVars, sumVars>>
BY DEF JobTypes, NoRule, Alone, Verdict, workVars, sumVars

LEMMA CreateInfoFields ==
  ASSUME Bounds, InfoTypes, JobTypes, NEW d \in Dispatch, CreateInfo(d)
  PROVE  /\ JobTypes' /\ Alone(d)
         /\ pc[d] = "info" /\ pc'[d] = "rule" /\ info'[d] = nextInfo /\ nextInfo \in Info
         /\ UNCHANGED <<todo, quiet, size, first, workVars, sumVars, verdict>>
<1>. USE DEF JobTypes, workVars, sumVars
<1>1. nextInfo \in Info /\ nextInfo \in 0..MaxInfo
  BY Numbers DEF CreateInfo, InfoTypes, Bounds, Info
<1>2. /\ pc[d] = "info" /\ pc' = [pc EXCEPT ![d] = "rule"]
      /\ info' = [info EXCEPT ![d] = nextInfo]
      /\ UNCHANGED <<todo, quiet, size, first, workVars, sumVars, verdict>>
  BY DEF CreateInfo, Goto
<1>3. pc' \in [Dispatch -> Step] /\ pc'[d] = "rule"  BY <1>2 DEF Step
<1>4. info' \in [Dispatch -> 0..MaxInfo] /\ info'[d] = nextInfo  BY <1>1, <1>2
<1>. QED  BY <1>1, <1>2, <1>3, <1>4 DEF Alone

LEMMA RuleSentFields ==
  ASSUME Bounds, JobTypes, NEW d \in Dispatch, NEW S, NEW k \in Rule, NEW t, NEW g \in Nat,
         RuleSent(d, S, k, t, g)
  PROVE  /\ sumOk' \in [Dispatch -> Nat] /\ sumAll' \in [Dispatch -> Nat]
         /\ pc' \in [Dispatch -> Step] /\ pc'[d] = Then(d, S, t)
         /\ sumOk'[d] = sumOk[d] + g /\ sumAll'[d] = sumAll[d] + size[d][k]
         /\ \A e \in Dispatch \ {d} :
              pc'[e] = pc[e] /\ sumOk'[e] = sumOk[e] /\ sumAll'[e] = sumAll[e]
<1>. USE DEF JobTypes
<1>1. size[d][k] \in Nat  BY Numbers DEF Amount
<1>2. sumOk[d] + g \in Nat /\ sumAll[d] + size[d][k] \in Nat  BY <1>1
<1>3. /\ sumOk' = [sumOk EXCEPT ![d] = @ + g]
      /\ sumAll' = [sumAll EXCEPT ![d] = @ + size[d][k]]
      /\ pc' = [pc EXCEPT ![d] = Then(d, S, t)]
  BY DEF RuleSent, Goto, Then
<1>4. Then(d, S, t) \in Step  BY ThenWhere DEF Step
<1>. QED  BY <1>2, <1>3, <1>4

LEMMA MailDoneFields ==
  ASSUME Bounds, JobTypes, NEW d \in Dispatch, cur[d] \in Rule, NEW n \in Nat, NEW g \in Nat,
         MailDone(d, n, g)
  PROVE  /\ sumOk' \in [Dispatch -> Nat] /\ sumAll' \in [Dispatch -> Nat]
         /\ pc' \in [Dispatch -> Step] /\ got' \in [Dispatch -> Nat]
         /\ \/ /\ n > 0 /\ pc'[d] = "mail" /\ got'[d] = g
               /\ sumOk'[d] = sumOk[d] /\ sumAll'[d] = sumAll[d]
            \/ /\ n = 0 /\ pc'[d] = Then(d, todo[d], text[d]) /\ got'[d] = 0
               /\ sumOk'[d] = sumOk[d] + g /\ sumAll'[d] = sumAll[d] + size[d][cur[d]]
         /\ \A e \in Dispatch \ {d} :
              /\ pc'[e] = pc[e] /\ sumOk'[e] = sumOk[e] /\ sumAll'[e] = sumAll[e]
              /\ got'[e] = got[e]
<1>1. CASE n > 0
  BY <1>1 DEF MailDone, Goto, JobTypes, Step, sumVars
<1>2. CASE n = 0
  <2>1. got' = [got EXCEPT ![d] = 0] /\ RuleSent(d, todo[d], cur[d], text[d], g)
    BY <1>2 DEF MailDone
  <2>2. /\ got' \in [Dispatch -> Nat] /\ got'[d] = 0
        /\ \A e \in Dispatch \ {d} : got'[e] = got[e]
    BY <2>1 DEF JobTypes
  <2>. QED  BY <1>2, <2>1, <2>2, RuleSentFields
<1>. QED  BY <1>1, <1>2

LEMMA StartRuleFields ==
  ASSUME Bounds, JobTypes, AllStand, NEW d \in Dispatch, StartRule(d)
  PROVE  /\ JobTypes' /\ Alone(d)
         /\ pc[d] = "rule"
         /\ UNCHANGED <<size, quiet, info, first, got, last, verdict>>
         /\ \E k \in todo[d], t \in 0..MaxRule :
              /\ todo'[d] = todo[d] \ {k} /\ cur'[d] = k /\ text'[d] = t
              /\ left'[d] = size[d][k]
              /\ sumOk'[d] = sumOk[d] /\ sumAll'[d] = sumAll[d]
              /\ \/ size[d][k] = 0 /\ pc'[d] = Then(d, todo'[d], t)
                 \/ size[d][k] > 0 /\ pc'[d] = "mail"
              /\ lead' = IF info[d] \in infos /\ lead[info[d]] = 0
                         THEN [lead EXCEPT ![info[d]] = t] ELSE lead
<1>. DEFINE Sent(k, t) ==
        /\ pc[d] = "rule" /\ Turn(d, k)
        /\ todo' = [todo EXCEPT ![d] = @ \ {k}]
        /\ cur' = [cur EXCEPT ![d] = k]
        /\ text' = [text EXCEPT ![d] = t]
        /\ left' = [left EXCEPT ![d] = size[d][k]]
        /\ IF size[d][k] = 0 THEN RuleSent(d, todo[d] \ {k}, k, t, 0)
           ELSE Goto(d, "mail") /\ UNCHANGED sumVars
        /\ lead' = IF info[d] \in infos /\ lead[info[d]] = 0
                   THEN [lead EXCEPT ![info[d]] = t] ELSE lead
        /\ UNCHANGED <<size, quiet, info, first, got, last, verdict>>
<1>0. PICK k \in Rule : \E t \in Texts(k) : Sent(k, t)
  BY DEF StartRule
<1>1. PICK t \in Texts(k) : Sent(k, t)
  BY <1>0
<1>2. k \in todo[d] /\ k \in 0..MaxRule /\ t \in 0..MaxRule
  BY <1>1, Numbers DEF Turn, Texts
<1>3. size[d][k] \in Nat  BY Numbers DEF JobTypes, Amount
<1>4. /\ todo' \in [Dispatch -> SUBSET Rule] /\ todo'[d] = todo[d] \ {k}
      /\ cur' \in [Dispatch -> 0..MaxRule] /\ cur'[d] = k
      /\ text' \in [Dispatch -> 0..MaxRule] /\ text'[d] = t
      /\ left' \in [Dispatch -> Nat] /\ left'[d] = size[d][k]
      /\ \A e \in Dispatch \ {d} : /\ todo'[e] = todo[e] /\ cur'[e] = cur[e]
                                   /\ text'[e] = text[e] /\ left'[e] = left[e]
  BY <1>1, <1>2, <1>3 DEF JobTypes
<1>5. /\ sumOk' \in [Dispatch -> Nat] /\ sumAll' \in [Dispatch -> Nat]
      /\ pc' \in [Dispatch -> Step]
      /\ sumOk'[d] = sumOk[d] /\ sumAll'[d] = sumAll[d]
      /\ \/ size[d][k] = 0 /\ pc'[d] = Then(d, todo'[d], t)
         \/ size[d][k] > 0 /\ pc'[d] = "mail"
      /\ \A e \in Dispatch \ {d} :
           pc'[e] = pc[e] /\ sumOk'[e] = sumOk[e] /\ sumAll'[e] = sumAll[e]
  <2>1. CASE size[d][k] = 0
    <3>1. RuleSent(d, todo[d] \ {k}, k, t, 0)  BY <1>1, <2>1
    <3>2. sumOk[d] \in Nat /\ sumAll[d] \in Nat /\ 0 \in Nat  BY DEF JobTypes
    <3>3. /\ sumOk' \in [Dispatch -> Nat] /\ sumAll' \in [Dispatch -> Nat]
          /\ pc' \in [Dispatch -> Step] /\ pc'[d] = Then(d, todo[d] \ {k}, t)
          /\ sumOk'[d] = sumOk[d] + 0 /\ sumAll'[d] = sumAll[d] + size[d][k]
          /\ \A e \in Dispatch \ {d} :
               pc'[e] = pc[e] /\ sumOk'[e] = sumOk[e] /\ sumAll'[e] = sumAll[e]
      BY <3>1, <3>2, RuleSentFields
    <3>4. sumOk'[d] = sumOk[d] /\ sumAll'[d] = sumAll[d]  BY <2>1, <3>2, <3>3
    <3>5. pc'[d] = Then(d, todo'[d], t)  BY <1>4, <3>3
    <3>. QED  BY <2>1, <3>3, <3>4, <3>5
  <2>2. CASE size[d][k] > 0
    <3>1. pc' = [pc EXCEPT ![d] = "mail"] /\ UNCHANGED sumVars
      BY <1>1, <1>3, <2>2 DEF Goto
    <3>. QED  BY <2>2, <3>1 DEF JobTypes, Step, sumVars
  <2>. QED  BY <1>3, <2>1, <2>2
<1>6. Alone(d)  BY <1>1, <1>4, <1>5 DEF Alone
<1>7. JobTypes'  BY <1>1, <1>4, <1>5 DEF JobTypes
<1>. QED  BY <1>1, <1>2, <1>4, <1>5, <1>6, <1>7

\* One if the mail server took the mail.
Taken(b) == IF b THEN 1 ELSE 0

LEMMA SendMailFields ==
  ASSUME Bounds, JobTypes, AllStand, NEW d \in Dispatch, SendMail(d)
  PROVE  /\ JobTypes' /\ Alone(d)
         /\ pc[d] = "mail" /\ left'[d] = left[d] - 1 /\ left[d] > 0
         /\ UNCHANGED <<todo, size, quiet, info, first, cur, text, verdict>>
         /\ \/ /\ Recorded(d) /\ pc'[d] = "log" /\ short' = short
               /\ got'[d] = got[d] + Taken(last'[d])
               /\ sumOk'[d] = sumOk[d] /\ sumAll'[d] = sumAll[d]
            \/ /\ ~Recorded(d) /\ left'[d] > 0 /\ pc'[d] = "mail"
               /\ got'[d] = got[d] + Taken(last'[d])
               /\ sumOk'[d] = sumOk[d] /\ sumAll'[d] = sumAll[d]
            \/ /\ ~Recorded(d) /\ left'[d] = 0 /\ pc'[d] = Then(d, todo[d], text[d])
               /\ got'[d] = 0
               /\ sumOk'[d] = sumOk[d] + got[d] + Taken(last'[d])
               /\ sumAll'[d] = sumAll[d] + size[d][cur[d]]
         /\ ~Recorded(d) => short' = IF info[d] \notin infos THEN short
                                     ELSE short \cup {info[d]}
<1>1. PICK b \in BOOLEAN :
        /\ last' = [last EXCEPT ![d] = b]
        /\ IF Recorded(d)
           THEN Goto(d, "log") /\ got' = [got EXCEPT ![d] = @ + IF b THEN 1 ELSE 0]
                /\ UNCHANGED sumVars
           ELSE MailDone(d, left'[d], got[d] + IF b THEN 1 ELSE 0)
  BY DEF SendMail
<1>2. /\ pc[d] = "mail" /\ left' = [left EXCEPT ![d] = @ - 1]
      /\ short' = IF Recorded(d) \/ info[d] \notin infos THEN short ELSE short \cup {info[d]}
      /\ UNCHANGED <<todo, size, quiet, info, first, cur, text, verdict>>
  BY DEF SendMail
<1>3. left[d] > 0 /\ left[d] \in Nat /\ cur[d] \in Rule
  BY <1>2 DEF AllStand, Stands, JobTypes
<1>4. left[d] - 1 \in Nat  BY <1>3
<1>5. /\ left' \in [Dispatch -> Nat] /\ left'[d] = left[d] - 1
      /\ last' \in [Dispatch -> BOOLEAN] /\ last'[d] = b
      /\ \A e \in Dispatch \ {d} : left'[e] = left[e] /\ last'[e] = last[e]
  BY <1>1, <1>2, <1>4 DEF JobTypes
<1>. DEFINE g == got[d] + IF b THEN 1 ELSE 0
<1>6. g = got[d] + Taken(last'[d]) /\ g \in Nat /\ got[d] \in Nat
      /\ sumOk[d] \in Nat /\ Taken(last'[d]) \in Nat
  BY <1>5 DEF Taken, JobTypes
<1>7. CASE Recorded(d)
  <2>1. pc' = [pc EXCEPT ![d] = "log"] /\ got' = [got EXCEPT ![d] = g] /\ UNCHANGED sumVars
    BY <1>1, <1>7 DEF Goto
  <2>. HIDE DEF g
  <2>2. pc' \in [Dispatch -> Step] /\ pc'[d] = "log" /\ got' \in [Dispatch -> Nat] /\ got'[d] = g
    BY <2>1, <1>6 DEF JobTypes, Step
  <2>3. Alone(d)  BY <1>2, <1>5, <2>1 DEF Alone, sumVars, JobTypes
  <2>4. JobTypes'  BY <1>2, <1>5, <2>1, <2>2 DEF JobTypes, sumVars
  <2>. QED  BY <1>2, <1>3, <1>5, <1>6, <1>7, <2>1, <2>2, <2>3, <2>4 DEF sumVars
<1>8. CASE ~Recorded(d)
  <2>1. MailDone(d, left'[d], g)  BY <1>1, <1>8
  <2>2. left'[d] \in Nat  BY <1>4, <1>5
  <2>. HIDE DEF g
  <2>3. /\ sumOk' \in [Dispatch -> Nat] /\ sumAll' \in [Dispatch -> Nat]
        /\ pc' \in [Dispatch -> Step] /\ got' \in [Dispatch -> Nat]
        /\ \/ /\ left'[d] > 0 /\ pc'[d] = "mail" /\ got'[d] = g
              /\ sumOk'[d] = sumOk[d] /\ sumAll'[d] = sumAll[d]
           \/ /\ left'[d] = 0 /\ pc'[d] = Then(d, todo[d], text[d]) /\ got'[d] = 0
              /\ sumOk'[d] = sumOk[d] + g /\ sumAll'[d] = sumAll[d] + size[d][cur[d]]
        /\ \A e \in Dispatch \ {d} :
             /\ pc'[e] = pc[e] /\ sumOk'[e] = sumOk[e] /\ sumAll'[e] = sumAll[e]
             /\ got'[e] = got[e]
    BY <1>3, <1>6, <2>1, <2>2, MailDoneFields
  <2>4. Alone(d)  BY <1>2, <1>5, <2>3 DEF Alone
  <2>5. JobTypes'  BY <1>2, <1>5, <2>3 DEF JobTypes
  <2>6. sumOk[d] + g = sumOk[d] + got[d] + Taken(last'[d])  BY <1>6
  <2>. QED  BY <1>2, <1>3, <1>5, <1>6, <1>8, <2>3, <2>4, <2>5, <2>6
<1>. QED  BY <1>7, <1>8

LEMMA WriteLogFields ==
  ASSUME Bounds, JobTypes, AllStand, NEW d \in Dispatch, WriteLog(d)
  PROVE  /\ JobTypes' /\ Alone(d)
         /\ pc[d] = "log"
         /\ UNCHANGED <<todo, size, quiet, info, first, cur, text, left, last, verdict>>
         /\ \/ /\ left[d] > 0 /\ pc'[d] = "mail" /\ got'[d] = got[d]
               /\ sumOk'[d] = sumOk[d] /\ sumAll'[d] = sumAll[d]
            \/ /\ left[d] = 0 /\ pc'[d] = Then(d, todo[d], text[d]) /\ got'[d] = 0
               /\ sumOk'[d] = sumOk[d] + got[d] /\ sumAll'[d] = sumAll[d] + size[d][cur[d]]
<1>1. /\ pc[d] = "log" /\ MailDone(d, left[d], got[d])
      /\ UNCHANGED <<todo, size, quiet, info, first, cur, text, left, last, verdict>>
  BY DEF WriteLog
<1>2. cur[d] \in Rule /\ left[d] \in Nat /\ got[d] \in Nat
  BY <1>1 DEF AllStand, Stands, JobTypes
<1>3. /\ sumOk' \in [Dispatch -> Nat] /\ sumAll' \in [Dispatch -> Nat]
      /\ pc' \in [Dispatch -> Step] /\ got' \in [Dispatch -> Nat]
      /\ \/ /\ left[d] > 0 /\ pc'[d] = "mail" /\ got'[d] = got[d]
            /\ sumOk'[d] = sumOk[d] /\ sumAll'[d] = sumAll[d]
         \/ /\ left[d] = 0 /\ pc'[d] = Then(d, todo[d], text[d]) /\ got'[d] = 0
            /\ sumOk'[d] = sumOk[d] + got[d] /\ sumAll'[d] = sumAll[d] + size[d][cur[d]]
      /\ \A e \in Dispatch \ {d} :
           /\ pc'[e] = pc[e] /\ sumOk'[e] = sumOk[e] /\ sumAll'[e] = sumAll[e]
           /\ got'[e] = got[e]
  BY <1>1, <1>2, MailDoneFields
<1>. QED  BY <1>1, <1>3 DEF Alone, JobTypes

LEMMA WriteContentFields ==
  ASSUME JobTypes, NEW d \in Dispatch, WriteContent(d)
  PROVE  /\ JobTypes' /\ Alone(d)
         /\ pc[d] = "content" /\ pc'[d] = AfterRule(todo[d])
         /\ UNCHANGED <<todo, size, quiet, info, workVars, sumVars, verdict>>
<1>1. /\ pc[d] = "content" /\ pc' = [pc EXCEPT ![d] = AfterRule(todo[d])]
      /\ UNCHANGED <<todo, size, quiet, info, workVars, sumVars, verdict>>
      /\ first' = first \/ first' = [first EXCEPT ![d] = FALSE]
  BY DEF WriteContent, Goto
<1>2. AfterRule(todo[d]) \in Step  BY DEF AfterRule, Step
<1>. QED  BY <1>1, <1>2 DEF Alone, JobTypes, workVars, sumVars

LEMMA EndFields ==
  ASSUME Bounds, JobTypes, NEW d \in Dispatch, NEW v \in Verdict \ {"open"}, End(d, v)
  PROVE  /\ JobTypes' /\ Alone(d)
         /\ pc'[d] = "idle" /\ verdict'[d] = v /\ verdict'[d] # "open"
         /\ todo'[d] = {} /\ info'[d] = 0 /\ first'[d] /\ cur'[d] = 0
         /\ left'[d] = 0 /\ got'[d] = 0 /\ sumOk'[d] = 0 /\ sumAll'[d] = 0
<1>. DEFINE none == [k \in Rule |-> 0]
<1>1. none \in Amount /\ 0 \in 0..MaxRule /\ 0 \in 0..MaxInfo
  BY Numbers DEF Amount
<1>. USE DEF JobTypes, End, Goto
<1>2. size' = [size EXCEPT ![d] = none]  OBVIOUS
<1>3. size' \in [Dispatch -> Amount] /\ \A e \in Dispatch \ {d} : size'[e] = size[e]
  BY <1>1, <1>2
<1>4. /\ pc' \in [Dispatch -> Step] /\ pc'[d] = "idle"
      /\ todo' \in [Dispatch -> SUBSET Rule] /\ todo'[d] = {}
      /\ quiet' \in [Dispatch -> SUBSET Rule]
      /\ \A e \in Dispatch \ {d} : pc'[e] = pc[e] /\ todo'[e] = todo[e] /\ quiet'[e] = quiet[e]
  BY DEF Step
<1>5. /\ info' \in [Dispatch -> 0..MaxInfo] /\ info'[d] = 0
      /\ first' \in [Dispatch -> BOOLEAN] /\ first'[d]
      /\ cur' \in [Dispatch -> 0..MaxRule] /\ cur'[d] = 0
      /\ text' \in [Dispatch -> 0..MaxRule]
      /\ \A e \in Dispatch \ {d} : /\ info'[e] = info[e] /\ first'[e] = first[e]
                                   /\ cur'[e] = cur[e] /\ text'[e] = text[e]
  BY <1>1
<1>6. /\ left' \in [Dispatch -> Nat] /\ left'[d] = 0 /\ got' \in [Dispatch -> Nat] /\ got'[d] = 0
      /\ last' \in [Dispatch -> BOOLEAN]
      /\ sumOk' \in [Dispatch -> Nat] /\ sumOk'[d] = 0
      /\ sumAll' \in [Dispatch -> Nat] /\ sumAll'[d] = 0
      /\ \A e \in Dispatch \ {d} : /\ left'[e] = left[e] /\ got'[e] = got[e]
                                   /\ last'[e] = last[e]
                                   /\ sumOk'[e] = sumOk[e] /\ sumAll'[e] = sumAll[e]
  OBVIOUS
<1>7. /\ verdict' \in [Dispatch -> Verdict] /\ verdict'[d] = v
      /\ \A e \in Dispatch \ {d} : verdict'[e] = verdict[e]
  OBVIOUS
<1>8. Alone(d)  BY <1>3, <1>4, <1>5, <1>6, <1>7 DEF Alone
<1>. QED  BY <1>3, <1>4, <1>5, <1>6, <1>7, <1>8

\* Every dispatch that goes on ends with one of the answers of triggerEvent.
LEMMA Ends ==
  ASSUME NEW d \in Dispatch, WriteStats(d) \/ Abort(d)
  PROVE  \E v \in Verdict \ {"open"} : End(d, v)
<1>1. Message(sumOk[d], sumAll[d]) \in Verdict \ {"open"}  BY DEF Message, Verdict
<1>2. "cut" \in Verdict \ {"open"}  BY DEF Verdict
<1>. QED  BY <1>1, <1>2 DEF WriteStats, Abort

-----------------------------------------------------------------------------
(***************************************************************************)
(* Shape                                                                   *)
(***************************************************************************)

\* What the services of the administrators leave alone.
Admin ==
  \/ \E b \in BOOLEAN, rec \in BOOLEAN, n \in Size :
       RuleCreate(b, rec, n) \/ \E k \in Rule : RuleUpdate(k, b, rec, n)
  \/ \E k \in Rule : RuleRemove(k)
  \/ \E e \in Editor : ToggleWrite(e) \/ \E k \in Rule : ToggleFind(e, k)

LEMMA AdminQuiet == ASSUME Admin PROVE UNCHANGED <<infoVars, jobVars, flawVars>>
BY DEF Admin, RuleCreate, RuleUpdate, RuleRemove, ToggleFind, ToggleWrite

LEMMA RemoveQuiet ==
  ASSUME NEW i \in Info, InfoRemove(i)
  PROVE  UNCHANGED <<nextInfo, ruleVars, jobVars, seen>>
BY DEF InfoRemove

\* Dispatches leave the rules alone.
LEMMA DispatchQuiet ==
  ASSUME NEW d \in Dispatch, NoRule(d) \/ FindRules(d) \/ Dispatching(d) \/ Abort(d)
  PROVE  UNCHANGED <<ruleVars, seen>>
BY DEF NoRule, FindRules, Dispatching, CreateInfo, StartRule, SendMail, WriteLog, WriteContent,
       WriteStats, Abort

LEMMA NextParts ==
  Next <=> \/ Admin
           \/ \E i \in Info : InfoRemove(i)
           \/ \E d \in Dispatch : \/ NoRule(d) \/ FindRules(d) \/ CreateInfo(d) \/ StartRule(d)
                                  \/ SendMail(d) \/ WriteLog(d) \/ WriteContent(d)
                                  \/ WriteStats(d) \/ Abort(d)
BY DEF Next, Admin, Dispatching

\* The columns that a rule is written with.
LEMMA WrittenType ==
  ASSUME RuleTypes, NEW k \in Rule, NEW b \in BOOLEAN, NEW rec \in BOOLEAN, NEW n \in Size,
         k \in rules', rules \subseteq rules', RuleWritten(k, b, rec, n)
  PROVE  on' \in SUBSET rules' /\ record' \in SUBSET rules' /\ mails' \in Amount
BY DEF RuleWritten, RuleTypes, Amount

LEMMA AdminTypes == ASSUME Bounds, RuleTypes, Admin PROVE RuleTypes'
<1>1. edits < MaxEdit => edits + 1 \in 0..MaxEdit  BY DEF RuleTypes, Bounds
<1>2. ASSUME NEW b \in BOOLEAN, NEW rec \in BOOLEAN, NEW n \in Size, RuleCreate(b, rec, n)
      PROVE  RuleTypes'
  <2>1. nextRule \in Rule /\ nextRule \in 0..MaxRule /\ nextRule + 1 \in 1..(MaxRule + 1)
        /\ (nextRule > 1 => nextRule - 1 \in Rule)
    BY <1>2, Numbers DEF RuleCreate, RuleTypes, Rule, Bounds
  <2>2. /\ rules' = rules \cup {nextRule} /\ RuleWritten(nextRule, b, rec, n)
        /\ nextRule' = nextRule + 1 /\ UNCHANGED <<edits, seen>>
    BY <1>2 DEF RuleCreate
  <2>3. /\ on' \in SUBSET rules' /\ record' \in SUBSET rules' /\ mails' \in Amount
    BY <2>1, <2>2, WrittenType
  <2>4. made' \in [Rule -> 0..MaxRule]
    BY <1>2, <2>1 DEF RuleCreate, RuleTypes
  <2>. QED  BY <2>1, <2>2, <2>3, <2>4 DEF RuleTypes
<1>3. ASSUME NEW b \in BOOLEAN, NEW rec \in BOOLEAN, NEW n \in Size, NEW k \in Rule,
             RuleUpdate(k, b, rec, n)
      PROVE  RuleTypes'
  <2>1. /\ k \in rules /\ RuleWritten(k, b, rec, n) /\ edits < MaxEdit /\ edits' = edits + 1
        /\ UNCHANGED <<rules, made, nextRule, seen>>
    BY <1>3 DEF RuleUpdate, Edited
  <2>2. /\ on' \in SUBSET rules' /\ record' \in SUBSET rules' /\ mails' \in Amount
    BY <2>1, WrittenType
  <2>. QED  BY <1>1, <2>1, <2>2 DEF RuleTypes
<1>4. ASSUME NEW k \in Rule, RuleRemove(k) PROVE RuleTypes'
  <2>1. /\ rules' = rules \ {k} /\ on' = on \ {k} /\ record' = record \ {k}
        /\ mails' = [mails EXCEPT ![k] = 0] /\ edits < MaxEdit /\ edits' = edits + 1
        /\ UNCHANGED <<made, nextRule, seen>>
    BY <1>4 DEF RuleRemove, Edited
  <2>2. mails' \in Amount  BY <2>1 DEF RuleTypes, Amount
  <2>. QED  BY <1>1, <2>1, <2>2 DEF RuleTypes
<1>5. ASSUME NEW e \in Editor, NEW k \in Rule, ToggleFind(e, k) PROVE RuleTypes'
  <2>1. [rule |-> k, on |-> k \in on] \in [rule : 0..MaxRule, on : BOOLEAN]
    BY Numbers
  <2>2. seen' \in [Editor -> [rule : 0..MaxRule, on : BOOLEAN]]
    BY <1>5, <2>1 DEF ToggleFind, RuleTypes
  <2>. QED  BY <1>1, <1>5, <2>2 DEF ToggleFind, Edited, RuleTypes
<1>6. ASSUME NEW e \in Editor, ToggleWrite(e) PROVE RuleTypes'
  <2>1. Nothing \in [rule : 0..MaxRule, on : BOOLEAN]  BY Numbers DEF Nothing
  <2>2. seen' \in [Editor -> [rule : 0..MaxRule, on : BOOLEAN]]
    BY <1>6, <2>1 DEF ToggleWrite, RuleTypes
  <2>3. UNCHANGED <<rules, record, mails, made, nextRule, edits>>  BY <1>6 DEF ToggleWrite
  <2>4. on' \in SUBSET rules'  BY <1>6, <2>3 DEF ToggleWrite, RuleTypes
  <2>. QED  BY <2>2, <2>3, <2>4 DEF RuleTypes
<1>. QED  BY <1>2, <1>3, <1>4, <1>5, <1>6 DEF Admin

\* What dispatches and removals write about infos.
LEMMA InfoTypesKept ==
  ASSUME Bounds, InfoTypes, JobTypes, AllStand, NEW d \in Dispatch,
         \/ CreateInfo(d) \/ StartRule(d) \/ SendMail(d) \/ WriteLog(d) \/ WriteContent(d)
         \/ WriteStats(d) \/ Abort(d)
  PROVE  InfoTypes'
<1>. USE DEF infoVars, flawVars
<1>1. CASE CreateInfo(d)
  <2>1. nextInfo \in Info /\ nextInfo + 1 \in 1..(MaxInfo + 1)
    BY <1>1 DEF CreateInfo, InfoTypes, Info, Bounds
  <2>. QED  BY <1>1, <2>1 DEF CreateInfo, InfoTypes
<1>2. CASE StartRule(d)
  <2>1. UNCHANGED <<infoVars, cut, short>>  BY <1>2 DEF StartRule
  <2>2. lead' \in [Info -> 0..MaxRule]
    BY <1>2, StartRuleFields DEF InfoTypes
  <2>. QED  BY <2>1, <2>2 DEF InfoTypes
<1>3. CASE SendMail(d)
  BY <1>3 DEF SendMail, InfoTypes
<1>4. CASE WriteLog(d)
  <2>1. UNCHANGED <<infos, nextInfo, content, success, total, lead, cut>>
    BY <1>4 DEF WriteLog
  <2>2. logOk' \in [Info -> Nat] /\ logBad' \in [Info -> Nat]
    BY <1>4 DEF WriteLog, Logged, InfoTypes
  <2>3. short' \in SUBSET infos'
    BY <1>4, <2>1 DEF WriteLog, InfoTypes
  <2>. QED  BY <2>1, <2>2, <2>3 DEF InfoTypes
<1>5. CASE WriteContent(d)
  <2>1. text[d] \in 0..MaxRule /\ 0 \in 0..MaxRule  BY Numbers DEF JobTypes
  <2>2. UNCHANGED <<infos, nextInfo, success, total, logOk, logBad, cut, short>>
    BY <1>5 DEF WriteContent
  <2>3. content' \in [Info -> 0..MaxRule]  BY <1>5, <2>1 DEF WriteContent, InfoTypes
  <2>4. lead' \in [Info -> 0..MaxRule]  BY <1>5, <2>1 DEF WriteContent, InfoTypes
  <2>. QED  BY <2>2, <2>3, <2>4 DEF InfoTypes
<1>6. CASE WriteStats(d)
  <2>1. sumOk[d] \in Nat /\ sumAll[d] \in Nat  BY DEF JobTypes
  <2>2. UNCHANGED <<lead, short, infos, nextInfo, content, logOk, logBad>>
    BY <1>6 DEF WriteStats
  <2>3. success' \in [Info -> Nat] /\ total' \in [Info -> Nat]
    BY <1>6, <2>1 DEF WriteStats, InfoTypes
  <2>4. cut' \in SUBSET infos  BY <1>6 DEF WriteStats, CutShort, InfoTypes
  <2>. QED  BY <2>2, <2>3, <2>4 DEF InfoTypes
<1>7. CASE Abort(d)
  BY <1>7 DEF Abort, CutShort, InfoTypes
<1>. QED  BY <1>1, <1>2, <1>3, <1>4, <1>5, <1>6, <1>7

LEMMA InfoRemoveTypes ==
  ASSUME Bounds, InfoTypes, NEW i \in Info, InfoRemove(i) PROVE InfoTypes'
BY Numbers DEF InfoRemove, InfoTypes

\* A step of dispatch d is seen in what d stands at only.
LEMMA StandAlone ==
  ASSUME AllStand, NEW d \in Dispatch, Alone(d), Stands(d)' PROVE AllStand'
<1>1. \A e \in Dispatch \ {d} : Stands(e)'  BY DEF AllStand, Stands, Alone
<1>. QED  BY <1>1 DEF AllStand

LEMMA StandKept ==
  ASSUME Bounds, RuleTypes, InfoTypes, JobTypes, AllStand, NEW d \in Dispatch,
         \/ NoRule(d) \/ FindRules(d) \/ CreateInfo(d) \/ StartRule(d) \/ SendMail(d)
         \/ WriteLog(d) \/ WriteContent(d) \/ WriteStats(d) \/ Abort(d)
  PROVE  JobTypes' /\ AllStand'
<1>0. Stands(d) /\ left[d] \in Nat /\ got[d] \in Nat /\ sumOk[d] \in Nat /\ sumAll[d] \in Nat
      /\ todo[d] \subseteq Rule
  BY DEF AllStand, JobTypes
<1>1. CASE NoRule(d)
  <2>1. Stands(d)'  BY <1>0, <1>1, NoRuleFields DEF Stands, workVars, sumVars
  <2>. QED  BY <1>1, <2>1, NoRuleFields, StandAlone
<1>2. CASE FindRules(d)
  <2>1. Stands(d)'  BY <1>0, <1>2, FindRulesFields DEF Stands, workVars, sumVars
  <2>. QED  BY <1>2, <2>1, FindRulesFields, StandAlone
<1>3. CASE CreateInfo(d)
  <2>1. Stands(d)'  BY <1>0, <1>3, CreateInfoFields DEF Stands, workVars, sumVars
  <2>. QED  BY <1>3, <2>1, CreateInfoFields, StandAlone
<1>4. CASE StartRule(d)
  <2>1. PICK k \in todo[d], t \in 0..MaxRule :
          /\ todo'[d] = todo[d] \ {k} /\ cur'[d] = k /\ left'[d] = size[d][k]
          /\ sumOk'[d] = sumOk[d] /\ sumAll'[d] = sumAll[d]
          /\ \/ size[d][k] = 0 /\ pc'[d] = Then(d, todo'[d], t)
             \/ size[d][k] > 0 /\ pc'[d] = "mail"
    BY <1>4, StartRuleFields
  <2>2. pc[d] = "rule" /\ UNCHANGED <<size, info, first, got, verdict>>
    BY <1>4, StartRuleFields
  <2>3. got[d] = 0 /\ size[d][k] \in Nat
    BY <1>0, <2>2, Numbers DEF Stands, JobTypes, Amount
  <2>5. size[d][k] > 0 => Stands(d)'
    BY <1>0, <2>1, <2>2, <2>3 DEF Stands
  <2>6. size[d][k] = 0 => Stands(d)'
    <3>1. ASSUME size[d][k] = 0
          PROVE  pc'[d] \in {"content", "stats", "rule"} /\ (pc'[d] = "stats" => todo'[d] = {})
      BY <2>1, <3>1, ThenWhere
    <3>. QED  BY <1>0, <2>1, <2>2, <2>3, <3>1 DEF Stands
  <2>7. Stands(d)'  BY <2>3, <2>5, <2>6
  <2>. QED  BY <1>4, <2>7, StartRuleFields, StandAlone
<1>5. CASE SendMail(d)
  <2>1. /\ pc[d] = "mail" /\ left'[d] = left[d] - 1 /\ left[d] > 0
        /\ UNCHANGED <<todo, size, info, first, cur, text, verdict>>
    BY <1>5, SendMailFields
  <2>2. Taken(last'[d]) \in 0..1  BY DEF Taken
  <2>3. size[d][cur[d]] \in Nat /\ cur[d] \in Rule \ todo[d]
        /\ left[d] + got[d] <= size[d][cur[d]]
    BY <1>0, <2>1, Numbers DEF Stands, JobTypes, Amount
  <2>4. Stands(d)'
    <3>1. CASE Recorded(d)
      <4>1. /\ pc'[d] = "log" /\ got'[d] = got[d] + Taken(last'[d])
            /\ sumOk'[d] = sumOk[d] /\ sumAll'[d] = sumAll[d]
        BY <1>5, <3>1, SendMailFields
      <4>2. left'[d] + got'[d] <= size[d][cur[d]]  BY <1>0, <2>1, <2>2, <2>3, <4>1
      <4>. QED  BY <1>0, <2>1, <2>3, <3>1, <4>1, <4>2 DEF Stands, Recorded
    <3>2. CASE ~Recorded(d) /\ left'[d] > 0
      <4>1. /\ pc'[d] = "mail" /\ got'[d] = got[d] + Taken(last'[d])
            /\ sumOk'[d] = sumOk[d] /\ sumAll'[d] = sumAll[d]
        BY <1>5, <3>2, SendMailFields
      <4>2. left'[d] + got'[d] <= size[d][cur[d]]  BY <1>0, <2>1, <2>2, <2>3, <4>1
      <4>. QED  BY <1>0, <2>1, <2>3, <3>2, <4>1, <4>2 DEF Stands
    <3>3. CASE ~Recorded(d) /\ ~(left'[d] > 0)
      <4>1. /\ left'[d] = 0 /\ pc'[d] = Then(d, todo[d], text[d]) /\ got'[d] = 0
            /\ sumOk'[d] = sumOk[d] + got[d] + Taken(last'[d])
            /\ sumAll'[d] = sumAll[d] + size[d][cur[d]]
        BY <1>5, <3>3, SendMailFields
      <4>2. sumOk[d] <= sumAll[d]  BY <1>0 DEF Stands
      <4>3. sumOk'[d] <= sumAll'[d]  BY <1>0, <2>1, <2>2, <2>3, <4>1, <4>2
      <4>4. pc'[d] \in {"content", "stats", "rule"} /\ (pc'[d] = "stats" => todo[d] = {})
        BY <4>1, ThenWhere
      <4>. QED  BY <1>0, <2>1, <4>1, <4>3, <4>4 DEF Stands
    <3>. QED  BY <3>1, <3>2, <3>3
  <2>. QED  BY <1>5, <2>4, SendMailFields, StandAlone
<1>6. CASE WriteLog(d)
  <2>1. /\ pc[d] = "log"
        /\ UNCHANGED <<todo, size, quiet, info, first, cur, text, left, last, verdict>>
        /\ \/ /\ left[d] > 0 /\ pc'[d] = "mail" /\ got'[d] = got[d]
              /\ sumOk'[d] = sumOk[d] /\ sumAll'[d] = sumAll[d]
           \/ /\ left[d] = 0 /\ pc'[d] = Then(d, todo[d], text[d]) /\ got'[d] = 0
              /\ sumOk'[d] = sumOk[d] + got[d] /\ sumAll'[d] = sumAll[d] + size[d][cur[d]]
    BY <1>6, WriteLogFields
  <2>2. /\ size[d][cur[d]] \in Nat /\ left[d] + got[d] <= size[d][cur[d]]
        /\ sumOk[d] <= sumAll[d] /\ cur[d] \in Rule \ todo[d]
    BY <1>0, <2>1, Numbers DEF Stands, JobTypes, Amount
  <2>3. Stands(d)'
    <3>1. CASE left[d] > 0
      BY <1>0, <2>1, <2>2, <3>1 DEF Stands
    <3>2. CASE left[d] = 0
      <4>1. /\ pc'[d] = Then(d, todo[d], text[d]) /\ got'[d] = 0
            /\ sumOk'[d] = sumOk[d] + got[d] /\ sumAll'[d] = sumAll[d] + size[d][cur[d]]
        BY <2>1, <3>2
      <4>2. sumOk'[d] <= sumAll'[d]  BY <1>0, <2>2, <3>2, <4>1
      <4>3. pc'[d] \in {"content", "stats", "rule"} /\ (pc'[d] = "stats" => todo[d] = {})
        BY <4>1, ThenWhere
      <4>. QED  BY <1>0, <2>1, <3>2, <4>1, <4>2, <4>3 DEF Stands
    <3>. QED  BY <1>0, <3>1, <3>2
  <2>. QED  BY <1>6, <2>3, WriteLogFields, StandAlone
<1>7. CASE WriteContent(d)
  <2>1. pc'[d] \in {"stats", "rule"} /\ (pc'[d] = "stats" => todo[d] = {})
    BY <1>7, WriteContentFields DEF AfterRule
  <2>2. Stands(d)'
    BY <1>0, <1>7, <2>1, WriteContentFields DEF Stands, workVars, sumVars
  <2>. QED  BY <1>7, <2>2, WriteContentFields, StandAlone
<1>8. CASE WriteStats(d) \/ Abort(d)
  <2>1. PICK v \in Verdict \ {"open"} : End(d, v)  BY <1>8, Ends
  <2>2. Stands(d)'  BY <2>1, EndFields DEF Stands
  <2>. QED  BY <2>1, <2>2, EndFields, StandAlone
<1>. QED  BY <1>1, <1>2, <1>3, <1>4, <1>5, <1>6, <1>7, <1>8

LEMMA InitTypes == ASSUME Bounds, Init PROVE TypeOK /\ AllStand
<1>1. RuleTypes  BY Numbers DEF Init, RuleTypes, Amount, Nothing, Bounds
<1>2. InfoTypes  BY Numbers DEF Init, InfoTypes, Bounds
<1>3. JobTypes  BY Numbers DEF Init, JobTypes, Step, Amount, Verdict
<1>4. AllStand  BY DEF Init, AllStand, Stands
<1>. QED  BY <1>1, <1>2, <1>3, <1>4, TypeParts

LEMMA TypeInductive ==
  ASSUME Bounds, TypeOK, AllStand, [Next]_vars PROVE TypeOK' /\ AllStand'
<1>0. RuleTypes /\ InfoTypes /\ JobTypes  BY TypeParts
<1>. SUFFICES RuleTypes' /\ InfoTypes' /\ JobTypes' /\ AllStand'
  BY TypeParts DEF TypeOK, RuleTypes, InfoTypes, JobTypes, Amount, Verdict
<1>1. ASSUME UNCHANGED jobVars PROVE JobTypes' /\ AllStand'
  BY <1>0, <1>1 DEF JobTypes, AllStand, Stands, jobVars, workVars, sumVars
<1>2. ASSUME UNCHANGED <<infoVars, flawVars>> PROVE InfoTypes'
  BY <1>0, <1>2 DEF InfoTypes, infoVars, flawVars
<1>3. ASSUME UNCHANGED <<ruleVars, seen>> PROVE RuleTypes'
  BY <1>0, <1>3 DEF RuleTypes, ruleVars
<1>4. CASE UNCHANGED vars
  BY <1>1, <1>2, <1>3, <1>4 DEF vars
<1>5. CASE Admin
  BY <1>0, <1>1, <1>2, <1>5, AdminQuiet, AdminTypes
<1>6. ASSUME NEW i \in Info, InfoRemove(i) PROVE RuleTypes' /\ InfoTypes' /\ JobTypes' /\ AllStand'
  BY <1>0, <1>1, <1>3, <1>6, RemoveQuiet, InfoRemoveTypes
<1>7. ASSUME NEW d \in Dispatch,
             \/ NoRule(d) \/ FindRules(d) \/ CreateInfo(d) \/ StartRule(d) \/ SendMail(d)
             \/ WriteLog(d) \/ WriteContent(d) \/ WriteStats(d) \/ Abort(d)
      PROVE  RuleTypes' /\ InfoTypes' /\ JobTypes' /\ AllStand'
  <2>1. RuleTypes'  BY <1>3, <1>7, DispatchQuiet DEF Dispatching
  <2>2. JobTypes' /\ AllStand'  BY <1>0, <1>7, StandKept
  <2>3. CASE NoRule(d) \/ FindRules(d)
    <3>1. InfoTypes'  BY <1>2, <2>3 DEF NoRule, FindRules
    <3>. QED  BY <2>1, <2>2, <3>1
  <2>4. CASE ~(NoRule(d) \/ FindRules(d))
    <3>1. InfoTypes'  BY <1>0, <1>7, <2>4, InfoTypesKept
    <3>. QED  BY <2>1, <2>2, <3>1
  <2>. QED  BY <2>3, <2>4
<1>. QED  BY <1>4, <1>5, <1>6, <1>7, NextParts

\* Every variable of Notice keeps its shape, and dispatches stand with their counts.
LEMMA TypeAndStand == Spec => [](TypeOK /\ AllStand)
<1>1. Bounds  BY NoticeConstants DEF Bounds
<1>. QED  BY <1>1, InitTypes, TypeInductive, PTL DEF Spec

\* Every variable of Notice keeps its shape.
THEOREM TypeCorrect == Spec => []TypeOK
BY TypeAndStand, PTL

-----------------------------------------------------------------------------
(***************************************************************************)
(* Infos: numbers are not given again, one dispatch is at work on each     *)
(***************************************************************************)

\* Nothing is written about an info that is not in the table.
Blank(i) == /\ success[i] = 0 /\ total[i] = 0 /\ logOk[i] = 0 /\ logBad[i] = 0
            /\ content[i] = 0 /\ lead[i] = 0
FreshInv ==
  /\ \A i \in infos : i < nextInfo
  /\ \A d \in Dispatch : info[d] < nextInfo
  /\ \A d, e \in Dispatch : info[d] = info[e] /\ info[d] # 0 => d = e
  /\ \A i \in Info \ infos : Blank(i)

\* The columns, and the flaws, of info i stay as they are.
SameCounts(i) == /\ success'[i] = success[i] /\ total'[i] = total[i]
                 /\ logOk'[i] = logOk[i] /\ logBad'[i] = logBad[i]
SameText(i) == content'[i] = content[i] /\ lead'[i] = lead[i]
SameFlaws(i) == /\ i \in cut' <=> i \in cut
                /\ i \in short' <=> i \in short

\* A step of d that creates no info writes about the info of d only, while it is there.
Working(d) ==
  \/ NoRule(d) \/ FindRules(d) \/ StartRule(d) \/ SendMail(d) \/ WriteLog(d)
  \/ WriteContent(d) \/ WriteStats(d) \/ Abort(d)

LEMMA WorkTouches ==
  ASSUME Bounds, RuleTypes, InfoTypes, JobTypes, AllStand, NEW d \in Dispatch, Working(d)
  PROVE  /\ Alone(d) /\ UNCHANGED <<infos, nextInfo>> /\ info'[d] \in {0, info[d]}
         /\ \A j \in Info : j # info[d] \/ j \notin infos => SameCounts(j) /\ SameText(j)
         /\ \A j \in Info : j # info[d] => SameFlaws(j)
<1>. USE DEF infoVars, flawVars, SameCounts, SameText, SameFlaws
<1>1. CASE NoRule(d)
  <2>1. UNCHANGED <<infoVars, flawVars>>  BY <1>1 DEF NoRule
  <2>. QED  BY <1>1, <2>1, NoRuleFields
<1>2. CASE FindRules(d)
  <2>1. UNCHANGED <<infoVars, flawVars>>  BY <1>2 DEF FindRules
  <2>. QED  BY <1>2, <2>1, FindRulesFields
<1>3. CASE StartRule(d)
  <2>1. UNCHANGED <<infoVars, cut, short, info>>  BY <1>3 DEF StartRule
  <2>2. \A j \in Info : j # info[d] \/ j \notin infos => lead'[j] = lead[j]
    BY <1>3, StartRuleFields DEF InfoTypes
  <2>3. Alone(d)  BY <1>3, StartRuleFields
  <2>. QED  BY <2>1, <2>2, <2>3
<1>4. CASE SendMail(d)
  <2>1. /\ UNCHANGED <<infoVars, lead, cut, info>>
        /\ short' \in {short, short \cup {info[d]}}
    BY <1>4 DEF SendMail
  <2>2. Alone(d)  BY <1>4, SendMailFields
  <2>. QED  BY <2>1, <2>2
<1>5. CASE WriteLog(d)
  <2>1. /\ UNCHANGED <<infos, nextInfo, content, success, total, lead, cut, info>>
        /\ \/ info[d] \in infos /\ Logged(d)
           \/ UNCHANGED <<logOk, logBad>>
        /\ short' \in {short, short \cup {info[d]}}
    BY <1>5 DEF WriteLog
  <2>2. \A j \in Info : j # info[d] \/ j \notin infos
                        => logOk'[j] = logOk[j] /\ logBad'[j] = logBad[j]
    BY <2>1 DEF Logged, InfoTypes
  <2>3. Alone(d)  BY <1>5, WriteLogFields
  <2>. QED  BY <2>1, <2>2, <2>3
<1>6. CASE WriteContent(d)
  <2>1. /\ UNCHANGED <<infos, nextInfo, success, total, logOk, logBad, cut, short, info>>
        /\ \/ /\ info[d] \in infos /\ content' = [content EXCEPT ![info[d]] = text[d]]
              /\ lead' = lead
           \/ /\ content' = content
              /\ lead' = IF info[d] \in infos THEN [lead EXCEPT ![info[d]] = 0] ELSE lead
    BY <1>6 DEF WriteContent
  <2>2. \A j \in Info : j # info[d] \/ j \notin infos
                        => content'[j] = content[j] /\ lead'[j] = lead[j]
    BY <2>1 DEF InfoTypes
  <2>3. Alone(d)  BY <1>6, WriteContentFields
  <2>. QED  BY <2>1, <2>2, <2>3
<1>7. CASE WriteStats(d) \/ Abort(d)
  <2>1. /\ UNCHANGED <<infos, nextInfo, content, logOk, logBad, lead, short>>
        /\ cut' \in {cut, cut \cup {info[d]}}
        /\ \/ /\ info[d] \in infos
              /\ success' = [success EXCEPT ![info[d]] = sumOk[d]]
              /\ total' = [total EXCEPT ![info[d]] = sumAll[d]]
           \/ UNCHANGED <<success, total>>
    BY <1>7 DEF WriteStats, Abort, CutShort
  <2>2. \A j \in Info : j # info[d] \/ j \notin infos
                        => success'[j] = success[j] /\ total'[j] = total[j]
    BY <2>1 DEF InfoTypes
  <2>3. Alone(d) /\ info'[d] = 0
    BY <1>7, Ends, EndFields
  <2>. QED  BY <2>1, <2>2, <2>3
<1>. QED  BY <1>1, <1>2, <1>3, <1>4, <1>5, <1>6, <1>7 DEF Working

\* The infos that have a dispatch stay those, but for the info of d when d lets go of it.
LEMMA WorkOpens ==
  ASSUME JobTypes, FreshInv, NEW d \in Dispatch, Alone(d), info'[d] \in {0, info[d]},
         NEW i \in Info, Bounds
  PROVE  /\ i # info[d] => (Open(i)' <=> Open(i))
         /\ i = info[d] => Open(i) /\ (Open(i)' <=> info'[d] = i)
<1>1. i # 0  BY Numbers
<1>2. \A e \in Dispatch \ {d} : info'[e] = info[e]  BY DEF Alone
<1>3. i = info[d] => \A e \in Dispatch \ {d} : info[e] # i  BY <1>1 DEF FreshInv
<1>. QED  BY <1>1, <1>2, <1>3 DEF Open

LEMMA FreshInductive ==
  ASSUME Bounds, TypeOK, AllStand, FreshInv, [Next]_vars PROVE FreshInv'
<1>0. RuleTypes /\ InfoTypes /\ JobTypes  BY TypeParts
<1>1. ASSUME UNCHANGED <<infoVars, jobVars, flawVars>> PROVE FreshInv'
  BY <1>1 DEF FreshInv, Blank, infoVars, jobVars, flawVars
<1>2. ASSUME NEW i \in Info, InfoRemove(i) PROVE FreshInv'
  <2>1. /\ infos' = infos \ {i} /\ UNCHANGED <<nextInfo, info>>
        /\ success'[i] = 0 /\ total'[i] = 0 /\ logOk'[i] = 0 /\ logBad'[i] = 0
        /\ content'[i] = 0 /\ lead'[i] = 0
        /\ \A j \in Info \ {i} : SameCounts(j) /\ SameText(j)
    BY <1>0, <1>2 DEF InfoRemove, jobVars, InfoTypes, SameCounts, SameText
  <2>2. \A j \in Info \ infos' : Blank(j)'
    BY <2>1 DEF FreshInv, Blank, SameCounts, SameText
  <2>. QED  BY <2>1, <2>2 DEF FreshInv
<1>3. ASSUME NEW d \in Dispatch, CreateInfo(d) PROVE FreshInv'
  <2>1. /\ nextInfo \in Info /\ info'[d] = nextInfo /\ Alone(d)
    BY <1>0, <1>3, CreateInfoFields
  <2>2. /\ infos' = infos \cup {nextInfo} /\ nextInfo' = nextInfo + 1
        /\ UNCHANGED <<content, success, total, logOk, logBad, lead>>
    BY <1>3 DEF CreateInfo, flawVars
  <2>3. nextInfo \in Nat /\ nextInfo # 0 /\ infos \subseteq Nat
        /\ \A e \in Dispatch : info[e] \in Nat
    BY <1>0, <2>1, Numbers DEF InfoTypes, JobTypes, Bounds
  <2>4. \A e \in Dispatch \ {d} : info'[e] = info[e] /\ info[e] < nextInfo
    BY <2>1 DEF Alone, FreshInv
  <2>5. \A i \in infos' : i < nextInfo'  BY <2>2, <2>3 DEF FreshInv
  <2>6. \A e \in Dispatch : info'[e] < nextInfo'  BY <2>1, <2>2, <2>3, <2>4
  <2>7. \A e \in Dispatch \ {d} : info'[e] # info'[d]  BY <2>1, <2>3, <2>4
  <2>8. \A e, f \in Dispatch : info'[e] = info'[f] /\ info'[e] # 0 => e = f
    BY <2>4, <2>7 DEF FreshInv
  <2>9. \A i \in Info \ infos' : Blank(i)'  BY <2>2 DEF FreshInv, Blank
  <2>. QED  BY <2>5, <2>6, <2>8, <2>9 DEF FreshInv
<1>4. ASSUME NEW d \in Dispatch, Working(d) PROVE FreshInv'
  <2>1. /\ Alone(d) /\ UNCHANGED <<infos, nextInfo>> /\ info'[d] \in {0, info[d]}
        /\ \A j \in Info \ infos : SameCounts(j) /\ SameText(j)
    BY <1>0, <1>4, WorkTouches
  <2>2. \A e \in Dispatch \ {d} : info'[e] = info[e]  BY <2>1 DEF Alone
  <2>3. 0 < nextInfo  BY <1>0 DEF InfoTypes, Bounds
  <2>4. \A i \in Info \ infos' : Blank(i)'
    BY <2>1 DEF FreshInv, Blank, SameCounts, SameText
  <2>5. \A e, f \in Dispatch : info'[e] = info'[f] /\ info'[e] # 0 => e = f
    BY <2>1, <2>2 DEF FreshInv
  <2>. QED  BY <2>1, <2>2, <2>3, <2>4, <2>5 DEF FreshInv
<1>5. CASE UNCHANGED vars
  BY <1>1, <1>5 DEF vars
<1>6. CASE Admin
  BY <1>1, <1>6, AdminQuiet
<1>. QED  BY <1>2, <1>3, <1>4, <1>5, <1>6, NextParts DEF Working

-----------------------------------------------------------------------------
(***************************************************************************)
(* The statistics                                                          *)
(***************************************************************************)

\* The log that the last mail is still to get.
Unlogged(d)   == IF pc[d] = "log" THEN 1 ELSE 0
UnloggedOk(d) == IF pc[d] = "log" THEN Taken(last[d]) ELSE 0

\* The logs of the info of d are those of the mails it tried, but for mails without one.
Fits(i, ok, n, uok, un) ==
  /\ logOk[i] + uok <= ok /\ logOk[i] + logBad[i] + un <= n
  /\ i \notin short => logOk[i] + uok = ok /\ logOk[i] + logBad[i] + un = n
LogsFit(d) ==
  info[d] \in infos =>
    /\ info[d] \notin cut /\ success[info[d]] = 0 /\ total[info[d]] = 0
    /\ Fits(info[d], sumOk[d] + got[d], Tried(d), UnloggedOk(d), Unlogged(d))

\* InfoAddsUp for an info that no dispatch is at work on.
Settled(i) ==
  IF i \in cut THEN success[i] = 0 /\ total[i] = 0
  ELSE Fits(i, success[i], total[i], 0, 0)
AddsInv ==
  /\ \A d \in Dispatch : LogsFit(d)
  /\ \A i \in infos : ~Open(i) => Settled(i)

LEMMA AddsSuffices == ASSUME InfoTypes, AddsInv PROVE InfoAddsUp
<1>1. SUFFICES ASSUME NEW i \in infos
               PROVE  IF Open(i) \/ i \in cut
                      THEN success[i] = 0 /\ total[i] = 0
                      ELSE /\ logOk[i] <= success[i] /\ logOk[i] + logBad[i] <= total[i]
                           /\ i \notin short
                              => success[i] = logOk[i] /\ total[i] = logOk[i] + logBad[i]
  BY DEF InfoAddsUp
<1>2. CASE Open(i)
  BY <1>2 DEF Open, AddsInv, LogsFit
<1>3. CASE ~Open(i)
  <2>1. Settled(i)  BY <1>3 DEF AddsInv
  <2>2. /\ logOk[i] \in Nat /\ logBad[i] \in Nat /\ success[i] \in Nat /\ total[i] \in Nat
    BY DEF InfoTypes
  <2>. QED  BY <1>3, <2>1, <2>2 DEF Settled, Fits
<1>. QED  BY <1>2, <1>3

\* What the dispatches other than d, and the infos other than that of d, keep.
LEMMA AddsElsewhere ==
  ASSUME Bounds, InfoTypes, JobTypes, FreshInv, AddsInv, NEW d \in Dispatch,
         Alone(d), infos' = infos, info'[d] \in {0, info[d]},
         \A j \in Info : j # info[d] => SameCounts(j) /\ SameFlaws(j),
         LogsFit(d)', \A i \in infos : i = info[d] /\ info'[d] = 0 => Settled(i)'
  PROVE  AddsInv'
<1>1. ASSUME NEW e \in Dispatch \ {d} PROVE LogsFit(e)'
  <2>1. /\ info'[e] = info[e] /\ Tried(e)' = Tried(e) /\ Unlogged(e)' = Unlogged(e)
        /\ UnloggedOk(e)' = UnloggedOk(e) /\ sumOk'[e] = sumOk[e] /\ got'[e] = got[e]
    BY DEF Alone, Tried, Unlogged, UnloggedOk
  <2>2. LogsFit(e)  BY DEF AddsInv
  <2>3. info[e] \in infos => info[e] # info[d] /\ info[e] \in Info
    BY Numbers DEF InfoTypes, FreshInv
  <2>. QED  BY <2>1, <2>2, <2>3 DEF LogsFit, Fits, SameCounts, SameFlaws
<1>2. ASSUME NEW i \in infos, ~Open(i)' PROVE Settled(i)'
  <2>1. i \in Info  BY DEF InfoTypes
  <2>2. CASE i = info[d]
    <3>1. info'[d] = 0  BY <1>2, <2>1, <2>2, WorkOpens
    <3>. QED  BY <2>2, <3>1
  <2>3. CASE i # info[d]
    <3>1. Settled(i)  BY <1>2, <2>1, <2>3, WorkOpens DEF AddsInv
    <3>. QED  BY <2>1, <2>3, <3>1 DEF Settled, Fits, SameCounts, SameFlaws
  <2>. QED  BY <2>2, <2>3
<1>. QED  BY <1>1, <1>2 DEF AddsInv

\* Arithmetic of the counts of a dispatch at work.
LEMMA Counting ==
  ASSUME Bounds, InfoTypes, JobTypes, AllStand, NEW d \in Dispatch
  PROVE  /\ left[d] \in Nat /\ got[d] \in Nat /\ sumOk[d] \in Nat /\ sumAll[d] \in Nat
         /\ Taken(last[d]) \in 0..1
         /\ \A k \in Rule : size[d][k] \in Nat
         /\ pc[d] \in {"mail", "log"} => cur[d] \in Rule /\ left[d] <= size[d][cur[d]]
         /\ info[d] \in infos => logOk[info[d]] \in Nat /\ logBad[info[d]] \in Nat
<1>1. /\ left[d] \in Nat /\ got[d] \in Nat /\ sumOk[d] \in Nat /\ sumAll[d] \in Nat
      /\ \A k \in Rule : size[d][k] \in Nat
  BY Numbers DEF JobTypes, Amount
<1>2. Taken(last[d]) \in 0..1  BY DEF Taken
<1>3. pc[d] \in {"mail", "log"} => cur[d] \in Rule /\ left[d] + got[d] <= size[d][cur[d]]
  BY DEF AllStand, Stands
<1>4. pc[d] \in {"mail", "log"} => left[d] <= size[d][cur[d]]  BY <1>1, <1>3
<1>5. info[d] \in infos => logOk[info[d]] \in Nat /\ logBad[info[d]] \in Nat
  BY DEF InfoTypes
<1>. QED  BY <1>1, <1>2, <1>3, <1>4, <1>5

\* The steps that neither send a mail nor log one keep the sums.
LEMMA LogsSame ==
  ASSUME NEW d \in Dispatch, LogsFit(d), info'[d] = info[d], infos' = infos,
         info[d] \in infos => SameCounts(info[d]) /\ SameFlaws(info[d]),
         pc[d] # "log", pc'[d] # "log", sumOk'[d] + got'[d] = sumOk[d] + got[d],
         Tried(d)' = Tried(d)
  PROVE  LogsFit(d)'
BY DEF LogsFit, Fits, SameCounts, SameFlaws, Unlogged, UnloggedOk

LEMMA AddsSend ==
  ASSUME Bounds, InfoTypes, JobTypes, AllStand, NEW d \in Dispatch, LogsFit(d), SendMail(d)
  PROVE  LogsFit(d)'
<1>. DEFINE i == info[d]
<1>1. UNCHANGED <<infoVars, info, cut>>  BY DEF SendMail
<1>2. SUFFICES ASSUME i \in infos PROVE LogsFit(d)'
  BY <1>1 DEF LogsFit, infoVars
<1>3. /\ pc[d] = "mail" /\ left'[d] = left[d] - 1 /\ left[d] > 0
      /\ UNCHANGED <<size, cur>>
  BY SendMailFields
<1>4. Tried(d) = sumAll[d] + size[d][cur[d]] - left[d]
  BY <1>3, Counting DEF Tried
<1>5. /\ i \notin cut /\ success[i] = 0 /\ total[i] = 0
      /\ Fits(i, sumOk[d] + got[d], Tried(d), 0, 0)
  BY <1>2, <1>3 DEF LogsFit, Unlogged, UnloggedOk
<1>. DEFINE one == Taken(last'[d])
<1>6. one \in 0..1  BY DEF Taken
<1>7. CASE Recorded(d)
  <2>1. /\ pc'[d] = "log" /\ short' = short /\ got'[d] = got[d] + one
        /\ sumOk'[d] = sumOk[d] /\ sumAll'[d] = sumAll[d]
    BY <1>7, SendMailFields
  <2>2. Unlogged(d)' = 1 /\ UnloggedOk(d)' = one  BY <2>1 DEF Unlogged, UnloggedOk
  <2>3. Tried(d)' = sumAll[d] + (size[d][cur[d]] - (left[d] - 1))
    BY <1>3, <2>1 DEF Tried
  <2>. HIDE DEF one
  <2>4. Tried(d)' = Tried(d) + 1  BY <1>3, <1>4, <2>3, Counting
  <2>5. Fits(i, sumOk'[d] + got'[d], Tried(d)', one, 1)
    <3>1. logOk[i] + one <= sumOk[d] + (got[d] + one)
      BY <1>2, <1>5, <1>6, Counting DEF Fits
    <3>2. Tried(d) \in Int  BY <1>3, <1>4, Counting
    <3>3. logOk[i] + logBad[i] + 1 <= Tried(d) + 1
      BY <1>2, <1>5, <3>2, Counting DEF Fits
    <3>4. ASSUME i \notin short
          PROVE  logOk[i] + one = sumOk[d] + (got[d] + one)
                 /\ logOk[i] + logBad[i] + 1 = Tried(d) + 1
      BY <1>2, <1>5, <1>6, <3>2, <3>4, Counting DEF Fits
    <3>. QED  BY <2>1, <2>4, <3>1, <3>3, <3>4 DEF Fits
  <2>. QED  BY <1>1, <1>5, <2>1, <2>2, <2>5 DEF LogsFit, Fits, infoVars
<1>8. CASE ~Recorded(d)
  <2>1. i \in short'  BY <1>2, <1>8, SendMailFields
  <2>2. /\ pc'[d] # "log" /\ sumOk'[d] + got'[d] = sumOk[d] + got[d] + one
        /\ Tried(d)' = Tried(d) + 1
    <3>1. CASE left'[d] > 0
      <4>1. /\ pc'[d] = "mail" /\ got'[d] = got[d] + one
            /\ sumOk'[d] = sumOk[d] /\ sumAll'[d] = sumAll[d]
        BY <1>8, <3>1, SendMailFields
      <4>2. Tried(d)' = sumAll[d] + (size[d][cur[d]] - (left[d] - 1))
        BY <1>3, <4>1 DEF Tried
      <4>. HIDE DEF one
      <4>3. Tried(d)' = Tried(d) + 1  BY <1>3, <1>4, <4>2, Counting
      <4>4. sumOk'[d] + got'[d] = sumOk[d] + got[d] + one  BY <1>6, <4>1, Counting
      <4>. QED  BY <4>1, <4>3, <4>4
    <3>2. CASE ~(left'[d] > 0)
      <4>1. /\ left'[d] = 0 /\ pc'[d] = Then(d, todo[d], text[d]) /\ got'[d] = 0
            /\ sumOk'[d] = sumOk[d] + got[d] + one
            /\ sumAll'[d] = sumAll[d] + size[d][cur[d]]
        BY <1>8, <3>2, SendMailFields
      <4>2. pc'[d] \in {"content", "stats", "rule"}  BY <4>1, ThenWhere
      <4>3. Tried(d)' = sumAll[d] + size[d][cur[d]] + 0  BY <4>1, <4>2 DEF Tried
      <4>. HIDE DEF one
      <4>4. left[d] = 1  BY <1>3, <4>1, Counting
      <4>5. Tried(d)' = Tried(d) + 1  BY <1>3, <1>4, <4>3, <4>4, Counting
      <4>6. sumOk'[d] + got'[d] = sumOk[d] + got[d] + one  BY <1>6, <4>1, Counting
      <4>. QED  BY <4>2, <4>5, <4>6
    <3>. QED  BY <3>1, <3>2
  <2>3. Unlogged(d)' = 0 /\ UnloggedOk(d)' = 0  BY <2>2 DEF Unlogged, UnloggedOk
  <2>. HIDE DEF one
  <2>4. Tried(d) \in Int  BY <1>3, <1>4, Counting
  <2>5. /\ logOk[i] + 0 <= sumOk'[d] + got'[d]
        /\ logOk[i] + logBad[i] + 0 <= Tried(d)'
    BY <1>2, <1>5, <1>6, <2>2, <2>4, Counting DEF Fits
  <2>. QED  BY <1>1, <1>5, <2>1, <2>3, <2>5 DEF LogsFit, Fits, infoVars
<1>. QED  BY <1>7, <1>8

LEMMA AddsLog ==
  ASSUME Bounds, InfoTypes, JobTypes, AllStand, NEW d \in Dispatch, LogsFit(d), WriteLog(d)
  PROVE  LogsFit(d)'
<1>. DEFINE i == info[d]
<1>1. UNCHANGED <<infos, success, total, info, cut>>  BY DEF WriteLog
<1>2. SUFFICES ASSUME i \in infos PROVE LogsFit(d)'
  BY <1>1 DEF LogsFit
<1>3. pc[d] = "log" /\ UNCHANGED <<size, cur, left, last>>
  BY WriteLogFields
<1>. DEFINE one == Taken(last[d])
<1>4. /\ i \notin cut /\ success[i] = 0 /\ total[i] = 0
      /\ Fits(i, sumOk[d] + got[d], Tried(d), one, 1)
  BY <1>2, <1>3 DEF LogsFit, Unlogged, UnloggedOk
<1>5. Tried(d) = sumAll[d] + size[d][cur[d]] - left[d] /\ Tried(d) \in Int
  BY <1>3, Counting DEF Tried
<1>6. /\ pc'[d] # "log" /\ sumOk'[d] + got'[d] = sumOk[d] + got[d] /\ Tried(d)' = Tried(d)
  <2>1. CASE left[d] > 0
    <3>1. /\ pc'[d] = "mail" /\ got'[d] = got[d] /\ sumOk'[d] = sumOk[d] /\ sumAll'[d] = sumAll[d]
      BY <2>1, WriteLogFields
    <3>. QED  BY <1>3, <3>1 DEF Tried
  <2>2. CASE ~(left[d] > 0)
    <3>1. /\ left[d] = 0 /\ pc'[d] = Then(d, todo[d], text[d]) /\ got'[d] = 0
          /\ sumOk'[d] = sumOk[d] + got[d] /\ sumAll'[d] = sumAll[d] + size[d][cur[d]]
      BY <2>2, WriteLogFields
    <3>2. pc'[d] \in {"content", "stats", "rule"}  BY <3>1, ThenWhere
    <3>3. Tried(d)' = sumAll[d] + size[d][cur[d]] + 0  BY <3>1, <3>2 DEF Tried
    <3>4. Tried(d)' = Tried(d)  BY <1>3, <1>5, <3>1, <3>3, Counting
    <3>5. sumOk'[d] + got'[d] = sumOk[d] + got[d]  BY <3>1, Counting
    <3>. QED  BY <3>2, <3>4, <3>5
  <2>. QED  BY <2>1, <2>2
<1>7. Unlogged(d)' = 0 /\ UnloggedOk(d)' = 0  BY <1>6 DEF Unlogged, UnloggedOk
<1>8. i \in Info /\ logOk[i] \in Nat /\ logBad[i] \in Nat  BY <1>2 DEF InfoTypes
<1>9. CASE Logged(d) /\ short' = short
  <2>1. /\ logOk'[i] = logOk[i] + one /\ logOk'[i] + logBad'[i] = logOk[i] + logBad[i] + 1
    BY <1>8, <1>9 DEF Logged, Taken, InfoTypes
  <2>. HIDE DEF one
  <2>2. one \in 0..1  BY Counting DEF one
  <2>3. /\ logOk'[i] + 0 = logOk[i] + one
        /\ logOk'[i] + logBad'[i] + 0 = logOk[i] + logBad[i] + 1
    BY <1>8, <2>1, <2>2
  <2>. QED  BY <1>1, <1>4, <1>6, <1>7, <1>9, <2>3 DEF LogsFit, Fits
<1>10. CASE i \in short' /\ UNCHANGED <<logOk, logBad>>
  <2>. HIDE DEF one
  <2>1. one \in 0..1  BY Counting DEF one
  <2>2. /\ logOk[i] + 0 <= sumOk[d] + got[d] /\ logOk[i] + logBad[i] + 0 <= Tried(d)
    BY <1>4, <1>5, <1>8, <2>1, Counting DEF Fits
  <2>. QED  BY <1>1, <1>4, <1>6, <1>7, <1>10, <2>2 DEF LogsFit, Fits
<1>11. \/ Logged(d) /\ short' = short
       \/ i \in short' /\ UNCHANGED <<logOk, logBad>>
  BY <1>2 DEF WriteLog
<1>. QED  BY <1>9, <1>10, <1>11

\* A dispatch that is over leaves the statistics, or none.
LEMMA AddsEnd ==
  ASSUME Bounds, InfoTypes, JobTypes, AllStand, NEW d \in Dispatch, LogsFit(d),
         WriteStats(d) \/ Abort(d)
  PROVE  LogsFit(d)' /\ \A i \in infos : i = info[d] => Settled(i)'
<1>1. info'[d] = 0 /\ UNCHANGED <<infos, logOk, logBad, short>>
  BY Ends, EndFields DEF WriteStats, Abort, infoVars
<1>2. 0 \notin infos  BY Numbers DEF InfoTypes
<1>3. LogsFit(d)'  BY <1>1, <1>2 DEF LogsFit
<1>4. ASSUME info[d] \in infos, CutShort(d), UNCHANGED <<success, total>>
      PROVE  \A i \in infos : i = info[d] => Settled(i)'
  BY <1>4 DEF CutShort, LogsFit, Settled
<1>5. CASE Abort(d)
  BY <1>3, <1>4, <1>5 DEF Abort, infoVars
<1>6. CASE WriteStats(d) /\ CutShort(d) /\ UNCHANGED <<success, total>>
  BY <1>3, <1>4, <1>6
<1>7. ASSUME WriteStats(d), info[d] \in infos,
             success' = [success EXCEPT ![info[d]] = sumOk[d]],
             total' = [total EXCEPT ![info[d]] = sumAll[d]], cut' = cut,
             NEW i \in infos, i = info[d]
      PROVE  Settled(i)'
  <2>1. pc[d] = "stats" /\ got[d] = 0
    BY <1>7 DEF WriteStats, AllStand, Stands
  <2>2. Tried(d) = sumAll[d] + 0 /\ Unlogged(d) = 0 /\ UnloggedOk(d) = 0
    BY <2>1 DEF Tried, Unlogged, UnloggedOk
  <2>3. Tried(d) = sumAll[d] /\ sumOk[d] + got[d] = sumOk[d]  BY <2>1, <2>2, Counting
  <2>4. i \notin cut /\ Fits(i, sumOk[d], sumAll[d], 0, 0)
    BY <1>7, <2>2, <2>3 DEF LogsFit
  <2>5. success'[i] = sumOk[d] /\ total'[i] = sumAll[d]  BY <1>7 DEF InfoTypes
  <2>. QED  BY <1>1, <1>7, <2>4, <2>5 DEF Settled, Fits
<1>8. CASE WriteStats(d)
  BY <1>3, <1>6, <1>7, <1>8 DEF WriteStats
<1>. QED  BY <1>5, <1>8

\* The other steps of a dispatch are not about its counts.
LEMMA AddsQuiet ==
  ASSUME Bounds, RuleTypes, InfoTypes, JobTypes, AllStand, NEW d \in Dispatch, LogsFit(d),
         NoRule(d) \/ FindRules(d) \/ StartRule(d) \/ WriteContent(d)
  PROVE  LogsFit(d)' /\ info'[d] = info[d]
<1>1. CASE NoRule(d) \/ FindRules(d)
  <2>1. info'[d] = 0
    BY <1>1, NoRuleFields, FindRulesFields DEF AllStand, Stands, NoRule, FindRules
  <2>2. info[d] = 0 /\ infos' = infos
    BY <1>1 DEF AllStand, Stands, NoRule, FindRules, infoVars
  <2>3. 0 \notin infos  BY Numbers DEF InfoTypes
  <2>. QED  BY <2>1, <2>2, <2>3 DEF LogsFit
<1>2. CASE StartRule(d)
  <2>1. UNCHANGED <<infoVars, cut, short, info, size, got>>  BY <1>2 DEF StartRule
  <2>2. PICK k \in todo[d], t \in 0..MaxRule :
          /\ cur'[d] = k /\ left'[d] = size[d][k]
          /\ sumOk'[d] = sumOk[d] /\ sumAll'[d] = sumAll[d]
          /\ \/ size[d][k] = 0 /\ pc'[d] = Then(d, todo'[d], t)
             \/ size[d][k] > 0 /\ pc'[d] = "mail"
    BY <1>2, StartRuleFields
  <2>3. pc[d] = "rule" /\ k \in Rule  BY <1>2 DEF StartRule, JobTypes
  <2>4. size[d][k] \in Nat /\ sumAll[d] \in Nat  BY <2>3, Counting
  <2>5. Tried(d) = sumAll[d] + 0  BY <2>3 DEF Tried
  <2>6. CASE pc'[d] = "mail"
    <3>1. Tried(d)' = sumAll[d] + (size[d][k] - size[d][k])  BY <2>1, <2>2, <2>6 DEF Tried
    <3>2. Tried(d)' = Tried(d)  BY <2>4, <2>5, <3>1
    <3>. QED  BY <2>1, <2>2, <2>3, <2>6, <3>2, LogsSame DEF infoVars, SameCounts, SameFlaws
  <2>7. CASE pc'[d] # "mail"
    <3>1. pc'[d] \in {"content", "stats", "rule"}  BY <2>2, <2>7, ThenWhere
    <3>2. Tried(d)' = Tried(d)  BY <2>2, <2>5, <3>1 DEF Tried
    <3>. QED  BY <2>1, <2>2, <2>3, <3>1, <3>2, LogsSame DEF infoVars, SameCounts, SameFlaws
  <2>. QED  BY <2>6, <2>7
<1>3. CASE WriteContent(d)
  <2>1. /\ pc[d] = "content" /\ pc'[d] \in {"stats", "rule"}
        /\ UNCHANGED <<info, got, sumOk, sumAll>>
    BY <1>3, WriteContentFields DEF AfterRule, workVars, sumVars
  <2>2. UNCHANGED <<infos, success, total, logOk, logBad, cut, short>>
    BY <1>3 DEF WriteContent
  <2>3. Tried(d)' = Tried(d)  BY <2>1 DEF Tried
  <2>. QED  BY <2>1, <2>2, <2>3 DEF LogsFit, Fits, Unlogged, UnloggedOk
<1>. QED  BY <1>1, <1>2, <1>3

LEMMA AddsInductive ==
  ASSUME Bounds, TypeOK, AllStand, FreshInv, AddsInv, [Next]_vars PROVE AddsInv'
<1>0. RuleTypes /\ InfoTypes /\ JobTypes  BY TypeParts
<1>1. ASSUME UNCHANGED <<infoVars, jobVars, flawVars>> PROVE AddsInv'
  BY <1>1 DEF AddsInv, LogsFit, Settled, Fits, Open, Tried, Unlogged, UnloggedOk,
              infoVars, jobVars, flawVars, workVars, sumVars
<1>2. ASSUME NEW i \in Info, InfoRemove(i) PROVE AddsInv'
  <2>1. /\ infos' = infos \ {i} /\ UNCHANGED jobVars
        /\ \A j \in Info \ {i} : SameCounts(j)
        /\ cut' = cut \ {i} /\ short' = short \ {i}
    BY <1>0, <1>2 DEF InfoRemove, InfoTypes, SameCounts
  <2>2. \A d \in Dispatch : /\ info'[d] = info[d] /\ Tried(d)' = Tried(d)
                             /\ Unlogged(d)' = Unlogged(d) /\ UnloggedOk(d)' = UnloggedOk(d)
                             /\ sumOk'[d] = sumOk[d] /\ got'[d] = got[d]
    BY <2>1 DEF jobVars, workVars, sumVars, Tried, Unlogged, UnloggedOk
  <2>3. \A d \in Dispatch : LogsFit(d)'
    BY <1>0, <2>1, <2>2 DEF AddsInv, LogsFit, Fits, SameCounts, InfoTypes
  <2>4. \A j \in infos' : ~Open(j)' => Settled(j)'
    BY <1>0, <2>1, <2>2 DEF AddsInv, Open, Settled, Fits, SameCounts, InfoTypes
  <2>. QED  BY <2>3, <2>4 DEF AddsInv
<1>3. ASSUME NEW d \in Dispatch, CreateInfo(d) PROVE AddsInv'
  <2>1. /\ nextInfo \in Info /\ info'[d] = nextInfo /\ Alone(d) /\ pc[d] = "info"
        /\ pc'[d] = "rule" /\ UNCHANGED <<got, sumOk, sumAll>>
    BY <1>0, <1>3, CreateInfoFields DEF workVars, sumVars
  <2>2. /\ infos' = infos \cup {nextInfo}
        /\ UNCHANGED <<content, success, total, logOk, logBad, flawVars>>
    BY <1>3 DEF CreateInfo
  <2>3. nextInfo \notin infos
    BY <1>0, <2>1, Numbers DEF FreshInv
  <2>4. Blank(nextInfo) /\ nextInfo \notin cut  BY <1>0, <2>1, <2>3 DEF FreshInv, InfoTypes
  <2>5. info[d] = 0 /\ sumOk[d] = 0 /\ sumAll[d] = 0 /\ got[d] = 0
    BY <2>1 DEF AllStand, Stands
  <2>6. LogsFit(d)'
    <3>1. Tried(d)' = 0 /\ Unlogged(d)' = 0 /\ UnloggedOk(d)' = 0 /\ sumOk'[d] + got'[d] = 0
      BY <2>1, <2>5 DEF Tried, Unlogged, UnloggedOk
    <3>. QED  BY <2>1, <2>2, <2>4, <3>1 DEF LogsFit, Fits, Blank, flawVars
  <2>7. ASSUME NEW e \in Dispatch \ {d} PROVE LogsFit(e)'
    <3>1. /\ info'[e] = info[e] /\ Tried(e)' = Tried(e) /\ Unlogged(e)' = Unlogged(e)
          /\ UnloggedOk(e)' = UnloggedOk(e) /\ sumOk'[e] = sumOk[e] /\ got'[e] = got[e]
      BY <2>1 DEF Alone, Tried, Unlogged, UnloggedOk
    <3>2. info[e] # nextInfo
      BY <1>0, <2>1, Numbers DEF FreshInv, JobTypes
    <3>. QED  BY <2>2, <3>1, <3>2 DEF AddsInv, LogsFit, Fits, flawVars
  <2>8. ASSUME NEW i \in infos', ~Open(i)' PROVE Settled(i)'
    <3>1. i \in infos /\ i # 0
      BY <1>0, <2>1, <2>2, <2>8, Numbers DEF Open, InfoTypes
    <3>2. ~Open(i)  BY <2>1, <2>5, <2>8, <3>1 DEF Open, Alone
    <3>. QED  BY <2>2, <3>1, <3>2 DEF AddsInv, Settled, Fits, flawVars
  <2>. QED  BY <2>6, <2>7, <2>8 DEF AddsInv
<1>4. ASSUME NEW d \in Dispatch, Working(d) PROVE AddsInv'
  <2>1. /\ Alone(d) /\ infos' = infos /\ info'[d] \in {0, info[d]}
        /\ \A j \in Info : j # info[d] => SameCounts(j) /\ SameFlaws(j)
    BY <1>0, <1>4, WorkTouches
  <2>2. LogsFit(d)  BY DEF AddsInv
  <2>3. 0 \notin infos  BY <1>0, Numbers DEF InfoTypes
  <2>4. CASE NoRule(d) \/ FindRules(d) \/ StartRule(d) \/ WriteContent(d)
    <3>1. LogsFit(d)' /\ info'[d] = info[d]  BY <1>0, <2>2, <2>4, AddsQuiet
    <3>. QED  BY <1>0, <2>1, <2>3, <3>1, AddsElsewhere
  <2>5. CASE SendMail(d)
    <3>1. LogsFit(d)' /\ info' = info  BY <1>0, <2>2, <2>5, AddsSend DEF SendMail
    <3>. QED  BY <1>0, <2>1, <2>3, <3>1, AddsElsewhere
  <2>6. CASE WriteLog(d)
    <3>1. LogsFit(d)' /\ info' = info  BY <1>0, <2>2, <2>6, AddsLog DEF WriteLog
    <3>. QED  BY <1>0, <2>1, <2>3, <3>1, AddsElsewhere
  <2>7. CASE WriteStats(d) \/ Abort(d)
    <3>1. LogsFit(d)' /\ \A i \in infos : i = info[d] => Settled(i)'
      BY <1>0, <2>2, <2>7, AddsEnd
    <3>. QED  BY <1>0, <2>1, <3>1, AddsElsewhere
  <2>. QED  BY <1>4, <2>4, <2>5, <2>6, <2>7 DEF Working
<1>5. CASE UNCHANGED vars
  BY <1>1, <1>5 DEF vars
<1>6. CASE Admin
  BY <1>1, <1>6, AdminQuiet
<1>. QED  BY <1>2, <1>3, <1>4, <1>5, <1>6, NextParts DEF Working

\* No step lets two dispatches share an info.
LEMMA InfosAreOwn == Spec => []FreshInv
<1>1. Bounds  BY NoticeConstants DEF Bounds
<1>2. Init => FreshInv  BY <1>1 DEF Init, FreshInv, Blank
<1>. QED  BY <1>1, <1>2, FreshInductive, TypeAndStand, PTL DEF Spec

\* The statistics of an info count the mails with a log under it.
THEOREM StatisticsAddUp == Spec => []InfoAddsUp
<1>1. Bounds  BY NoticeConstants DEF Bounds
<1>2. Init => AddsInv
  BY <1>1, Numbers DEF Init, AddsInv, LogsFit
<1>3. Spec => []AddsInv
  BY <1>1, <1>2, AddsInductive, TypeAndStand, InfosAreOwn, PTL DEF Spec
<1>4. TypeOK /\ AddsInv => InfoAddsUp  BY TypeParts, AddsSuffices
<1>. QED  BY <1>3, <1>4, TypeCorrect, PTL

-----------------------------------------------------------------------------
(***************************************************************************)
(* The content                                                             *)
(***************************************************************************)

\* What the first rule with a content gave is written, or is about to be, or its write
\* failed and the next rule's is to come.
TextFits(d) ==
  /\ pc[d] = "content" => first[d] /\ info[d] # 0 /\ text[d] # 0
  /\ info[d] \in infos =>
       IF first[d]
       THEN /\ content[info[d]] = 0
            /\ lead[info[d]] = IF pc[d] \in {"mail", "log", "content"} THEN text[d] ELSE 0
       ELSE content[info[d]] = lead[info[d]] /\ lead[info[d]] # 0
ContentInv ==
  /\ \A d \in Dispatch : TextFits(d)
  /\ \A i \in infos :
       ~Open(i) => content[i] \in {0, lead[i]} /\ (i \notin cut => content[i] = lead[i])

LEMMA ContentSuffices == ASSUME InfoTypes, ContentInv PROVE ContentIsFirst
<1>1. SUFFICES ASSUME NEW i \in infos
               PROVE  /\ content[i] \in {0, lead[i]}
                      /\ ~Open(i) /\ i \notin cut => content[i] = lead[i]
  BY DEF ContentIsFirst
<1>2. CASE Open(i)
  BY <1>2 DEF Open, ContentInv, TextFits
<1>3. CASE ~Open(i)
  BY <1>3 DEF ContentInv
<1>. QED  BY <1>2, <1>3

LEMMA ContentElsewhere ==
  ASSUME Bounds, InfoTypes, JobTypes, FreshInv, ContentInv, NEW d \in Dispatch,
         Alone(d), infos' = infos, info'[d] \in {0, info[d]},
         \A j \in Info : j # info[d] => SameText(j) /\ SameFlaws(j),
         TextFits(d)',
         \A i \in infos : i = info[d] /\ info'[d] = 0
            => content'[i] \in {0, lead'[i]} /\ (i \in cut' \/ content'[i] = lead'[i])
  PROVE  ContentInv'
<1>1. ASSUME NEW e \in Dispatch \ {d} PROVE TextFits(e)'
  <2>1. /\ info'[e] = info[e] /\ pc'[e] = pc[e] /\ first'[e] = first[e] /\ text'[e] = text[e]
    BY DEF Alone
  <2>2. TextFits(e)  BY DEF ContentInv
  <2>3. info[e] \in infos => info[e] # info[d] /\ info[e] \in Info
    BY Numbers DEF InfoTypes, FreshInv
  <2>4. info[e] \in infos' => info[e] \in infos /\ SameText(info[e])
    BY <2>3 DEF SameFlaws
  <2>. QED  BY <2>1, <2>2, <2>4 DEF TextFits, SameText
<1>2. ASSUME NEW i \in infos, ~Open(i)'
      PROVE  content'[i] \in {0, lead'[i]} /\ (i \notin cut' => content'[i] = lead'[i])
  <2>1. i \in Info  BY DEF InfoTypes
  <2>2. CASE i = info[d]
    <3>1. info'[d] = 0  BY <1>2, <2>1, <2>2, WorkOpens
    <3>. QED  BY <2>2, <3>1
  <2>3. CASE i # info[d]
    <3>1. ~Open(i)  BY <1>2, <2>1, <2>3, WorkOpens DEF SameFlaws
    <3>. QED  BY <2>1, <2>3, <3>1 DEF ContentInv, SameText, SameFlaws
  <2>. QED  BY <2>2, <2>3
<1>. QED  BY <1>1, <1>2 DEF ContentInv

LEMMA ContentWork ==
  ASSUME Bounds, RuleTypes, InfoTypes, JobTypes, AllStand, NEW d \in Dispatch, TextFits(d),
         Working(d)
  PROVE  /\ TextFits(d)'
         /\ \A i \in infos : i = info[d] /\ info'[d] = 0
              => content'[i] \in {0, lead'[i]} /\ (i \in cut' \/ content'[i] = lead'[i])
<1>0. 0 \notin infos /\ infos \subseteq Info  BY Numbers DEF InfoTypes
<1>. DEFINE Closing == \A i \in infos : i = info[d] /\ info'[d] = 0
              => content'[i] \in {0, lead'[i]} /\ (i \in cut' \/ content'[i] = lead'[i])
<1>1. info' = info => Closing  BY <1>0
<1>2. CASE NoRule(d) \/ FindRules(d)
  <2>1. info' = info /\ infos' = infos /\ info[d] = 0 /\ pc'[d] \in {"idle", "info", "rule"}
    BY <1>2, NoRuleFields, FindRulesFields DEF NoRule, FindRules, infoVars, AllStand, Stands
  <2>2. TextFits(d)'  BY <1>0, <2>1 DEF TextFits
  <2>. QED  BY <1>1, <2>1, <2>2
<1>3. CASE StartRule(d)
  <2>1. UNCHANGED <<infos, content, info, first>>  BY <1>3 DEF StartRule, infoVars
  <2>2. PICK t \in 0..MaxRule :
          /\ text'[d] = t
          /\ pc'[d] = Then(d, todo'[d], t) \/ pc'[d] = "mail"
          /\ lead' = IF info[d] \in infos /\ lead[info[d]] = 0
                     THEN [lead EXCEPT ![info[d]] = t] ELSE lead
    BY <1>3, StartRuleFields
  <2>3. pc[d] = "rule"  BY <1>3 DEF StartRule
  <2>4. pc'[d] = "content" => first[d] /\ info[d] # 0 /\ t # 0
    BY <2>2, <2>3 DEF Then, Saves, AfterRule
  <2>5. pc'[d] \in {"rule", "stats"} => ~(first[d] /\ info[d] # 0 /\ t # 0)
    BY <2>2, <2>3 DEF Then, Saves
  <2>6. pc'[d] \in {"mail", "content", "rule", "stats"}
    BY <2>2, ThenWhere
  <2>7. ASSUME info[d] \in infos
        PROVE  IF first[d]
               THEN lead[info[d]] = 0 /\ lead'[info[d]] = t /\ content[info[d]] = 0
               ELSE lead'[info[d]] = lead[info[d]] /\ content[info[d]] = lead[info[d]]
                    /\ lead[info[d]] # 0
    BY <1>0, <2>2, <2>3, <2>7 DEF TextFits, InfoTypes
  <2>8. TextFits(d)'  BY <1>0, <2>1, <2>2, <2>4, <2>5, <2>6, <2>7 DEF TextFits
  <2>. QED  BY <1>1, <2>1, <2>8
<1>4. CASE SendMail(d) \/ WriteLog(d)
  <2>1. /\ UNCHANGED <<infos, content, lead, info, first, text>>
        /\ pc[d] \in {"mail", "log"}
    BY <1>4 DEF SendMail, WriteLog, infoVars
  <2>2. pc'[d] \in {"mail", "log"} \/ pc'[d] = Then(d, todo[d], text[d])
    BY <1>4, SendMailFields, WriteLogFields
  <2>3. pc'[d] = "content" => first[d] /\ info[d] # 0 /\ text[d] # 0
    BY <2>2 DEF Then, Saves, AfterRule
  <2>4. pc'[d] \in {"rule", "stats"} => ~(first[d] /\ info[d] # 0 /\ text[d] # 0)
    BY <2>2 DEF Then, Saves
  <2>5. pc'[d] \in {"mail", "log", "content", "rule", "stats"}
    BY <2>2, ThenWhere
  <2>6. TextFits(d)'  BY <1>0, <2>1, <2>3, <2>4, <2>5 DEF TextFits
  <2>. QED  BY <1>1, <2>1, <2>6
<1>5. CASE WriteContent(d)
  <2>1. /\ UNCHANGED <<infos, info, text>>
        /\ \/ /\ info[d] \in infos /\ content' = [content EXCEPT ![info[d]] = text[d]]
              /\ first' = [first EXCEPT ![d] = FALSE] /\ lead' = lead
           \/ /\ lead' = IF info[d] \in infos THEN [lead EXCEPT ![info[d]] = 0] ELSE lead
              /\ UNCHANGED <<content, first>>
    BY <1>5 DEF WriteContent, workVars
  <2>2. pc[d] = "content" /\ pc'[d] \in {"rule", "stats"}
    BY <1>5, WriteContentFields DEF AfterRule
  <2>3. TextFits(d)'  BY <1>0, <2>1, <2>2 DEF TextFits, InfoTypes, JobTypes
  <2>. QED  BY <1>1, <2>1, <2>3
<1>6. CASE WriteStats(d) \/ Abort(d)
  <2>1. info'[d] = 0 /\ pc'[d] = "idle"  BY <1>6, Ends, EndFields
  <2>2. UNCHANGED <<infos, content, lead>>  BY <1>6 DEF WriteStats, Abort, infoVars
  <2>3. TextFits(d)'  BY <1>0, <2>1, <2>2 DEF TextFits
  <2>4. ASSUME info[d] \in infos
        PROVE  content[info[d]] \in {0, lead[info[d]]}
               /\ (pc[d] = "stats" => content[info[d]] = lead[info[d]])
    BY <2>4 DEF TextFits
  <2>5. info[d] \in infos => pc[d] = "stats" \/ info[d] \in cut'
    BY <1>6 DEF WriteStats, Abort, CutShort
  <2>. QED  BY <2>2, <2>3, <2>4, <2>5
<1>. QED  BY <1>2, <1>3, <1>4, <1>5, <1>6 DEF Working

LEMMA ContentInductive ==
  ASSUME Bounds, TypeOK, AllStand, FreshInv, ContentInv, [Next]_vars PROVE ContentInv'
<1>0. RuleTypes /\ InfoTypes /\ JobTypes  BY TypeParts
<1>1. ASSUME UNCHANGED <<infoVars, jobVars, flawVars>> PROVE ContentInv'
  BY <1>1 DEF ContentInv, TextFits, Open, infoVars, jobVars, flawVars, workVars
<1>2. ASSUME NEW i \in Info, InfoRemove(i) PROVE ContentInv'
  <2>1. /\ infos' = infos \ {i} /\ UNCHANGED jobVars
        /\ \A j \in Info \ {i} : SameText(j)
        /\ cut' = cut \ {i}
    BY <1>0, <1>2 DEF InfoRemove, InfoTypes, SameText
  <2>2. \A d \in Dispatch : /\ info'[d] = info[d] /\ pc'[d] = pc[d]
                            /\ first'[d] = first[d] /\ text'[d] = text[d]
    BY <2>1 DEF jobVars, workVars
  <2>3. \A d \in Dispatch : TextFits(d)'
    BY <1>0, <2>1, <2>2 DEF ContentInv, TextFits, SameText, InfoTypes
  <2>4. \A j \in infos' : Open(j)' <=> Open(j)  BY <2>2 DEF Open
  <2>5. \A j \in infos' : j \in infos /\ SameText(j) /\ (j \in cut' <=> j \in cut)
    BY <1>0, <2>1 DEF InfoTypes
  <2>. QED  BY <2>3, <2>4, <2>5 DEF ContentInv, SameText
<1>3. ASSUME NEW d \in Dispatch, CreateInfo(d) PROVE ContentInv'
  <2>1. /\ nextInfo \in Info /\ info'[d] = nextInfo /\ Alone(d) /\ pc[d] = "info"
        /\ pc'[d] = "rule" /\ UNCHANGED <<first, text>>
    BY <1>0, <1>3, CreateInfoFields DEF workVars
  <2>2. /\ infos' = infos \cup {nextInfo} /\ UNCHANGED <<content, lead, cut>>
    BY <1>3 DEF CreateInfo, flawVars
  <2>3. nextInfo \notin infos  BY <1>0, <2>1, Numbers DEF FreshInv
  <2>4. Blank(nextInfo) /\ info[d] = 0 /\ first[d]
    BY <1>0, <2>1, <2>3 DEF FreshInv, AllStand, Stands
  <2>5. TextFits(d)'  BY <2>1, <2>2, <2>4 DEF TextFits, Blank
  <2>6. ASSUME NEW e \in Dispatch \ {d} PROVE TextFits(e)'
    <3>1. /\ info'[e] = info[e] /\ pc'[e] = pc[e] /\ first'[e] = first[e] /\ text'[e] = text[e]
      BY <2>1 DEF Alone
    <3>2. info[e] # nextInfo
      BY <1>0, <2>1, Numbers DEF FreshInv, JobTypes
    <3>. QED  BY <2>2, <3>1, <3>2 DEF ContentInv, TextFits
  <2>7. ASSUME NEW i \in infos', ~Open(i)'
        PROVE  content'[i] \in {0, lead'[i]} /\ (i \notin cut' => content'[i] = lead'[i])
    <3>1. i \in infos /\ i # 0
      BY <1>0, <2>1, <2>2, <2>7, Numbers DEF Open, InfoTypes
    <3>2. ~Open(i)  BY <2>1, <2>4, <2>7, <3>1 DEF Open, Alone
    <3>. QED  BY <2>2, <3>1, <3>2 DEF ContentInv
  <2>. QED  BY <2>5, <2>6, <2>7 DEF ContentInv
<1>4. ASSUME NEW d \in Dispatch, Working(d) PROVE ContentInv'
  <2>1. /\ Alone(d) /\ infos' = infos /\ info'[d] \in {0, info[d]}
        /\ \A j \in Info : j # info[d] => SameText(j) /\ SameFlaws(j)
    BY <1>0, <1>4, WorkTouches
  <2>2. TextFits(d)  BY DEF ContentInv
  <2>3. /\ TextFits(d)'
        /\ \A i \in infos : i = info[d] /\ info'[d] = 0
             => content'[i] \in {0, lead'[i]} /\ (i \in cut' \/ content'[i] = lead'[i])
    BY <1>0, <1>4, <2>2, ContentWork
  <2>. QED  BY <1>0, <2>1, <2>3, ContentElsewhere
<1>5. CASE UNCHANGED vars
  BY <1>1, <1>5 DEF vars
<1>6. CASE Admin
  BY <1>1, <1>6, AdminQuiet
<1>. QED  BY <1>2, <1>3, <1>4, <1>5, <1>6, NextParts DEF Working

\* The content of an info is that of the first rule that has one and whose write did not fail.
THEOREM ContentsAreFirst == Spec => []ContentIsFirst
<1>1. Bounds  BY NoticeConstants DEF Bounds
<1>2. Init => ContentInv
  BY <1>1, Numbers DEF Init, ContentInv, TextFits
<1>3. Spec => []ContentInv
  BY <1>1, <1>2, ContentInductive, TypeAndStand, InfosAreOwn, PTL DEF Spec
<1>4. TypeOK /\ ContentInv => ContentIsFirst  BY TypeParts, ContentSuffices
<1>. QED  BY <1>3, <1>4, TypeCorrect, PTL

-----------------------------------------------------------------------------
(***************************************************************************)
(* Notice implements Delivery                                              *)
(***************************************************************************)

\* The mails of the rules in T, of which rule k has s[k].
MailsOf(T, s) == UNION {{k} \X (1..s[k]) : k \in T}

LEMMA NoneLeft == ASSUME NEW c, NEW s PROVE {c} \X (1..0) = {} /\ MailsOf({}, s) = {}
<1>1. 1..0 = {}  OBVIOUS
<1>. QED  BY <1>1 DEF MailsOf

LEMMA NextRuleOf ==
  ASSUME NEW T, NEW k \in T, NEW s
  PROVE  MailsOf(T, s) = MailsOf(T \ {k}, s) \cup ({k} \X (1..s[k]))
BY DEF MailsOf

LEMMA NextMail ==
  ASSUME NEW T, NEW c, c \notin T, NEW s, NEW n \in Nat, n > 0
  PROVE  /\ <<c, n>> \in {c} \X (1..n)
         /\ (MailsOf(T, s) \cup ({c} \X (1..n))) \ {<<c, n>>}
            = MailsOf(T, s) \cup ({c} \X (1..(n - 1)))
<1>1. <<c, n>> \in {c} \X (1..n)  OBVIOUS
<1>2. <<c, n>> \notin MailsOf(T, s)  BY DEF MailsOf
<1>3. ({c} \X (1..n)) \ {<<c, n>>} = {c} \X (1..(n - 1))
  <2>1. ASSUME NEW y \in ({c} \X (1..n)) \ {<<c, n>>} PROVE y \in {c} \X (1..(n - 1))
    <3>1. PICK m \in 1..n : y = <<c, m>>  BY <2>1
    <3>2. m # n  BY <2>1, <3>1
    <3>3. m \in 1..(n - 1)  BY <3>2
    <3>. QED  BY <3>1, <3>3
  <2>2. ASSUME NEW y \in {c} \X (1..(n - 1)) PROVE y \in ({c} \X (1..n)) \ {<<c, n>>}
    <3>1. PICK m \in 1..(n - 1) : y = <<c, m>>  OBVIOUS
    <3>2. m \in 1..n /\ m # n  OBVIOUS
    <3>. QED  BY <3>1, <3>2
  <2>. QED  BY <2>1, <2>2
<1>. QED  BY <1>1, <1>2, <1>3

LEMMA PendingIs ==
  ASSUME NEW d
  PROVE  Pending(d) = MailsOf(todo[d], size[d]) \cup ({cur[d]} \X (1..left[d]))
BY DEF Pending, MailsOf

\* What Delivery sees of dispatch e stays as it is.
SeenSame(e) == /\ Pending(e)' = Pending(e) /\ Tried(e)' = Tried(e)
               /\ sumOk'[e] + got'[e] = sumOk[e] + got[e]

LEMMA OthersSeen ==
  ASSUME NEW d \in Dispatch, Alone(d)
  PROVE  \A e \in Dispatch \ {d} : SeenSame(e)
<1>1. ASSUME NEW e \in Dispatch \ {d} PROVE SeenSame(e)
  <2>1. /\ pc'[e] = pc[e] /\ todo'[e] = todo[e] /\ size'[e] = size[e] /\ cur'[e] = cur[e]
        /\ left'[e] = left[e] /\ got'[e] = got[e] /\ sumOk'[e] = sumOk[e]
        /\ sumAll'[e] = sumAll[e]
    BY DEF Alone
  <2>2. Pending(e)' = Pending(e)  BY <2>1 DEF Pending
  <2>3. Tried(e)' = Tried(e)  BY <2>1 DEF Tried
  <2>. QED  BY <2>1, <2>2, <2>3 DEF SeenSame
<1>. QED  BY <1>1

LEMMA Stutters ==
  ASSUME \A e \in Dispatch : SeenSame(e), verdict' = verdict
  PROVE  UNCHANGED Promise!vars
BY DEF Promise!vars, SeenSame

\* A step of d that changes nothing Delivery sees of d.
LEMMA StuttersAlone ==
  ASSUME NEW d \in Dispatch, Alone(d), SeenSame(d), verdict' = verdict
  PROVE  UNCHANGED Promise!vars
BY OthersSeen, Stutters

\* What Delivery sees of d while no mail is on its way.
LEMMA AtRest ==
  ASSUME AllStand, JobTypes, NEW d \in Dispatch, pc[d] \notin {"mail", "log"}
  PROVE  /\ Pending(d) = MailsOf(todo[d], size[d]) /\ Tried(d) = sumAll[d]
         /\ sumOk[d] + got[d] = sumOk[d] /\ left[d] = 0 /\ got[d] = 0
<1>1. left[d] = 0 /\ got[d] = 0 /\ sumOk[d] \in Nat /\ sumAll[d] \in Nat
  BY DEF AllStand, Stands, JobTypes
<1>2. Tried(d) = sumAll[d] + 0  BY DEF Tried
<1>3. Tried(d) = sumAll[d] /\ sumOk[d] + got[d] = sumOk[d]  BY <1>1, <1>2
<1>4. Pending(d) = MailsOf(todo[d], size[d]) \cup ({cur[d]} \X (1..0))
  BY <1>1, PendingIs
<1>5. Pending(d) = MailsOf(todo[d], size[d])  BY <1>4, NoneLeft
<1>. QED  BY <1>1, <1>3, <1>5

LEMMA RefinesRefuse ==
  ASSUME AllStand, JobTypes, NEW d \in Dispatch, NoRule(d)
  PROVE  Promise!Refuse(d)
<1>1. verdict[d] # "open" /\ verdict' = [verdict EXCEPT ![d] = "no_rule"]
  BY DEF NoRule, AllStand, Stands
<1>2. UNCHANGED <<pc, todo, size, cur, left, got, sumOk, sumAll>>
  BY DEF NoRule, workVars, sumVars
<1>3. \A e \in Dispatch : SeenSame(e)
  BY <1>2 DEF SeenSame, Pending, Tried
<1>. QED  BY <1>1, <1>3 DEF Promise!Refuse, SeenSame

LEMMA RefinesStart ==
  ASSUME Bounds, RuleTypes, JobTypes, JobTypes', AllStand, AllStand',
         NEW d \in Dispatch, FindRules(d)
  PROVE  Promise!Start(d)
<1>1. /\ Alone(d) /\ pc[d] = "idle" /\ pc'[d] \in {"info", "rule"}
      /\ todo'[d] \subseteq Rule /\ size'[d] \in Amount
      /\ UNCHANGED <<cur, left, got, sumOk, sumAll>>
  BY FindRulesFields DEF workVars, sumVars
<1>2. verdict[d] # "open" /\ verdict' = [verdict EXCEPT ![d] = "open"]
  BY DEF FindRules, AllStand, Stands
<1>3. Pending(d)' = MailsOf(todo'[d], size'[d])
  <2>1. left[d] = 0  BY <1>1 DEF AllStand, Stands
  <2>2. Pending(d)' = MailsOf(todo'[d], size'[d]) \cup ({cur[d]} \X (1..0))
    BY <1>1, <2>1 DEF Pending, MailsOf
  <2>. QED  BY <2>2, NoneLeft
<1>4. Pending(d)' \subseteq Rule \X Nat
  BY <1>1, <1>3 DEF MailsOf
<1>5. Tried(d)' = Tried(d) /\ sumOk'[d] + got'[d] = sumOk[d] + got[d]
  BY <1>1 DEF Tried
<1>6. \A e \in Dispatch \ {d} : SeenSame(e)  BY <1>1, OthersSeen
<1>7. \A e \in Dispatch : Tried(e)' = Tried(e) /\ sumOk'[e] + got'[e] = sumOk[e] + got[e]
  BY <1>5, <1>6 DEF SeenSame
<1>8. \A e \in Dispatch \ {d} : Pending(e)' = Pending(e)  BY <1>6 DEF SeenSame
<1>. QED  BY <1>2, <1>4, <1>7, <1>8 DEF Promise!Start

LEMMA RefinesTry ==
  ASSUME Bounds, JobTypes, AllStand, NEW d \in Dispatch, SendMail(d)
  PROVE  Promise!Try(d)
<1>1. /\ Alone(d) /\ pc[d] = "mail" /\ left'[d] = left[d] - 1 /\ left[d] > 0
      /\ UNCHANGED <<todo, size, cur, verdict>>
  BY SendMailFields
<1>2. /\ cur[d] \notin todo[d] /\ cur[d] \in Rule /\ left[d] \in Nat /\ got[d] \in Nat
      /\ sumOk[d] \in Nat /\ sumAll[d] \in Nat /\ size[d][cur[d]] \in Nat
  BY <1>1, Numbers DEF AllStand, Stands, JobTypes, Amount
<1>. DEFINE x == <<cur[d], left[d]>>
<1>3. x \in Pending(d) /\ Pending(d)' = Pending(d) \ {x}
  <2>1. Pending(d)' = MailsOf(todo[d], size[d]) \cup ({cur[d]} \X (1..(left[d] - 1)))
    BY <1>1 DEF Pending, MailsOf
  <2>. QED  BY <1>1, <1>2, <2>1, PendingIs, NextMail
<1>4. Tried(d) = sumAll[d] + (size[d][cur[d]] - left[d])  BY <1>1 DEF Tried
<1>5. /\ Tried(d)' = Tried(d) + 1
      /\ sumOk'[d] + got'[d] = sumOk[d] + got[d] + Taken(last'[d])
  <2>. DEFINE one == Taken(last'[d])
  <2>1. one \in 0..1  BY DEF Taken
  <2>2. CASE pc'[d] \in {"mail", "log"}
    <3>1. got'[d] = got[d] + one /\ sumOk'[d] = sumOk[d] /\ sumAll'[d] = sumAll[d]
      BY <2>2, SendMailFields, ThenWhere
    <3>2. Tried(d)' = sumAll[d] + (size[d][cur[d]] - (left[d] - 1))
      BY <1>1, <2>2, <3>1 DEF Tried
    <3>. HIDE DEF one
    <3>3. Tried(d)' = Tried(d) + 1  BY <1>1, <1>2, <1>4, <3>2
    <3>4. sumOk'[d] + got'[d] = sumOk[d] + got[d] + one  BY <1>2, <2>1, <3>1
    <3>. QED  BY <3>3, <3>4 DEF one
  <2>3. CASE pc'[d] \notin {"mail", "log"}
    <3>1. /\ left'[d] = 0 /\ got'[d] = 0 /\ sumOk'[d] = sumOk[d] + got[d] + one
          /\ sumAll'[d] = sumAll[d] + size[d][cur[d]]
      BY <2>3, SendMailFields
    <3>2. Tried(d)' = sumAll[d] + size[d][cur[d]] + 0  BY <2>3, <3>1 DEF Tried
    <3>. HIDE DEF one
    <3>3. left[d] = 1  BY <1>1, <1>2, <3>1
    <3>4. Tried(d)' = Tried(d) + 1  BY <1>2, <1>4, <3>2, <3>3
    <3>5. sumOk'[d] + got'[d] = sumOk[d] + got[d] + one  BY <1>2, <2>1, <3>1
    <3>. QED  BY <3>4, <3>5 DEF one
  <2>. QED  BY <2>2, <2>3
<1>6. \A e \in Dispatch \ {d} :
        /\ Pending(e)' = Pending(e) /\ Tried(e)' = Tried(e)
        /\ sumOk'[e] + got'[e] = sumOk[e] + got[e]
  BY <1>1, OthersSeen DEF SeenSame
<1>. DEFINE P == [e \in Dispatch |-> Pending(e)]
            N == [e \in Dispatch |-> Tried(e)]
            G == [e \in Dispatch |-> sumOk[e] + got[e]]
<1>7. P' = [P EXCEPT ![d] = @ \ {x}] /\ x \in P[d]  BY <1>3, <1>6
<1>8. N' = [N EXCEPT ![d] = @ + 1]  BY <1>5, <1>6
<1>9. G' = [G EXCEPT ![d] = @ + 1] \/ G' = G
  <2>1. CASE last'[d]
    BY <1>5, <1>6, <2>1 DEF Taken
  <2>2. CASE ~last'[d]
    <3>1. sumOk'[d] + got'[d] = sumOk[d] + got[d] + 0  BY <1>5, <2>2 DEF Taken
    <3>2. sumOk'[d] + got'[d] = sumOk[d] + got[d]  BY <1>2, <3>1
    <3>. QED  BY <1>6, <3>2
  <2>. QED  BY <2>1, <2>2
<1>. QED  BY <1>1, <1>7, <1>8, <1>9 DEF Promise!Try

\* The steps between the mails are none for Delivery.
LEMMA RefinesNothing ==
  ASSUME Bounds, RuleTypes, InfoTypes, JobTypes, JobTypes', AllStand, AllStand',
         NEW d \in Dispatch, CreateInfo(d) \/ StartRule(d) \/ WriteLog(d) \/ WriteContent(d)
  PROVE  UNCHANGED Promise!vars
<1>1. CASE CreateInfo(d)
  <2>1. /\ Alone(d) /\ pc[d] = "info" /\ pc'[d] = "rule"
        /\ UNCHANGED <<todo, size, cur, left, got, sumOk, sumAll, verdict>>
    BY <1>1, CreateInfoFields DEF workVars, sumVars
  <2>2. SeenSame(d)  BY <2>1 DEF SeenSame, Pending, Tried
  <2>. QED  BY <2>1, <2>2, StuttersAlone
<1>2. CASE StartRule(d)
  <2>1. PICK k \in todo[d], t \in 0..MaxRule :
          /\ todo'[d] = todo[d] \ {k} /\ cur'[d] = k /\ left'[d] = size[d][k]
          /\ sumOk'[d] = sumOk[d] /\ sumAll'[d] = sumAll[d]
          /\ \/ size[d][k] = 0 /\ pc'[d] = Then(d, todo'[d], t)
             \/ size[d][k] > 0 /\ pc'[d] = "mail"
    BY <1>2, StartRuleFields
  <2>2. Alone(d) /\ pc[d] = "rule" /\ UNCHANGED <<size, got, verdict>>
    BY <1>2, StartRuleFields
  <2>3. /\ Pending(d) = MailsOf(todo[d], size[d]) /\ Tried(d) = sumAll[d]
        /\ size[d][k] \in Nat /\ sumAll[d] \in Nat
    <3>1. pc[d] \notin {"mail", "log"} /\ k \in Rule  BY <2>1, <2>2 DEF JobTypes
    <3>2. Pending(d) = MailsOf(todo[d], size[d]) /\ Tried(d) = sumAll[d]
      BY <3>1, AtRest
    <3>3. size[d][k] \in Nat /\ sumAll[d] \in Nat
      BY <3>1, Numbers DEF JobTypes, Amount
    <3>. QED  BY <3>2, <3>3
  <2>4. Pending(d)' = MailsOf(todo[d] \ {k}, size[d]) \cup ({k} \X (1..size[d][k]))
    BY <2>1, <2>2 DEF Pending, MailsOf
  <2>5. Pending(d)' = Pending(d)
    <3>. DEFINE T == todo[d]
                s == size[d]
    <3>1. MailsOf(T, s) = MailsOf(T \ {k}, s) \cup ({k} \X (1..s[k]))
      <4>. HIDE DEF T, s
      <4>1. k \in T  BY <2>1 DEF T
      <4>. QED  BY <4>1, NextRuleOf
    <3>. QED  BY <2>3, <2>4, <3>1
  <2>6. Tried(d)' = Tried(d)
    <3>1. CASE pc'[d] = "mail"
      <4>1. Tried(d)' = sumAll[d] + (size[d][k] - size[d][k])
        BY <2>1, <2>2, <3>1 DEF Tried
      <4>. QED  BY <2>3, <4>1
    <3>2. CASE pc'[d] # "mail"
      <4>1. pc'[d] \in {"content", "stats", "rule"}  BY <2>1, <3>2, ThenWhere
      <4>2. Tried(d)' = sumAll[d] + 0  BY <2>1, <4>1 DEF Tried
      <4>. QED  BY <2>3, <4>2
    <3>. QED  BY <3>1, <3>2
  <2>7. SeenSame(d)  BY <2>1, <2>2, <2>5, <2>6 DEF SeenSame
  <2>. QED  BY <2>2, <2>7, StuttersAlone
<1>3. CASE WriteLog(d)
  <2>1. /\ Alone(d) /\ pc[d] = "log"
        /\ UNCHANGED <<todo, size, cur, left, verdict>>
        /\ \/ /\ left[d] > 0 /\ pc'[d] = "mail" /\ got'[d] = got[d]
              /\ sumOk'[d] = sumOk[d] /\ sumAll'[d] = sumAll[d]
           \/ /\ left[d] = 0 /\ pc'[d] = Then(d, todo[d], text[d]) /\ got'[d] = 0
              /\ sumOk'[d] = sumOk[d] + got[d] /\ sumAll'[d] = sumAll[d] + size[d][cur[d]]
    BY <1>3, WriteLogFields
  <2>2. Pending(d)' = Pending(d)  BY <2>1 DEF Pending
  <2>3. /\ sumOk[d] \in Nat /\ sumAll[d] \in Nat /\ got[d] \in Nat
        /\ size[d][cur[d]] \in Nat
    BY <2>1, Numbers DEF JobTypes, Amount, AllStand, Stands
  <2>4. Tried(d)' = Tried(d) /\ sumOk'[d] + got'[d] = sumOk[d] + got[d]
    <3>1. CASE left[d] > 0
      BY <2>1, <3>1 DEF Tried
    <3>2. CASE left[d] = 0
      <4>1. pc'[d] \in {"content", "stats", "rule"}  BY <2>1, <3>2, ThenWhere
      <4>2. /\ got'[d] = 0 /\ sumOk'[d] = sumOk[d] + got[d]
            /\ sumAll'[d] = sumAll[d] + size[d][cur[d]]
        BY <2>1, <3>2
      <4>3. Tried(d)' = sumAll[d] + size[d][cur[d]] + 0  BY <4>1, <4>2 DEF Tried
      <4>4. Tried(d) = sumAll[d] + (size[d][cur[d]] - 0)  BY <2>1, <3>2 DEF Tried
      <4>. QED  BY <2>3, <4>2, <4>3, <4>4
    <3>. QED  BY <2>1, <3>1, <3>2
  <2>5. SeenSame(d)  BY <2>2, <2>4 DEF SeenSame
  <2>. QED  BY <2>1, <2>5, StuttersAlone
<1>4. CASE WriteContent(d)
  <2>1. /\ Alone(d) /\ pc[d] = "content" /\ pc'[d] \in {"rule", "stats"}
        /\ UNCHANGED <<todo, size, cur, left, got, sumOk, sumAll, verdict>>
    BY <1>4, WriteContentFields DEF workVars, sumVars, AfterRule
  <2>2. SeenSame(d)  BY <2>1 DEF SeenSame, Pending, Tried
  <2>. QED  BY <2>1, <2>2, StuttersAlone
<1>. QED  BY <1>1, <1>2, <1>3, <1>4

LEMMA RefinesEnd ==
  ASSUME Bounds, JobTypes, AllStand, NEW d \in Dispatch, pc[d] # "idle",
         NEW v \in Verdict \ {"open"}, End(d, v)
  PROVE  Promise!End(d, v)
<1>1. /\ Alone(d) /\ pc'[d] = "idle" /\ todo'[d] = {} /\ left'[d] = 0 /\ got'[d] = 0
      /\ sumOk'[d] = 0 /\ sumAll'[d] = 0
  BY EndFields
<1>2. verdict[d] = "open" /\ verdict' = [verdict EXCEPT ![d] = v]
  BY DEF End, AllStand, Stands
<1>3. Pending(d)' = MailsOf({}, size'[d]) \cup ({cur'[d]} \X (1..0))
  BY <1>1 DEF Pending, MailsOf
<1>4. Pending(d)' = {}  BY <1>3, NoneLeft
<1>5. Tried(d)' = 0 /\ sumOk'[d] + got'[d] = 0  BY <1>1 DEF Tried
<1>6. \A e \in Dispatch \ {d} :
        /\ Pending(e)' = Pending(e) /\ Tried(e)' = Tried(e)
        /\ sumOk'[e] + got'[e] = sumOk[e] + got[e]
  BY <1>1, OthersSeen DEF SeenSame
<1>. QED  BY <1>2, <1>4, <1>5, <1>6 DEF Promise!End

\* The message tells how it went.
LEMMA MessageTells ==
  ASSUME NEW n \in Nat, NEW g \in Nat, g <= n
  PROVE  Promise!Tells(Message(g, n), n, g) /\ Message(g, n) \in Verdict \ {"open"}
BY DEF Promise!Tells, Message, Verdict

LEMMA RefinesAnswer ==
  ASSUME Bounds, JobTypes, AllStand, NEW d \in Dispatch, WriteStats(d)
  PROVE  Promise!Answer(d)
<1>1. PICK v : v = Message(sumOk[d], sumAll[d])  OBVIOUS
<1>2. /\ pc[d] = "stats" /\ todo[d] = {} /\ sumOk[d] <= sumAll[d]
      /\ sumOk[d] \in Nat /\ sumAll[d] \in Nat
  BY DEF WriteStats, AllStand, Stands, JobTypes
<1>3. End(d, v)  BY <1>1 DEF WriteStats, End
<1>4. Promise!Tells(v, sumAll[d], sumOk[d]) /\ v \in Verdict \ {"open"}
  BY <1>1, <1>2, MessageTells
<1>5. Pending(d) = {} /\ Tried(d) = sumAll[d] /\ sumOk[d] + got[d] = sumOk[d]
  BY <1>2, AtRest, NoneLeft
<1>6. pc[d] # "idle"  BY <1>2
<1>7. Promise!End(d, v)  BY <1>3, <1>4, <1>6, RefinesEnd
<1>8. v \in Promise!Verdict  BY <1>4 DEF Verdict, Promise!Verdict
<1>. QED  BY <1>4, <1>5, <1>7, <1>8 DEF Promise!Answer

LEMMA StepMaps ==
  ASSUME Bounds, TypeOK, TypeOK', AllStand, AllStand', [Next]_vars
  PROVE  [Promise!Next]_(Promise!vars)
<1>0. RuleTypes /\ InfoTypes /\ JobTypes /\ JobTypes'
  BY TypeParts DEF TypeOK, JobTypes, Amount, Verdict
<1>1. ASSUME UNCHANGED jobVars PROVE UNCHANGED Promise!vars
  <2>1. UNCHANGED <<pc, todo, size, cur, left, got, sumOk, sumAll, verdict>>
    BY <1>1 DEF jobVars, workVars, sumVars
  <2>2. \A e \in Dispatch : SeenSame(e)  BY <2>1 DEF SeenSame, Pending, Tried
  <2>. QED  BY <2>1, <2>2, Stutters
<1>2. CASE UNCHANGED vars
  BY <1>1, <1>2 DEF vars
<1>3. CASE Admin
  BY <1>1, <1>3, AdminQuiet
<1>4. CASE \E i \in Info : InfoRemove(i)
  BY <1>1, <1>4, RemoveQuiet
<1>5. ASSUME NEW d \in Dispatch, NoRule(d) PROVE Promise!Next
  BY <1>0, <1>5, RefinesRefuse DEF Promise!Next
<1>6. ASSUME NEW d \in Dispatch, FindRules(d) PROVE Promise!Next
  BY <1>0, <1>6, RefinesStart DEF Promise!Next
<1>7. ASSUME NEW d \in Dispatch, SendMail(d) PROVE Promise!Next
  BY <1>0, <1>7, RefinesTry DEF Promise!Next
<1>8. ASSUME NEW d \in Dispatch, WriteStats(d) PROVE Promise!Next
  BY <1>0, <1>8, RefinesAnswer DEF Promise!Next
<1>9. ASSUME NEW d \in Dispatch, Abort(d) PROVE Promise!Next
  <2>1. pc[d] # "idle" /\ End(d, "cut") /\ "cut" \in Verdict \ {"open"}
    BY <1>9 DEF Abort, Verdict
  <2>2. Promise!End(d, "cut")  BY <1>0, <2>1, RefinesEnd
  <2>. QED  BY <2>2 DEF Promise!Next, Promise!Cut
<1>10. ASSUME NEW d \in Dispatch,
              CreateInfo(d) \/ StartRule(d) \/ WriteLog(d) \/ WriteContent(d)
       PROVE  UNCHANGED Promise!vars
  BY <1>0, <1>10, RefinesNothing
<1>. QED
  BY <1>2, <1>3, <1>4, <1>5, <1>6, <1>7, <1>8, <1>9, <1>10, NextParts

\* Every address is tried once and the answer tells how that went: Notice implements
\* Delivery.
THEOREM DeliveryRefined == Spec => ImplementsDelivery
<1>1. Bounds  BY NoticeConstants DEF Bounds
<1>2. Init => Promise!Init
  <2>1. SUFFICES ASSUME Init PROVE Promise!Init  OBVIOUS
  <2>2. \A d \in Dispatch : /\ Pending(d) = MailsOf({}, size[d]) \cup ({0} \X (1..0))
                            /\ Tried(d) = 0 /\ sumOk[d] + got[d] = 0
    BY <2>1 DEF Init, Pending, MailsOf, Tried
  <2>3. \A d \in Dispatch : Pending(d) = {}  BY <2>2, NoneLeft
  <2>4. verdict = [d \in Dispatch |-> "none"]  BY <2>1 DEF Init
  <2>. QED  BY <2>2, <2>3, <2>4 DEF Promise!Init
<1>3. Bounds /\ TypeOK /\ AllStand /\ (TypeOK /\ AllStand)' /\ [Next]_vars
      => [Promise!Next]_(Promise!vars)
  BY StepMaps
<1>. QED
  BY <1>1, <1>2, <1>3, TypeAndStand, PTL DEF Spec, Promise!Spec, ImplementsDelivery
-----------------------------------------------------------------------------
(***************************************************************************)
(* The way of a dispatch to its end                                        *)
(***************************************************************************)

\* With rules to come a dispatch goes on with one, and so it stands when it begins.
HasRules == \A d \in Dispatch : pc[d] \in {"info", "rule"} => todo[d] # {}

LEMMA ThenRules ==
  ASSUME NEW d, NEW S, NEW t, Then(d, S, t) = "rule" PROVE S # {}
BY DEF Then, AfterRule

LEMMA HasRulesInductive ==
  ASSUME Bounds, RuleTypes, InfoTypes, JobTypes, AllStand, HasRules, [Next]_vars
  PROVE  HasRules'
<1>1. ASSUME UNCHANGED jobVars PROVE HasRules'
  BY <1>1 DEF HasRules, jobVars
<1>2. ASSUME NEW d \in Dispatch, Alone(d), pc'[d] \in {"info", "rule"} => todo'[d] # {}
      PROVE  HasRules'
  BY <1>2 DEF HasRules, Alone
<1>3. ASSUME NEW d \in Dispatch,
             \/ NoRule(d) \/ FindRules(d) \/ CreateInfo(d) \/ StartRule(d) \/ SendMail(d)
             \/ WriteLog(d) \/ WriteContent(d) \/ WriteStats(d) \/ Abort(d)
      PROVE  HasRules'
  <2>0. pc[d] \in {"info", "rule"} => todo[d] # {}  BY DEF HasRules
  <2>1. CASE NoRule(d)
    BY <1>2, <2>0, <2>1, NoRuleFields
  <2>2. CASE FindRules(d)
    <3>1. todo'[d] = on /\ on # {}  BY <2>2 DEF FindRules, JobTypes
    <3>. QED  BY <1>2, <2>2, <3>1, FindRulesFields
  <2>3. CASE CreateInfo(d)
    BY <1>2, <2>0, <2>3, CreateInfoFields
  <2>4. CASE StartRule(d)
    <3>1. pc'[d] = "rule" => todo'[d] # {}
      BY <2>4, StartRuleFields, ThenRules
    <3>2. pc'[d] # "info"
      BY <2>4, StartRuleFields, ThenWhere
    <3>. QED  BY <1>2, <2>4, <3>1, <3>2, StartRuleFields
  <2>5. CASE SendMail(d)
    <3>1. todo'[d] = todo[d] /\ pc'[d] # "info"  BY <2>5, SendMailFields, ThenWhere
    <3>2. pc'[d] = "rule" => todo[d] # {}  BY <2>5, SendMailFields, ThenRules
    <3>. QED  BY <1>2, <2>5, <3>1, <3>2, SendMailFields
  <2>6. CASE WriteLog(d)
    <3>1. todo'[d] = todo[d] /\ pc'[d] # "info"  BY <2>6, WriteLogFields, ThenWhere
    <3>2. pc'[d] = "rule" => todo[d] # {}  BY <2>6, WriteLogFields, ThenRules
    <3>. QED  BY <1>2, <2>6, <3>1, <3>2, WriteLogFields
  <2>7. CASE WriteContent(d)
    <3>1. todo'[d] = todo[d] /\ pc'[d] = AfterRule(todo[d])  BY <2>7, WriteContentFields
    <3>2. pc'[d] # "info" /\ (pc'[d] = "rule" => todo'[d] # {})  BY <3>1 DEF AfterRule
    <3>. QED  BY <1>2, <2>7, <3>2, WriteContentFields
  <2>8. CASE WriteStats(d) \/ Abort(d)
    <3>1. PICK v \in Verdict \ {"open"} : End(d, v)  BY <2>8, Ends
    <3>. QED  BY <1>2, <3>1, EndFields
  <2>. QED  BY <1>3, <2>1, <2>2, <2>3, <2>4, <2>5, <2>6, <2>7, <2>8
<1>. QED
  BY <1>1, <1>3, NextParts, AdminQuiet, RemoveQuiet DEF vars

\* Among natural numbers there is a least one.
LEMMA LeastNat ==
  ASSUME NEW T \in SUBSET Nat, T # {}
  PROVE  \E n \in T : \A m \in T : n <= m
<1>1. IsWellFoundedOn(OpToRel(<, Nat), Nat)
  BY NatLessThanWellFounded
<1>2. OpToRel(<, Nat) = {ss \in Nat \X Nat : ss[1] < ss[2]}
  BY DEF OpToRel
<1>. DEFINE R == {ss \in Nat \X Nat : ss[1] < ss[2]}
<1>3. IsWellFoundedOn(R, Nat)
  BY <1>1, <1>2
<1>4. ASSUME NEW n \in Nat, NEW m \in Nat, <<m, n>> \notin R PROVE n <= m
  BY <1>4
<1>. HIDE DEF R
<1>5. PICK n \in T : \A m \in T : <<m, n>> \notin R
  BY <1>3, WFMin
<1>. QED  BY <1>4, <1>5

\* There is always a step for a dispatch under way: a rule whose turn it is, though several
\* have one createTime (notice.service.ts:120, 350), an address to
\* write to.  The other steps ask for nothing but where it stands, CreateInfo for room
\* below the bound MaxInfo.
THEOREM DispatchesGoOn ==
  Spec => [](\A d \in Dispatch :
               /\ pc[d] = "rule" => \E k \in Rule : Turn(d, k)
               /\ pc[d] = "mail" => left[d] > 0)
<1>. DEFINE Able(d) == /\ pc[d] = "rule" => \E k \in Rule : Turn(d, k)
                       /\ pc[d] = "mail" => left[d] > 0
            All == \A d \in Dispatch : Able(d)
<1>1. Bounds  BY NoticeConstants DEF Bounds
<1>2. Init => HasRules  BY DEF Init, HasRules
<1>3. ASSUME Bounds, TypeOK, AllStand, HasRules PROVE All
  <2>1. SUFFICES ASSUME NEW d \in Dispatch PROVE Able(d)
    OBVIOUS
  <2>2. pc[d] = "mail" => left[d] > 0  BY <1>3 DEF AllStand, Stands
  <2>3. ASSUME pc[d] = "rule" PROVE \E k \in Rule : Turn(d, k)
    <3>1. todo[d] # {} /\ todo[d] \subseteq Rule
      BY <1>3, <2>3 DEF HasRules, TypeOK
    <3>2. \A k \in Rule : made[k] \in Nat
      BY <1>3 DEF TypeOK, Bounds
    <3>. DEFINE Times == {made[k] : k \in todo[d]}
    <3>3. Times \subseteq Nat /\ Times # {}
      BY <3>1, <3>2
    <3>4. PICK n \in Times : \A m \in Times : n <= m
      <4>. HIDE DEF Times
      <4>. QED  BY <3>3, LeastNat
    <3>5. PICK k \in todo[d] : made[k] = n
      OBVIOUS
    <3>6. Turn(d, k)
      BY <3>4, <3>5 DEF Turn
    <3>. QED  BY <3>1, <3>6
  <2>. QED  BY <2>2, <2>3
<1>4. ASSUME Bounds, TypeOK, AllStand, HasRules, [Next]_vars PROVE HasRules'
  <2>1. RuleTypes /\ InfoTypes /\ JobTypes  BY <1>4, TypeParts
  <2>. QED  BY <1>4, <2>1, HasRulesInductive
<1>. HIDE DEF All
<1>5. Spec => []All
  BY <1>1, <1>2, <1>3, <1>4, TypeAndStand, PTL DEF Spec
<1>. QED  BY <1>5 DEF All

\* Every step of a dispatch brings it closer.
LEMMA DispatchingCloser ==
  ASSUME Bounds, RuleTypes, InfoTypes, JobTypes, AllStand, NEW d \in Dispatch, Dispatching(d)
  PROVE  Closer(d)
<1>0. Stands(d) /\ left[d] \in Nat /\ todo[d] \subseteq Rule
  BY DEF AllStand, JobTypes
<1>1. ASSUME NEW s, s \in {"content", "stats", "rule"} PROVE Rank(s) \in {1, 2}
  BY <1>1 DEF Rank
<1>2. /\ Rank("idle") = 0 /\ Rank("stats") = 1 /\ Rank("info") = 2 /\ Rank("rule") = 1
      /\ Rank("mail") = 2 /\ Rank("content") = 2 /\ Rank("log") = 3
  BY DEF Rank
<1>3. CASE CreateInfo(d)
  <2>1. pc[d] = "info" /\ pc'[d] = "rule" /\ todo'[d] = todo[d] /\ left'[d] = left[d]
    BY <1>3, CreateInfoFields DEF workVars
  <2>. QED  BY <1>0, <1>2, <2>1 DEF Closer
<1>4. CASE StartRule(d)
  <2>1. todo'[d] \subseteq todo[d] /\ todo'[d] # todo[d]  BY <1>4, StartRuleFields
  <2>. QED  BY <2>1 DEF Closer
<1>5. CASE SendMail(d)
  <2>1. todo'[d] = todo[d] /\ left'[d] = left[d] - 1  BY <1>5, SendMailFields
  <2>. QED  BY <1>0, <2>1 DEF Closer
<1>6. CASE WriteLog(d)
  <2>1. pc[d] = "log" /\ todo'[d] = todo[d] /\ left'[d] = left[d]  BY <1>6, WriteLogFields
  <2>2. pc'[d] \in {"mail", "content", "stats", "rule"}
    BY <1>6, WriteLogFields, ThenWhere
  <2>3. Rank(pc'[d]) < Rank(pc[d])  BY <1>1, <1>2, <2>1, <2>2
  <2>. QED  BY <1>0, <2>1, <2>3 DEF Closer
<1>7. CASE WriteContent(d)
  <2>1. pc[d] = "content" /\ pc'[d] \in {"stats", "rule"}
        /\ todo'[d] = todo[d] /\ left'[d] = left[d]
    BY <1>7, WriteContentFields DEF workVars, AfterRule
  <2>. QED  BY <1>0, <1>2, <2>1 DEF Closer
<1>8. CASE WriteStats(d)
  <2>1. PICK v \in Verdict \ {"open"} : End(d, v)  BY <1>8, Ends
  <2>2. pc[d] = "stats" /\ todo[d] = {} /\ left[d] = 0
    BY <1>0, <1>8 DEF WriteStats, Stands
  <2>3. pc'[d] = "idle" /\ todo'[d] = {} /\ left'[d] = 0  BY <2>1, EndFields
  <2>. QED  BY <1>2, <2>2, <2>3 DEF Closer
<1>. QED  BY <1>3, <1>4, <1>5, <1>6, <1>7, <1>8 DEF Dispatching

\* A dispatch under way ends with the next step or comes closer to its end with every step
\* of its own, and no other step sets it back.  Its rules to come are finitely many and its
\* addresses a natural number: it takes finitely many steps, whatever fails meanwhile.
THEOREM DispatchesComeCloser == Spec => DispatchesAdvance
<1>. DEFINE On(d) == pc[d] # "idle" =>
              \/ pc'[d] = "idle"
              \/ Closer(d)
              \/ UNCHANGED <<pc[d], todo[d], left[d]>> /\ ~Dispatching(d)
            All == \A d \in Dispatch : On(d)
<1>1. Bounds  BY NoticeConstants DEF Bounds
<1>2. ASSUME Bounds, TypeOK, AllStand, [Next]_vars, NEW d \in Dispatch, pc[d] # "idle"
      PROVE  On(d)
  <2>0. RuleTypes /\ InfoTypes /\ JobTypes  BY <1>2, TypeParts
  <2>1. CASE Dispatching(d)
    BY <1>2, <2>0, <2>1, DispatchingCloser
  <2>2. CASE Abort(d)
    <3>1. PICK v \in Verdict \ {"open"} : End(d, v)  BY <2>2, Ends
    <3>. QED  BY <1>2, <2>0, <3>1, EndFields
  <2>3. CASE ~Dispatching(d) /\ ~Abort(d)
    <3>1. ASSUME UNCHANGED jobVars PROVE UNCHANGED <<pc[d], todo[d], left[d]>>
      BY <3>1 DEF jobVars, workVars
    <3>2. ASSUME NEW e \in Dispatch,
                 \/ NoRule(e) \/ FindRules(e) \/ CreateInfo(e) \/ StartRule(e) \/ SendMail(e)
                 \/ WriteLog(e) \/ WriteContent(e) \/ WriteStats(e) \/ Abort(e)
          PROVE  UNCHANGED <<pc[d], todo[d], left[d]>>
      <4>1. e # d  BY <1>2, <2>3, <3>2 DEF NoRule, FindRules, Dispatching
      <4>2. Alone(e)  BY <1>2, <2>0, <3>2, NoRuleFields, FindRulesFields, CreateInfoFields,
                         StartRuleFields, SendMailFields, WriteLogFields, WriteContentFields,
                         Ends, EndFields
      <4>. QED  BY <4>1, <4>2 DEF Alone
    <3>3. UNCHANGED <<pc[d], todo[d], left[d]>>
      BY <1>2, <3>1, <3>2, NextParts, AdminQuiet, RemoveQuiet DEF vars
    <3>. QED  BY <2>3, <3>3
  <2>. QED  BY <2>1, <2>2, <2>3
<1>3. ASSUME Bounds, TypeOK, AllStand, [Next]_vars PROVE [All]_vars
  BY <1>2, <1>3
<1>. HIDE DEF All
<1>4. Spec => [][All]_vars
  BY <1>1, <1>3, TypeAndStand, PTL DEF Spec
<1>. QED  BY <1>4 DEF All, DispatchesAdvance

=============================================================================
