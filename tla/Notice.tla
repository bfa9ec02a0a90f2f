-------------------------------- MODULE Notice --------------------------------
(***************************************************************************)
(* Notifications: the rules for one kind of event, the infos that record   *)
(* that it happened with the logs of their mails, NoticeService            *)
(* .triggerEvent, which creates and fills them while it sends, and the     *)
(* services with which administrators change rules and remove infos.       *)
(*                                                                         *)
(* Abstractions.  Of the addresses of a rule their number counts, of the   *)
(* content of a mail the rule it is from (0 for an empty one); which rule  *)
(* a log names is left out, so that ON DELETE SET NULL changes nothing.    *)
(* An action is the code between two awaits, or less where it touches no   *)
(* table.  A look-up that the write after it repeats is left out.  An      *)
(* update that takes a rule to another kind of event stops it from         *)
(* answering this one, as one that switches it off does.                   *)
(***************************************************************************)
EXTENDS Naturals, FiniteSets

CONSTANTS
  Dispatch,   \* calls of triggerEvent in flight at one time
  Editor,     \* calls of toggleStatus in flight at one time
  MaxRule,    \* bound: rules ever created
  MaxInfo,    \* bound: infos ever created
  MaxEdit,    \* bound: changes and removals of rules
  Size        \* how many addresses a rule, or a test, names

ASSUME NoticeConstants ==
  /\ MaxRule \in Nat /\ MaxInfo \in Nat /\ MaxEdit \in Nat
  /\ Size \subseteq Nat

Rule == 1..MaxRule
Info == 1..MaxInfo

VARIABLES
  rules, on, record,   \* rules in the table, the enabled, those with enableRecord
  mails, made,         \* how many addresses a rule has; its createTime in seconds
  nextRule,            \* its AUTO_INCREMENT
  edits,               \* how many changes and removals there were
  infos, nextInfo,     \* infos in the table; its AUTO_INCREMENT
  content,             \* noticeContent
  success, total,      \* noticeSuccess, noticeTotal
  logOk, logBad,       \* logs under an info with result success, failed
  pc,                  \* where each dispatch stands
  todo, size, quiet,   \* rules to come, addresses of each, those without enableRecord
  info, first,         \* infoId (0 for null), isFirstRule
  cur, text, left,     \* the rule at work, its content, its addresses to come
  got, last,           \* its mails taken; was the last one?
  sumOk, sumAll,       \* successCount, totalCount
  verdict,             \* what each dispatch answered
  seen,                \* the rule and status a toggle has read
  lead,                \* history: the first content of each info that is not empty and
                       \* whose write did not fail
  cut, short           \* history: infos whose statistics were not written; with a mail
                       \* that has no log

ruleVars == <<rules, on, record, mails, made, nextRule, edits>>
infoVars == <<infos, nextInfo, content, success, total, logOk, logBad>>
sumVars  == <<sumOk, sumAll>>
workVars == <<cur, text, left, got, last>>
jobVars  == <<pc, todo, size, quiet, info, first, workVars, sumVars, verdict>>
flawVars == <<lead, cut, short>>
vars == <<ruleVars, infoVars, jobVars, flawVars, seen>>

Step == {"idle", "info", "rule", "mail", "log", "content", "stats"}
Nothing == [rule |-> 0, on |-> FALSE]

Init ==
  /\ rules = {} /\ on = {} /\ record = {}
  /\ mails = [k \in Rule |-> 0] /\ made = [k \in Rule |-> 0]
  /\ nextRule = 1 /\ edits = 0
  /\ infos = {} /\ nextInfo = 1
  /\ content = [i \in Info |-> 0]
  /\ success = [i \in Info |-> 0] /\ total = [i \in Info |-> 0]
  /\ logOk = [i \in Info |-> 0] /\ logBad = [i \in Info |-> 0]
  /\ pc = [d \in Dispatch |-> "idle"]
  /\ todo = [d \in Dispatch |-> {}] /\ quiet = [d \in Dispatch |-> {}]
  /\ size = [d \in Dispatch |-> [k \in Rule |-> 0]]
  /\ info = [d \in Dispatch |-> 0] /\ first = [d \in Dispatch |-> TRUE]
  /\ cur = [d \in Dispatch |-> 0] /\ text = [d \in Dispatch |-> 0]
  /\ left = [d \in Dispatch |-> 0] /\ got = [d \in Dispatch |-> 0]
  /\ last = [d \in Dispatch |-> FALSE]
  /\ sumOk = [d \in Dispatch |-> 0] /\ sumAll = [d \in Dispatch |-> 0]
  /\ verdict = [d \in Dispatch |-> "none"]
  /\ seen = [e \in Editor |-> Nothing]
  /\ lead = [i \in Info |-> 0]
  /\ cut = {} /\ short = {}

-----------------------------------------------------------------------------
(***************************************************************************)
(* NoticeRuleService                                                       *)
(***************************************************************************)

\* A change of the rules is counted.
Edited == edits < MaxEdit /\ edits' = edits + 1

\* The columns that create and update write.
RuleWritten(k, b, rec, n) ==
  /\ on' = IF b THEN on \cup {k} ELSE on \ {k}
  /\ record' = IF rec THEN record \cup {k} ELSE record \ {k}
  /\ mails' = [mails EXCEPT ![k] = n]

\* createTime has whole seconds: a rule gets a later one than the rule before it, or the
\* same.
RuleCreate(b, rec, n) ==
  /\ nextRule <= MaxRule
  /\ rules' = rules \cup {nextRule}
  /\ RuleWritten(nextRule, b, rec, n)
  /\ \/ made' = [made EXCEPT ![nextRule] = nextRule]
     \/ nextRule > 1 /\ made' = [made EXCEPT ![nextRule] = made[nextRule - 1]]
  /\ nextRule' = nextRule + 1
  /\ UNCHANGED <<edits, infoVars, jobVars, flawVars, seen>>

RuleUpdate(k, b, rec, n) ==
  /\ k \in rules
  /\ RuleWritten(k, b, rec, n)
  /\ Edited
  /\ UNCHANGED <<rules, made, nextRule, infoVars, jobVars, flawVars, seen>>

RuleRemove(k) ==
  /\ k \in rules
  /\ rules' = rules \ {k} /\ on' = on \ {k} /\ record' = record \ {k}
  /\ mails' = [mails EXCEPT ![k] = 0]
  /\ Edited
  /\ UNCHANGED <<made, nextRule, infoVars, jobVars, flawVars, seen>>

ToggleFind(e, k) ==
  /\ seen[e] = Nothing
  /\ k \in rules
  /\ seen' = [seen EXCEPT ![e] = [rule |-> k, on |-> k \in on]]
  /\ Edited
  /\ UNCHANGED <<rules, on, record, mails, made, nextRule, infoVars, jobVars, flawVars>>

\* A rule that is gone by now makes the update fail.  A toggle that fails for another
\* reason is one that never gets here.
ToggleWrite(e) ==
  /\ seen[e] # Nothing
  /\ on' = IF seen[e].rule \in rules /\ ~seen[e].on
           THEN on \cup {seen[e].rule} ELSE on \ {seen[e].rule}
  /\ seen' = [seen EXCEPT ![e] = Nothing]
  /\ UNCHANGED <<rules, record, mails, made, nextRule, edits, infoVars, jobVars, flawVars>>

(***************************************************************************)
(* NoticeInfoService.remove; ON DELETE CASCADE takes the logs along        *)
(***************************************************************************)

InfoRemove(i) ==
  /\ i \in infos
  /\ infos' = infos \ {i}
  /\ content' = [content EXCEPT ![i] = 0] /\ lead' = [lead EXCEPT ![i] = 0]
  /\ success' = [success EXCEPT ![i] = 0] /\ total' = [total EXCEPT ![i] = 0]
  /\ logOk' = [logOk EXCEPT ![i] = 0] /\ logBad' = [logBad EXCEPT ![i] = 0]
  /\ cut' = cut \ {i} /\ short' = short \ {i}
  /\ UNCHANGED <<nextInfo, ruleVars, jobVars, seen>>

(***************************************************************************)
(* NoticeService.triggerEvent                                              *)
(***************************************************************************)

Goto(d, s) == pc' = [pc EXCEPT ![d] = s]

\* A dispatch ends with an answer, or without one, and forgets.
End(d, v) ==
  /\ Goto(d, "idle")
  /\ todo' = [todo EXCEPT ![d] = {}] /\ quiet' = [quiet EXCEPT ![d] = {}]
  /\ size' = [size EXCEPT ![d] = [k \in Rule |-> 0]]
  /\ info' = [info EXCEPT ![d] = 0] /\ first' = [first EXCEPT ![d] = TRUE]
  /\ cur' = [cur EXCEPT ![d] = 0] /\ text' = [text EXCEPT ![d] = 0]
  /\ left' = [left EXCEPT ![d] = 0] /\ got' = [got EXCEPT ![d] = 0]
  /\ last' = [last EXCEPT ![d] = FALSE]
  /\ sumOk' = [sumOk EXCEPT ![d] = 0] /\ sumAll' = [sumAll EXCEPT ![d] = 0]
  /\ verdict' = [verdict EXCEPT ![d] = v]

\* A dispatch is over without statistics in its info.
CutShort(d) == cut' = IF info[d] \in infos THEN cut \cup {info[d]} ELSE cut

\* findRulesByMsgSourceAndType: rules that are enabled, as they are now.
NoRule(d) ==
  /\ pc[d] = "idle"
  /\ on = {}
  /\ verdict' = [verdict EXCEPT ![d] = "no_rule"]
  /\ UNCHANGED <<pc, todo, size, quiet, info, first, workVars, sumVars,
                 ruleVars, infoVars, flawVars, seen>>

\* parseEmailAddresses: how many each rule of S names.  A test address, also one without
\* any address in it, takes the place of those of every rule.
Sizes(S) ==
  {[k \in Rule |-> IF k \in S THEN mails[k] ELSE 0]}
  \cup {[k \in Rule |-> IF k \in S THEN n ELSE 0] : n \in Size \cup {0}}

FindRules(d) ==
  /\ pc[d] = "idle"
  /\ on # {}
  /\ \/ on \cap record = {}
     \/ nextInfo + Cardinality({x \in Dispatch : pc[x] = "info"}) <= MaxInfo
  /\ todo' = [todo EXCEPT ![d] = on]
  /\ quiet' = [quiet EXCEPT ![d] = on \ record]
  /\ \E z \in Sizes(on) : size' = [size EXCEPT ![d] = z]
  /\ verdict' = [verdict EXCEPT ![d] = "open"]
  /\ Goto(d, IF on \cap record # {} THEN "info" ELSE "rule")
  /\ UNCHANGED <<info, first, workVars, sumVars, ruleVars, infoVars, flawVars, seen>>

\* createNotificationInfoIfNeeded; a failure (Abort) ends the dispatch.
CreateInfo(d) ==
  /\ pc[d] = "info"
  /\ nextInfo <= MaxInfo
  /\ infos' = infos \cup {nextInfo}
  /\ nextInfo' = nextInfo + 1
  /\ info' = [info EXCEPT ![d] = nextInfo]
  /\ Goto(d, "rule")
  /\ UNCHANGED <<content, success, total, logOk, logBad, todo, size, quiet, first, workVars,
                 sumVars, verdict, ruleVars, flawVars, seen>>

\* The rule whose turn it is: createTime ascending, in any order within a second.
Turn(d, k) == k \in todo[d] /\ \A j \in todo[d] : made[k] <= made[j]

AfterRule(S) == IF S = {} THEN "stats" ELSE "rule"

\* Who saves the content: the first rule that has one.
SavesAlways(d, t) == info[d] # 0 /\ t # 0          \* faulty: isFirstRule is not reset
Saves(d, t) == first[d] /\ info[d] # 0 /\ t # 0

\* The counts of rule k are added, then its content is written; S are the rules to come.
RuleSent(d, S, k, t, g) ==
  /\ sumOk' = [sumOk EXCEPT ![d] = @ + g]
  /\ sumAll' = [sumAll EXCEPT ![d] = @ + size[d][k]]
  /\ Goto(d, IF Saves(d, t) THEN "content" ELSE AfterRule(S))

\* executeHandlerScript: the content is what the script gives, which may be empty, or the
\* default format when it gives none.
Texts(k) == {0, k}

\* A rule without addresses is done once it has its content.
StartRule(d) ==
  \E k \in Rule :
    /\ pc[d] = "rule"
    /\ Turn(d, k)
    /\ \E t \in Texts(k) :
         /\ todo' = [todo EXCEPT ![d] = @ \ {k}]
         /\ cur' = [cur EXCEPT ![d] = k]
         /\ text' = [text EXCEPT ![d] = t]
         /\ left' = [left EXCEPT ![d] = size[d][k]]
         /\ IF size[d][k] = 0 THEN RuleSent(d, todo[d] \ {k}, k, t, 0)
            ELSE Goto(d, "mail") /\ UNCHANGED sumVars
         /\ lead' = IF info[d] \in infos /\ lead[info[d]] = 0
                    THEN [lead EXCEPT ![info[d]] = t] ELSE lead
    /\ UNCHANGED <<size, quiet, info, first, got, last, verdict, cut, short,
                   ruleVars, infoVars, seen>>

\* sendEmailToAddresses: the next address, or the end of the rule.
MailDoneLate(d, n, g) ==               \* faulty: one turn too many
  IF n >= 0
  THEN /\ got' = [got EXCEPT ![d] = g]
       /\ Goto(d, "mail")
       /\ UNCHANGED sumVars
  ELSE /\ got' = [got EXCEPT ![d] = 0]
       /\ RuleSent(d, todo[d], cur[d], text[d], g)
MailDone(d, n, g) ==
  IF n > 0
  THEN /\ got' = [got EXCEPT ![d] = g]
       /\ Goto(d, "mail")
       /\ UNCHANGED sumVars
  ELSE /\ got' = [got EXCEPT ![d] = 0]
       /\ RuleSent(d, todo[d], cur[d], text[d], g)

Recorded(d) == info[d] # 0 /\ cur[d] \notin quiet[d]

\* EmailService.sendEmail answers for every mail: the server took it or not.
SendMail(d) ==
  /\ pc[d] = "mail"
  /\ left' = [left EXCEPT ![d] = @ - 1]
  /\ \E b \in BOOLEAN :
       /\ last' = [last EXCEPT ![d] = b]
       /\ IF Recorded(d)
          THEN Goto(d, "log") /\ got' = [got EXCEPT ![d] = @ + IF b THEN 1 ELSE 0]
               /\ UNCHANGED sumVars
          ELSE MailDone(d, left'[d], got[d] + IF b THEN 1 ELSE 0)
  /\ short' = IF Recorded(d) \/ info[d] \notin infos THEN short ELSE short \cup {info[d]}
  /\ UNCHANGED <<todo, size, quiet, info, first, cur, text, verdict, lead, cut,
                 ruleVars, infoVars, seen>>

\* logNotificationResultSafe: a log needs its info and its rule (foreign keys); when the
\* insert fails, that is only written to the server's own log.
LoggedSent(d) ==                       \* faulty: every mail is logged as a success
  logOk' = [logOk EXCEPT ![info[d]] = @ + 1] /\ UNCHANGED logBad
Logged(d) ==
  IF last[d] THEN logOk' = [logOk EXCEPT ![info[d]] = @ + 1] /\ UNCHANGED logBad
             ELSE logBad' = [logBad EXCEPT ![info[d]] = @ + 1] /\ UNCHANGED logOk
WriteLog(d) ==
  /\ pc[d] = "log"
  /\ \/ /\ info[d] \in infos /\ cur[d] \in rules
        /\ Logged(d)
        /\ UNCHANGED short
     \/ /\ short' = IF info[d] \in infos THEN short \cup {info[d]} ELSE short
        /\ UNCHANGED <<logOk, logBad>>
  /\ MailDone(d, left[d], got[d])
  /\ UNCHANGED <<todo, size, quiet, info, first, cur, text, left, last, verdict, lead, cut,
                 infos, nextInfo, content, success, total, ruleVars, seen>>

\* updateNotificationContent; a failure leaves isFirstRule to the next rule.
WriteContentRetries(d) ==              \* faulty: a write that failed is tried again
  /\ pc[d] = "content"
  /\ \/ /\ info[d] \in infos
        /\ content' = [content EXCEPT ![info[d]] = text[d]]
        /\ first' = [first EXCEPT ![d] = FALSE]
        /\ Goto(d, AfterRule(todo[d]))
        /\ UNCHANGED lead
     \/ /\ lead' = IF info[d] \in infos THEN [lead EXCEPT ![info[d]] = 0] ELSE lead
        /\ UNCHANGED <<content, first, pc>>
  /\ UNCHANGED <<todo, size, quiet, info, workVars, sumVars, verdict, cut, short,
                 infos, nextInfo, success, total, logOk, logBad, ruleVars, seen>>
WriteContent(d) ==
  /\ pc[d] = "content"
  /\ \/ /\ info[d] \in infos
        /\ content' = [content EXCEPT ![info[d]] = text[d]]
        /\ first' = [first EXCEPT ![d] = FALSE]
        /\ UNCHANGED lead
     \/ /\ lead' = IF info[d] \in infos THEN [lead EXCEPT ![info[d]] = 0] ELSE lead
        /\ UNCHANGED <<content, first>>
  /\ Goto(d, AfterRule(todo[d]))
  /\ UNCHANGED <<todo, size, quiet, info, workVars, sumVars, verdict, cut, short,
                 infos, nextInfo, success, total, logOk, logBad, ruleVars, seen>>

\* buildResponseMessage
MessageSwapped(g, n) ==                \* faulty: some mails failed before all failed
  IF n = 0 THEN "no_address"
  ELSE IF g < n THEN "partly"
  ELSE IF g = 0 THEN "failed"
  ELSE "sent"
Message(g, n) ==
  IF n = 0 THEN "no_address"
  ELSE IF g = 0 THEN "failed"
  ELSE IF g < n THEN "partly"
  ELSE "sent"

\* updateNotificationStats, which may fail without anyone being told, and the answer.
WriteStats(d) ==
  /\ pc[d] = "stats"
  /\ \/ /\ info[d] \in infos
        /\ success' = [success EXCEPT ![info[d]] = sumOk[d]]
        /\ total' = [total EXCEPT ![info[d]] = sumAll[d]]
        /\ UNCHANGED cut
     \/ CutShort(d) /\ UNCHANGED <<success, total>>
  /\ End(d, Message(sumOk[d], sumAll[d]))
  /\ UNCHANGED <<lead, short, infos, nextInfo, content, logOk, logBad, ruleVars, seen>>

\* The process restarts, or the insert of the info fails.
Abort(d) ==
  /\ pc[d] # "idle"
  /\ CutShort(d)
  /\ End(d, "cut")
  /\ UNCHANGED <<lead, short, ruleVars, infoVars, seen>>

Dispatching(d) ==
  \/ CreateInfo(d) \/ StartRule(d) \/ SendMail(d) \/ WriteLog(d)
  \/ WriteContent(d) \/ WriteStats(d)

Next ==
  \/ \E b \in BOOLEAN, rec \in BOOLEAN, n \in Size :
       RuleCreate(b, rec, n) \/ \E k \in Rule : RuleUpdate(k, b, rec, n)
  \/ \E k \in Rule : RuleRemove(k)
  \/ \E e \in Editor :
       ToggleWrite(e) \/ \E k \in Rule : ToggleFind(e, k)
  \/ \E i \in Info : InfoRemove(i)
  \/ \E d \in Dispatch : NoRule(d) \/ FindRules(d) \/ Dispatching(d) \/ Abort(d)

Spec == Init /\ [][Next]_vars

\* Node goes on with a dispatch whose query or mail was answered; nodemailer's and the
\* script's timeouts answer for those that are not.
FairSpec == Spec /\ \A d \in Dispatch : WF_vars(Dispatching(d))

-----------------------------------------------------------------------------
(***************************************************************************)
(* Properties                                                              *)
(***************************************************************************)

\* Every variable keeps the shape the code gives it.
TypeOK ==
  /\ rules \in SUBSET Rule /\ on \in SUBSET rules /\ record \in SUBSET rules
  /\ mails \in [Rule -> Size \cup {0}] /\ made \in [Rule -> 0..MaxRule]
  /\ nextRule \in 1..(MaxRule + 1) /\ edits \in 0..MaxEdit
  /\ infos \in SUBSET Info /\ nextInfo \in 1..(MaxInfo + 1)
  /\ content \in [Info -> 0..MaxRule] /\ lead \in [Info -> 0..MaxRule]
  /\ success \in [Info -> Nat] /\ total \in [Info -> Nat]
  /\ logOk \in [Info -> Nat] /\ logBad \in [Info -> Nat]
  /\ pc \in [Dispatch -> Step]
  /\ todo \in [Dispatch -> SUBSET Rule] /\ quiet \in [Dispatch -> SUBSET Rule]
  /\ size \in [Dispatch -> [Rule -> Size \cup {0}]]
  /\ info \in [Dispatch -> 0..MaxInfo] /\ first \in [Dispatch -> BOOLEAN]
  /\ cur \in [Dispatch -> 0..MaxRule] /\ text \in [Dispatch -> 0..MaxRule]
  /\ left \in [Dispatch -> Nat] /\ got \in [Dispatch -> Nat]
  /\ last \in [Dispatch -> BOOLEAN]
  /\ sumOk \in [Dispatch -> Nat] /\ sumAll \in [Dispatch -> Nat]
  /\ verdict \in [Dispatch -> {"none", "open", "no_rule", "no_address", "failed",
                               "partly", "sent", "cut"}]
  /\ seen \in [Editor -> [rule : 0..MaxRule, on : BOOLEAN]]
  /\ cut \in SUBSET infos /\ short \in SUBSET infos

\* An info some dispatch is at work on.
Open(i) == \E d \in Dispatch : info[d] = i

\* The statistics of an info say 0 of 0 until its dispatch is over, for good if it was
\* cut; then they count each mail with a log under the info, and no other unless a mail
\* has none (notice.service.ts:252, 302, 461).
InfoAddsUp ==
  \A i \in infos :
    IF Open(i) \/ i \in cut
    THEN success[i] = 0 /\ total[i] = 0
    ELSE /\ logOk[i] <= success[i] /\ logOk[i] + logBad[i] <= total[i]
         /\ i \notin short => success[i] = logOk[i] /\ total[i] = logOk[i] + logBad[i]

\* The content of an info is that of the first rule that has one and whose write did not
\* fail: after a failure the next rule gives it, after a success none overwrites it
\* (notice.service.ts:133-140).
ContentIsFirst ==
  \A i \in infos :
    /\ content[i] \in {0, lead[i]}
    /\ ~Open(i) /\ i \notin cut => content[i] = lead[i]

\* The addresses of an event that are still to be tried, and how many were.
Pending(d) ==
  (UNION {{k} \X (1..size[d][k]) : k \in todo[d]}) \cup ({cur[d]} \X (1..left[d]))
Tried(d) == sumAll[d] + IF pc[d] \in {"mail", "log"} THEN size[d][cur[d]] - left[d] ELSE 0

\* Every address is tried once, whatever fails, and the answer tells how that went
\* (notice.service.ts:110-145, 310-331).
Promise == INSTANCE Delivery WITH
             Mail <- Rule \X Nat,
             pending <- [d \in Dispatch |-> Pending(d)],
             tried <- [d \in Dispatch |-> Tried(d)],
             ok <- [d \in Dispatch |-> sumOk[d] + got[d]]
ImplementsDelivery == Promise!Spec

\* A step brings a dispatch closer to its end: it has fewer rules to come, or as many and
\* fewer addresses of the one at work, or as many of both and less to do for the address.
Rank(s) ==
  CASE s = "idle" -> 0
    [] s \in {"rule", "stats"} -> 1
    [] s \in {"info", "mail", "content"} -> 2
    [] s = "log" -> 3

Closer(d) ==
  /\ todo'[d] \subseteq todo[d]
  /\ todo'[d] = todo[d] => left'[d] <= left[d]
  /\ todo'[d] = todo[d] /\ left'[d] = left[d] => Rank(pc'[d]) < Rank(pc[d])

\* A dispatch that goes on comes closer to its end, also where a write failed or what it
\* writes to is gone (notice.service.ts:110-147); and no step beside it sets it back.
DispatchesAdvance ==
  [][\A d \in Dispatch : pc[d] # "idle" =>
       \/ pc'[d] = "idle"
       \/ Closer(d)
       \/ UNCHANGED <<pc[d], todo[d], left[d]>> /\ ~Dispatching(d)]_vars

\* A dispatch comes to its end, whatever fails, goes or is changed while it runs.
DispatchesEnd == \A d \in Dispatch : pc[d] # "idle" ~> pc[d] = "idle"
=============================================================================
