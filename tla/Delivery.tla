------------------------------- MODULE Delivery -------------------------------
(***************************************************************************)
(* What NoticeService.triggerEvent promises of an event: every address of  *)
(* every rule that matches is tried exactly once, whatever fails on the    *)
(* way, and the caller is told how that went, unless the dispatch is cut.  *)
(* How infos, logs and statistics are written is left to module Notice.    *)
(***************************************************************************)
EXTENDS Naturals

CONSTANTS
  Dispatch,   \* calls of triggerEvent in flight at one time
  Mail        \* the mails an event may send: an address of a rule

VARIABLES
  pending,    \* mails of the dispatch not tried yet
  tried, ok,  \* how many were tried, how many of them the mail server took
  verdict     \* what the caller was told; "open" while the dispatch runs

vars == <<pending, tried, ok, verdict>>

Verdict == {"none", "open", "no_rule", "no_address", "failed", "partly", "sent", "cut"}

Init ==
  /\ pending = [d \in Dispatch |-> {}]
  /\ tried = [d \in Dispatch |-> 0]
  /\ ok = [d \in Dispatch |-> 0]
  /\ verdict = [d \in Dispatch |-> "none"]

-----------------------------------------------------------------------------
\* The verdict v is true of n mails tried, g of them taken.
Tells(v, n, g) ==
  CASE v = "no_address" -> n = 0
    [] v = "failed"     -> n > 0 /\ g = 0
    [] v = "partly"     -> 0 < g /\ g < n
    [] v = "sent"       -> n > 0 /\ g = n
    [] OTHER            -> FALSE

Start(d) ==
  /\ verdict[d] # "open"
  /\ pending'[d] \subseteq Mail
  /\ pending' = [pending EXCEPT ![d] = pending'[d]]
  /\ verdict' = [verdict EXCEPT ![d] = "open"]
  /\ UNCHANGED <<tried, ok>>

\* No rule is enabled for the event.
Refuse(d) ==
  /\ verdict[d] # "open"
  /\ verdict' = [verdict EXCEPT ![d] = "no_rule"]
  /\ UNCHANGED <<pending, tried, ok>>

Try(d) ==
  /\ \E x \in pending[d] : pending' = [pending EXCEPT ![d] = @ \ {x}]
  /\ tried' = [tried EXCEPT ![d] = @ + 1]
  /\ \/ ok' = [ok EXCEPT ![d] = @ + 1]
     \/ UNCHANGED ok
  /\ UNCHANGED verdict

End(d, v) ==
  /\ verdict[d] = "open"
  /\ verdict' = [verdict EXCEPT ![d] = v]
  /\ pending' = [pending EXCEPT ![d] = {}]
  /\ tried' = [tried EXCEPT ![d] = 0]
  /\ ok' = [ok EXCEPT ![d] = 0]

Answer(d) ==
  /\ pending[d] = {}
  /\ \E v \in Verdict : Tells(v, tried[d], ok[d]) /\ End(d, v)

Cut(d) == End(d, "cut")

Next == \E d \in Dispatch : Start(d) \/ Refuse(d) \/ Try(d) \/ Answer(d) \/ Cut(d)

Spec == Init /\ [][Next]_vars
=============================================================================
