--------------------------- MODULE CharterDispatch ---------------------------
(***************************************************************************)
(* What the charter executor promises about one fixed request, whatever    *)
(* processes, crashes and reopenings there are behind it: an operator's    *)
(* approval may lead to one decision to dispatch it; a revocation recorded *)
(* before that decision excludes it for good; the target sees the request  *)
(* at most once, and only after the decision; the request is settled once, *)
(* by its own answer or by the gateway's log, and only if it was sent.     *)
(***************************************************************************)
EXTENDS Naturals

CONSTANTS
  Requests,     \* the requests
  Closed        \* the requests that an older release already used up

VARIABLES
  approved,     \* requests whose approval was consumed
  revoked,      \* requests with a recorded revocation
  verdict,      \* what was decided about each request
  sent,         \* how often the target saw each request
  settled       \* who settled each request

vars == <<approved, revoked, verdict, sent, settled>>

Init ==
  /\ approved = {}
  /\ revoked = {}
  /\ verdict = [r \in Requests |-> IF r \in Closed THEN "withdrawn" ELSE "open"]
  /\ sent = [r \in Requests |-> 0]
  /\ settled = [r \in Requests |-> "none"]

Approve(r) ==
  /\ verdict[r] = "open" /\ r \notin revoked
  /\ approved' = approved \cup {r}
  /\ UNCHANGED <<revoked, verdict, sent, settled>>

Revoke(r) ==
  /\ revoked' = revoked \cup {r}
  /\ UNCHANGED <<approved, verdict, sent, settled>>

Decide(r) ==
  /\ verdict[r] = "open" /\ r \in approved \ revoked
  /\ verdict' = [verdict EXCEPT ![r] = "dispatch"]
  /\ UNCHANGED <<approved, revoked, sent, settled>>

\* A reopening of the store may withdraw and strand several requests at once.
Withdraw(S) ==
  /\ \A r \in S : verdict[r] = "open" /\ r \in approved
  /\ verdict' = [r \in Requests |-> IF r \in S THEN "withdrawn" ELSE verdict[r]]
  /\ UNCHANGED <<approved, revoked, sent, settled>>

SendOnce(r) ==
  /\ verdict[r] = "dispatch" /\ sent[r] = 0
  /\ sent' = [sent EXCEPT ![r] = 1]
  /\ UNCHANGED <<approved, revoked, verdict, settled>>

SettleBy(r, who) ==
  /\ sent[r] = 1 /\ settled[r] = "none"
  /\ settled' = [settled EXCEPT ![r] = who]
  /\ UNCHANGED <<approved, revoked, verdict, sent>>

Next ==
  \/ \E r \in Requests : Approve(r) \/ Revoke(r) \/ Decide(r) \/ SendOnce(r)
  \/ \E r \in Requests, who \in {"response", "audit"} : SettleBy(r, who)
  \/ \E S \in SUBSET Requests : Withdraw(S)

Spec == Init /\ [][Next]_vars
=============================================================================
