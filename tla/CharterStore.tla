---------------------------- MODULE CharterStore ----------------------------
(***************************************************************************)
(* The charter executor and its durable request store                      *)
(* (agent/charter_requests.py).  Independent executor processes share one  *)
(* SQLite file.  Each one opens the store, which recovers whatever rows it *)
(* finds in flight, consumes a signed approval envelope, reserves the      *)
(* request, passes the dispatch/revocation linearization point, mints an   *)
(* OAuth token and sends the one target request the envelope is about.     *)
(* An auditor settles requests of unknown outcome from the gateway's log   *)
(* (RequestStore as agent/charter_audit_recovery.py drives it).            *)
(*                                                                         *)
(* A BEGIN IMMEDIATE transaction is one action: SQLite serialises writers  *)
(* and a crash inside a transaction rolls it back.  The statements of      *)
(* _transition are separate actions where the code calls it outside a      *)
(* transaction.                                                            *)
(***************************************************************************)
EXTENDS Naturals, FiniteSets

CONSTANTS
  Requests,      \* request ids (RequestSpec.request_id)
  Envelopes,     \* signed approval envelopes, named by their nonce
  Executors,     \* executor processes; each runs once
  NoEnvelope,    \* what a process that has not started holds
  EnvRequest,    \* [Envelopes -> Requests]: the request an envelope is bound to
  EnvDecision,   \* [Envelopes -> Decisions]
  Genuine,       \* envelopes whose signature and digests verify
  EnvExpiry,     \* [Envelopes -> Nat]: CharterApproval.expires_at
  Expiry,        \* [Requests -> Nat]: RequestSpec.expires_at
  RunOf,         \* [Requests -> runs]: RequestSpec.run_id
  Posts,         \* the requests whose method is POST; the others are GET
  Legacy,        \* requests an older release left in state observed
  QuotaCap,      \* reservations per window: 5 in the code
  QuotaWindow,   \* length of the window: 60 seconds in the code
  MaxClock       \* bound on the clock, for model checking only

Decisions == {"approve", "reject", "revoke"}

ASSUME EnvelopeAssumption ==
  /\ NoEnvelope \notin Envelopes
  /\ EnvRequest \in [Envelopes -> Requests]
  /\ EnvDecision \in [Envelopes -> Decisions]
  /\ Genuine \subseteq Envelopes
  /\ EnvExpiry \in [Envelopes -> Nat]

ASSUME RequestAssumption ==
  /\ IsFiniteSet(Requests)
  /\ Expiry \in [Requests -> Nat]
  /\ Posts \subseteq Requests
  /\ Legacy \subseteq Requests

ASSUME QuotaAssumption ==
  /\ QuotaCap \in Nat \ {0}
  /\ QuotaWindow \in Nat \ {0}
  /\ MaxClock \in Nat

VARIABLES
  clock,        \* time.time(), in quota windows' units
  row,          \* the requests table: state of each request id
  ts,           \* requests.ts
  receipt,      \* requests.receipt_digest: who settled the row
  events,       \* the events table: the states recorded for each request
  decisions,    \* the decisions table: consumed nonces
  revocations,  \* the revocations table
  pc,           \* where each executor process is
  held,         \* the envelope each executor was started with
  seen,         \* the clock value authorize_prepare read before its transaction
  mints,        \* ghost: OAuth token requests made for each request
  sends,        \* ghost: target requests sent for each request
  kong,         \* the gateway's file log of target requests
  auditor,      \* where the recover-audit process of each request is
  projection    \* requests with a durable audit-recovery.json

table == <<row, ts, receipt, events, decisions, revocations>>
procs == <<pc, held, seen>>
io    == <<mints, sends, kong>>
audit == <<auditor, projection>>
vars  == <<clock, table, procs, io, audit>>

RowStates == {"absent", "prepared", "dispatched", "unknown", "terminal", "observed"}
Statuses  == {"in policy", "out of policy"}
KongLog   == [request: Requests, by: Executors, status: Statuses]

\* A process is in one of these places.  The four last ones end it: with a
\* result, with a refusal, with the refusal that follows a failed OAuth mint,
\* or killed.
Running == {"opened", "verified", "prepared", "dispatched", "minted", "awaiting",
            "answered", "mint failed", "no answer",
            "closing terminal", "closing unknown", "logging terminal", "logging unknown"}
Ended   == {"succeeded", "refused", "mint refused", "crashed"}
Places  == {"idle"} \cup Running \cup Ended

TypeOK ==
  /\ clock \in Nat
  /\ row \in [Requests -> RowStates]
  /\ ts \in [Requests -> Nat]
  /\ receipt \in [Requests -> {"none", "response", "audit"}]
  /\ events \in [Requests -> SUBSET RowStates]
  /\ decisions \subseteq Envelopes
  /\ revocations \subseteq Requests
  /\ pc \in [Executors -> Places]
  /\ held \in [Executors -> Envelopes \cup {NoEnvelope}]
  /\ \A e \in Executors : held[e] = NoEnvelope <=> pc[e] = "idle"
  /\ seen \in [Executors -> Nat]
  /\ mints \in [Requests -> Nat]
  /\ sends \in [Requests -> Nat]
  /\ kong \subseteq KongLog
  /\ auditor \in [Requests -> {"away", "reading", "settling"}]
  /\ projection \subseteq Requests

-----------------------------------------------------------------------------
(* The store's helpers.  A definition named in a "Seeded fault" comment is *)
(* a plausible bug in the one after it: the properties must reject it.     *)

Target(e) == EnvRequest[held[e]]

\* Seeded fault: recovery takes every request in flight for one never sent.
ReopenedAsTerminal(s) == IF s \in {"prepared", "dispatched"} THEN "terminal" ELSE s
\* Seeded fault: recovery uses a state that no reader of the table knows.
ReopenedAsFailed(s) == IF s \in {"prepared", "dispatched"} THEN "failed" ELSE s
\* Seeded fault: recovery selects every row that is not prepared.
ReopenedAllUnknown(s) ==
  IF s = "prepared" THEN "terminal" ELSE IF s = "absent" THEN s ELSE "unknown"
\* What opening the store does to a row: a reservation nobody dispatched is
\* over, and the outcome of a dispatched request is unknown.
Reopened(s) ==
  IF s = "prepared" THEN "terminal" ELSE IF s = "dispatched" THEN "unknown" ELSE s

\* Seeded fault: recovery updates the rows and forgets their events.
RecoverSilently ==
  /\ row' = [r \in Requests |-> Reopened(row[r])]
  /\ UNCHANGED events
Recover ==
  /\ row' = [r \in Requests |-> Reopened(row[r])]
  /\ events' = [r \in Requests |->
                  IF Reopened(row[r]) = row[r] THEN events[r]
                                               ELSE events[r] \cup {Reopened(row[r])}]

\* Seeded fault: the table has no entry for an unknown outcome.
AllowedWithoutUnknown ==
  {<<"prepared", "dispatched">>, <<"prepared", "terminal">>, <<"dispatched", "terminal">>}
\* The moves _transition may make from the state it selected.
Allowed ==
  {<<"prepared", "dispatched">>, <<"prepared", "terminal">>,
   <<"dispatched", "unknown">>, <<"dispatched", "terminal">>}

Move(r, s) ==
  /\ row' = [row EXCEPT ![r] = s]
  /\ events' = [events EXCEPT ![r] = @ \cup {s}]

\* The rows counted against a reservation made with clock value now.
Recent(now) == {r \in Requests : row[r] # "absent" /\ ts[r] + QuotaWindow > now}

\* Seeded fault: the limit itself is still admitted.
QuotaOverrun(now) == Cardinality(Recent(now)) > QuotaCap
QuotaExhausted(now) == Cardinality(Recent(now)) >= QuotaCap

\* Seeded fault: only a request in flight counts against the run's one POST.
PostInFlight(r) ==
  r \in Posts /\ \E q \in Posts : RunOf[q] = RunOf[r] /\ row[q] \in {"prepared", "dispatched"}
PostSpent(r) ==
  r \in Posts /\ \E q \in Posts : RunOf[q] = RunOf[r] /\ row[q] # "absent"

\* Seeded fault: the id's primary key does not stop a second reservation.
AdmissibleAgain(r, now) ==
  r \notin revocations /\ Expiry[r] > now /\ ~ QuotaExhausted(now) /\ ~ PostSpent(r)
Admissible(r, now) ==
  /\ r \notin revocations
  /\ Expiry[r] > now
  /\ row[r] = "absent"
  /\ ~ QuotaExhausted(now)
  /\ ~ PostSpent(r)

-----------------------------------------------------------------------------
(* One executor process: main, then execute.                               *)

At(e, place) == pc[e] = place
Goto(e, place) == pc' = [pc EXCEPT ![e] = place]

Init ==
  /\ clock = QuotaWindow
  /\ row = [r \in Requests |-> IF r \in Legacy THEN "observed" ELSE "absent"]
  /\ ts = [r \in Requests |-> 0]
  /\ receipt = [r \in Requests |-> "none"]
  /\ events = [r \in Requests |-> IF r \in Legacy THEN {"observed"} ELSE {}]
  /\ decisions = {}
  /\ revocations = {}
  /\ pc = [e \in Executors |-> "idle"]
  /\ held = [e \in Executors |-> NoEnvelope]
  /\ seen = [e \in Executors |-> 0]
  /\ mints = [r \in Requests |-> 0]
  /\ sends = [r \in Requests |-> 0]
  /\ kong = {}
  /\ auditor = [r \in Requests |-> "away"]
  /\ projection = {}

Tick ==
  /\ clock < MaxClock
  /\ clock' = clock + 1
  /\ UNCHANGED <<table, procs, io, audit>>

\* main constructs the RequestStore: recovery runs on whatever is in flight,
\* the rows of executors that are still alive included.
Open(e) ==
  /\ At(e, "idle")
  /\ \E n \in Envelopes : held' = [held EXCEPT ![e] = n]
  /\ Goto(e, "opened")
  /\ Recover
  /\ UNCHANGED <<clock, ts, receipt, decisions, revocations, seen, io, audit>>

\* refuse_observed, then the envelope's verification and the clock value that
\* the transaction below goes by.
Verified(e) ==
  /\ row[Target(e)] # "observed"
  /\ held[e] \in Genuine
  /\ EnvExpiry[held[e]] > clock

Verify(e) ==
  /\ At(e, "opened")
  /\ Goto(e, IF Verified(e) THEN "verified" ELSE "refused")
  /\ seen' = [seen EXCEPT ![e] = clock]
  /\ UNCHANGED <<clock, table, held, io, audit>>

\* The authorize_prepare transaction.  A revoke or a reject is recorded, and
\* consumes its nonce, before it is refused; an approval that fails a later
\* test is rolled back and leaves nothing.
Reserve(e) ==
  LET n == held[e]
      r == Target(e)
      reserved == EnvDecision[n] = "approve" /\ Admissible(r, seen[e])
  IN /\ At(e, "verified")
     /\ IF n \in decisions
        THEN Goto(e, "refused") /\ UNCHANGED table
        ELSE /\ Goto(e, IF reserved THEN "prepared" ELSE "refused")
             /\ decisions' = IF EnvDecision[n] # "approve" \/ reserved
                             THEN decisions \cup {n} ELSE decisions
             /\ revocations' = IF EnvDecision[n] = "revoke"
                               THEN revocations \cup {r} ELSE revocations
             /\ IF reserved
                THEN Move(r, "prepared") /\ ts' = [ts EXCEPT ![r] = seen[e]]
                ELSE UNCHANGED <<row, events, ts>>
             /\ UNCHANGED receipt
     /\ UNCHANGED <<clock, held, seen, io, audit>>

\* Seeded fault: dispatch does not look at the revocations.
DispatchWins(r) == "dispatched"
DispatchOutcome(r) == IF r \in revocations THEN "terminal" ELSE "dispatched"

\* dispatch_if_not_revoked, the linearization point of revoke and dispatch.
Dispatch(e) ==
  LET r == Target(e)
      legal == <<row[r], DispatchOutcome(r)>> \in Allowed
  IN /\ At(e, "prepared")
     /\ Goto(e, IF legal /\ DispatchOutcome(r) = "dispatched" THEN "dispatched" ELSE "refused")
     /\ IF legal THEN Move(r, DispatchOutcome(r)) ELSE UNCHANGED <<row, events>>
     /\ UNCHANGED <<clock, ts, receipt, decisions, revocations, held, seen, io, audit>>

Mint(e) ==
  /\ At(e, "dispatched")
  /\ \E outcome \in {"minted", "mint failed"} : Goto(e, outcome)
  /\ mints' = [mints EXCEPT ![Target(e)] = @ + 1]
  /\ UNCHANGED <<clock, table, held, seen, sends, kong, audit>>

\* The request reaches the gateway, which logs it, or is lost with its log line.
Send(e) ==
  /\ At(e, "minted")
  /\ Goto(e, "awaiting")
  /\ sends' = [sends EXCEPT ![Target(e)] = @ + 1]
  /\ \/ \E s \in Statuses : kong' = kong \cup {[request |-> Target(e), by |-> e, status |-> s]}
     \/ UNCHANGED kong
  /\ UNCHANGED <<clock, table, held, seen, mints, audit>>

\* The connection is refused: transport.request raises and nothing was sent.
SendFails(e) ==
  /\ At(e, "minted")
  /\ Goto(e, "no answer")
  /\ UNCHANGED <<clock, table, held, seen, io, audit>>

\* A bounded response, or an exception, a timeout or a body over the cap.
Answer(e) ==
  /\ At(e, "awaiting")
  /\ \E outcome \in {"answered", "no answer"} : Goto(e, outcome)
  /\ UNCHANGED <<clock, table, held, seen, io, audit>>

\* terminalize_response, then the tests of status and preview that may still
\* refuse the answer: the row is settled all the same.
Settle(e) ==
  LET r == Target(e) IN
  /\ At(e, "answered")
  /\ IF row[r] = "dispatched"
     THEN /\ Move(r, "terminal")
          /\ receipt' = [receipt EXCEPT ![r] = "response"]
          /\ \E outcome \in {"succeeded", "refused"} : Goto(e, outcome)
     ELSE Goto(e, "refused") /\ UNCHANGED <<row, events, receipt>>
  /\ UNCHANGED <<clock, ts, decisions, revocations, held, seen, io, audit>>

\* terminalize_pre_target_failure and unknown run _transition outside any
\* transaction: its SELECT, its UPDATE and its INSERT commit one by one.
Goal(e) == IF pc[e] \in {"mint failed", "closing terminal", "logging terminal"}
           THEN "terminal" ELSE "unknown"
Refusal(e) == IF Goal(e) = "terminal" THEN "mint refused" ELSE "refused"

CloseSelect(e) ==
  /\ pc[e] \in {"mint failed", "no answer"}
  /\ Goto(e, IF <<row[Target(e)], Goal(e)>> \notin Allowed THEN Refusal(e)
             ELSE IF Goal(e) = "terminal" THEN "closing terminal" ELSE "closing unknown")
  /\ UNCHANGED <<clock, table, held, seen, io, audit>>

CloseUpdate(e) ==
  /\ pc[e] \in {"closing terminal", "closing unknown"}
  /\ row' = [row EXCEPT ![Target(e)] = Goal(e)]
  /\ Goto(e, IF Goal(e) = "terminal" THEN "logging terminal" ELSE "logging unknown")
  /\ UNCHANGED <<clock, ts, receipt, events, decisions, revocations, held, seen, io, audit>>

CloseInsert(e) ==
  /\ pc[e] \in {"logging terminal", "logging unknown"}
  /\ events' = [events EXCEPT ![Target(e)] = @ \cup {Goal(e)}]
  /\ Goto(e, Refusal(e))
  /\ UNCHANGED <<clock, row, ts, receipt, decisions, revocations, held, seen, io, audit>>

\* Killed, out of disk, or refused the lock for longer than busy_timeout.
Crash(e) ==
  /\ pc[e] \in Running
  /\ Goto(e, "crashed")
  /\ UNCHANGED <<clock, table, held, seen, io, audit>>

Step(e) ==
  \/ Verify(e) \/ Reserve(e) \/ Dispatch(e) \/ Mint(e) \/ Send(e) \/ SendFails(e)
  \/ Answer(e) \/ Settle(e) \/ CloseSelect(e) \/ CloseUpdate(e) \/ CloseInsert(e)

-----------------------------------------------------------------------------
(* The auditor: recover-audit's acquire and terminalize steps.             *)

\* The controller admits recovery once an executor of the request has failed.
Failed(r) ==
  \E e \in Executors : pc[e] \in Ended \ {"succeeded"} /\ held[e] # NoEnvelope /\ Target(e) = r

\* _request_row, read without opening the store: no recovery happens here.
Durable(r) == row[r] = "unknown" /\ "unknown" \in events[r]

\* Seeded fault: any record of the request is proof.
ProvenByAny(r) == \E k \in kong : k.request = r
\* audit_candidate: exactly one record of the request, with a status in policy.
Proven(r) ==
  \E k \in kong :
    /\ k.request = r /\ k.status = "in policy"
    /\ \A j \in kong : j.request = r => j = k

\* Both steps classify the durable state before they open the store.
AuditOpen(r) ==
  /\ auditor[r] = "away"
  /\ Failed(r) /\ Durable(r)
  /\ auditor' = [auditor EXCEPT ![r] = IF r \in projection THEN "settling" ELSE "reading"]
  /\ Recover
  /\ UNCHANGED <<clock, ts, receipt, decisions, revocations, procs, io, projection>>

\* acquire: the projection is written once the candidate is validated.
AuditAcquire(r) ==
  /\ auditor[r] = "reading"
  /\ row[r] = "unknown" /\ Proven(r)
  /\ projection' = projection \cup {r}
  /\ auditor' = [auditor EXCEPT ![r] = "away"]
  /\ UNCHANGED <<clock, table, procs, io>>

\* terminalize_audit_projection
AuditSettle(r) ==
  /\ auditor[r] = "settling"
  /\ row[r] = "unknown"
  /\ Move(r, "terminal")
  /\ receipt' = [receipt EXCEPT ![r] = "audit"]
  /\ auditor' = [auditor EXCEPT ![r] = "away"]
  /\ UNCHANGED <<clock, ts, decisions, revocations, procs, io, projection>>

\* A refused or a killed recovery leaves the store as it is.
AuditStops(r) ==
  /\ auditor[r] # "away"
  /\ auditor' = [auditor EXCEPT ![r] = "away"]
  /\ UNCHANGED <<clock, table, procs, io, projection>>

Audit(r) == AuditOpen(r) \/ AuditAcquire(r) \/ AuditSettle(r) \/ AuditStops(r)

Next ==
  \/ Tick
  \/ \E e \in Executors : Open(e) \/ Step(e) \/ Crash(e)
  \/ \E r \in Requests : Audit(r)

Spec == Init /\ [][Next]_vars

\* An executor process that is not killed runs to its end: its transactions
\* wait at most busy_timeout and its network calls have timeouts.
FairSpec == Spec /\ \A e \in Executors : WF_vars(Step(e))

-----------------------------------------------------------------------------
(* Properties.                                                             *)

EverDispatched(r) == "dispatched" \in events[r]

\* However many executors hold envelopes for a request, and wherever they are
\* killed or overtaken by another process opening the store, OAuth is asked at
\* most once and the target sees the request at most once, never before the
\* dispatch is durable (execute; dispatch_if_not_revoked's docstring).
AtMostOneSend ==
  \A r \in Requests :
    /\ sends[r] <= mints[r] /\ mints[r] <= 1
    /\ mints[r] = 1 => EverDispatched(r)

\* A revocation committed before the dispatch transaction wins: the request is
\* never dispatched afterwards, by any executor (dispatch_if_not_revoked).
RevokeWins ==
  [][\A r \in Requests :
       r \in revocations /\ ~ EverDispatched(r) => ~ EverDispatched(r)']_vars

\* A terminal row without a receipt says that the target was not called, so a
\* request that may have reached the target is never filed as one that did not
\* (RequestStore.__init__'s recovery, terminalize_pre_target_failure).
TerminalIsTruthful ==
  \A r \in Requests : row[r] = "terminal" /\ receipt[r] = "none" => sends[r] = 0

\* A receipt is proof of exactly one send; the auditor's receipt is also proof
\* of a single in-policy line of the gateway's log (audit_candidate).
ReceiptIsProof ==
  \A r \in Requests :
    /\ receipt[r] # "none" => sends[r] = 1
    /\ receipt[r] = "audit" =>
         \E k \in kong : /\ k.request = r /\ k.status = "in policy"
                         /\ \A j \in kong : j.request = r => j = k

\* Once settled by its own response a row keeps that state and that receipt,
\* whatever opens, recovers or audits the store later (_terminalize_from).
ResponseIsFinal ==
  [][\A r \in Requests :
       receipt[r] = "response" => row[r]' = "terminal" /\ receipt[r]' = "response"]_vars

\* No window of QuotaWindow holds more than QuotaCap reservations, although
\* each executor counts with a clock value it read before it got the lock
\* (authorize_prepare reads now before BEGIN IMMEDIATE).
QuotaHolds ==
  \A t \in QuotaWindow .. MaxClock :
    Cardinality({r \in Requests : row[r] # "absent" /\ ts[r] <= t /\ t < ts[r] + QuotaWindow})
      <= QuotaCap

\* A run spends at most one POST, even over the ends of several quota windows.
OnePostPerRun ==
  \A q, r \in Posts \ Legacy :
    RunOf[q] = RunOf[r] /\ row[q] # "absent" /\ row[r] # "absent" => q = r

\* Whatever state a row is in is in the events table too, except while a
\* _transition is between its UPDATE and its INSERT or was killed there.
RowIsLogged ==
  \A r \in Requests :
    row[r] \in events[r] \cup {"absent"}
    \/ \E e \in Executors : /\ held[e] # NoEnvelope /\ Target(e) = r
                            /\ pc[e] \in {"logging terminal", "logging unknown", "crashed"}

\* A request in flight is settled or declared unknown, unless its executor is
\* killed: then it stays in flight until another process opens the store.
InFlightEnds ==
  \A r \in Requests :
    row[r] \in {"prepared", "dispatched"}
      ~> \/ row[r] \in {"terminal", "unknown"}
         \/ \E e \in Executors : pc[e] = "crashed" /\ held[e] # NoEnvelope /\ Target(e) = r

\* The store implements CharterDispatch: a reservation is the consumed
\* approval, the dispatched event the decision.
Verdict(r) ==
  IF EverDispatched(r) THEN "dispatch"
  ELSE IF row[r] \in {"terminal", "observed"} THEN "withdrawn" ELSE "open"

Dispatching == INSTANCE CharterDispatch WITH
  Closed   <- Legacy,
  approved <- {r \in Requests : "prepared" \in events[r]},
  revoked  <- revocations,
  verdict  <- [r \in Requests |-> Verdict(r)],
  sent     <- sends,
  settled  <- receipt

ImplementsDispatch == Dispatching!Spec
=============================================================================
