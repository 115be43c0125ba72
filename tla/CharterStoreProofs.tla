------------------------- MODULE CharterStoreProofs -------------------------
(* Theorems about the charter store, for any requests, envelopes and        *)
(* executors: its invariants, that it implements CharterDispatch, and what  *)
(* its events table records of each row.                                    *)
EXTENDS CharterStore, FiniteSetTheorems, TLAPS

(***************************************************************************)
(* The inductive invariant.  A reservation makes one executor the owner of *)
(* its request, until that executor ends: what it has sent so far follows  *)
(* from its place, whatever other openers have done to the row.            *)
(***************************************************************************)
PreTarget  == {"prepared", "dispatched", "minted", "mint failed",
               "closing terminal", "logging terminal"}
PostTarget == {"awaiting", "answered"}
Failing    == {"no answer", "closing unknown", "logging unknown"}
Owning     == PreTarget \cup PostTarget \cup Failing

OneOwner ==
  \A e, f \in Executors : pc[e] \in Owning /\ pc[f] \in Owning /\ Target(e) = Target(f) => e = f

\* What the place of an owner says about the I/O done for its request.
OwnerInv(e) ==
  LET r == Target(e) IN
  /\ pc[e] \in Owning => row[r] \notin {"absent", "observed"} /\ receipt[r] # "response"
  /\ pc[e] \in PreTarget => sends[r] = 0
  /\ pc[e] \in PostTarget => sends[r] = 1
  /\ pc[e] \in {"prepared", "dispatched"} => mints[r] = 0
  /\ pc[e] \in Owning \ {"prepared", "dispatched"} => mints[r] = 1
  /\ pc[e] = "prepared" => ~ EverDispatched(r) /\ row[r] \in {"prepared", "terminal"}
  /\ pc[e] \in Owning \ {"prepared"} => EverDispatched(r)
  /\ pc[e] \in Owning \ {"prepared", "logging terminal"} =>
       row[r] \in {"dispatched", "unknown"} \/ receipt[r] = "audit"

\* What a row says, with or without an owner.
RequestInv(r) ==
  /\ row[r] = "absent" => mints[r] = 0 /\ sends[r] = 0 /\ events[r] = {} /\ receipt[r] = "none"
  /\ row[r] \in {"dispatched", "unknown"} => EverDispatched(r)
  /\ row[r] = "prepared" => ~ EverDispatched(r)
  /\ sends[r] <= mints[r] /\ mints[r] <= 1
  /\ mints[r] = 1 => EverDispatched(r)
  /\ receipt[r] # "none" => sends[r] = 1
  /\ receipt[r] = "audit" => Proven(r)
  /\ receipt[r] = "response" => row[r] = "terminal"
  /\ row[r] = "terminal" /\ receipt[r] = "none" => sends[r] = 0

\* What the gateway's log, a projection and an auditor about to settle prove.
LogInv ==
  /\ \A k \in kong : sends[k.request] = 1
  /\ \A r \in projection : Proven(r)
  /\ \A r \in Requests : auditor[r] = "settling" => r \in projection

IInv ==
  /\ TypeOK /\ OneOwner /\ LogInv
  /\ \A r \in Requests : RequestInv(r)
  /\ \A e \in Executors : OwnerInv(e)

-----------------------------------------------------------------------------
(* Facts the steps have in common.                                         *)

LEMMA OwningPlaces ==
  /\ Owning \subseteq Places \ {"idle"}
  /\ PreTarget \subseteq Owning /\ PostTarget \subseteq Owning /\ Failing \subseteq Owning
BY DEF Owning, PreTarget, PostTarget, Failing, Places, Running

\* A process that has started is about some request.
LEMMA TargetType ==
  ASSUME TypeOK, NEW e \in Executors, pc[e] # "idle"
  PROVE  Target(e) \in Requests /\ held[e] \in Envelopes
BY EnvelopeAssumption DEF TypeOK, Target

\* The invariant of a request is about that request's fields alone.
LEMMA RequestFrame ==
  ASSUME NEW r \in Requests, RequestInv(r),
         row'[r] = row[r], receipt'[r] = receipt[r], events'[r] = events[r],
         mints'[r] = mints[r], sends'[r] = sends[r], Proven(r) => Proven(r)'
  PROVE  RequestInv(r)'
BY DEF RequestInv, EverDispatched

\* So is the invariant of a process that does not move.
LEMMA OwnerFrame ==
  ASSUME NEW e \in Executors, OwnerInv(e), pc'[e] = pc[e], Target(e)' = Target(e),
         NEW r, r = Target(e),
         pc[e] \in Owning =>
           /\ row'[r] = row[r] /\ receipt'[r] = receipt[r] /\ events'[r] = events[r]
           /\ mints'[r] = mints[r] /\ sends'[r] = sends[r]
  PROVE  OwnerInv(e)'
<1>1. CASE pc[e] \in Owning
  BY <1>1 DEF OwnerInv, EverDispatched
<1>2. CASE pc[e] \notin Owning
  BY <1>2, OwningPlaces DEF OwnerInv, Owning, PreTarget
<1> QED
  BY <1>1, <1>2

\* A step of one process about a request of which no other process is the owner.
LEMMA LocalStep ==
  ASSUME IInv, NEW e \in Executors, pc[e] # "idle", held' = held,
         \A f \in Executors \ {e} : pc'[f] = pc[f],
         \A f \in Executors \ {e} : pc[f] \in Owning => Target(f) # Target(e),
         \A q \in Requests \ {Target(e)} :
           /\ row'[q] = row[q] /\ receipt'[q] = receipt[q] /\ events'[q] = events[q]
           /\ mints'[q] = mints[q] /\ sends'[q] = sends[q] /\ (Proven(q) => Proven(q)'),
         TypeOK', LogInv', RequestInv(Target(e))', OwnerInv(e)'
  PROVE  IInv'
<1>1. \A f \in Executors : Target(f)' = Target(f)
  BY DEF Target
<1>2. OneOwner'
  BY <1>1 DEF IInv, OneOwner
<1>3. \A q \in Requests : RequestInv(q)'
  <2> TAKE q \in Requests
  <2>1. CASE q = Target(e)
    BY <2>1, <1>1 DEF IInv
  <2>2. CASE q # Target(e)
    BY <2>2, RequestFrame DEF IInv
  <2> QED
    BY <2>1, <2>2
<1>4. \A f \in Executors : OwnerInv(f)'
  <2> TAKE f \in Executors
  <2>1. CASE f # e
    <3>1. pc[f] \in Owning => Target(f) \in Requests \ {Target(e)}
      BY <2>1, TargetType, OwningPlaces DEF IInv
    <3> QED
      BY <2>1, <3>1, <1>1, OwnerFrame DEF IInv
  <2> QED
    BY <2>1
<1> QED
  BY <1>2, <1>3, <1>4 DEF IInv

\* Where a process may go, as members of sets that stay folded elsewhere.
LEMMA PlaceMembers ==
  {"verified", "refused", "prepared", "dispatched", "minted", "mint failed", "awaiting",
   "no answer", "answered", "succeeded", "mint refused", "closing terminal",
   "closing unknown", "logging terminal", "logging unknown", "crashed", "opened"}
    \subseteq Places \ {"idle"}
BY DEF Places, Running, Ended

LEMMA PlaceType ==
  ASSUME TypeOK, NEW e \in Executors, pc[e] # "idle",
         NEW p \in Places \ {"idle"}, Goto(e, p), held' = held
  PROVE  /\ pc' \in [Executors -> Places]
         /\ \A f \in Executors : held'[f] = NoEnvelope <=> pc'[f] = "idle"
         /\ pc'[e] = p /\ \A f \in Executors \ {e} : pc'[f] = pc[f]
BY DEF TypeOK, Goto

LEMMA MoveType ==
  ASSUME TypeOK, NEW r \in Requests, NEW s \in RowStates, Move(r, s)
  PROVE  /\ row' \in [Requests -> RowStates]
         /\ events' \in [Requests -> SUBSET RowStates]
         /\ row'[r] = s /\ events'[r] = events[r] \cup {s}
         /\ \A q \in Requests \ {r} : row'[q] = row[q] /\ events'[q] = events[q]
BY DEF TypeOK, Move

LEMMA RowMembers ==
  {"prepared", "dispatched", "unknown", "terminal"} \subseteq RowStates
BY DEF RowStates

\* An owner shares its request with no other owner.
LEMMA OwnerAlone ==
  ASSUME IInv, NEW e \in Executors, pc[e] \in Owning
  PROVE  \A f \in Executors \ {e} : pc[f] \in Owning => Target(f) # Target(e)
BY DEF IInv, OneOwner

\* A step that moves a process and nothing the invariant of a request sees.
LEMMA QuietStep ==
  ASSUME IInv, NEW e \in Executors, pc[e] # "idle",
         NEW p \in Places \ {"idle"}, Goto(e, p), UNCHANGED <<held, table, io, audit>>,
         clock' \in Nat, seen' \in [Executors -> Nat],
         pc[e] \in Owning \/ p \notin Owning, OwnerInv(e)'
  PROVE  IInv'
<1> USE DEF table, io, audit
<1>1. Target(e) \in Requests
  BY TargetType DEF IInv
<1>2. pc' \in [Executors -> Places] /\ pc'[e] = p /\ TypeOK'
  BY PlaceType DEF IInv, TypeOK
<1>3. \A f \in Executors \ {e} : pc'[f] = pc[f]
  BY PlaceType DEF IInv
<1>4. \A q \in Requests : Proven(q) => Proven(q)'
  BY DEF Proven
<1>5. LogInv'
  BY <1>4 DEF IInv, LogInv, TypeOK
<1>6. \A q \in Requests : RequestInv(q)'
  BY <1>4, RequestFrame DEF IInv
<1>7. \A f \in Executors : Target(f)' = Target(f)
  BY DEF Target
<1>8. \A f \in Executors : OwnerInv(f)'
  BY <1>3, <1>7, OwnerFrame DEF IInv
<1>9. OneOwner'
  BY <1>2, <1>3, <1>7 DEF IInv, OneOwner
<1> QED
  BY <1>2, <1>5, <1>6, <1>8, <1>9 DEF IInv

\* A step that no process takes and that leaves rows, logs and receipts alone.
LEMMA IdleStep ==
  ASSUME IInv, UNCHANGED <<table, procs, io>>, TypeOK', LogInv'
  PROVE  IInv'
<1> USE DEF table, procs, io
<1>1. \A q \in Requests : RequestInv(q)'
  BY RequestFrame DEF IInv, Proven
<1>2. \A f \in Executors : OwnerInv(f)'
  BY OwnerFrame DEF IInv, Target
<1>3. OneOwner'
  BY DEF IInv, OneOwner, Target
<1> QED
  BY <1>1, <1>2, <1>3 DEF IInv

\* Opening the store: each row it recovers keeps its invariant.
LEMMA RecoverType ==
  ASSUME TypeOK, Recover
  PROVE  /\ row' \in [Requests -> RowStates] /\ events' \in [Requests -> SUBSET RowStates]
         /\ \A r \in Requests : row'[r] = Reopened(row[r])
         /\ \A r \in Requests : events'[r] =
              IF Reopened(row[r]) = row[r] THEN events[r] ELSE events[r] \cup {Reopened(row[r])}
BY DEF TypeOK, Recover, Reopened, RowStates

LEMMA RecoverRequest ==
  ASSUME TypeOK, Recover, UNCHANGED <<receipt, io>>, NEW r \in Requests, RequestInv(r)
  PROVE  RequestInv(r)'
<1>1. mints[r] \in Nat /\ sends[r] \in Nat
  BY DEF TypeOK
<1>2. row'[r] = Reopened(row[r]) /\ (Proven(r) <=> Proven(r)')
  BY RecoverType DEF Proven, io
<1>3. "dispatched" \in events'[r] <=> "dispatched" \in events[r]
  BY RecoverType DEF Reopened
<1>4. row[r] = "absent" => events'[r] = events[r]
  BY RecoverType DEF Reopened
<1> QED
  BY <1>1, <1>2, <1>3, <1>4 DEF RequestInv, Reopened, EverDispatched, io

LEMMA RecoverOwner ==
  ASSUME TypeOK, Recover, UNCHANGED <<receipt, io>>, NEW e \in Executors, OwnerInv(e),
         pc'[e] = pc[e], Target(e)' = Target(e)
  PROVE  OwnerInv(e)'
<1>1. CASE pc[e] \in Owning
  <2>1. Target(e) \in Requests
    BY <1>1, OwningPlaces, TargetType
  <2>2. "dispatched" \in events'[Target(e)] <=> "dispatched" \in events[Target(e)]
    BY <2>1, RecoverType DEF Reopened
  <2> QED
    BY <1>1, <2>1, <2>2, RecoverType DEF OwnerInv, Reopened, EverDispatched, io
<1>2. CASE pc[e] \notin Owning
  BY <1>2, OwningPlaces DEF OwnerInv, Owning, PreTarget
<1> QED
  BY <1>1, <1>2

-----------------------------------------------------------------------------
(* The initial state and the steps.                                        *)

\* The empty store, and the rows of an older release, satisfy the invariant.
LEMMA InitInv == Init => IInv
<1> SUFFICES ASSUME Init PROVE IInv
  OBVIOUS
<1>1. TypeOK
  BY RequestAssumption, QuotaAssumption, EnvelopeAssumption
  DEF Init, TypeOK, Places, RowStates, KongLog
<1>2. \A e \in Executors : pc[e] \notin Owning \cup PreTarget \cup PostTarget \cup {"prepared", "dispatched"}
  BY OwningPlaces DEF Init
<1>3. OneOwner /\ \A e \in Executors : OwnerInv(e)
  BY <1>2 DEF OneOwner, OwnerInv
<1>4. \A r \in Requests : RequestInv(r)
  BY DEF Init, RequestInv, EverDispatched
<1>5. LogInv
  BY DEF Init, LogInv
<1> QED
  BY <1>1, <1>3, <1>4, <1>5 DEF IInv

LEMMA TickInv == ASSUME IInv, Tick PROVE IInv'
<1> USE DEF Tick, audit
<1>1. TypeOK'
  BY DEF IInv, TypeOK, table, procs, io
<1>2. LogInv'
  BY DEF IInv, LogInv, io, Proven
<1> QED
  BY <1>1, <1>2, IdleStep

LEMMA VerifyInv == ASSUME IInv, NEW e \in Executors, Verify(e) PROVE IInv'
<1>1. PICK p \in {"verified", "refused"} : Goto(e, p)
  BY DEF Verify, At, Verified
<1>2. pc[e] = "opened" /\ UNCHANGED <<held, table, io, audit>>
  BY DEF Verify, At, Verified, io
<1>3. clock' \in Nat /\ seen' \in [Executors -> Nat]
  BY DEF Verify, IInv, TypeOK
<1>4. p \in Places \ {"idle"} /\ pc'[e] = p
  BY <1>1, <1>2, PlaceMembers, PlaceType DEF IInv
<1>5. OwnerInv(e)'
  BY <1>1, <1>2, <1>4 DEF IInv, OwnerInv, table, io, Target, EverDispatched, Owning, PreTarget, PostTarget, Failing
<1> QED
  BY <1>1, <1>2, <1>3, <1>4, <1>5, QuietStep DEF Owning, PreTarget, PostTarget, Failing

LEMMA SendFailsInv == ASSUME IInv, NEW e \in Executors, SendFails(e) PROVE IInv'
<1>1. PICK p \in {"no answer"} : Goto(e, p)
  BY DEF SendFails, At
<1>2. pc[e] = "minted" /\ UNCHANGED <<held, table, io, audit>>
  BY DEF SendFails, At, io
<1>3. clock' \in Nat /\ seen' \in [Executors -> Nat]
  BY DEF SendFails, IInv, TypeOK
<1>4. p \in Places \ {"idle"} /\ pc'[e] = p
  BY <1>1, <1>2, PlaceMembers, PlaceType DEF IInv
<1>5. OwnerInv(e)'
  BY <1>1, <1>2, <1>4 DEF IInv, OwnerInv, table, io, Target, EverDispatched, Owning, PreTarget, PostTarget, Failing
<1> QED
  BY <1>1, <1>2, <1>3, <1>4, <1>5, QuietStep DEF Owning, PreTarget, PostTarget, Failing

LEMMA AnswerInv == ASSUME IInv, NEW e \in Executors, Answer(e) PROVE IInv'
<1>1. PICK p \in {"answered", "no answer"} : Goto(e, p)
  BY DEF Answer, At
<1>2. pc[e] = "awaiting" /\ UNCHANGED <<held, table, io, audit>>
  BY DEF Answer, At, io
<1>3. clock' \in Nat /\ seen' \in [Executors -> Nat]
  BY DEF Answer, IInv, TypeOK
<1>4. p \in Places \ {"idle"} /\ pc'[e] = p
  BY <1>1, <1>2, PlaceMembers, PlaceType DEF IInv
<1>5. OwnerInv(e)'
  BY <1>1, <1>2, <1>4 DEF IInv, OwnerInv, table, io, Target, EverDispatched, Owning, PreTarget, PostTarget, Failing
<1> QED
  BY <1>1, <1>2, <1>3, <1>4, <1>5, QuietStep DEF Owning, PreTarget, PostTarget, Failing

LEMMA OpenInv == ASSUME IInv, NEW e \in Executors, Open(e) PROVE IInv'
<1>1. /\ pc[e] = "idle" /\ Goto(e, "opened") /\ Recover
      /\ UNCHANGED <<clock, ts, receipt, decisions, revocations, seen, io, audit>>
  BY DEF Open, At
<1>2. PICK n \in Envelopes : held' = [held EXCEPT ![e] = n]
  BY DEF Open
<1>3. pc'[e] = "opened" /\ \A f \in Executors \ {e} : pc'[f] = pc[f] /\ Target(f)' = Target(f)
  BY <1>1, <1>2 DEF IInv, TypeOK, Goto, Target
<1>4. "opened" \notin Owning /\ "opened" # "prepared" /\ "opened" \notin PreTarget \cup PostTarget
  BY DEF Owning, PreTarget, PostTarget, Failing
<1>5. TypeOK'
  <2>1. pc' \in [Executors -> Places] /\ held' \in [Executors -> Envelopes \cup {NoEnvelope}]
    BY <1>1, <1>2, PlaceMembers DEF IInv, TypeOK, Goto
  <2>2. \A f \in Executors : held'[f] = NoEnvelope <=> pc'[f] = "idle"
    BY <1>1, <1>2, <1>3, EnvelopeAssumption DEF IInv, TypeOK
  <2> QED
    BY <1>1, <2>1, <2>2, RecoverType DEF IInv, TypeOK, io, audit
<1>6. OneOwner'
  BY <1>3, <1>4 DEF IInv, OneOwner
<1>7. LogInv'
  BY <1>1 DEF IInv, LogInv, io, audit, Proven
<1>8. \A r \in Requests : RequestInv(r)'
  BY <1>1, RecoverRequest DEF IInv
<1>9. \A f \in Executors : OwnerInv(f)'
  <2> TAKE f \in Executors
  <2>1. CASE f = e
    BY <2>1, <1>3, <1>4 DEF OwnerInv
  <2>2. CASE f # e
    BY <2>2, <1>1, <1>3, RecoverOwner DEF IInv
  <2> QED
    BY <2>1, <2>2
<1> QED
  BY <1>5, <1>6, <1>7, <1>8, <1>9 DEF IInv

LEMMA AuditOpenInv == ASSUME IInv, NEW r \in Requests, AuditOpen(r) PROVE IInv'
<1>1. /\ Recover /\ UNCHANGED <<clock, ts, receipt, decisions, revocations, procs, io, projection>>
      /\ auditor' = [auditor EXCEPT ![r] = IF r \in projection THEN "settling" ELSE "reading"]
  BY DEF AuditOpen
<1>2. TypeOK'
  BY <1>1, RecoverType DEF IInv, TypeOK, procs, io
<1>3. OneOwner'
  BY <1>1 DEF IInv, OneOwner, procs, Target
<1>4. LogInv'
  BY <1>1 DEF IInv, LogInv, io, Proven, TypeOK
<1>5. \A q \in Requests : RequestInv(q)'
  BY <1>1, RecoverRequest DEF IInv
<1>6. \A f \in Executors : OwnerInv(f)'
  BY <1>1, RecoverOwner DEF IInv, procs, Target
<1> QED
  BY <1>2, <1>3, <1>4, <1>5, <1>6 DEF IInv

LEMMA AuditStopsInv == ASSUME IInv, NEW r \in Requests, AuditStops(r) PROVE IInv'
<1>1. TypeOK'
  BY DEF AuditStops, IInv, TypeOK, table, procs, io
<1>2. LogInv'
  BY DEF AuditStops, IInv, TypeOK, LogInv, io, Proven
<1> QED
  BY <1>1, <1>2, IdleStep DEF AuditStops

LEMMA AuditAcquireInv == ASSUME IInv, NEW r \in Requests, AuditAcquire(r) PROVE IInv'
<1>1. TypeOK'
  BY DEF AuditAcquire, IInv, TypeOK, table, procs, io
<1>2. LogInv'
  <2>1. \A q \in Requests : Proven(q)' <=> Proven(q)
    BY DEF AuditAcquire, io, Proven
  <2>2. \A q \in projection' : Proven(q)'
    BY <2>1 DEF AuditAcquire, IInv, TypeOK, LogInv
  <2>3. \A q \in Requests : auditor'[q] = "settling" => q \in projection'
    BY DEF AuditAcquire, IInv, TypeOK, LogInv
  <2> QED
    BY <2>2, <2>3 DEF AuditAcquire, IInv, LogInv, io
<1> QED
  BY <1>1, <1>2, IdleStep DEF AuditAcquire

\* The row being unknown, the response has not settled it; the projection proves
\* that the request was sent.
LEMMA AuditSettleInv == ASSUME IInv, NEW r \in Requests, AuditSettle(r) PROVE IInv'
<1>1. /\ auditor[r] = "settling" /\ row[r] = "unknown" /\ Move(r, "terminal")
      /\ receipt' = [receipt EXCEPT ![r] = "audit"]
      /\ auditor' = [auditor EXCEPT ![r] = "away"]
      /\ UNCHANGED <<clock, ts, decisions, revocations, procs, io, projection>>
  BY DEF AuditSettle
<1>2. /\ row'[r] = "terminal" /\ "dispatched" \in events'[r] /\ receipt'[r] = "audit"
      /\ \A q \in Requests \ {r} :
           row'[q] = row[q] /\ events'[q] = events[q] /\ receipt'[q] = receipt[q]
  BY <1>1, MoveType, RowMembers DEF IInv, TypeOK, RequestInv, EverDispatched
<1>3. Proven(r) /\ sends[r] = 1 /\ EverDispatched(r)
  <2>1. Proven(r) /\ \A k \in kong : sends[k.request] = 1
    BY <1>1 DEF IInv, LogInv
  <2>2. RequestInv(r)
    BY DEF IInv
  <2> QED
    BY <1>1, <2>1, <2>2 DEF Proven, RequestInv
<1>4. TypeOK'
  BY <1>1, MoveType, RowMembers DEF IInv, TypeOK, procs, io
<1>5. LogInv'
  BY <1>1 DEF IInv, TypeOK, LogInv, io, Proven
<1>6. \A q \in Requests : Proven(q)' <=> Proven(q)
  BY <1>1 DEF Proven, io
<1>7. \A q \in Requests : RequestInv(q)'
  <2> TAKE q \in Requests
  <2>1. CASE q = r
    BY <2>1, <1>1, <1>2, <1>3, <1>6 DEF IInv, RequestInv, EverDispatched, io
  <2>2. CASE q # r
    BY <2>2, <1>1, <1>2, <1>6, RequestFrame DEF IInv, io
  <2> QED
    BY <2>1, <2>2
<1>8. \A f \in Executors : OwnerInv(f)'
  <2> TAKE f \in Executors
  <2>0. pc'[f] = pc[f] /\ Target(f)' = Target(f) /\ OwnerInv(f) /\ UNCHANGED <<mints, sends>>
    BY <1>1 DEF IInv, procs, io, Target
  <2>1. CASE Target(f) = r
    <3>1. pc[f] # "prepared"
      BY <2>0, <2>1, <1>3 DEF OwnerInv
    <3> QED
      BY <2>0, <2>1, <3>1, <1>2, <1>3, OwningPlaces DEF OwnerInv, EverDispatched
  <2>2. CASE Target(f) # r
    <3>1. pc[f] \in Owning => Target(f) \in Requests \ {r}
      BY <2>2, TargetType, OwningPlaces DEF IInv
    <3> QED
      BY <2>0, <3>1, <1>2, OwnerFrame
  <2> QED
    BY <2>1, <2>2
<1>9. OneOwner'
  BY <1>1 DEF IInv, OneOwner, procs, Target
<1> QED
  BY <1>4, <1>5, <1>7, <1>8, <1>9 DEF IInv

LEMMA CrashInv == ASSUME IInv, NEW e \in Executors, Crash(e) PROVE IInv'
<1>1. pc[e] # "idle" /\ Goto(e, "crashed") /\ UNCHANGED <<clock, table, held, seen, io, audit>>
  BY DEF Crash, Running
<1>2. clock' \in Nat /\ seen' \in [Executors -> Nat]
  BY <1>1 DEF IInv, TypeOK
<1>3. pc'[e] = "crashed" /\ "crashed" \in Places \ {"idle"}
  BY <1>1, PlaceMembers, PlaceType DEF IInv
<1>4. "crashed" \notin Owning
  BY DEF Owning, PreTarget, PostTarget, Failing
<1>5. OwnerInv(e)'
  BY <1>3, <1>4, OwningPlaces DEF OwnerInv
<1> QED
  BY <1>1, <1>2, <1>3, <1>4, <1>5, QuietStep

LEMMA CloseSelectInv == ASSUME IInv, NEW e \in Executors, CloseSelect(e) PROVE IInv'
<1>1. PICK p \in {"mint refused", "refused", "closing terminal", "closing unknown"} :
        /\ Goto(e, p)
        /\ p = "closing terminal" => pc[e] = "mint failed"
        /\ p = "closing unknown" => pc[e] = "no answer"
  BY DEF CloseSelect, Goal, Refusal
<1>2. pc[e] \in {"mint failed", "no answer"} /\ UNCHANGED <<clock, table, held, seen, io, audit>>
  BY DEF CloseSelect
<1>3. clock' \in Nat /\ seen' \in [Executors -> Nat]
  BY <1>2 DEF IInv, TypeOK
<1>4. p \in Places \ {"idle"} /\ pc'[e] = p
  BY <1>1, <1>2, PlaceMembers, PlaceType DEF IInv
<1>5. OwnerInv(e)'
  BY <1>1, <1>2, <1>4 DEF IInv, OwnerInv, table, io, Target, EverDispatched, Owning, PreTarget, PostTarget, Failing
<1> QED
  BY <1>1, <1>2, <1>3, <1>4, <1>5, QuietStep DEF Owning, PreTarget, PostTarget, Failing

\* A rejected or a replayed envelope leaves every row alone; a reservation gives
\* a fresh id its first owner.
LEMMA ReserveInv == ASSUME IInv, NEW e \in Executors, Reserve(e) PROVE IInv'
<1> DEFINE r == Target(e)
<1>1. pc[e] = "verified" /\ UNCHANGED <<clock, held, seen, io, audit>>
  BY DEF Reserve, At
<1>2. r \in Requests /\ held[e] \in Envelopes /\ pc[e] # "idle" /\ pc[e] \notin Owning
  BY <1>1, TargetType DEF IInv, Owning, PreTarget, PostTarget, Failing
<1>3. decisions' \subseteq Envelopes /\ revocations' \subseteq Requests /\ receipt' = receipt
  BY <1>2 DEF Reserve, table, IInv, TypeOK
<1>4. \/ Goto(e, "refused") /\ UNCHANGED <<row, events, ts>>
      \/ /\ Goto(e, "prepared") /\ row[r] = "absent" /\ Move(r, "prepared")
         /\ ts' = [ts EXCEPT ![r] = seen[e]]
  BY DEF Reserve, table, Admissible
<1>5. LogInv'
  BY <1>1 DEF IInv, TypeOK, LogInv, io, audit, Proven
<1>6. \A q \in Requests : Proven(q)' <=> Proven(q)
  BY <1>1 DEF Proven, io
<1>7. \A f \in Executors : Target(f)' = Target(f)
  BY <1>1 DEF Target
<1>8. CASE Goto(e, "refused") /\ UNCHANGED <<row, events, ts>>
  <2>1. pc'[e] = "refused" /\ "refused" \notin Owning
    BY <1>1, <1>2, <1>8, PlaceType, PlaceMembers DEF IInv, Owning, PreTarget, PostTarget, Failing
  <2>2. pc' \in [Executors -> Places] /\ \A f \in Executors \ {e} : pc'[f] = pc[f]
    BY <1>1, <1>2, <1>8, PlaceType, PlaceMembers DEF IInv
  <2>3. TypeOK'
    BY <1>1, <1>2, <1>3, <1>8, PlaceType, PlaceMembers DEF IInv, TypeOK, io, audit
  <2>4. OneOwner'
    BY <2>1, <2>2, <1>7 DEF IInv, OneOwner
  <2>5. \A q \in Requests : RequestInv(q)'
    BY <1>1, <1>3, <1>6, <1>8, RequestFrame DEF IInv, io
  <2>6. OwnerInv(e)'
    BY <2>1, OwningPlaces DEF OwnerInv
  <2>7. \A f \in Executors : OwnerInv(f)'
    BY <2>2, <2>6, <1>1, <1>3, <1>7, <1>8, OwnerFrame DEF IInv, io
  <2> QED
    BY <1>5, <2>3, <2>4, <2>5, <2>7 DEF IInv
<1>9. CASE /\ Goto(e, "prepared") /\ row[r] = "absent" /\ Move(r, "prepared")
           /\ ts' = [ts EXCEPT ![r] = seen[e]]
  <2>1. pc'[e] = "prepared" /\ \A f \in Executors \ {e} : pc'[f] = pc[f]
    BY <1>1, <1>2, <1>9, PlaceType, PlaceMembers DEF IInv
  <2>2. /\ row'[r] = "prepared" /\ events'[r] = events[r] \cup {"prepared"}
        /\ \A q \in Requests \ {r} : row'[q] = row[q] /\ events'[q] = events[q]
    BY <1>2, <1>9, MoveType, RowMembers DEF IInv
  <2>3. TypeOK'
    BY <1>1, <1>2, <1>3, <1>9, PlaceType, PlaceMembers, MoveType, RowMembers DEF IInv, TypeOK, io, audit
  <2>4. mints[r] = 0 /\ sends[r] = 0 /\ events[r] = {} /\ receipt[r] = "none"
    BY <1>2, <1>9 DEF IInv, RequestInv
  <2>5. RequestInv(r)'
    BY <1>1, <1>3, <1>7, <2>2, <2>4 DEF RequestInv, EverDispatched, io
  <2>6. OwnerInv(e)'
    BY <1>1, <1>3, <1>7, <2>1, <2>2, <2>4 DEF OwnerInv, EverDispatched, io, Owning, PreTarget, PostTarget, Failing
  <2>7. \A f \in Executors \ {e} : pc[f] \in Owning => Target(f) # r
    BY <1>9 DEF IInv, OwnerInv
  <2> QED
    BY <1>1, <1>2, <1>3, <1>5, <1>6, <2>1, <2>2, <2>3, <2>5, <2>6, <2>7, LocalStep DEF io
<1> QED
  BY <1>4, <1>8, <1>9

\* The steps of an owner.  First what they have in common.
LEMMA OwnerStep ==
  ASSUME IInv, NEW e \in Executors, pc[e] \in Owning, NEW p \in Places \ {"idle"}, Goto(e, p),
         UNCHANGED <<clock, ts, decisions, revocations, held, seen, audit>>,
         row' \in [Requests -> RowStates], events' \in [Requests -> SUBSET RowStates],
         receipt' \in [Requests -> {"none", "response", "audit"}],
         mints' \in [Requests -> Nat], sends' \in [Requests -> Nat], kong' \subseteq KongLog,
         \A q \in Requests \ {Target(e)} :
           /\ row'[q] = row[q] /\ receipt'[q] = receipt[q] /\ events'[q] = events[q]
           /\ mints'[q] = mints[q] /\ sends'[q] = sends[q] /\ (Proven(q) => Proven(q)'),
         LogInv', RequestInv(Target(e))',
         pc'[e] = p => OwnerInv(e)'
  PROVE  IInv'
<1>1. pc[e] # "idle"
  BY OwningPlaces
<1>2. /\ pc' \in [Executors -> Places] /\ pc'[e] = p
      /\ \A f \in Executors : held'[f] = NoEnvelope <=> pc'[f] = "idle"
      /\ \A f \in Executors \ {e} : pc'[f] = pc[f]
  BY <1>1, PlaceType DEF IInv
<1>3. TypeOK'
  BY <1>2 DEF IInv, TypeOK, audit
<1> QED
  BY <1>1, <1>2, <1>3, OwnerAlone, LocalStep

LEMMA DispatchInv == ASSUME IInv, NEW e \in Executors, Dispatch(e) PROVE IInv'
<1> DEFINE r == Target(e)
<1>1. /\ pc[e] = "prepared" /\ pc[e] \in Owning /\ pc[e] # "idle"
      /\ UNCHANGED <<clock, ts, receipt, decisions, revocations, held, seen, io, audit>>
  BY DEF Dispatch, At, Owning, PreTarget
<1>2. r \in Requests /\ OwnerInv(e) /\ RequestInv(r) /\ TypeOK /\ r = Target(e)'
  BY <1>1, TargetType DEF IInv, Target
<1>3. \/ Goto(e, "refused") /\ UNCHANGED <<row, events>>
      \/ Goto(e, "refused") /\ row[r] \in {"prepared", "dispatched"} /\ Move(r, "terminal")
      \/ Goto(e, "dispatched") /\ row[r] = "prepared" /\ Move(r, "dispatched")
  BY DEF Dispatch, DispatchOutcome, Allowed
<1>4. mints[r] = 0 /\ sends[r] = 0 /\ receipt[r] = "none" /\ row[r] \in {"prepared", "terminal"}
  BY <1>1, <1>2 DEF OwnerInv, RequestInv, Owning, PreTarget, TypeOK
<1>5. LogInv' /\ \A q \in Requests : Proven(q)' <=> Proven(q)
  BY <1>1 DEF IInv, TypeOK, LogInv, io, audit, Proven
<1>6. CASE Goto(e, "refused") /\ UNCHANGED <<row, events>>
  <2>1. pc'[e] = "refused" => OwnerInv(e)'
    BY DEF OwnerInv, Owning, PreTarget, PostTarget, Failing
  <2> QED
    BY <1>1, <1>6, <2>1, QuietStep, PlaceMembers, PlaceType DEF IInv, TypeOK, table
<1>7. CASE Goto(e, "refused") /\ Move(r, "terminal")
  <2>1. pc'[e] = "refused" => OwnerInv(e)'
    BY DEF OwnerInv, Owning, PreTarget, PostTarget, Failing
  <2>2. RequestInv(r)'
    BY <1>1, <1>2, <1>4, <1>7, MoveType, RowMembers DEF RequestInv, EverDispatched, io
  <2>3. /\ row' \in [Requests -> RowStates] /\ events' \in [Requests -> SUBSET RowStates]
        /\ \A q \in Requests \ {r} : row'[q] = row[q] /\ events'[q] = events[q]
    BY <1>2, <1>7, MoveType, RowMembers
  <2> QED
    BY <1>1, <1>2, <1>5, <1>7, <2>1, <2>2, <2>3, OwnerStep, PlaceMembers DEF TypeOK, io
<1>8. CASE Goto(e, "dispatched") /\ row[r] = "prepared" /\ Move(r, "dispatched")
  <2>1. pc'[e] = "dispatched" => OwnerInv(e)'
    BY <1>1, <1>2, <1>4, <1>8, MoveType, RowMembers
    DEF OwnerInv, EverDispatched, io, Owning, PreTarget, PostTarget, Failing
  <2>2. RequestInv(r)'
    BY <1>1, <1>2, <1>4, <1>8, MoveType, RowMembers DEF RequestInv, EverDispatched, io
  <2>3. /\ row' \in [Requests -> RowStates] /\ events' \in [Requests -> SUBSET RowStates]
        /\ \A q \in Requests \ {r} : row'[q] = row[q] /\ events'[q] = events[q]
    BY <1>2, <1>8, MoveType, RowMembers
  <2> QED
    BY <1>1, <1>2, <1>5, <1>8, <2>1, <2>2, <2>3, OwnerStep, PlaceMembers DEF TypeOK, io
<1> QED
  BY <1>3, <1>6, <1>7, <1>8

LEMMA MintInv == ASSUME IInv, NEW e \in Executors, Mint(e) PROVE IInv'
<1> DEFINE r == Target(e)
<1>1. /\ pc[e] = "dispatched" /\ pc[e] \in Owning /\ pc[e] # "idle"
      /\ mints' = [mints EXCEPT ![r] = @ + 1]
      /\ UNCHANGED <<clock, row, ts, receipt, events, decisions, revocations, held, seen, sends, kong, audit>>
  BY DEF Mint, At, Owning, PreTarget, table
<1>2. r \in Requests /\ OwnerInv(e) /\ RequestInv(r) /\ TypeOK /\ r = Target(e)'
  BY <1>1, TargetType DEF IInv, Target
<1>3. mints[r] = 0 /\ sends[r] = 0 /\ EverDispatched(r)
  BY <1>1, <1>2 DEF OwnerInv, Owning, PreTarget, PostTarget, Failing
<1>4. mints' \in [Requests -> Nat] /\ mints'[r] = 1 /\ \A q \in Requests \ {r} : mints'[q] = mints[q]
  BY <1>1, <1>2, <1>3 DEF TypeOK
<1>5. LogInv' /\ \A q \in Requests : Proven(q)' <=> Proven(q)
  BY <1>1 DEF IInv, TypeOK, LogInv, audit, Proven
<1>6. RequestInv(r)'
  BY <1>1, <1>2, <1>3, <1>4, <1>5 DEF RequestInv, EverDispatched
<1>7. PICK p \in {"minted", "mint failed"} : Goto(e, p)
  BY DEF Mint
<1>8. pc'[e] = p => OwnerInv(e)'
  BY <1>1, <1>2, <1>3, <1>4, <1>7 DEF OwnerInv, EverDispatched, Owning, PreTarget, PostTarget, Failing
<1> QED
  BY <1>1, <1>2, <1>4, <1>5, <1>6, <1>7, <1>8, OwnerStep, PlaceMembers DEF TypeOK

\* The gateway's log proves nothing of the request before it is sent: no line of
\* it, and so no projection and no receipt of the auditor, is about it yet.
LEMMA SendInv == ASSUME IInv, NEW e \in Executors, Send(e) PROVE IInv'
<1> DEFINE r == Target(e)
<1>1. /\ pc[e] = "minted" /\ pc[e] \in Owning /\ pc[e] # "idle" /\ Goto(e, "awaiting")
      /\ sends' = [sends EXCEPT ![r] = @ + 1]
      /\ UNCHANGED <<clock, row, ts, receipt, events, decisions, revocations, held, seen, mints, audit>>
  BY DEF Send, At, Owning, PreTarget, table
<1>2. r \in Requests /\ OwnerInv(e) /\ RequestInv(r) /\ TypeOK /\ r = Target(e)'
  BY <1>1, TargetType DEF IInv, Target
<1>3. mints[r] = 1 /\ sends[r] = 0 /\ EverDispatched(r) /\ receipt[r] = "none"
      /\ row[r] \in {"dispatched", "unknown"}
  BY <1>1, <1>2 DEF OwnerInv, RequestInv, Owning, PreTarget, PostTarget, Failing, TypeOK
<1>4. sends' \in [Requests -> Nat] /\ sends'[r] = 1 /\ \A q \in Requests \ {r} : sends'[q] = sends[q]
  BY <1>1, <1>2, <1>3 DEF TypeOK
<1>5. \A k \in kong : k.request \in Requests \ {r}
  BY <1>3 DEF IInv, TypeOK, LogInv, KongLog
<1>6. kong' \subseteq KongLog /\ kong \subseteq kong' /\ \A k \in kong' \ kong : k.request = r
  BY <1>2 DEF Send, TypeOK, KongLog
<1>7. \A q \in Requests \ {r} : Proven(q) => Proven(q)'
  BY <1>6 DEF Proven
<1>8. LogInv'
  <2>1. ~ Proven(r)
    BY <1>5 DEF Proven
  <2>2. \A q \in projection : Proven(q)'
    BY <2>1, <1>7 DEF IInv, LogInv, TypeOK
  <2> QED
    BY <2>2, <1>1, <1>4, <1>5, <1>6 DEF IInv, LogInv, audit
<1>9. RequestInv(r)'
  BY <1>1, <1>2, <1>3, <1>4 DEF RequestInv, EverDispatched
<1>10. pc'[e] = "awaiting" => OwnerInv(e)'
  BY <1>1, <1>2, <1>3, <1>4 DEF OwnerInv, EverDispatched, Owning, PreTarget, PostTarget, Failing
<1> QED
  BY <1>1, <1>2, <1>4, <1>6, <1>7, <1>8, <1>9, <1>10, OwnerStep, PlaceMembers DEF TypeOK

LEMMA SettleInv == ASSUME IInv, NEW e \in Executors, Settle(e) PROVE IInv'
<1> DEFINE r == Target(e)
<1>1. /\ pc[e] = "answered" /\ pc[e] \in Owning /\ pc[e] # "idle"
      /\ UNCHANGED <<clock, ts, decisions, revocations, held, seen, io, audit>>
  BY DEF Settle, At, Owning, PostTarget
<1>2. r \in Requests /\ OwnerInv(e) /\ RequestInv(r) /\ TypeOK /\ r = Target(e)'
  BY <1>1, TargetType DEF IInv, Target
<1>3. PICK p \in {"succeeded", "refused"} :
        /\ Goto(e, p)
        /\ \/ UNCHANGED <<row, events, receipt>>
           \/ row[r] = "dispatched" /\ Move(r, "terminal") /\ receipt' = [receipt EXCEPT ![r] = "response"]
  BY DEF Settle
<1>4. pc'[e] = p => OwnerInv(e)'
  BY <1>3 DEF OwnerInv, Owning, PreTarget, PostTarget, Failing
<1>5. LogInv' /\ \A q \in Requests : Proven(q)' <=> Proven(q)
  BY <1>1 DEF IInv, TypeOK, LogInv, io, audit, Proven
<1>6. CASE UNCHANGED <<row, events, receipt>>
  <2>1. p \in Places \ {"idle"} /\ p \notin Owning
    BY <1>3, PlaceMembers DEF Owning, PreTarget, PostTarget, Failing
  <2> QED
    BY <1>1, <1>3, <1>4, <1>6, <2>1, QuietStep, PlaceType DEF IInv, TypeOK, table
<1>7. CASE row[r] = "dispatched" /\ Move(r, "terminal") /\ receipt' = [receipt EXCEPT ![r] = "response"]
  <2>1. sends[r] = 1
    BY <1>1, <1>2 DEF OwnerInv, PostTarget
  <2>2. receipt' \in [Requests -> {"none", "response", "audit"}] /\ receipt'[r] = "response"
        /\ \A q \in Requests \ {r} : receipt'[q] = receipt[q]
    BY <1>2, <1>7 DEF TypeOK
  <2>3. RequestInv(r)'
    BY <1>1, <1>2, <1>7, <2>1, <2>2, MoveType, RowMembers DEF RequestInv, EverDispatched, io
  <2>4. /\ row' \in [Requests -> RowStates] /\ events' \in [Requests -> SUBSET RowStates]
        /\ \A q \in Requests \ {r} : row'[q] = row[q] /\ events'[q] = events[q]
    BY <1>2, <1>7, MoveType, RowMembers
  <2> QED
    BY <1>1, <1>2, <1>3, <1>4, <1>5, <2>2, <2>3, <2>4, OwnerStep, PlaceMembers DEF TypeOK, io
<1> QED
  BY <1>3, <1>6, <1>7

\* The row may have been recovered, or settled by an auditor, since the SELECT.
LEMMA CloseUpdateInv == ASSUME IInv, NEW e \in Executors, CloseUpdate(e) PROVE IInv'
<1> DEFINE r == Target(e)
<1>1. /\ pc[e] \in {"closing terminal", "closing unknown"} /\ pc[e] \in Owning /\ pc[e] # "idle"
      /\ UNCHANGED <<clock, ts, receipt, events, decisions, revocations, held, seen, io, audit>>
  BY DEF CloseUpdate, Owning, PreTarget, Failing
<1>2. r \in Requests /\ OwnerInv(e) /\ RequestInv(r) /\ TypeOK /\ r = Target(e)'
  BY <1>1, TargetType DEF IInv, Target
<1>3. PICK p \in {"logging terminal", "logging unknown"}, s \in {"terminal", "unknown"} :
        /\ p = "logging terminal" => s = "terminal" /\ pc[e] = "closing terminal"
        /\ p = "logging unknown" => s = "unknown" /\ pc[e] = "closing unknown"
        /\ Goto(e, p) /\ row' = [row EXCEPT ![r] = s]
  BY <1>1 DEF CloseUpdate, Goal
<1>4. row' \in [Requests -> RowStates] /\ row'[r] = s /\ \A q \in Requests \ {r} : row'[q] = row[q]
  BY <1>2, <1>3, RowMembers DEF TypeOK
<1>5. LogInv' /\ \A q \in Requests : Proven(q)' <=> Proven(q)
  BY <1>1 DEF IInv, TypeOK, LogInv, io, audit, Proven
<1>6. EverDispatched(r) /\ mints[r] = 1 /\ receipt[r] # "response"
      /\ (s = "terminal" => sends[r] = 0)
  BY <1>1, <1>2, <1>3 DEF OwnerInv, Owning, PreTarget, PostTarget, Failing
<1>7. RequestInv(r)'
  BY <1>1, <1>2, <1>3, <1>4, <1>5, <1>6 DEF RequestInv, EverDispatched, io
<1>8. pc'[e] = p => OwnerInv(e)'
  BY <1>1, <1>2, <1>3, <1>4, <1>6 DEF OwnerInv, EverDispatched, io, Owning, PreTarget, PostTarget, Failing
<1> QED
  BY <1>1, <1>2, <1>3, <1>4, <1>5, <1>7, <1>8, OwnerStep, PlaceMembers DEF TypeOK, io

LEMMA CloseInsertInv == ASSUME IInv, NEW e \in Executors, CloseInsert(e) PROVE IInv'
<1> DEFINE r == Target(e)
<1>1. /\ pc[e] \in {"logging terminal", "logging unknown"} /\ pc[e] \in Owning /\ pc[e] # "idle"
      /\ UNCHANGED <<clock, row, ts, receipt, decisions, revocations, held, seen, io, audit>>
  BY DEF CloseInsert, Owning, PreTarget, Failing
<1>2. r \in Requests /\ OwnerInv(e) /\ RequestInv(r) /\ TypeOK /\ r = Target(e)'
  BY <1>1, TargetType DEF IInv, Target
<1>3. PICK p \in {"mint refused", "refused"}, s \in {"terminal", "unknown"} :
        Goto(e, p) /\ events' = [events EXCEPT ![r] = @ \cup {s}]
  BY DEF CloseInsert, Goal, Refusal
<1>4. /\ events' \in [Requests -> SUBSET RowStates] /\ events'[r] = events[r] \cup {s}
      /\ \A q \in Requests \ {r} : events'[q] = events[q]
  BY <1>2, <1>3, RowMembers DEF TypeOK
<1>5. LogInv' /\ \A q \in Requests : Proven(q)' <=> Proven(q)
  BY <1>1 DEF IInv, TypeOK, LogInv, io, audit, Proven
<1>6. row[r] # "absent"
  BY <1>1, <1>2 DEF OwnerInv
<1>7. RequestInv(r)'
  BY <1>1, <1>2, <1>3, <1>4, <1>5, <1>6 DEF RequestInv, EverDispatched, io
<1>8. pc'[e] = p => OwnerInv(e)'
  BY <1>3 DEF OwnerInv, Owning, PreTarget, PostTarget, Failing
<1> QED
  BY <1>1, <1>2, <1>3, <1>4, <1>5, <1>7, <1>8, OwnerStep, PlaceMembers DEF TypeOK, io

-----------------------------------------------------------------------------
(* The theorems.                                                           *)

LEMMA NextInv == IInv /\ [Next]_vars => IInv'
<1> SUFFICES ASSUME IInv, [Next]_vars PROVE IInv'
  OBVIOUS
<1>1. CASE Tick
  BY <1>1, TickInv
<1>2. ASSUME NEW e \in Executors, Open(e) \/ Step(e) \/ Crash(e) PROVE IInv'
  BY <1>2, OpenInv, VerifyInv, ReserveInv, DispatchInv, MintInv, SendInv, SendFailsInv,
     AnswerInv, SettleInv, CloseSelectInv, CloseUpdateInv, CloseInsertInv, CrashInv DEF Step
<1>3. ASSUME NEW r \in Requests, Audit(r) PROVE IInv'
  BY <1>3, AuditOpenInv, AuditAcquireInv, AuditSettleInv, AuditStopsInv DEF Audit
<1>4. CASE UNCHANGED vars
  <2>1. TypeOK' /\ LogInv'
    BY <1>4 DEF vars, table, procs, io, audit, IInv, TypeOK, LogInv, Proven
  <2> QED
    BY <1>4, <2>1, IdleStep DEF vars
<1> QED
  BY <1>1, <1>2, <1>3, <1>4 DEF Next

\* In every reachable state of the store, its executors and its auditors, an
\* executor that reserved a request is its only owner, and the row, the events,
\* the receipts and the gateway's log agree with the I/O its place implies.
THEOREM Invariance == Spec => []IInv
BY InitInv, NextInv, PTL DEF Spec

\* Every table, process and log keeps its type, the request states and receipts
\* of agent/charter_requests.py among them.
THEOREM TypeCorrect == Spec => []TypeOK
BY Invariance, PTL DEF IInv

\* OAuth is asked and the target called at most once per request, after a durable
\* dispatch, for any number of executors, envelopes, crashes and reopenings.
THEOREM OneSend == Spec => []AtMostOneSend
<1>1. IInv => AtMostOneSend
  BY DEF IInv, RequestInv, AtMostOneSend
<1> QED
  BY <1>1, Invariance, PTL

\* A row that recovery, a revocation or a failed mint made terminal was not sent.
THEOREM Truthful == Spec => []TerminalIsTruthful
<1>1. IInv => TerminalIsTruthful
  BY DEF IInv, RequestInv, TerminalIsTruthful
<1> QED
  BY <1>1, Invariance, PTL

\* A receipt, of the response or of the auditor, stands for one request sent; an
\* auditor's receipt for a single in-policy line of the gateway's log.
THEOREM Receipts == Spec => []ReceiptIsProof
<1>1. IInv => ReceiptIsProof
  BY DEF IInv, RequestInv, ReceiptIsProof, Proven
<1> QED
  BY <1>1, Invariance, PTL

\* Only the dispatch transaction adds the dispatched event, and only to a row
\* whose request is not revoked.
LEMMA DispatchedByDispatch ==
  ASSUME IInv, [Next]_vars, NEW r \in Requests, r \in revocations, EverDispatched(r)'
  PROVE  EverDispatched(r)
<1> USE DEF EverDispatched
<1>0. TypeOK
  BY DEF IInv
<1>1. CASE events' = events
  BY <1>1
<1>2. CASE Recover
  BY <1>0, <1>2, RecoverType DEF Reopened
<1>3. ASSUME NEW q \in Requests, NEW x \in {"prepared", "unknown", "terminal"},
             events' = [events EXCEPT ![q] = @ \cup {x}]
      PROVE  EverDispatched(r)
  BY <1>0, <1>3 DEF TypeOK
<1>4. ASSUME NEW e \in Executors, pc[e] # "idle", Step(e) PROVE EverDispatched(r)
  <2>1. Target(e) \in Requests
    BY <1>0, <1>4, TargetType
  <2>2. CASE Reserve(e)
    BY <1>1, <1>3, <2>1, <2>2 DEF Reserve, Move, table
  <2>3. CASE Dispatch(e)
    <3>1. CASE Target(e) = r
      BY <1>1, <1>3, <2>1, <2>3, <3>1 DEF Dispatch, DispatchOutcome, Move
    <3>2. CASE Target(e) # r
      BY <1>0, <2>1, <2>3, <3>2 DEF Dispatch, Move, TypeOK
    <3> QED
      BY <3>1, <3>2
  <2>4. CASE Settle(e)
    BY <1>1, <1>3, <2>1, <2>4 DEF Settle, Move
  <2>5. CASE CloseInsert(e)
    BY <1>3, <2>1, <2>5 DEF CloseInsert, Goal
  <2> QED
    BY <1>1, <1>4, <2>2, <2>3, <2>4, <2>5
    DEF Step, Verify, Mint, Send, SendFails, Answer, CloseSelect, CloseUpdate, table
<1>5. ASSUME NEW e \in Executors, Step(e) PROVE pc[e] # "idle"
  BY <1>5 DEF Step, Verify, Reserve, Dispatch, Mint, Send, SendFails, Answer, Settle,
     CloseSelect, CloseUpdate, CloseInsert, At
<1>6. ASSUME NEW e \in Executors, Open(e) \/ Crash(e) PROVE EverDispatched(r)
  BY <1>1, <1>2, <1>6 DEF Open, Crash, table
<1>7. ASSUME NEW q \in Requests, Audit(q) PROVE EverDispatched(r)
  BY <1>1, <1>2, <1>3, <1>7 DEF Audit, AuditOpen, AuditAcquire, AuditSettle, AuditStops, Move, table
<1>8. CASE Tick \/ UNCHANGED vars
  BY <1>1, <1>8 DEF Tick, vars, table
<1> QED
  BY <1>4, <1>5, <1>6, <1>7, <1>8 DEF Next

\* A revocation recorded before the dispatch transaction of a request excludes the
\* request's dispatch for good, however many envelopes approve it.
THEOREM RevocationWins == Spec => RevokeWins
<1>1. IInv /\ [Next]_vars =>
        [\A r \in Requests :
           r \in revocations /\ ~ EverDispatched(r) => ~ EverDispatched(r)']_vars
  BY DispatchedByDispatch
<1> QED
  BY <1>1, Invariance, PTL DEF Spec, RevokeWins

\* A row the response settled has no owner left, and neither a reopening nor an
\* auditor has any business with it.
LEMMA SettledFrame ==
  ASSUME IInv, [Next]_vars, NEW r \in Requests, receipt[r] = "response"
  PROVE  row'[r] = "terminal" /\ receipt'[r] = "response"
<1>0. TypeOK /\ row[r] = "terminal" /\ \A e \in Executors : pc[e] \in Owning => Target(e) # r
  <2>1. TypeOK /\ RequestInv(r) /\ \A e \in Executors : OwnerInv(e)
    BY DEF IInv
  <2> QED
    BY <2>1 DEF RequestInv, OwnerInv
<1>1. CASE UNCHANGED <<row, receipt>>
  BY <1>0, <1>1
<1>2. CASE Recover /\ UNCHANGED receipt
  BY <1>0, <1>2, RecoverType DEF Reopened
<1>3. ASSUME NEW q \in Requests \ {r}, NEW x, row' = [row EXCEPT ![q] = x],
             NEW y, receipt' = [receipt EXCEPT ![q] = y] \/ UNCHANGED receipt
      PROVE  row'[r] = "terminal" /\ receipt'[r] = "response"
  BY <1>0, <1>3 DEF TypeOK
<1>4. ASSUME NEW e \in Executors, Step(e)
      PROVE  row'[r] = "terminal" /\ receipt'[r] = "response"
  <2>1. CASE Reserve(e)
    <3>1. Target(e) \in Requests
      BY <1>0, <2>1, TargetType DEF Reserve, At
    <3>2. UNCHANGED receipt /\
            (UNCHANGED row \/ (row[Target(e)] = "absent" /\ row' = [row EXCEPT ![Target(e)] = "prepared"]))
      BY <2>1 DEF Reserve, Admissible, Move, table
    <3> QED
      BY <1>0, <1>1, <1>3, <3>1, <3>2
  <2>2. CASE pc[e] \in Owning /\ (Dispatch(e) \/ Settle(e) \/ CloseUpdate(e))
    <3>1. Target(e) \in Requests \ {r}
      BY <1>0, <2>2, TargetType, OwningPlaces
    <3> QED
      BY <1>1, <1>3, <2>2, <3>1 DEF Dispatch, Settle, CloseUpdate, Move
  <2>3. Dispatch(e) \/ Settle(e) \/ CloseUpdate(e) => pc[e] \in Owning
    BY DEF Dispatch, Settle, CloseUpdate, At, Owning, PreTarget, PostTarget, Failing
  <2> QED
    BY <1>1, <1>4, <2>1, <2>2, <2>3
    DEF Step, Verify, Mint, Send, SendFails, Answer, CloseSelect, CloseInsert, table
<1>5. ASSUME NEW e \in Executors, Open(e) \/ Crash(e)
      PROVE  row'[r] = "terminal" /\ receipt'[r] = "response"
  BY <1>1, <1>2, <1>5 DEF Open, Crash, table
<1>6. ASSUME NEW q \in Requests, Audit(q)
      PROVE  row'[r] = "terminal" /\ receipt'[r] = "response"
  BY <1>0, <1>1, <1>2, <1>3, <1>6
  DEF Audit, AuditOpen, AuditAcquire, AuditSettle, AuditStops, Move, table
<1>7. CASE Tick \/ UNCHANGED vars
  BY <1>1, <1>7 DEF Tick, vars, table
<1> QED
  BY <1>4, <1>5, <1>6, <1>7 DEF Next

\* Once its own response has settled a request, the request keeps that state and
\* that receipt, whatever opens, recovers or audits the store afterwards.
THEOREM SettledStays == Spec => ResponseIsFinal
<1>1. IInv /\ [Next]_vars =>
        [\A r \in Requests :
           receipt[r] = "response" => row[r]' = "terminal" /\ receipt[r]' = "response"]_vars
  BY SettledFrame
<1> QED
  BY <1>1, Invariance, PTL DEF Spec, ResponseIsFinal

-----------------------------------------------------------------------------
(* The quotas.                                                             *)

\* A row appears in the authorize_prepare transaction alone, which stamps it with
\* the clock value its process read, and never disappears.
LEMMA Reservations ==
  ASSUME IInv, [Next]_vars
  PROVE  \/ /\ \A q \in Requests : row'[q] = "absent" <=> row[q] = "absent"
            /\ ts' = ts
         \/ \E e \in Executors :
              /\ Target(e) \in Requests /\ Admissible(Target(e), seen[e])
              /\ row' = [row EXCEPT ![Target(e)] = "prepared"]
              /\ ts' = [ts EXCEPT ![Target(e)] = seen[e]]
<1> DEFINE Kept == (\A q \in Requests : row'[q] = "absent" <=> row[q] = "absent") /\ ts' = ts
<1>0. TypeOK /\ \A e \in Executors : pc[e] \in Owning => row[Target(e)] # "absent"
  BY DEF IInv, OwnerInv
<1>1. ASSUME UNCHANGED <<row, ts>> PROVE Kept
  BY <1>1
<1>2. ASSUME Recover, UNCHANGED ts PROVE Kept
  BY <1>0, <1>2, RecoverType DEF Reopened
<1>3. ASSUME NEW q \in Requests, NEW x \in {"dispatched", "unknown", "terminal"}, row[q] # "absent",
             row' = [row EXCEPT ![q] = x], UNCHANGED ts
      PROVE  Kept
  BY <1>0, <1>3 DEF TypeOK
<1>4. ASSUME NEW e \in Executors, Dispatch(e) \/ Settle(e) \/ CloseUpdate(e) PROVE Kept
  <2>1. pc[e] \in Owning
    BY <1>4 DEF Dispatch, Settle, CloseUpdate, At, Owning, PreTarget, PostTarget, Failing
  <2>2. Target(e) \in Requests /\ row[Target(e)] # "absent"
    BY <1>0, <2>1, TargetType, OwningPlaces
  <2> QED
    BY <1>1, <1>3, <1>4, <2>2
    DEF Dispatch, Settle, CloseUpdate, Move, DispatchOutcome, Goal
<1>5. ASSUME NEW e \in Executors, Open(e) \/ Crash(e) PROVE Kept
  BY <1>1, <1>2, <1>5 DEF Open, Crash, table
<1>6. ASSUME NEW q \in Requests, Audit(q) PROVE Kept
  BY <1>1, <1>2, <1>3, <1>6 DEF Audit, AuditOpen, AuditAcquire, AuditSettle, AuditStops, Move, table
<1>7. CASE Tick \/ UNCHANGED vars
  BY <1>1, <1>7 DEF Tick, vars, table
<1>8. ASSUME NEW e \in Executors, Reserve(e), ~ Kept
      PROVE  /\ Target(e) \in Requests /\ Admissible(Target(e), seen[e])
             /\ row' = [row EXCEPT ![Target(e)] = "prepared"]
             /\ ts' = [ts EXCEPT ![Target(e)] = seen[e]]
  BY <1>0, <1>1, <1>8, TargetType DEF Reserve, At, Move, table
<1>9. ASSUME NEW e \in Executors, Step(e), ~ Reserve(e) PROVE Kept
  BY <1>1, <1>4, <1>9 DEF Step, Verify, Mint, Send, SendFails, Answer, CloseSelect, CloseInsert, table
<1> QED
  BY <1>5, <1>6, <1>7, <1>8, <1>9 DEF Next

\* A run's second POST is refused however long after the first one it comes.
THEOREM OnePost == Spec => []OnePostPerRun
<1>1. Init => OnePostPerRun
  BY RequestAssumption DEF Init, OnePostPerRun
<1>2. ASSUME IInv, OnePostPerRun, [Next]_vars PROVE OnePostPerRun'
  <2>1. CASE \A q \in Requests : row'[q] = "absent" <=> row[q] = "absent"
    BY <1>2, <2>1, RequestAssumption DEF OnePostPerRun
  <2>2. ASSUME NEW r \in Requests, NEW now, Admissible(r, now), row' = [row EXCEPT ![r] = "prepared"]
        PROVE  OnePostPerRun'
    <3>1. \A q \in Requests \ {r} : row'[q] = row[q]
      BY <1>2, <2>2 DEF IInv, TypeOK
    <3>2. r \in Posts => \A q \in Posts : RunOf[q] = RunOf[r] => row[q] = "absent"
      BY <2>2 DEF Admissible, PostSpent
    <3> QED
      BY <1>2, <3>1, <3>2, RequestAssumption DEF OnePostPerRun
  <2> QED
    BY <1>2, <2>1, <2>2, Reservations
<1> QED
  BY <1>1, <1>2, Invariance, PTL DEF Spec

\* The reservations whose window contains a time t.
Window(t) == {r \in Requests : row[r] # "absent" /\ ts[r] <= t /\ t < ts[r] + QuotaWindow}

\* Two executors that read the clock before they waited for the lock still cannot
\* put more than QuotaCap reservations into one window: a reservation counts every
\* row not older than its own window, later ones included.
THEOREM Quota == Spec => []QuotaHolds
<1> DEFINE Q == \A t \in Nat : Cardinality(Window(t)) <= QuotaCap \/ t < QuotaWindow
<1>1. \A t \in Nat : IsFiniteSet(Window(t)) /\ IsFiniteSet(Window(t)')
  BY RequestAssumption, FS_Subset DEF Window
<1>2. Init => Q
  <2> SUFFICES ASSUME Init, NEW t \in Nat, ~ (t < QuotaWindow) PROVE Cardinality(Window(t)) <= QuotaCap
    OBVIOUS
  <2>1. Window(t) = {}
    BY QuotaAssumption DEF Init, Window
  <2> QED
    BY <2>1, FS_EmptySet, QuotaAssumption
<1>3. ASSUME IInv, Q, [Next]_vars PROVE Q'
  <2> SUFFICES ASSUME NEW t \in Nat, ~ (t < QuotaWindow)
               PROVE  Cardinality(Window(t)') <= QuotaCap
    OBVIOUS
  <2>0. Cardinality(Window(t)) <= QuotaCap
    BY <1>3
  <2>1. CASE (\A q \in Requests : row'[q] = "absent" <=> row[q] = "absent") /\ ts' = ts
    <3>1. Window(t)' = Window(t)
      BY <2>1 DEF Window
    <3> QED
      BY <2>0, <3>1
  <2>2. ASSUME NEW e \in Executors, Target(e) \in Requests, Admissible(Target(e), seen[e]),
               row' = [row EXCEPT ![Target(e)] = "prepared"], ts' = [ts EXCEPT ![Target(e)] = seen[e]]
        PROVE  Cardinality(Window(t)') <= QuotaCap
    <3> DEFINE r == Target(e)
               now == seen[e]
    <3>1. /\ row \in [Requests -> RowStates] /\ ts \in [Requests -> Nat] /\ now \in Nat
          /\ row'[r] = "prepared" /\ ts'[r] = now
          /\ \A q \in Requests \ {r} : row'[q] = row[q] /\ ts'[q] = ts[q]
      BY <1>3, <2>2 DEF IInv, TypeOK
    <3>2. row[r] = "absent" /\ ~ (Cardinality(Recent(now)) >= QuotaCap)
      BY <2>2 DEF Admissible, QuotaExhausted
    <3>3. CASE r \in Window(t)'
      <4>1. now <= t
        BY <3>1, <3>3 DEF Window
      <4>2. Window(t)' \subseteq Recent(now) \cup {r} /\ r \notin Recent(now)
        BY <3>1, <3>2, <4>1, QuotaAssumption DEF Window, Recent
      <4>3. IsFiniteSet(Recent(now))
        BY RequestAssumption, FS_Subset DEF Recent
      <4>4. IsFiniteSet(Recent(now) \cup {r}) /\ Cardinality(Recent(now) \cup {r}) = Cardinality(Recent(now)) + 1
        BY <4>2, <4>3, FS_AddElement
      <4>5. Cardinality(Window(t)') <= Cardinality(Recent(now)) + 1
        BY <4>2, <4>4, FS_Subset
      <4>6. Cardinality(Recent(now)) \in Nat /\ Cardinality(Window(t)') \in Nat
        BY <1>1, <4>3, FS_CardinalityType
      <4> QED
        BY <3>2, <4>5, <4>6, QuotaAssumption
    <3>4. CASE r \notin Window(t)'
      <4>1. Window(t)' = Window(t)
        BY <3>1, <3>2, <3>4 DEF Window
      <4> QED
        BY <2>0, <4>1
    <3> QED
      BY <3>3, <3>4
  <2> QED
    BY <1>3, <2>1, <2>2, Reservations
<1>4. Q => QuotaHolds
  BY QuotaAssumption DEF QuotaHolds, Window
<1> HIDE DEF Q
<1> QED
  BY <1>2, <1>3, <1>4, Invariance, PTL DEF Spec

-----------------------------------------------------------------------------

(***************************************************************************)
(* What the mapping needs beyond IInv: a reservation is in the events, and *)
(* a row in flight has not been settled by anybody.                        *)
(***************************************************************************)
MapInv ==
  \A r \in Requests :
    /\ row[r] = "prepared" => "prepared" \in events[r]
    /\ row[r] \in {"absent", "prepared", "dispatched"} => receipt[r] = "none"

\* A row that is not in the events yet: its executor is about to record this very state,
\* or was killed before it did.
LoggedInv ==
  \A r \in Requests :
    row[r] \in events[r] \cup {"absent"}
    \/ \E e \in Executors :
         /\ pc[e] # "idle" /\ Target(e) = r
         /\ \/ pc[e] \in {"logging terminal", "logging unknown"} /\ row[r] = Goal(e)
            \/ pc[e] = "crashed"

\* The four ways in which a step changes the rows and the events.
Kept == UNCHANGED <<row, events, receipt>>

LEMMA InitMaps == Init => MapInv /\ LoggedInv
BY DEF Init, MapInv, LoggedInv

LEMMA MapStep ==
  ASSUME IInv, MapInv, [Next]_vars
  PROVE  MapInv'
<1> USE DEF MapInv
<1>1. ASSUME NEW r \in Requests, NEW s \in RowStates, Move(r, s), receipt' = receipt,
             s # "absent", s \in {"prepared", "dispatched"} => receipt[r] = "none"
      PROVE  MapInv'
  BY <1>1, MoveType DEF IInv
<1>2. ASSUME Recover, receipt' = receipt PROVE MapInv'
  BY <1>2, RecoverType DEF IInv, Reopened
<1>3. ASSUME NEW e \in Executors, Open(e) PROVE MapInv'
  BY <1>2, <1>3 DEF Open
<1>4. ASSUME NEW e \in Executors, Step(e) \/ Crash(e) PROVE MapInv'
  <2>1. CASE Kept
    BY <2>1 DEF Kept
  <2>2. CASE pc[e] # "idle" /\ ~ Kept
    <3>1. Target(e) \in Requests
      BY <2>2, TargetType DEF IInv
    <3>2. CASE Reserve(e)
      <4>1. Admissible(Target(e), seen[e]) /\ Move(Target(e), "prepared") /\ receipt' = receipt
        BY <2>2, <3>2 DEF Reserve, Kept, table
      <4>2. row[Target(e)] = "absent"
        BY <4>1 DEF Admissible
      <4> QED
        BY <1>1, <3>1, <4>1, <4>2, RowMembers
    <3>3. CASE Dispatch(e)
      BY <1>1, <2>2, <3>1, <3>3, RowMembers DEF Dispatch, DispatchOutcome, Allowed, Kept
    <3>4. CASE Settle(e)
      BY <2>2, <3>1, <3>4, RowMembers, MoveType DEF IInv, TypeOK, Settle, Kept
    <3>5. CASE CloseUpdate(e)
      BY <3>1, <3>5 DEF IInv, TypeOK, CloseUpdate, Goal
    <3>6. CASE CloseInsert(e)
      BY <3>1, <3>6 DEF IInv, TypeOK, CloseInsert
    <3> QED
      BY <1>4, <2>2, <3>2, <3>3, <3>4, <3>5, <3>6
      DEF Step, Verify, Mint, Send, SendFails, Answer, CloseSelect, Crash, table, Kept
  <2>3. pc[e] # "idle"
    BY <1>4 DEF Step, Crash, Verify, Reserve, Dispatch, Mint, Send, SendFails, Answer, Settle,
       CloseSelect, CloseUpdate, CloseInsert, At, Running
  <2> QED
    BY <2>1, <2>2, <2>3
<1>5. ASSUME NEW r \in Requests, Audit(r) PROVE MapInv'
  <2>1. CASE AuditOpen(r)
    BY <1>2, <2>1 DEF AuditOpen
  <2>2. CASE AuditSettle(r)
    BY <2>2, MoveType, RowMembers DEF AuditSettle, IInv, TypeOK
  <2>3. CASE AuditAcquire(r) \/ AuditStops(r)
    BY <2>3 DEF AuditAcquire, AuditStops, table
  <2> QED
    BY <1>5, <2>1, <2>2, <2>3 DEF Audit
<1>6. CASE Tick \/ UNCHANGED vars
  BY <1>6 DEF Tick, vars, table
<1> QED
  BY <1>3, <1>4, <1>5, <1>6 DEF Next

\* The places in which a process vouches for a row that is not recorded.
Vouching == {"logging terminal", "logging unknown", "crashed"}

\* Each row keeps its state, or is recorded in the same step; who vouches for one stays
\* where it is, unless it is killed.
LEMMA LoggedFrame ==
  ASSUME IInv, LoggedInv,
         \A f \in Executors : pc[f] \in Vouching =>
           (pc'[f] = pc[f] \/ pc'[f] = "crashed") /\ held'[f] = held[f],
         \A q \in Requests :
           (row'[q] = row[q] /\ events[q] \subseteq events'[q]) \/ row'[q] \in events'[q]
  PROVE  LoggedInv'
<1> SUFFICES ASSUME NEW q \in Requests, row'[q] \notin events'[q], row'[q] # "absent"
             PROVE  \E e \in Executors :
                      /\ pc'[e] # "idle" /\ Target(e)' = q
                      /\ \/ pc'[e] \in {"logging terminal", "logging unknown"} /\ row'[q] = Goal(e)'
                         \/ pc'[e] = "crashed"
  BY DEF LoggedInv
<1>1. row'[q] = row[q] /\ row[q] \notin events[q]
  OBVIOUS
<1>2. PICK e \in Executors :
        /\ pc[e] # "idle" /\ Target(e) = q
        /\ \/ pc[e] \in {"logging terminal", "logging unknown"} /\ row[q] = Goal(e)
           \/ pc[e] = "crashed"
  BY <1>1 DEF LoggedInv
<1>3. Target(e)' = q /\ pc'[e] \in {pc[e], "crashed"}
  BY <1>2 DEF Target, Vouching
<1>4. pc'[e] = pc[e] => Goal(e)' = Goal(e)
  BY DEF Goal
<1> QED
  BY <1>1, <1>2, <1>3, <1>4

\* Likewise when one process moves that vouches for nothing.
LEMMA LoggedMove ==
  ASSUME IInv, LoggedInv, NEW e \in Executors, pc[e] \notin Vouching,
         NEW p \in Places, Goto(e, p), held' = held,
         \A q \in Requests :
           (row'[q] = row[q] /\ events[q] \subseteq events'[q]) \/ row'[q] \in events'[q]
  PROVE  LoggedInv'
<1>1. \A f \in Executors : pc[f] \in Vouching => pc'[f] = pc[f] /\ held'[f] = held[f]
  BY DEF Goto, IInv, TypeOK
<1> QED
  BY <1>1, LoggedFrame

LEMMA RecoverLogs ==
  ASSUME TypeOK, Recover, NEW q \in Requests
  PROVE  (row'[q] = row[q] /\ events[q] \subseteq events'[q]) \/ row'[q] \in events'[q]
BY RecoverType

LEMMA LoggedStep ==
  ASSUME IInv, LoggedInv, [Next]_vars
  PROVE  LoggedInv'
<1>1. ASSUME NEW e \in Executors, Open(e) PROVE LoggedInv'
  <2>1. \A f \in Executors : pc[f] \in Vouching => pc'[f] = pc[f] /\ held'[f] = held[f]
    BY <1>1 DEF Open, At, Goto, Vouching, IInv, TypeOK
  <2>2. \A q \in Requests :
          (row'[q] = row[q] /\ events[q] \subseteq events'[q]) \/ row'[q] \in events'[q]
    BY <1>1, RecoverLogs DEF Open, IInv
  <2> QED
    BY <2>1, <2>2, LoggedFrame
\* The other steps of a process but two, by what they do to the rows.
<1>2. ASSUME NEW e \in Executors, Step(e), ~ CloseUpdate(e), ~ CloseInsert(e) PROVE LoggedInv'
  <2>1. held' = held /\ pc[e] \notin Vouching /\ pc[e] # "idle"
    BY <1>2 DEF Step, Verify, Reserve, Dispatch, Mint, Send, SendFails, Answer, Settle,
       CloseSelect, At, Vouching
  <2>2. \E p \in Places : Goto(e, p)
    BY <1>2, PlaceMembers DEF Step, Verify, Reserve, Dispatch, Mint, Send, SendFails, Answer,
       Settle, CloseSelect, Refusal
  <2>3. Target(e) \in Requests
    BY <2>1, TargetType DEF IInv
  <2>4. \/ row' = row /\ events' = events
        \/ \E s \in RowStates : Move(Target(e), s)
    BY <1>2, RowMembers DEF Step, Verify, Reserve, Dispatch, Mint, Send, SendFails, Answer, Settle,
       CloseSelect, DispatchOutcome, table
  <2>5. \A q \in Requests :
          (row'[q] = row[q] /\ events[q] \subseteq events'[q]) \/ row'[q] \in events'[q]
    BY <2>3, <2>4, MoveType DEF IInv
  <2> QED
    BY <2>1, <2>2, <2>5, LoggedMove
<1>3. ASSUME NEW e \in Executors, CloseUpdate(e) PROVE LoggedInv'
  <2>1. pc[e] # "idle" /\ Target(e) \in Requests
    BY <1>3, TargetType DEF CloseUpdate, IInv
  <2>2. pc'[e] \in {"logging terminal", "logging unknown"} /\ Goal(e)' = Goal(e)
    BY <1>3 DEF CloseUpdate, Goto, Goal, IInv, TypeOK
  <2>3. row'[Target(e)] = Goal(e) /\ \A q \in Requests \ {Target(e)} : row'[q] = row[q]
    BY <1>3, <2>1 DEF CloseUpdate, IInv, TypeOK
  <2>4. \A f \in Executors : Target(f)' = Target(f) /\ (pc[f] \in Vouching => f # e)
    BY <1>3 DEF CloseUpdate, Target, Vouching
  <2>5. events' = events /\ \A f \in Executors \ {e} : pc'[f] = pc[f]
    BY <1>3 DEF CloseUpdate, Goto, IInv, TypeOK
  <2>6. \A f \in Executors \ {e} : Goal(f)' = Goal(f)
    BY <2>5 DEF Goal
  <2> QED
    BY <2>1, <2>2, <2>3, <2>4, <2>5, <2>6 DEF LoggedInv, Vouching
<1>4. ASSUME NEW e \in Executors, CloseInsert(e) PROVE LoggedInv'
  <2>1. pc[e] # "idle" /\ Target(e) \in Requests
    BY <1>4, TargetType DEF CloseInsert, IInv
  <2>2. row' = row /\ events'[Target(e)] = events[Target(e)] \cup {Goal(e)}
        /\ \A q \in Requests : events[q] \subseteq events'[q]
    BY <1>4, <2>1 DEF CloseInsert, IInv, TypeOK
  <2>3. \A f \in Executors \ {e} : pc'[f] = pc[f]
    BY <1>4 DEF CloseInsert, Goto, IInv, TypeOK
  <2>4. \A f \in Executors : Target(f)' = Target(f)
    BY <1>4 DEF CloseInsert, Target
  <2>5. \A f \in Executors \ {e} : Goal(f)' = Goal(f)
    BY <2>3 DEF Goal
  <2>6. pc[e] # "crashed"
    BY <1>4 DEF CloseInsert
  <2>7. SUFFICES ASSUME NEW q \in Requests, row'[q] \notin events'[q], row'[q] # "absent"
                 PROVE  \E f \in Executors :
                          /\ pc'[f] # "idle" /\ Target(f)' = q
                          /\ \/ pc'[f] \in {"logging terminal", "logging unknown"} /\ row'[q] = Goal(f)'
                             \/ pc'[f] = "crashed"
    BY DEF LoggedInv
  <2>8. PICK f \in Executors :
          /\ pc[f] # "idle" /\ Target(f) = q
          /\ \/ pc[f] \in {"logging terminal", "logging unknown"} /\ row[q] = Goal(f)
             \/ pc[f] = "crashed"
    BY <2>2, <2>7 DEF LoggedInv
  <2>9. f # e
    BY <2>2, <2>6, <2>7, <2>8
  <2> QED
    BY <2>2, <2>3, <2>4, <2>5, <2>8, <2>9
<1>5. ASSUME NEW e \in Executors, Crash(e) PROVE LoggedInv'
  <2>1. \A f \in Executors : (pc'[f] = pc[f] \/ pc'[f] = "crashed") /\ held'[f] = held[f]
    BY <1>5 DEF Crash, Goto, IInv, TypeOK
  <2> QED
    BY <1>5, <2>1, LoggedFrame DEF Crash, table
<1>6. ASSUME NEW r \in Requests, Audit(r) PROVE LoggedInv'
  <2>1. pc' = pc /\ held' = held
    BY <1>6 DEF Audit, AuditOpen, AuditAcquire, AuditSettle, AuditStops, procs
  <2>2. \/ row' = row /\ events' = events
        \/ Move(r, "terminal")
        \/ Recover
    BY <1>6 DEF Audit, AuditOpen, AuditAcquire, AuditSettle, AuditStops, table
  <2>3. \A q \in Requests :
          (row'[q] = row[q] /\ events[q] \subseteq events'[q]) \/ row'[q] \in events'[q]
    BY <2>2, MoveType, RowMembers, RecoverLogs DEF IInv
  <2> QED
    BY <2>1, <2>3, LoggedFrame
<1>7. CASE Tick \/ UNCHANGED vars
  BY <1>7, LoggedFrame DEF Tick, vars, table, procs
<1> QED
  BY <1>1, <1>2, <1>3, <1>4, <1>5, <1>6, <1>7 DEF Next, Step

-----------------------------------------------------------------------------
(* The refinement: each step is a step of CharterDispatch or changes       *)
(* nothing of it.                                                          *)

\* The mapping, on one request.
Same(r) == /\ "prepared" \in events'[r] <=> "prepared" \in events[r]
           /\ Verdict(r)' = Verdict(r)

LEMMA Stutter ==
  ASSUME UNCHANGED <<revocations, sends, receipt>>, \A r \in Requests : Same(r)
  PROVE  UNCHANGED Dispatching!vars
BY DEF Dispatching!vars, Same

\* Nothing about a request changes when neither its row nor its events do.
LEMMA SameRow ==
  ASSUME NEW r \in Requests, row'[r] = row[r], events'[r] = events[r]
  PROVE  Same(r)
BY DEF Same, Verdict, EverDispatched

\* A request that was dispatched stays so, whatever is recorded of it later.
LEMMA SameDispatched ==
  ASSUME NEW r \in Requests, EverDispatched(r), NEW s \in {"terminal", "unknown"},
         events'[r] \in {events[r], events[r] \cup {s}}
  PROVE  Same(r)
BY DEF Same, Verdict, EverDispatched

LEMMA InitRefines == Init => Dispatching!Init
BY DEF Init, Dispatching!Init, Verdict, EverDispatched

\* Opening the store withdraws the requests that were reserved and not dispatched.
LEMMA RecoverRefines ==
  ASSUME IInv, MapInv, Recover, UNCHANGED <<revocations, sends, receipt>>
  PROVE  Dispatching!Next
<1> DEFINE S == {r \in Requests : row[r] = "prepared"}
<1>1. \A r \in S : Verdict(r) = "open" /\ "prepared" \in events[r]
  BY DEF IInv, RequestInv, MapInv, Verdict
<1>2. \A r \in S : Verdict(r)' = "withdrawn"
  BY RecoverType DEF IInv, RequestInv, Verdict, EverDispatched, Reopened
<1>3. \A r \in Requests \ S : Verdict(r)' = Verdict(r)
  BY RecoverType DEF IInv, RequestInv, Verdict, EverDispatched, Reopened
<1>4. \A r \in Requests : "prepared" \in events'[r] <=> "prepared" \in events[r]
  BY RecoverType DEF IInv, Reopened
<1> HIDE DEF S
<1>5. S \subseteq Requests
  BY DEF S
<1>6. Dispatching!Withdraw(S)
  BY <1>1, <1>2, <1>3, <1>4, <1>5 DEF Dispatching!Withdraw
<1> QED
  BY <1>5, <1>6 DEF Dispatching!Next

LEMMA OpenRefines ==
  ASSUME IInv, MapInv, NEW e \in Executors, Open(e)
  PROVE  Dispatching!Next
BY RecoverRefines DEF Open, io

LEMMA ReserveRefines ==
  ASSUME IInv, MapInv, NEW e \in Executors, NEW r, r = Target(e), Reserve(e)
  PROVE  Dispatching!Next \/ UNCHANGED Dispatching!vars
<1>1. r \in Requests /\ sends' = sends /\ receipt' = receipt
  BY TargetType DEF IInv, Reserve, At, io, table
<1>2. CASE /\ EnvDecision[held[e]] = "approve" /\ Admissible(r, seen[e])
           /\ Move(r, "prepared") /\ revocations' = revocations
  <2>1. row[r] = "absent" /\ r \notin revocations
    BY <1>2 DEF Admissible
  <2>2. ~ EverDispatched(r) /\ "prepared" \notin events[r]
    BY <1>1, <2>1 DEF IInv, RequestInv, EverDispatched
  <2>3. /\ row'[r] = "prepared" /\ events'[r] = events[r] \cup {"prepared"}
        /\ \A q \in Requests \ {r} : row'[q] = row[q] /\ events'[q] = events[q]
    BY <1>1, <1>2, MoveType, RowMembers DEF IInv
  <2>4. Verdict(r) = "open" /\ Verdict(r)' = "open"
    BY <2>1, <2>2, <2>3 DEF Verdict, EverDispatched
  <2>5. \A q \in Requests : Verdict(q)' = Verdict(q)
    BY <2>3, <2>4 DEF Verdict, EverDispatched
  <2>6. \A q \in Requests : "prepared" \in events'[q] <=> "prepared" \in events[q] \/ q = r
    BY <2>3
  <2>7. Dispatching!Approve(r)
    BY <1>1, <1>2, <2>1, <2>4, <2>5, <2>6 DEF Dispatching!Approve
  <2> QED
    BY <1>1, <2>7 DEF Dispatching!Next
<1>3. CASE revocations' = revocations \cup {r} /\ row' = row /\ events' = events
  <2>1. \A q \in Requests : Verdict(q)' = Verdict(q)
    BY <1>3 DEF Verdict, EverDispatched
  <2>2. Dispatching!Revoke(r)
    BY <1>1, <1>3, <2>1 DEF Dispatching!Revoke
  <2> QED
    BY <1>1, <2>2 DEF Dispatching!Next
<1>4. CASE revocations' = revocations /\ row' = row /\ events' = events
  BY <1>1, <1>4, SameRow, Stutter
<1>5. \/ /\ EnvDecision[held[e]] = "approve" /\ Admissible(r, seen[e])
         /\ Move(r, "prepared") /\ revocations' = revocations
      \/ revocations' = revocations \cup {r} /\ row' = row /\ events' = events
      \/ revocations' = revocations /\ row' = row /\ events' = events
  BY DEF Reserve, table
<1> QED
  BY <1>2, <1>3, <1>4, <1>5

LEMMA DispatchRefines ==
  ASSUME IInv, MapInv, NEW e \in Executors, NEW r, r = Target(e), Dispatch(e)
  PROVE  Dispatching!Next \/ UNCHANGED Dispatching!vars
<1>1. r \in Requests /\ sends' = sends /\ receipt' = receipt /\ revocations' = revocations
  BY TargetType DEF IInv, Dispatch, At, io
<1>2. CASE row' = row /\ events' = events
  BY <1>1, <1>2, SameRow, Stutter
<1>3. CASE <<row[r], DispatchOutcome(r)>> \in Allowed /\ Move(r, DispatchOutcome(r))
  <2>1. row[r] = "prepared"
    <3>1. row[r] \in {"prepared", "terminal"}
      BY OwningPlaces DEF IInv, OwnerInv, Dispatch, At
    <3> QED
      BY <1>3, <3>1 DEF Allowed
  <2>2. "prepared" \in events[r] /\ Verdict(r) = "open" /\ ~ EverDispatched(r)
    BY <1>1, <2>1 DEF IInv, RequestInv, MapInv, Verdict
  <2>3. DispatchOutcome(r) \in RowStates
    BY RowMembers DEF DispatchOutcome
  <2>4. /\ row'[r] = DispatchOutcome(r) /\ events'[r] = events[r] \cup {DispatchOutcome(r)}
        /\ \A q \in Requests \ {r} : row'[q] = row[q] /\ events'[q] = events[q]
    BY <1>1, <1>3, <2>3, MoveType DEF IInv
  <2>5. \A q \in Requests \ {r} : Verdict(q)' = Verdict(q)
    BY <2>4 DEF Verdict, EverDispatched
  <2>6. \A q \in Requests : "prepared" \in events'[q] <=> "prepared" \in events[q]
    BY <2>2, <2>4 DEF DispatchOutcome
  <2>7. CASE r \in revocations
    <3>1. Verdict(r)' = "withdrawn"
      BY <2>2, <2>4, <2>7 DEF Verdict, EverDispatched, DispatchOutcome
    <3>2. Dispatching!Withdraw({r})
      BY <1>1, <2>2, <2>5, <2>6, <3>1 DEF Dispatching!Withdraw
    <3>3. {r} \in SUBSET Requests
      BY <1>1
    <3> QED
      BY <3>2, <3>3 DEF Dispatching!Next
  <2>8. CASE r \notin revocations
    <3>1. Verdict(r)' = "dispatch"
      BY <2>4, <2>8 DEF Verdict, EverDispatched, DispatchOutcome
    <3>2. Dispatching!Decide(r)
      BY <1>1, <2>2, <2>5, <2>6, <2>8, <3>1 DEF Dispatching!Decide
    <3> QED
      BY <1>1, <3>2 DEF Dispatching!Next
  <2> QED
    BY <2>7, <2>8
<1> QED
  BY <1>2, <1>3 DEF Dispatch

LEMMA SendRefines ==
  ASSUME IInv, NEW e \in Executors, NEW r, r = Target(e), Send(e)
  PROVE  Dispatching!Next
<1>1. /\ r \in Requests /\ pc[e] = "minted" /\ sends' = [sends EXCEPT ![r] = @ + 1]
      /\ row' = row /\ events' = events /\ receipt' = receipt /\ revocations' = revocations
  BY TargetType DEF IInv, Send, At, table
<1>2. EverDispatched(r) /\ sends[r] = 0
  BY <1>1 DEF IInv, OwnerInv, Owning, PreTarget
<1>3. sends' = [sends EXCEPT ![r] = 1] /\ Verdict(r) = "dispatch"
  BY <1>1, <1>2 DEF Verdict
<1>4. \A q \in Requests : Verdict(q)' = Verdict(q)
  BY <1>1 DEF Verdict, EverDispatched
<1>5. Dispatching!SendOnce(r)
  BY <1>1, <1>2, <1>3, <1>4 DEF Dispatching!SendOnce
<1> QED
  BY <1>1, <1>5 DEF Dispatching!Next

\* Settling a request that was dispatched and sent: by its answer or from the log.
LEMMA SettledRefines ==
  ASSUME IInv, NEW r \in Requests, NEW who \in {"response", "audit"},
         EverDispatched(r), Move(r, "terminal"), receipt' = [receipt EXCEPT ![r] = who],
         sends[r] = 1, receipt[r] \in {"none", who}, UNCHANGED <<revocations, sends>>
  PROVE  Dispatching!Next \/ UNCHANGED Dispatching!vars
<1>1. /\ events'[r] = events[r] \cup {"terminal"}
      /\ \A q \in Requests \ {r} : row'[q] = row[q] /\ events'[q] = events[q]
  BY MoveType, RowMembers DEF IInv
<1>2. \A q \in Requests : Same(q)
  BY <1>1, SameRow, SameDispatched
<1>3. CASE receipt[r] = who
  <2>1. receipt' = receipt
    BY <1>3 DEF IInv, TypeOK
  <2> QED
    BY <1>2, <2>1, Stutter
<1>4. CASE receipt[r] = "none"
  <2>1. Dispatching!SettleBy(r, who)
    BY <1>2, <1>4 DEF Dispatching!SettleBy, Same
  <2> QED
    BY <2>1 DEF Dispatching!Next
<1> QED
  BY <1>3, <1>4

LEMMA SettleRefines ==
  ASSUME IInv, MapInv, NEW e \in Executors, NEW r, r = Target(e), Settle(e)
  PROVE  Dispatching!Next \/ UNCHANGED Dispatching!vars
<1>1. r \in Requests /\ sends' = sends /\ revocations' = revocations /\ pc[e] = "answered"
  BY TargetType DEF IInv, Settle, At, io
<1>2. CASE row[r] = "dispatched"
  <2>1. EverDispatched(r) /\ sends[r] = 1 /\ receipt[r] = "none"
    BY <1>1, <1>2 DEF IInv, RequestInv, OwnerInv, PostTarget, MapInv
  <2>2. Move(r, "terminal") /\ receipt' = [receipt EXCEPT ![r] = "response"]
    BY <1>2 DEF Settle
  <2> QED
    BY <1>1, <2>1, <2>2, SettledRefines
<1>3. CASE row[r] # "dispatched"
  <2>1. row' = row /\ events' = events /\ receipt' = receipt
    BY <1>3 DEF Settle
  <2> QED
    BY <1>1, <2>1, SameRow, Stutter
<1> QED
  BY <1>2, <1>3

\* The statements outside a transaction are about a request that was dispatched.
LEMMA CloseRefines ==
  ASSUME IInv, NEW e \in Executors, NEW r, r = Target(e), CloseUpdate(e) \/ CloseInsert(e)
  PROVE  UNCHANGED Dispatching!vars
<1>1. /\ r \in Requests
      /\ pc[e] \in {"closing terminal", "closing unknown", "logging terminal", "logging unknown"}
      /\ sends' = sends /\ receipt' = receipt /\ revocations' = revocations
  BY TargetType DEF IInv, CloseUpdate, CloseInsert, io
<1>2. EverDispatched(r)
  BY <1>1 DEF IInv, OwnerInv, Owning, PreTarget, Failing
<1>3. /\ events'[r] \in {events[r], events[r] \cup {Goal(e)}} /\ Goal(e) \in {"terminal", "unknown"}
      /\ \A q \in Requests \ {r} : row'[q] = row[q] /\ events'[q] = events[q]
  BY <1>1 DEF IInv, TypeOK, CloseUpdate, CloseInsert, Goal
<1>4. \A q \in Requests : Same(q)
  BY <1>1, <1>2, <1>3, SameRow, SameDispatched
<1> QED
  BY <1>1, <1>4, Stutter

LEMMA AuditRefines ==
  ASSUME IInv, MapInv, NEW r \in Requests, Audit(r)
  PROVE  Dispatching!Next \/ UNCHANGED Dispatching!vars
<1>1. CASE AuditOpen(r)
  BY <1>1, RecoverRefines DEF AuditOpen, io
<1>2. CASE AuditAcquire(r) \/ AuditStops(r)
  BY <1>2, SameRow, Stutter DEF AuditAcquire, AuditStops, table, io
<1>3. CASE AuditSettle(r)
  <2>1. /\ Move(r, "terminal") /\ receipt' = [receipt EXCEPT ![r] = "audit"]
        /\ UNCHANGED <<revocations, sends>>
    BY <1>3 DEF AuditSettle, io
  <2>2. EverDispatched(r) /\ receipt[r] \in {"none", "audit"}
    BY <1>3 DEF AuditSettle, IInv, RequestInv, TypeOK
  <2>3. Proven(r)
    BY <1>3 DEF AuditSettle, IInv, LogInv
  <2>4. sends[r] = 1
    BY <2>3 DEF Proven, IInv, LogInv
  <2> QED
    BY <2>1, <2>2, <2>4, SettledRefines
<1> QED
  BY <1>1, <1>2, <1>3 DEF Audit

LEMMA NextRefines ==
  ASSUME IInv, MapInv, [Next]_vars
  PROVE  Dispatching!Next \/ UNCHANGED Dispatching!vars
<1>1. ASSUME NEW e \in Executors, Step(e)
      PROVE  Dispatching!Next \/ UNCHANGED Dispatching!vars
  <2>1. CASE Verify(e) \/ Mint(e) \/ SendFails(e) \/ Answer(e) \/ CloseSelect(e)
    BY <2>1, SameRow, Stutter DEF Verify, Mint, SendFails, Answer, CloseSelect, table, io
  <2> QED
    BY <1>1, <2>1, ReserveRefines, DispatchRefines, SendRefines, SettleRefines, CloseRefines
    DEF Step
<1>2. ASSUME NEW e \in Executors, Crash(e) PROVE UNCHANGED Dispatching!vars
  BY <1>2, SameRow, Stutter DEF Crash, table, io
<1>3. CASE Tick \/ UNCHANGED vars
  BY <1>3, SameRow, Stutter DEF Tick, vars, table, io
<1> QED
  BY <1>1, <1>2, <1>3, OpenRefines, AuditRefines DEF Next

-----------------------------------------------------------------------------
\* The store implements CharterDispatch for any requests, envelopes and executors: whatever
\* processes, crashes and reopenings there are behind it, one decision, one send, one
\* settlement (agent/charter_requests.py, agent/charter_audit_recovery.py).
THEOREM Refinement == Spec => ImplementsDispatch
<1>1. Init => Dispatching!Init /\ MapInv
  BY InitRefines, InitMaps
<1>2. IInv /\ MapInv /\ [Next]_vars => MapInv'
  BY MapStep
<1>3. IInv /\ MapInv /\ [Next]_vars => [Dispatching!Next]_(Dispatching!vars)
  BY NextRefines
<1> QED
  BY <1>1, <1>2, <1>3, Invariance, PTL DEF Spec, ImplementsDispatch, Dispatching!Spec

\* A row's state is in the events too, or its executor is at its last statement or was
\* killed (_transition outside a transaction).
THEOREM Logged == Spec => []RowIsLogged
<1>1. IInv /\ LoggedInv => RowIsLogged
  <2> SUFFICES ASSUME IInv, LoggedInv, NEW r \in Requests, row[r] \notin events[r] \cup {"absent"}
               PROVE  \E e \in Executors :
                        /\ held[e] # NoEnvelope /\ Target(e) = r
                        /\ pc[e] \in {"logging terminal", "logging unknown", "crashed"}
    BY DEF RowIsLogged
  <2> QED
    BY DEF LoggedInv, IInv, TypeOK
<1>2. Init => LoggedInv
  BY InitMaps
<1>3. IInv /\ LoggedInv /\ [Next]_vars => LoggedInv'
  BY LoggedStep
<1> QED
  BY <1>1, <1>2, <1>3, Invariance, PTL DEF Spec
=============================================================================
