------------------------------ MODULE B3Attempts ------------------------------
(***************************************************************************)
(* The provider attempts of one B3 run (workbench/b3_attempt_store.py) and *)
(* the dispatchers that make them (workbench/b3_dispatcher.py).  Every     *)
(* dispatcher is a process with the attempt database open; a row is        *)
(* reserved, dispatched and settled in transactions of its own, with the   *)
(* provider called between two of them.  Opening the database migrates an  *)
(* old table and gives up the attempts that are in flight, whoever's they  *)
(* are.  A dispatcher may be killed anywhere.                              *)
(***************************************************************************)
EXTENDS Naturals, FiniteSets

CONSTANTS
  Dispatchers,   \* the processes
  Units,         \* the units of the frozen selection
  Readings,      \* the readings of a run
  Legacy,        \* "legacy-unspecified", the unit a migrated row is given
  LegacyRows,    \* the rows of the table before its migration
  HasUnits       \* whether the table has its unit_id column from the start

VARIABLES
  rows,          \* the attempt table
  hasUnits,      \* whether it has the column unit_id
  revoked,       \* whether the route's profile is in revoked_profile
  pc,            \* where each dispatcher is
  attempt,       \* the key and the attempt_id each dispatcher works on
  calls,         \* ghost: the provider's calls, by key (2 stands for more)
  answers,       \* ghost: the admitted answers behind the receipts, by key
  remigrated     \* ghost: was a table migrated that had the column already

table == <<rows, hasUnits, revoked>>
vars  == <<table, pc, attempt, calls, answers, remigrated>>

Keys     == Readings \X Units
Statuses == {"reserved", "dispatched", "succeeded", "failed", "unknown"}
Settled  == {"succeeded", "failed", "unknown"}
Row      == [id: Nat, reading: Readings, unit: Units \cup {Legacy}, status: Statuses]

\* The table before the migration holds one row per reading at most.
ASSUME AttemptAssumption ==
  /\ IsFiniteSet(Units) /\ IsFiniteSet(Readings) /\ IsFiniteSet(Dispatchers)
  /\ Legacy \notin Units
  /\ LegacyRows \in SUBSET [id: Nat, reading: Readings, unit: {Legacy}, status: Statuses]
  /\ IsFiniteSet(LegacyRows)
  /\ \A r \in LegacyRows, s \in LegacyRows : r.id = s.id \/ r.reading = s.reading => r = s
  /\ HasUnits \in BOOLEAN
  /\ \A r \in LegacyRows : r.id < Cardinality(LegacyRows)

NoAttempt == [reading |-> 0, unit |-> Legacy, id |-> 0]

Places ==
  {"closed", "migrating", "recovering", "ready", "reserved", "prepared", "calling",
   "answered", "failing", "done"}

TypeOK ==
  /\ rows \subseteq Row
  /\ \A r \in rows, s \in rows :
       r.id = s.id \/ <<r.reading, r.unit>> = <<s.reading, s.unit>> => r = s
  /\ hasUnits \in BOOLEAN /\ revoked \in BOOLEAN /\ remigrated \in BOOLEAN
  /\ pc \in [Dispatchers -> Places]
  /\ \A d \in Dispatchers :
       IF pc[d] \in {"closed", "migrating", "recovering", "ready"}
       THEN attempt[d] = NoAttempt
       ELSE \E r \in rows : r.id = attempt[d].id /\ r.reading = attempt[d].reading
  /\ calls \in [Keys -> 0..2]

Init ==
  /\ rows = LegacyRows
  /\ hasUnits = HasUnits
  /\ revoked = FALSE
  /\ pc = [d \in Dispatchers |-> "closed"]
  /\ attempt = [d \in Dispatchers |-> NoAttempt]
  /\ calls = [k \in Keys |-> 0]
  /\ answers = {}
  /\ remigrated = FALSE

-----------------------------------------------------------------------------
(* The store.  Every operation is one transaction on the table.            *)

At(d, place)   == pc[d] = place
Goto(d, place) == pc' = [pc EXCEPT ![d] = place]
ghosts         == <<calls, answers, remigrated>>

RowOf(id) == CHOOSE r \in rows : r.id = id
WithStatus(r, s) == [r EXCEPT !.status = s]
Update(id, s) == rows' = {IF r.id = id THEN WithStatus(r, s) ELSE r : r \in rows}

\* The look at the columns is outside the transaction that migrates.
Open(d) ==
  /\ At(d, "closed")
  /\ Goto(d, IF hasUnits THEN "recovering" ELSE "migrating")
  /\ UNCHANGED <<table, attempt, ghosts>>

\* Every row gets the same unit; two rows of one reading break UNIQUE, and the
\* migration is rolled back.
Migrate(d) ==
  /\ At(d, "migrating")
  /\ IF \E r \in rows, s \in rows : r # s /\ r.reading = s.reading
     THEN Goto(d, "closed") /\ UNCHANGED <<rows, hasUnits, remigrated>>
     ELSE /\ rows' = {[r EXCEPT !.unit = Legacy] : r \in rows}
          /\ hasUnits' = TRUE
          /\ remigrated' = (remigrated \/ hasUnits)
          /\ Goto(d, "recovering")
  /\ UNCHANGED <<revoked, attempt, calls, answers>>

\* _recover_stranded_dispatches: no row stays in flight.
Stranded(r) == IF r.status = "dispatched" THEN WithStatus(r, "unknown") ELSE r

Recover(d) ==
  /\ At(d, "recovering")
  /\ rows' = {Stranded(r) : r \in rows}
  /\ Goto(d, "ready")
  /\ UNCHANGED <<hasUnits, revoked, attempt, ghosts>>

Revoke ==
  /\ revoked' = TRUE
  /\ UNCHANGED <<rows, hasUnits, pc, attempt, ghosts>>

\* Seeded fault: only an attempt that succeeded or is under way keeps its key.
TakenUnlessLost(k) ==
  \E r \in rows : <<r.reading, r.unit>> = k /\ r.status \in {"reserved", "dispatched", "succeeded"}
\* The key has a row, in whatever state.
Taken(k) == \E r \in rows : <<r.reading, r.unit>> = k

NextId == Cardinality(rows)

-----------------------------------------------------------------------------
(* B3Dispatcher.dispatch.                                                  *)

\* After the health check; a key that has a row is refused.
Reserve(d, k) ==
  /\ At(d, "ready")
  /\ ~ Taken(k)
  /\ rows' = rows \cup {[id |-> NextId, reading |-> k[1], unit |-> k[2], status |-> "reserved"]}
  /\ attempt' = [attempt EXCEPT ![d] = [reading |-> k[1], unit |-> k[2], id |-> NextId]]
  /\ Goto(d, "reserved")
  /\ UNCHANGED <<hasUnits, revoked, ghosts>>

\* dispatch raises: the attempt is over for its dispatcher.
GiveUp(d) ==
  /\ Goto(d, "ready")
  /\ attempt' = [attempt EXCEPT ![d] = NoAttempt]

\* prepare_b3_request: admitted, or the attempt is rejected.
Prepare(d) ==
  /\ At(d, "reserved")
  /\ \/ Goto(d, "prepared") /\ UNCHANGED <<rows, attempt>>
     \/ Update(attempt[d].id, "failed") /\ GiveUp(d)
  /\ UNCHANGED <<hasUnits, revoked, ghosts>>

\* mark_dispatched, and mark_rejected when the profile is revoked.
MarkDispatched(d) ==
  /\ At(d, "prepared")
  /\ IF revoked
     THEN Update(attempt[d].id, "failed") /\ GiveUp(d)
     ELSE Update(attempt[d].id, "dispatched") /\ Goto(d, "calling") /\ UNCHANGED attempt
  /\ UNCHANGED <<hasUnits, revoked, ghosts>>

\* transport.complete and quarantine_response: an answer from the units, or none.
Call(d) ==
  /\ At(d, "calling")
  /\ calls' = [calls EXCEPT ![<<attempt[d].reading, attempt[d].unit>>] = IF @ < 2 THEN @ + 1 ELSE 2]
  /\ \/ Goto(d, "answered")
     \/ Goto(d, "failing")
  /\ UNCHANGED <<table, attempt, answers, remigrated>>

\* Seeded fault: the receipt is handed over although the row was given up meanwhile.
SettlesAnyway(d) == TRUE
Settles(d) == RowOf(attempt[d].id).status = "dispatched"

\* mark_terminal, with the answer the receipt carries.
MarkSucceeded(d, answer) ==
  /\ At(d, "answered")
  /\ IF Settles(d)
     THEN /\ Update(attempt[d].id, "succeeded")
          /\ answers' = answers \cup {[key |-> <<attempt[d].reading, attempt[d].unit>>,
                                       units |-> answer]}
          /\ Goto(d, "done")
     ELSE Goto(d, "failing") /\ UNCHANGED <<rows, answers>>
  /\ UNCHANGED <<hasUnits, revoked, attempt, calls, remigrated>>

\* mark_unknown, for nothing if another opener was there first.
MarkUnknown(d) ==
  /\ At(d, "failing")
  /\ IF RowOf(attempt[d].id).status = "dispatched"
     THEN Update(attempt[d].id, "unknown")
     ELSE UNCHANGED rows
  /\ GiveUp(d)
  /\ UNCHANGED <<hasUnits, revoked, ghosts>>

Kill(d) ==
  /\ ~ At(d, "closed")
  /\ Goto(d, "closed")
  /\ attempt' = [attempt EXCEPT ![d] = NoAttempt]
  /\ UNCHANGED <<table, ghosts>>

-----------------------------------------------------------------------------
(* Properties.                                                             *)

\* The provider sees each unit of a reading once, whatever fails, is killed, reopened
\* or tried again (reserve's UNIQUE key, _recover_stranded_dispatches), as long as no
\* opener migrates a table that another one has migrated already.
OneCallPerUnit == ~ remigrated => \A k \in Keys : calls[k] <= 1

\* An outcome is final: a late answer never turns an attempt that a restart gave up
\* into a success, and no restart reopens a settled one (_transition, reserve).
SettledStays ==
  [][\A r \in rows : r.status \in Settled =>
       \E s \in rows' : s.id = r.id /\ s.status = r.status]_vars

\* The finding's property: every unit of a reading reaches the provider once at most.
OneCallEver == \A k \in Keys : calls[k] <= 1
==============================================================================
