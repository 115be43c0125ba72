--------------------------- MODULE WorkbenchProofs ---------------------------
(* Theorems about the workbench: the provider attempts and the consensus of *)
(* a B3 run, for any number of dispatchers, units and readings and any      *)
(* table before the migration; the cache, the inventories and the ledgers   *)
(* of the corpus, for any entries and hosts; the import of the submitted    *)
(* scans and the report on them, for any scans and any number of importers  *)
(* and analysts.                                                            *)
EXTENDS B3Arm, Corpus, Week1, SequenceTheorems, FiniteSetTheorems, TLAPS

(***************************************************************************)
(* The inductive invariant.  The rows have unique keys and ids, and the    *)
(* next id is a new one.  A process that works on an attempt has a row of  *)
(* its own; until it calls, its key has not been called.                   *)
(***************************************************************************)
Active  == {"reserved", "prepared", "calling", "answered", "failing", "done"}
PreCall == {"reserved", "prepared", "calling"}

Attempt == [reading: Nat, unit: Units \cup {Legacy}, id: Nat]
KeyOf(d) == <<attempt[d].reading, attempt[d].unit>>

Typed ==
  /\ hasUnits \in BOOLEAN /\ remigrated \in BOOLEAN
  /\ pc \in [Dispatchers -> Places]
  /\ attempt \in [Dispatchers -> Attempt]
  /\ calls \in [Keys -> 0..2]

RowsInv ==
  /\ rows \subseteq Row /\ IsFiniteSet(rows)
  /\ \A r \in rows, s \in rows : r.id = s.id => r = s
  /\ \A r \in rows : r.id < Cardinality(rows)

KeysInv == \A r \in rows, s \in rows : r.reading = s.reading /\ r.unit = s.unit => r = s

\* The row a process works on.
OwnRow(d, r) ==
  /\ r.id = attempt[d].id
  /\ ~ remigrated => r.reading = attempt[d].reading /\ r.unit = attempt[d].unit
  /\ pc[d] \in {"reserved", "prepared"} => r.status = "reserved"

WorkInv(d) ==
  /\ pc[d] \in {"recovering", "ready"} \cup Active => hasUnits
  /\ pc[d] \in Active => KeyOf(d) \in Keys /\ \E r \in rows : OwnRow(d, r)
  /\ pc[d] \in PreCall /\ ~ remigrated => calls[KeyOf(d)] = 0

Alone ==
  \A d, e \in Dispatchers :
    pc[d] \in Active /\ pc[e] \in Active /\ attempt[d].id = attempt[e].id => d = e

CallsInv ==
  ~ remigrated => \A k \in Keys :
    /\ calls[k] <= 1
    /\ calls[k] > 0 => hasUnits /\ Taken(k)

IInv ==
  /\ Typed /\ RowsInv /\ KeysInv
  /\ \A d \in Dispatchers : WorkInv(d)
  /\ Alone /\ CallsInv

-----------------------------------------------------------------------------
(* The table.                                                              *)

\* A rewriting of rows that keeps their ids keeps their number.
LEMMA SameNumber ==
  ASSUME NEW S, IsFiniteSet(S), NEW f, DOMAIN f = S,
         \A r, s \in S : r # s => f[r] # f[s]
  PROVE  /\ IsFiniteSet({f[r] : r \in S})
         /\ Cardinality({f[r] : r \in S}) = Cardinality(S)
<1> DEFINE T == {f[r] : r \in S}
           g == [r \in S |-> f[r]]
<1>1. g \in [S -> T]
  OBVIOUS
<1>2. g \in Surjection(S, T)
  BY <1>1 DEF Surjection
<1>3. g \in Injection(S, T)
  BY <1>1 DEF Injection, IsInjective
<1> QED
  BY <1>2, <1>3, FS_Surjection

LEMMA Monotone ==
  ASSUME NEW a \in Nat, NEW b \in Nat, NEW c \in Nat, a >= b
  PROVE  c * a >= c * b
<1>1. c * a = c * b + c * (a - b)
  OBVIOUS
<1>2. c * (a - b) >= 0
  OBVIOUS
<1> QED
  BY <1>1, <1>2

\* The keys of the worklist are keys.
LEMMA WorklistKeys ==
  ASSUME NEW n \in 1..Calls
  PROVE  KeyAt(n) \in Keys
<1> DEFINE R == Cardinality(Readings)
           U == Cardinality(Units)
           q == (n - 1) \div U
<1>1. R \in Nat /\ U \in Nat
  BY AttemptAssumption, FS_CardinalityType
<1>2. n \in 1..(R * U)
  BY DEF Calls
<1>3. U > 0
  BY <1>1, <1>2
<1>4. (n - 1) % U \in 0..(U - 1) /\ q \in Nat /\ n - 1 = U * q + ((n - 1) % U)
  BY <1>1, <1>2, <1>3
<1>5. q < R
  <2>1. ASSUME q >= R PROVE FALSE
    <3>1. U * q >= U * R
      BY <1>1, <1>4, <2>1, Monotone
    <3> QED
      BY <1>1, <1>2, <1>4, <3>1
  <2> QED
    BY <1>1, <1>4, <2>1
<1>6. q + 1 \in 1..R /\ ((n - 1) % U) + 1 \in 1..U
  BY <1>1, <1>3, <1>4, <1>5
<1>7. q + 1 \in Readings /\ ((n - 1) % U) + 1 \in Units
  BY <1>6, ArmAssumption
<1> QED
  BY <1>7 DEF KeyAt, Keys

\* Rows rewritten one by one, with their ids.
LEMMA Rewritten ==
  ASSUME RowsInv, NEW f, DOMAIN f = rows, rows' = {f[r] : r \in rows},
         \A r \in rows : f[r] \in Row /\ f[r].id = r.id
  PROVE  RowsInv'
<1>1. \A r, s \in rows : r # s => f[r] # f[s]
  BY DEF RowsInv
<1>2. IsFiniteSet(rows') /\ Cardinality(rows') = Cardinality(rows)
  BY <1>1, SameNumber DEF RowsInv
<1> QED
  BY <1>2 DEF RowsInv

\* A change of status, of one row or of several, keeps keys and ids.
LEMMA StatusOnly ==
  ASSUME RowsInv, KeysInv, NEW f, DOMAIN f = rows, rows' = {f[r] : r \in rows},
         \A r \in rows : \E t \in Statuses : f[r] = WithStatus(r, t)
  PROVE  /\ RowsInv' /\ KeysInv'
         /\ \A k : Taken(k) => Taken(k)'
<1>1. \A r \in rows : /\ f[r] \in Row /\ f[r].id = r.id
                      /\ f[r].reading = r.reading /\ f[r].unit = r.unit
  BY DEF RowsInv, Row, WithStatus
<1>2. RowsInv'
  BY <1>1, Rewritten
<1> QED
  BY <1>1, <1>2 DEF KeysInv, Taken

LEMMA UpdateOne ==
  ASSUME RowsInv, KeysInv, NEW id, NEW t \in Statuses, Update(id, t)
  PROVE  /\ RowsInv' /\ KeysInv'
         /\ \A k : Taken(k) => Taken(k)'
         /\ \A r \in rows : r.id # id => r \in rows'
         /\ \A r \in rows : r.id = id => WithStatus(r, t) \in rows'
<1> DEFINE f == [r \in rows |-> IF r.id = id THEN WithStatus(r, t) ELSE r]
<1>1. \A r \in rows : r.status \in Statuses /\ r = WithStatus(r, r.status)
  BY DEF RowsInv, Row, WithStatus
<1>2. rows' = {f[r] : r \in rows} /\ DOMAIN f = rows
  BY DEF Update
<1>3. \A r \in rows : \E u \in Statuses : f[r] = WithStatus(r, u)
  BY <1>1
<1>4. RowsInv' /\ KeysInv' /\ \A k : Taken(k) => Taken(k)'
  <2> HIDE DEF f
  <2> QED
    BY <1>2, <1>3, StatusOnly
<1> QED
  BY <1>2, <1>4

-----------------------------------------------------------------------------
(* The processes.                                                          *)

\* A step of d does not disturb the work of another process.
LEMMA Others ==
  ASSUME IInv, NEW d \in Dispatchers, NEW e \in Dispatchers, e # d,
         pc'[e] = pc[e], attempt'[e] = attempt[e],
         remigrated' = remigrated, hasUnits' = hasUnits,
         \A r \in rows : r \in rows' \/ (pc[d] \in Active /\ r.id = attempt[d].id),
         \A k \in Keys : calls'[k] = calls[k] \/ (pc[d] \in PreCall /\ k = KeyOf(d))
  PROVE  WorkInv(e)'
<1>1. CASE pc[e] \notin Active
  BY <1>1 DEF IInv, WorkInv, Active, PreCall
<1>2. CASE pc[e] \in Active
  <2>1. KeyOf(e) \in Keys /\ KeyOf(e)' = KeyOf(e)
    BY <1>2 DEF IInv, WorkInv, KeyOf
  <2>2. PICK r \in rows : OwnRow(e, r)
    BY <1>2 DEF IInv, WorkInv
  <2>3. pc[d] \in Active => attempt[d].id # r.id
    BY <1>2, <2>2 DEF IInv, Alone, OwnRow
  <2>4. r \in rows' /\ OwnRow(e, r)'
    BY <2>2, <2>3 DEF OwnRow
  <2>5. ASSUME ~ remigrated, pc[e] \in PreCall PROVE calls'[KeyOf(e)] = 0
    <3>1. pc[d] \in PreCall => KeyOf(d) # KeyOf(e)
      <4>1. pc[d] \in PreCall => \E s \in rows : OwnRow(d, s)
        BY DEF IInv, WorkInv, PreCall, Active
      <4> QED
        BY <4>1, <2>2, <2>3, <2>5 DEF OwnRow, KeyOf, PreCall, Active, IInv, KeysInv
    <3> QED
      BY <2>1, <2>5, <3>1 DEF IInv, WorkInv
  <2> QED
    BY <1>2, <2>1, <2>4, <2>5 DEF IInv, WorkInv
<1> QED
  BY <1>1, <1>2

\* A step of d within its attempt, or out of it.
LEMMA OneStep ==
  ASSUME IInv, NEW d \in Dispatchers, Typed', RowsInv', KeysInv', CallsInv',
         \A e \in Dispatchers \ {d} : pc'[e] = pc[e] /\ attempt'[e] = attempt[e],
         remigrated' = remigrated, hasUnits' = hasUnits,
         \A r \in rows : r \in rows' \/ (pc[d] \in Active /\ r.id = attempt[d].id),
         \A k \in Keys : calls'[k] = calls[k] \/ (pc[d] \in PreCall /\ k = KeyOf(d)),
         pc'[d] \in Active => pc[d] \in Active /\ attempt'[d] = attempt[d],
         WorkInv(d)'
  PROVE  IInv'
<1>1. \A e \in Dispatchers : WorkInv(e)'
  BY Others
<1>2. Alone'
  BY DEF IInv, Alone
<1> QED
  BY <1>1, <1>2 DEF IInv

-----------------------------------------------------------------------------
(* The invariant, one action after the other.                              *)

LEMMA OpenInv ==
  ASSUME IInv, NEW d \in Dispatchers, Open(d)
  PROVE  IInv'
<1>1. Typed' /\ RowsInv' /\ KeysInv' /\ CallsInv'
  BY DEF IInv, Open, Goto, At, table, ghosts, Typed, Places, RowsInv, KeysInv, CallsInv, Taken
<1>2. pc'[d] \in {"recovering", "migrating"} /\ (pc'[d] = "recovering" => hasUnits')
  BY DEF IInv, Typed, Open, Goto, table
<1>3. WorkInv(d)'
  BY <1>2 DEF WorkInv, Active, PreCall
<1> QED
  BY <1>1, <1>2, <1>3, OneStep DEF IInv, Typed, Open, Goto, table, ghosts, Active

LEMMA MigrateInv ==
  ASSUME IInv, NEW d \in Dispatchers, Migrate(d)
  PROVE  IInv'
<1>1. pc' \in [Dispatchers -> Places] /\ pc'[d] \in {"closed", "recovering"}
      /\ (\A e \in Dispatchers \ {d} : pc'[e] = pc[e])
  BY DEF IInv, Typed, Migrate, Goto, Places
<1>2. CASE \E r \in rows, s \in rows : r # s /\ r.reading = s.reading
  <2>1. Typed' /\ RowsInv' /\ KeysInv' /\ CallsInv'
    BY <1>1, <1>2 DEF IInv, Migrate, Typed, RowsInv, KeysInv, CallsInv, Taken
  <2>2. pc'[d] = "closed"
    BY <1>2 DEF IInv, Typed, Migrate, Goto
  <2>3. WorkInv(d)'
    BY <2>2 DEF WorkInv, Active, PreCall
  <2> QED
    BY <1>1, <1>2, <2>1, <2>2, <2>3, OneStep DEF Migrate, Active
<1>3. CASE ~ \E r \in rows, s \in rows : r # s /\ r.reading = s.reading
  <2> DEFINE f == [r \in rows |-> [r EXCEPT !.unit = Legacy]]
  <2>1. /\ rows' = {f[r] : r \in rows} /\ DOMAIN f = rows /\ hasUnits' = TRUE
        /\ remigrated' = (remigrated \/ hasUnits) /\ attempt' = attempt /\ calls' = calls
    BY <1>3 DEF Migrate
  <2>2. \A r \in rows : /\ f[r] \in Row /\ f[r].id = r.id /\ f[r].status = r.status
                        /\ f[r].reading = r.reading
    BY DEF IInv, RowsInv, Row
  <2> HIDE DEF f
  <2>3. RowsInv'
    BY <2>1, <2>2, Rewritten DEF IInv
  <2>4. KeysInv'
    BY <1>3, <2>1, <2>2 DEF KeysInv
  <2>5. Typed'
    BY <1>1, <2>1 DEF IInv, Typed
  <2>6. CallsInv'
    BY <2>1 DEF IInv, Typed, CallsInv, Keys
  <2>7. ASSUME NEW e \in Dispatchers PROVE WorkInv(e)'
    <3>1. CASE pc'[e] \notin Active
      BY <2>1, <3>1 DEF WorkInv, PreCall, Active
    <3>2. CASE pc'[e] \in Active
      <4>1. e # d /\ pc'[e] = pc[e]
        BY <1>1, <3>2 DEF Active
      <4>2. KeyOf(e) \in Keys /\ hasUnits /\ \E r \in rows : OwnRow(e, r)
        BY <3>2, <4>1 DEF IInv, WorkInv
      <4>3. PICK r \in rows : OwnRow(e, r)
        BY <4>2
      <4>4. remigrated'
        BY <2>1, <4>2
      <4>5. PICK t \in rows' : t = f[r]
        BY <2>1
      <4>6. OwnRow(e, t)'
        BY <2>1, <2>2, <4>1, <4>3, <4>4, <4>5 DEF OwnRow, Active
      <4> QED
        BY <2>1, <4>1, <4>2, <4>4, <4>6 DEF WorkInv, KeyOf
    <3> QED
      BY <3>1, <3>2
  <2>8. Alone'
    BY <1>1, <2>1 DEF IInv, Alone, Active
  <2> QED
    BY <2>3, <2>4, <2>5, <2>6, <2>7, <2>8 DEF IInv
<1> QED
  BY <1>2, <1>3

LEMMA RecoverInv ==
  ASSUME IInv, NEW d \in Dispatchers, Recover(d)
  PROVE  IInv'
<1> DEFINE f == [r \in rows |-> Stranded(r)]
<1>1. rows' = {f[r] : r \in rows} /\ DOMAIN f = rows
  BY DEF Recover
<1>2. \A r \in rows : r.status \in Statuses /\ r = WithStatus(r, r.status)
  BY DEF IInv, RowsInv, Row, WithStatus
<1>3. \A r \in rows : \E t \in Statuses : f[r] = WithStatus(r, t)
  BY <1>2 DEF Stranded, Statuses
<1>4. \A r \in rows : /\ f[r].id = r.id /\ f[r].reading = r.reading /\ f[r].unit = r.unit
                      /\ r.status = "reserved" => f[r].status = "reserved"
  BY DEF IInv, RowsInv, Row, Stranded, WithStatus
<1> HIDE DEF f
<1>5. RowsInv' /\ KeysInv' /\ \A k : Taken(k) => Taken(k)'
  BY <1>1, <1>3, StatusOnly DEF IInv
<1>6. /\ pc' \in [Dispatchers -> Places] /\ pc'[d] = "ready" /\ pc[d] = "recovering"
      /\ \A e \in Dispatchers \ {d} : pc'[e] = pc[e]
      /\ UNCHANGED <<hasUnits, attempt, calls, remigrated>>
  BY DEF IInv, Typed, Recover, At, Goto, Places, ghosts
<1>7. Typed' /\ CallsInv'
  BY <1>5, <1>6 DEF IInv, Typed, CallsInv
<1>8. ASSUME NEW e \in Dispatchers PROVE WorkInv(e)'
  <2>1. CASE pc'[e] \notin Active
    BY <1>6, <2>1 DEF IInv, WorkInv, PreCall, Active
  <2>2. CASE pc'[e] \in Active
    <3>1. pc'[e] = pc[e]
      BY <1>6, <2>2 DEF Active
    <3>2. PICK r \in rows : OwnRow(e, r)
      BY <2>2, <3>1 DEF IInv, WorkInv
    <3>3. PICK t \in rows' : t = f[r]
      BY <1>1
    <3>4. OwnRow(e, t)'
      BY <1>4, <1>6, <3>1, <3>2, <3>3 DEF OwnRow
    <3> QED
      BY <1>6, <2>2, <3>1, <3>4 DEF IInv, WorkInv, KeyOf
  <2> QED
    BY <2>1, <2>2
<1>9. Alone'
  BY <1>6 DEF IInv, Alone, Active
<1> QED
  BY <1>5, <1>7, <1>8, <1>9 DEF IInv

LEMMA ReserveInv ==
  ASSUME IInv, NEW d \in Dispatchers, NEW k \in Keys, Reserve(d, k)
  PROVE  IInv'
<1> DEFINE new == [id |-> NextId, reading |-> k[1], unit |-> k[2], status |-> "reserved"]
<1>1. k[1] \in Readings /\ k[2] \in Units /\ Readings \subseteq Nat /\ k = <<k[1], k[2]>>
  <2>1. 1..Cardinality(Readings) \subseteq Nat
    OBVIOUS
  <2>2. Readings \subseteq Nat
    BY <2>1, ArmAssumption
  <2> QED
    BY <2>2 DEF Keys
<1>2. NextId = Cardinality(rows) /\ NextId \in Nat /\ new \in Row
  BY <1>1, FS_CardinalityType DEF IInv, RowsInv, NextId, Row, Statuses
<1>3. /\ rows' = rows \cup {new} /\ pc[d] = "ready"
      /\ \A r \in rows : r.reading # k[1] \/ r.unit # k[2]
      /\ pc' = [pc EXCEPT ![d] = "reserved"]
      /\ attempt' = [attempt EXCEPT ![d] = [reading |-> k[1], unit |-> k[2], id |-> NextId]]
      /\ UNCHANGED <<hasUnits, calls, remigrated>>
  BY <1>1 DEF Reserve, At, Goto, Taken, ghosts
<1>4. new \notin rows /\ Cardinality(rows') = Cardinality(rows) + 1 /\ IsFiniteSet(rows')
  <2>1. new \notin rows
    BY <1>2 DEF IInv, RowsInv
  <2>2. IsFiniteSet(rows)
    BY DEF IInv, RowsInv
  <2> HIDE DEF new
  <2> QED
    BY <1>3, <2>1, <2>2, FS_AddElement
<1>5. RowsInv'
  <2>1. new.id = Cardinality(rows) /\ Cardinality(rows) \in Nat
    BY <1>2
  <2>2. rows \subseteq Row /\ \A r \in rows : r.id \in Nat /\ r.id < Cardinality(rows)
    BY DEF IInv, RowsInv, Row
  <2>3. \A r, s \in rows : r.id = s.id => r = s
    BY DEF IInv, RowsInv
  <2> HIDE DEF new
  <2>4. \A r \in rows' : r.id < Cardinality(rows')
    BY <1>3, <1>4, <2>1, <2>2
  <2>5. \A r, s \in rows' : r.id = s.id => r = s
    BY <1>3, <2>1, <2>2, <2>3
  <2> QED
    BY <1>2, <1>3, <1>4, <2>2, <2>4, <2>5 DEF RowsInv
<1>6. KeysInv'
  BY <1>3 DEF IInv, KeysInv
<1>7. Typed'
  <2>1. [reading |-> k[1], unit |-> k[2], id |-> NextId] \in Attempt
    BY <1>1, <1>2 DEF Attempt
  <2> QED
    BY <1>3, <2>1 DEF IInv, Typed, Places
<1>8. CallsInv'
  BY <1>3 DEF IInv, CallsInv, Taken
<1>9. WorkInv(d)'
  <2>1. pc'[d] = "reserved" /\ hasUnits' /\ KeyOf(d)' = k /\ attempt'[d].id = NextId
    BY <1>1, <1>3 DEF IInv, Typed, WorkInv, KeyOf
  <2>2. PICK t \in rows' : t = new
    BY <1>3
  <2>3. OwnRow(d, t)'
    BY <1>3, <2>1, <2>2 DEF OwnRow, IInv, Typed
  <2>4. ~ remigrated => calls'[k] = 0
    BY <1>1, <1>3 DEF IInv, Typed, CallsInv, Taken
  <2> QED
    BY <1>3, <2>1, <2>3, <2>4 DEF WorkInv
<1>10. \A e \in Dispatchers \ {d} : WorkInv(e)'
  BY <1>3, Others DEF IInv, Typed
<1>11. Alone'
  <2>1. \A e \in Dispatchers \ {d} : pc[e] \in Active => attempt[e].id # NextId
    BY <1>2 DEF IInv, WorkInv, OwnRow, RowsInv, Row
  <2> QED
    BY <1>3, <2>1 DEF IInv, Typed, Alone
<1> QED
  BY <1>5, <1>6, <1>7, <1>8, <1>9, <1>10, <1>11 DEF IInv

\* The status of the own row is written, or not.
LEMMA OwnUpdate ==
  ASSUME IInv, NEW d \in Dispatchers, pc[d] \in Active,
         \/ rows' = rows
         \/ \E t \in Statuses : Update(attempt[d].id, t),
         pc'[d] \in (Active \ {"reserved", "prepared"}) \cup {"ready", "closed"}
           \/ (pc'[d] = "prepared" /\ pc[d] = "reserved" /\ rows' = rows),
         pc'[d] \in PreCall => pc[d] \in PreCall,
         pc'[d] \in Active => attempt'[d] = attempt[d],
         \A e \in Dispatchers \ {d} : pc'[e] = pc[e] /\ attempt'[e] = attempt[e],
         pc' \in [Dispatchers -> Places], attempt' \in [Dispatchers -> Attempt],
         remigrated' = remigrated, hasUnits' = hasUnits,
         calls' = calls
  PROVE  IInv'
<1>1. /\ RowsInv' /\ KeysInv'
      /\ \A k : Taken(k) => Taken(k)'
      /\ \A r \in rows : r.id # attempt[d].id => r \in rows'
      /\ \A r \in rows : \E t \in rows' : t.id = r.id /\ t.reading = r.reading /\ t.unit = r.unit
  <2>1. CASE rows' = rows
    BY <2>1 DEF IInv, RowsInv, KeysInv, Taken
  <2>2. CASE \E t \in Statuses : Update(attempt[d].id, t)
    <3>1. PICK t \in Statuses : Update(attempt[d].id, t)
      BY <2>2
    <3>2. \A r \in rows : /\ WithStatus(r, t).id = r.id /\ WithStatus(r, t).reading = r.reading
                          /\ WithStatus(r, t).unit = r.unit
      BY DEF IInv, RowsInv, Row, WithStatus
    <3> QED
      BY <3>1, <3>2, UpdateOne DEF IInv
  <2> QED
    BY <2>1, <2>2
<1>2. Typed' /\ CallsInv'
  BY <1>1 DEF IInv, Typed, CallsInv
<1>3. WorkInv(d)'
  <2>1. PICK r \in rows : OwnRow(d, r)
    BY DEF IInv, WorkInv
  <2>2. PICK t \in rows' : t.id = r.id /\ t.reading = r.reading /\ t.unit = r.unit
                         /\ (rows' = rows => t = r)
    BY <1>1
  <2>3. pc'[d] \in Active => OwnRow(d, t)'
    BY <2>1, <2>2 DEF OwnRow, Active
  <2> QED
    BY <2>3 DEF IInv, WorkInv, KeyOf, Active, PreCall
<1> QED
  BY <1>1, <1>2, <1>3, OneStep DEF IInv

LEMMA StoreSteps ==
  ASSUME IInv, NEW d \in Dispatchers,
         \/ Prepare(d) \/ MarkDispatched(d) \/ MarkUnknown(d)
         \/ \E units \in SUBSET Units : MarkSucceeded(d, units)
         \/ At(d, "done") /\ GiveUp(d) /\ UNCHANGED <<table, ghosts>>
  PROVE  IInv'
<1>1. NoAttempt \in Attempt
  BY DEF NoAttempt, Attempt
<1>2. attempt' \in [Dispatchers -> Attempt] /\ pc' \in [Dispatchers -> Places]
      /\ UNCHANGED <<hasUnits, calls, remigrated>>
  BY <1>1 DEF IInv, Typed, Places, Prepare, MarkDispatched, MarkUnknown, MarkSucceeded, GiveUp, Goto,
     table, ghosts
<1>3. \A e \in Dispatchers \ {d} : pc'[e] = pc[e] /\ attempt'[e] = attempt[e]
  BY DEF IInv, Typed, Prepare, MarkDispatched, MarkUnknown, MarkSucceeded, GiveUp, Goto
<1>4. CASE Prepare(d)
  BY <1>2, <1>3, <1>4, OwnUpdate
     DEF IInv, Typed, Prepare, GiveUp, Goto, At, Active, PreCall, Statuses
<1>5. CASE MarkDispatched(d)
  BY <1>2, <1>3, <1>5, OwnUpdate
     DEF IInv, Typed, MarkDispatched, GiveUp, Goto, At, Active, PreCall, Statuses
<1>6. CASE MarkUnknown(d)
  BY <1>2, <1>3, <1>6, OwnUpdate
     DEF IInv, Typed, MarkUnknown, GiveUp, Goto, At, Active, PreCall, Statuses
<1>7. CASE \E units \in SUBSET Units : MarkSucceeded(d, units)
  BY <1>2, <1>3, <1>7, OwnUpdate
     DEF IInv, Typed, MarkSucceeded, Goto, At, Active, PreCall, Statuses
<1>8. CASE At(d, "done") /\ GiveUp(d) /\ UNCHANGED <<table, ghosts>>
  BY <1>2, <1>3, <1>8, OwnUpdate
     DEF IInv, Typed, GiveUp, Goto, At, Active, PreCall, table
<1> QED
  BY <1>4, <1>5, <1>6, <1>7, <1>8

LEMMA CallInv ==
  ASSUME IInv, NEW d \in Dispatchers, Call(d)
  PROVE  IInv'
<1>1. /\ pc[d] = "calling" /\ pc'[d] \in {"answered", "failing"}
      /\ pc' \in [Dispatchers -> Places]
      /\ \A e \in Dispatchers \ {d} : pc'[e] = pc[e]
      /\ UNCHANGED <<rows, hasUnits, attempt, remigrated>>
  BY DEF IInv, Typed, Call, At, Goto, Places, table
<1>2. KeyOf(d) \in Keys /\ (~ remigrated => calls[KeyOf(d)] = 0) /\ hasUnits
  BY <1>1 DEF IInv, WorkInv, Active, PreCall
<1>3. calls' = [calls EXCEPT ![KeyOf(d)] = IF @ < 2 THEN @ + 1 ELSE 2]
  BY DEF Call, KeyOf
<1>4. PICK r \in rows : OwnRow(d, r)
  BY <1>1 DEF IInv, WorkInv, Active
<1>5. ~ remigrated => Taken(KeyOf(d))
  BY <1>4 DEF OwnRow, Taken, KeyOf
<1>6. Typed'
  BY <1>1, <1>2, <1>3 DEF IInv, Typed
<1>7. CallsInv'
  BY <1>1, <1>2, <1>3, <1>5 DEF IInv, Typed, CallsInv, Taken
<1>8. WorkInv(d)'
  BY <1>1, <1>2, <1>4 DEF WorkInv, OwnRow, KeyOf, Active, PreCall
<1>9. RowsInv' /\ KeysInv'
  BY <1>1 DEF IInv, RowsInv, KeysInv
<1>10. \A k \in Keys : calls'[k] = calls[k] \/ k = KeyOf(d)
  BY <1>3 DEF IInv, Typed
<1> QED
  BY <1>1, <1>6, <1>7, <1>8, <1>9, <1>10, OneStep DEF Active, PreCall

LEMMA KillInv ==
  ASSUME IInv, NEW d \in Dispatchers, Kill(d)
  PROVE  IInv'
<1>1. NoAttempt \in Attempt
  BY DEF NoAttempt, Attempt
<1>2. Typed' /\ RowsInv' /\ KeysInv' /\ CallsInv'
  BY <1>1 DEF IInv, Kill, Goto, table, ghosts, Typed, Places, RowsInv, KeysInv, CallsInv, Taken
<1>3. pc'[d] = "closed" /\ WorkInv(d)'
  BY DEF IInv, Typed, Kill, Goto, WorkInv, Active, PreCall
<1> QED
  BY <1>2, <1>3, OneStep DEF IInv, Typed, Kill, Goto, table, ghosts, Active

LEMMA SameInv ==
  ASSUME IInv, UNCHANGED <<rows, hasUnits, pc, attempt, calls, remigrated>>
  PROVE  IInv'
BY DEF IInv, Typed, RowsInv, KeysInv, WorkInv, OwnRow, KeyOf, Alone, CallsInv, Taken

LEMMA NextInv == IInv /\ [ArmNext]_armVars => IInv'
<1> SUFFICES ASSUME IInv, [ArmNext]_armVars PROVE IInv'
  OBVIOUS
<1>1. CASE Withdraw \/ UNCHANGED armVars
  BY <1>1, SameInv DEF Withdraw, Revoke, ghosts, armVars, vars, table
<1>2. ASSUME NEW d \in Dispatchers,
             \/ Store(d) \/ Begin(d) \/ ReserveNext(d) \/ RefuseNext(d) \/ Dispatch(d)
             \/ Answer(d) \/ Advance(d) \/ Return(d) \/ Killed(d)
      PROVE  IInv'
  <2>1. CASE Store(d)
    BY <2>1, OpenInv, MigrateInv, RecoverInv DEF Store
  <2>2. CASE Begin(d) \/ RefuseNext(d) \/ Return(d)
    BY <2>2, SameInv DEF Begin, RefuseNext, Return, vars, table
  <2>3. CASE ReserveNext(d)
    BY <2>3, WorklistKeys, ReserveInv DEF ReserveNext, InRun
  <2>4. CASE Dispatch(d)
    BY <2>4, StoreSteps, CallInv DEF Dispatch
  <2>5. CASE Answer(d) \/ Advance(d)
    BY <2>5, StoreSteps DEF Answer, Advance
  <2>6. CASE Killed(d)
    BY <2>6, KillInv DEF Killed
  <2> QED
    BY <1>2, <2>1, <2>2, <2>3, <2>4, <2>5, <2>6
<1> QED
  BY <1>1, <1>2 DEF ArmNext

LEMMA InitInv == ArmInit => IInv
<1> SUFFICES ASSUME ArmInit PROVE IInv
  OBVIOUS
<1>1. RowsInv /\ KeysInv
  BY AttemptAssumption DEF ArmInit, Init, RowsInv, KeysInv, Row
<1>2. NoAttempt \in Attempt
  BY DEF NoAttempt, Attempt
<1>3. Typed
  <2>1. calls \in [Keys -> 0..2] /\ attempt \in [Dispatchers -> Attempt]
    BY <1>2 DEF ArmInit, Init
  <2>2. pc \in [Dispatchers -> Places] /\ hasUnits \in BOOLEAN /\ remigrated \in BOOLEAN
    BY AttemptAssumption DEF ArmInit, Init, Places
  <2> QED
    BY <2>1, <2>2 DEF Typed
<1> QED
  BY <1>1, <1>3 DEF ArmInit, Init, IInv, WorkInv, Alone, CallsInv, Active, PreCall

-----------------------------------------------------------------------------
(* The theorems.                                                           *)

\* Every run keeps the inductive invariant, whoever opens the table and is killed.
THEOREM Invariance == ArmSpec => []IInv
BY InitInv, NextInv, PTL DEF ArmSpec

\* The provider sees each unit of a reading once, unless a table is migrated twice (reserve,
\* dispatch, _recover_stranded_dispatches).
THEOREM OneCall == ArmSpec => []OneCallPerUnit
<1>1. IInv => OneCallPerUnit
  BY DEF IInv, CallsInv, OneCallPerUnit
<1> QED
  BY <1>1, Invariance, PTL

\* An attempt that is settled keeps its outcome: no late answer, no restart and no migration changes
\* it (_transition, reserve, _migrate).
THEOREM Settlement == ArmSpec => SettledStays
<1> DEFINE Stays == \A r \in rows : r.status \in Settled =>
                      \E s \in rows' : s.id = r.id /\ s.status = r.status
<1>1. ASSUME IInv, NEW d \in Dispatchers, NEW t \in Statuses, Update(attempt[d].id, t),
             \A r \in rows : r.id = attempt[d].id => r.status \notin Settled
      PROVE  Stays
    BY <1>1, UpdateOne DEF IInv
<1>2. ASSUME IInv, NEW d \in Dispatchers, pc[d] \in {"reserved", "prepared"}
      PROVE  \A r \in rows : r.id = attempt[d].id => r.status \notin Settled
  BY <1>2 DEF IInv, WorkInv, OwnRow, RowsInv, Active, Settled
<1>3. ASSUME IInv, NEW d \in Dispatchers, pc[d] \in Active, RowOf(attempt[d].id).status = "dispatched"
      PROVE  \A r \in rows : r.id = attempt[d].id => r.status \notin Settled
  BY <1>3 DEF IInv, RowsInv, RowOf, Settled
<1>4. ASSUME IInv, ArmNext PROVE Stays
  <2>1. CASE Withdraw
    BY <2>1 DEF Withdraw, Revoke
  <2>2. ASSUME NEW d \in Dispatchers, Begin(d) \/ RefuseNext(d) \/ Return(d) \/ Advance(d) \/ Killed(d)
                 \/ Call(d) \/ Open(d)
        PROVE  Stays
    BY <2>2 DEF Begin, RefuseNext, Return, Advance, Killed, Kill, Call, Open, vars, table
  <2>3. ASSUME NEW d \in Dispatchers, Migrate(d) \/ Recover(d) PROVE Stays
    <3>1. \A r \in rows : /\ Stranded(r).id = r.id
                          /\ r.status \in Settled => Stranded(r).status = r.status
                          /\ [r EXCEPT !.unit = Legacy].id = r.id
                          /\ [r EXCEPT !.unit = Legacy].status = r.status
      BY <1>4 DEF IInv, RowsInv, Row, Stranded, WithStatus, Settled
    <3> QED
      BY <2>3, <3>1 DEF Migrate, Recover
  <2>4. ASSUME NEW d \in Dispatchers, ReserveNext(d) PROVE Stays
    BY <2>4 DEF ReserveNext, Reserve
  <2>5. ASSUME NEW d \in Dispatchers, Prepare(d) \/ MarkDispatched(d) PROVE Stays
    BY <1>1, <1>2, <1>4, <2>5 DEF Prepare, MarkDispatched, At, Statuses
  <2>6. ASSUME NEW d \in Dispatchers, MarkUnknown(d) \/ Answer(d) PROVE Stays
    BY <1>1, <1>3, <1>4, <2>6 DEF MarkUnknown, Answer, MarkSucceeded, Settles, At, Active, Statuses
  <2> QED
    BY <1>4, <2>1, <2>2, <2>3, <2>4, <2>5, <2>6 DEF ArmNext, Store, Dispatch
<1>5. IInv /\ [ArmNext]_armVars => [Stays]_vars
  BY <1>4 DEF armVars
<1> QED
  BY <1>5, Invariance, PTL DEF ArmSpec, SettledStays

-----------------------------------------------------------------------------
(* The consensus.  A process that is under way has answers for everything  *)
(* before its place in the worklist, and has counted exactly these; while  *)
(* no table is migrated twice a key has one answer, whose row says so.     *)

Answered == {a.key : a \in answers}

\* What a process has read, and counted.
ReadKeys(d) ==
  {KeyAt(n) : n \in 1..(arm[d].next - 1)} \cup (IF pc[d] = "done" THEN {KeyOf(d)} ELSE {})

Supporting(K, u) == {a \in answers : a.key \in K /\ u \in a.units}

AnswersInv ==
  /\ answers \subseteq [key: Keys, units: SUBSET Units] /\ IsFiniteSet(answers)
  /\ ~ remigrated =>
       /\ \A a \in answers, b \in answers : a.key = b.key => a = b
       /\ answers # {} => hasUnits
       /\ \A a \in answers : \E r \in rows : <<r.reading, r.unit>> = a.key /\ r.status = "succeeded"

Works == [next: 0..(Calls + 1), count: [Units -> Nat]]

ReadInv(d) ==
  /\ pc[d] \in Active => arm[d].next \in 1..Calls /\ KeyOf(d) = KeyAt(arm[d].next)
  /\ ReadKeys(d) \subseteq Answered
  /\ ~ remigrated => \A u \in Units : arm[d].count[u] = Cardinality(Supporting(ReadKeys(d), u))

ListedByCount(list, tally) ==
  \A i \in DOMAIN list :
    /\ tally[list[i]] >= 2
    /\ \A u \in Units \ Range(list) :
         \/ tally[u] < tally[list[i]]
         \/ tally[u] = tally[list[i]] /\ list[i] < u

ReturnedInv ==
  \A r \in returned :
    /\ Answered = Keys
    /\ ~ remigrated => \A u \in Units : r.count[u] = Cardinality(Proposing(u))
    /\ ListedByCount(r.list, r.count)

CInv ==
  /\ AnswersInv
  /\ arm \in [Dispatchers -> Works]
  /\ \A d \in Dispatchers : ReadInv(d)
  /\ ReturnedInv

-----------------------------------------------------------------------------
(* The ranking.  Of a finite set with a strict total order, the rank - one *)
(* more than the number of elements that precede - enumerates the set.     *)

LEMMA Enumeration ==
  ASSUME NEW S, IsFiniteSet(S), NEW rank \in [S -> Nat],
         \A x, y \in S : x # y => rank[x] # rank[y],
         \A x \in S : rank[x] \in 1..Cardinality(S)
  PROVE  \E list \in SetToSeqs(S) : \A i \in 1..Cardinality(S) : rank[list[i]] = i
<1> DEFINE N == Cardinality(S)
           D == 1..N
<1>1. N \in Nat
  BY FS_CardinalityType
<1>2. IsFiniteSet(D) /\ Cardinality(D) = N
  BY <1>1, FS_Interval
<1>3. rank \in Injection(S, D)
  BY DEF Injection, IsInjective
<1>4. rank \in Surjection(S, D)
  BY <1>2, <1>3, FS_Injection
<1>5. \A i \in D : \E x \in S : rank[x] = i
  BY <1>4 DEF Surjection
<1> DEFINE list == [i \in D |-> CHOOSE x \in S : rank[x] = i]
<1>6. list \in [D -> S] /\ \A i \in D : rank[list[i]] = i
  BY <1>5
<1>7. list \in SetToSeqs(S)
  BY <1>6 DEF SetToSeqs
<1> QED
  BY <1>6, <1>7

\* The list holds each unit that two readings propose, in its order.
LEMMA Ranking ==
  ASSUME NEW tally \in [Units -> Nat]
  PROVE  LET V == {u \in Units : tally[u] >= 2}
             list == Ranked(tally)
         IN  /\ list \in [1..Cardinality(V) -> V] /\ Cardinality(V) \in Nat
             /\ \A u \in V : \E i \in 1..Cardinality(V) : list[i] = u
             /\ \A i, j \in 1..Cardinality(V) : i < j => Precedes(tally, list[i], list[j])
<1> DEFINE V == {u \in Units : tally[u] >= 2}
           N == Cardinality(V)
           Ahead(u) == {v \in V : Precedes(tally, v, u)}
           rank == [u \in V |-> Cardinality(Ahead(u)) + 1]
<1>1. Units \subseteq Nat
  <2>1. 1..Cardinality(Units) \subseteq Nat
    OBVIOUS
  <2> QED
    BY <2>1, ArmAssumption
<1>2. IsFiniteSet(V) /\ N \in Nat
  BY AttemptAssumption, FS_Subset, FS_CardinalityType
<1>3. \A u \in V : IsFiniteSet(Ahead(u)) /\ Cardinality(Ahead(u)) \in Nat
  BY <1>2, FS_Subset, FS_CardinalityType
<1>4. ASSUME NEW u \in V, NEW v \in V, Precedes(tally, v, u) PROVE rank[v] < rank[u]
  <2>1. Ahead(v) \cup {v} \subseteq Ahead(u) /\ v \notin Ahead(v)
    <3>1. \A w \in V : w \in Nat /\ tally[w] \in Nat
      BY <1>1
    <3> HIDE DEF V
    <3>2. \A w \in V : Precedes(tally, w, v) => Precedes(tally, w, u)
      BY <1>4, <3>1 DEF Precedes
    <3>3. ~ Precedes(tally, v, v)
      BY <1>4, <3>1 DEF Precedes
    <3> QED
      BY <1>4, <3>2, <3>3
  <2> HIDE DEF Ahead
  <2>2. Cardinality(Ahead(v) \cup {v}) = Cardinality(Ahead(v)) + 1
    BY <1>3, <2>1, FS_AddElement
  <2>3. Cardinality(Ahead(v) \cup {v}) <= Cardinality(Ahead(u))
    BY <1>3, <2>1, FS_Subset
  <2> QED
    BY <1>3, <2>2, <2>3
<1>5. ASSUME NEW u \in V PROVE rank[u] \in 1..N
  <2>1. Ahead(u) \subseteq V \ {u}
    BY <1>1 DEF Precedes
  <2> HIDE DEF Ahead, V
  <2>2. IsFiniteSet(V \ {u}) /\ Cardinality(V \ {u}) = N - 1
    BY <1>2, <1>5, FS_RemoveElement
  <2>3. Cardinality(Ahead(u)) <= N - 1
    BY <2>1, <2>2, FS_Subset
  <2> QED
    BY <1>2, <1>3, <1>5, <2>3
<1>6. \A u, v \in V : u = v \/ Precedes(tally, u, v) \/ Precedes(tally, v, u)
  BY <1>1 DEF Precedes
<1>7. rank \in [V -> Nat]
  BY <1>3
<1> HIDE DEF rank
<1>8. \A u, v \in V : u # v => rank[u] # rank[v]
  BY <1>4, <1>6, <1>7
<1>9. PICK list \in SetToSeqs(V) : \A i \in 1..N : rank[list[i]] = i
  <2> HIDE DEF V
  <2> QED
    BY <1>2, <1>5, <1>7, <1>8, Enumeration
<1>10. \A s \in SetToSeqs(V) : s \in [1..N -> V] /\ \A i, j \in 1..N : i # j => s[i] # s[j]
  BY DEF SetToSeqs
<1>11. \A i, j \in DOMAIN list : i < j => Precedes(tally, list[i], list[j])
  <2>1. list \in [1..N -> V] /\ \A i, j \in 1..N : i # j => list[i] # list[j]
    BY <1>10
  <2> HIDE DEF V
  <2> SUFFICES ASSUME NEW i \in 1..N, NEW j \in 1..N, i < j PROVE Precedes(tally, list[i], list[j])
    BY <2>1
  <2>2. list[i] \in V /\ list[j] \in V /\ rank[list[i]] = i /\ rank[list[j]] = j /\ list[i] # list[j]
    BY <1>9, <2>1, <1>2
  <2>3. ~ Precedes(tally, list[j], list[i])
    BY <1>4, <1>2, <2>2
  <2> QED
    BY <1>6, <2>2, <2>3
<1>12. /\ Ranked(tally) \in SetToSeqs(V)
       /\ \A i, j \in DOMAIN Ranked(tally) : i < j => Precedes(tally, Ranked(tally)[i], Ranked(tally)[j])
  <2> DEFINE P(s) == \A i, j \in DOMAIN s : i < j => Precedes(tally, s[i], s[j])
  <2>1. Ranked(tally) = CHOOSE s \in SetToSeqs(V) : P(s)
    BY DEF Ranked
  <2>2. \E s \in SetToSeqs(V) : P(s)
    BY <1>9, <1>11
  <2> HIDE DEF P, V
  <2>3. Ranked(tally) \in SetToSeqs(V) /\ P(Ranked(tally))
    BY <2>1, <2>2
  <2> QED
    BY <2>3 DEF P
<1>13. Ranked(tally) \in [1..N -> V] /\ \A i, j \in 1..N : i # j => Ranked(tally)[i] # Ranked(tally)[j]
  BY <1>10, <1>12
<1>14. \A u \in V : \E i \in 1..N : Ranked(tally)[i] = u
  <2> HIDE DEF V
  <2>1. IsFiniteSet(1..N) /\ Cardinality(1..N) = N
    BY <1>2, FS_Interval
  <2>2. Ranked(tally) \in Injection(1..N, V)
    BY <1>13 DEF Injection, IsInjective
  <2>3. Ranked(tally) \in Surjection(1..N, V)
    BY <1>2, <2>1, <2>2, FS_Injection
  <2> QED
    BY <2>3 DEF Surjection
<1> HIDE DEF V
<1>15. DOMAIN Ranked(tally) = 1..N
  BY <1>13
<1> QED
  BY <1>2, <1>12, <1>13, <1>14, <1>15 DEF V

LEMMA ListIsRanked ==
  ASSUME NEW tally \in [Units -> Nat], Len(Ranked(tally)) >= Short
  PROVE  ListedByCount(SubSeq(Ranked(tally), 1, Short), tally)
<1> DEFINE V == {u \in Units : tally[u] >= 2}
           N == Cardinality(V)
           ranked == Ranked(tally)
           list == SubSeq(ranked, 1, Short)
<1>1. /\ ranked \in [1..N -> V] /\ N \in Nat
      /\ \A u \in V : \E i \in 1..N : ranked[i] = u
      /\ \A i, j \in 1..N : i < j => Precedes(tally, ranked[i], ranked[j])
  BY Ranking
<1>2. ranked \in Seq(V) /\ Len(ranked) = N /\ Short \in Nat /\ Short <= N
  BY <1>1, ArmAssumption
<1> HIDE DEF ranked, N, V
<1>3. list \in Seq(V) /\ Len(list) = Short /\ \A i \in 1..Short : list[i] = ranked[i]
  BY <1>1, <1>2
<1> HIDE DEF list
<1>4. DOMAIN list = 1..Short
  BY <1>3
<1> SUFFICES ASSUME NEW i \in 1..Short
             PROVE  /\ tally[ranked[i]] >= 2
                    /\ \A u \in Units \ Range(list) :
                         tally[u] < tally[ranked[i]] \/ (tally[u] = tally[ranked[i]] /\ ranked[i] < u)
  BY <1>3, <1>4 DEF ListedByCount, list, ranked
<1>5. i \in 1..N
  BY <1>1, <1>2
<1>6. ranked[i] \in V
  BY <1>1, <1>5
<1>7. ASSUME NEW u \in Units \ Range(list), u \in V
      PROVE  tally[u] < tally[ranked[i]] \/ (tally[u] = tally[ranked[i]] /\ ranked[i] < u)
  <2>1. PICK j \in 1..N : ranked[j] = u
    BY <1>1, <1>7
  <2>2. j \notin 1..Short
    BY <1>3, <1>4, <1>7, <2>1 DEF Range
  <2>3. i < j
    BY <1>1, <1>2, <2>2
  <2> QED
    BY <1>1, <1>5, <2>1, <2>3 DEF Precedes
<1>8. ASSUME NEW u \in Units \ Range(list), u \notin V PROVE tally[u] < tally[ranked[i]]
  BY <1>6, <1>8 DEF V
<1> QED
  BY <1>6, <1>7, <1>8 DEF V

\* The worklist has every key.
LEMMA WorklistComplete == {KeyAt(n) : n \in 1..Calls} = Keys
<1> DEFINE R == Cardinality(Readings)
           U == Cardinality(Units)
<1>1. R \in Nat /\ U \in Nat
  BY AttemptAssumption, FS_CardinalityType
<1>2. ASSUME NEW k \in Keys PROVE \E n \in 1..Calls : KeyAt(n) = k
  <2>1. PICK x \in 1..R, y \in 1..U : k = <<x, y>>
    <3>1. Readings = 1..R /\ Units = 1..U
      BY ArmAssumption
    <3> HIDE DEF R, U
    <3> QED
      BY <1>2, <3>1 DEF Keys
  <2> DEFINE n == U * (x - 1) + y
  <2>2. x - 1 \in Nat /\ x - 1 <= R - 1 /\ y \in 1..U /\ U > 0 /\ R > 0
    BY <1>1
  <2>3. U * (x - 1) \in Nat /\ U * (x - 1) <= U * (R - 1) /\ U * (R - 1) = R * U - U
    BY <1>1, <2>2, Monotone
  <2>4. n \in 1..Calls
    BY <1>1, <2>2, <2>3 DEF Calls
  <2>5. n - 1 = U * (x - 1) + (y - 1)
    BY <1>1, <2>2, <2>3
  <2> HIDE DEF n
  <2> DEFINE q == (n - 1) \div U
             r == (n - 1) % U
  <2>6. q \in Nat /\ r \in 0..(U - 1) /\ n - 1 = U * q + r
    <3>1. n \in 1..(R * U) /\ R * U \in Nat
      BY <1>1, <2>4 DEF Calls
    <3>2. n - 1 \in Nat /\ U \in Nat /\ U > 0
      BY <1>1, <2>2, <3>1
    <3>3. \A a, b \in Nat : b > 0 => a \div b \in Nat /\ a % b \in 0..(b - 1) /\ a = b * (a \div b) + (a % b)
      OBVIOUS
    <3> HIDE DEF U
    <3> QED
      BY <3>2, <3>3
  <2> HIDE DEF q, r
  <2>7. ~ (q > x - 1)
    <3>1. SUFFICES ASSUME q >= (x - 1) + 1 PROVE FALSE
      BY <2>2, <2>6
    <3>2. U * q >= U * ((x - 1) + 1) /\ U * ((x - 1) + 1) = U * (x - 1) + U
      BY <1>1, <2>2, <2>6, <3>1, Monotone
    <3> QED
      BY <1>1, <2>2, <2>3, <2>5, <2>6, <3>2
  <2>8. ~ (q < x - 1)
    <3>1. SUFFICES ASSUME x - 1 >= q + 1 PROVE FALSE
      BY <2>2, <2>6
    <3>2. U * (x - 1) >= U * (q + 1) /\ U * (q + 1) = U * q + U
      BY <1>1, <2>2, <2>6, <3>1, Monotone
    <3> QED
      BY <1>1, <2>2, <2>3, <2>5, <2>6, <3>2
  <2>9. q = x - 1
    BY <2>2, <2>6, <2>7, <2>8
  <2>10. r = y - 1
    BY <1>1, <2>2, <2>3, <2>5, <2>6, <2>9
  <2>11. KeyAt(n) = <<q + 1, r + 1>>
    BY DEF KeyAt, q, r
  <2> QED
    BY <2>1, <2>2, <2>4, <2>9, <2>10, <2>11
<1> QED
  BY <1>2, WorklistKeys

-----------------------------------------------------------------------------
(* The table, under the answers.                                           *)

\* A row of a success stays as it is, unless a table is migrated again.
LEMMA SuccessStays ==
  ASSUME IInv, hasUnits, ~ remigrated', [ArmNext]_armVars, NEW r \in rows, r.status = "succeeded"
  PROVE  r \in rows'
<1>1. CASE Withdraw \/ UNCHANGED armVars
  BY <1>1 DEF Withdraw, Revoke, armVars, vars, table
<1>2. ASSUME NEW d \in Dispatchers,
             \/ Store(d) \/ Begin(d) \/ ReserveNext(d) \/ RefuseNext(d) \/ Dispatch(d)
             \/ Answer(d) \/ Advance(d) \/ Return(d) \/ Killed(d)
      PROVE  r \in rows'
  <2>1. ASSUME NEW t \in Statuses, Update(attempt[d].id, t),
               \A s \in rows : s.id = attempt[d].id => s.status # "succeeded"
        PROVE  r \in rows'
    BY <2>1, UpdateOne DEF IInv
  <2>2. CASE Store(d)
    BY <2>2 DEF Store, Open, Migrate, Recover, Stranded, table, IInv, Typed
  <2>3. CASE Begin(d) \/ RefuseNext(d) \/ Return(d) \/ Advance(d) \/ Killed(d) \/ ReserveNext(d)
    BY <2>3 DEF Begin, RefuseNext, Return, Advance, Killed, Kill, ReserveNext, Reserve, vars, table
  <2>4. CASE Prepare(d) \/ MarkDispatched(d) \/ Call(d)
    <3>1. pc[d] \in {"reserved", "prepared"} =>
            \A s \in rows : s.id = attempt[d].id => s.status # "succeeded"
      BY DEF IInv, WorkInv, OwnRow, RowsInv, Active
    <3> QED
      BY <2>1, <2>4, <3>1 DEF Prepare, MarkDispatched, Call, At, Statuses, table
  <2>5. CASE MarkUnknown(d) \/ Answer(d)
    <3>1. pc[d] \in Active /\ RowOf(attempt[d].id).status = "dispatched" =>
            \A s \in rows : s.id = attempt[d].id => s.status # "succeeded"
      BY DEF IInv, RowsInv, RowOf
    <3> QED
      BY <2>1, <2>5, <3>1 DEF MarkUnknown, Answer, MarkSucceeded, Settles, At, Active, Statuses
  <2> QED
    BY <1>2, <2>2, <2>3, <2>4, <2>5 DEF Dispatch
<1> QED
  BY <1>1, <1>2 DEF ArmNext

LEMMA StoreGrows ==
  ASSUME IInv, [ArmNext]_armVars
  PROVE  (hasUnits => hasUnits') /\ (remigrated => remigrated')
BY DEF IInv, Typed, ArmNext, Withdraw, Revoke, Store, Open, Migrate, Recover, Begin, ReserveNext, Reserve,
   RefuseNext, Dispatch, Prepare, MarkDispatched, MarkUnknown, Call, Answer, MarkSucceeded, Advance,
   Return, Killed, Kill, GiveUp, armVars, vars, table, ghosts

\* A step without an answer.
LEMMA AnswersKept ==
  ASSUME IInv, AnswersInv, [ArmNext]_armVars, answers' = answers
  PROVE  AnswersInv'
BY SuccessStays, StoreGrows DEF AnswersInv

LEMMA ReadKept ==
  ASSUME IInv, [ArmNext]_armVars, answers' = answers,
         NEW d \in Dispatchers, ReadInv(d), arm'[d] = arm[d],
         pc'[d] \in Active => arm[d].next \in 1..Calls /\ KeyOf(d)' = KeyAt(arm[d].next),
         ReadKeys(d)' = ReadKeys(d)
  PROVE  ReadInv(d)'
BY StoreGrows DEF ReadInv, Answered, Supporting

\* Nothing is read by a process that has nothing counted.
LEMMA NothingRead ==
  ASSUME NEW d \in Dispatchers, arm'[d] = NoArm \/ (arm'[d].next = 1 /\ arm'[d].count = NoArm.count),
         pc'[d] \notin Active
  PROVE  ReadInv(d)'
<1>1. (1..(arm[d].next - 1))' = {}
  BY DEF NoArm
<1>2. ReadKeys(d)' = {}
  BY <1>1 DEF ReadKeys, Active
<1>3. \A u \in Units : Supporting(ReadKeys(d), u)' = {} /\ arm'[d].count[u] = 0
  BY <1>2 DEF Supporting, NoArm
<1> QED
  BY <1>2, <1>3, FS_EmptySet DEF ReadInv

\* A step of d without an answer.
LEMMA OneReads ==
  ASSUME IInv, CInv, [ArmNext]_armVars, answers' = answers, returned' = returned,
         NEW d \in Dispatchers, ReadInv(d)', arm' \in [Dispatchers -> Works],
         \A e \in Dispatchers \ {d} : arm'[e] = arm[e] /\ pc'[e] = pc[e] /\ attempt'[e] = attempt[e]
  PROVE  CInv'
<1>1. AnswersInv'
  BY AnswersKept DEF CInv
<1>2. ASSUME NEW e \in Dispatchers \ {d} PROVE ReadInv(e)'
  <2>1. KeyOf(e)' = KeyOf(e) /\ ReadKeys(e)' = ReadKeys(e)
    BY DEF KeyOf, ReadKeys
  <2> QED
    BY <2>1, ReadKept DEF CInv, ReadInv
<1>3. ReturnedInv'
  BY StoreGrows DEF CInv, ReturnedInv, Answered, Proposing
<1> QED
  BY <1>1, <1>2, <1>3 DEF CInv

-----------------------------------------------------------------------------
(* The consensus, one action after the other.                              *)

LEMMA QuietReads ==
  ASSUME IInv, CInv, Withdraw \/ UNCHANGED armVars
  PROVE  CInv'
<1>1. UNCHANGED <<pc, attempt, answers, arm, returned>> /\ [ArmNext]_armVars
  BY DEF Withdraw, Revoke, armVars, vars, ghosts, ArmNext
<1>2. AnswersInv'
  BY <1>1, AnswersKept DEF CInv
<1>3. ASSUME NEW d \in Dispatchers PROVE ReadInv(d)'
  <2>1. KeyOf(d)' = KeyOf(d) /\ ReadKeys(d)' = ReadKeys(d)
    BY <1>1 DEF KeyOf, ReadKeys
  <2> QED
    BY <1>1, <2>1, ReadKept DEF CInv, ReadInv
<1>4. ReturnedInv'
  BY <1>1, StoreGrows DEF CInv, ReturnedInv, Answered, Proposing
<1> QED
  BY <1>1, <1>2, <1>3, <1>4 DEF CInv

LEMMA NoArmWorks == NoArm \in Works
<1>1. Calls \in Nat
  BY AttemptAssumption, FS_CardinalityType DEF Calls
<1> QED
  BY <1>1 DEF NoArm, Works

LEMMA StoreReads ==
  ASSUME IInv, CInv, [ArmNext]_armVars, NEW d \in Dispatchers, Store(d)
  PROVE  CInv'
<1>1. /\ UNCHANGED <<attempt, answers, arm, returned>>
      /\ pc[d] \notin Active /\ pc'[d] \notin Active
      /\ \A e \in Dispatchers \ {d} : pc'[e] = pc[e]
  BY DEF IInv, Typed, Store, Open, Migrate, Recover, Goto, At, ghosts, Active
<1>2. ReadKeys(d)' = ReadKeys(d)
  BY <1>1 DEF ReadKeys, Active
<1>3. ReadInv(d)'
  BY <1>1, <1>2, ReadKept DEF CInv
<1> QED
  BY <1>1, <1>3, OneReads DEF CInv

\* The run of d begins, or is given up.
LEMMA FreshReads ==
  ASSUME IInv, CInv, [ArmNext]_armVars, NEW d \in Dispatchers, answers' = answers, returned' = returned,
         \/ arm' = [arm EXCEPT ![d] = NoArm]
         \/ arm' = [arm EXCEPT ![d].next = 1] /\ arm[d].next = 0 /\ Calls >= 0,
         pc'[d] \notin Active, pc[d] # "done",
         \A e \in Dispatchers \ {d} : pc'[e] = pc[e] /\ attempt'[e] = attempt[e]
  PROVE  CInv'
<1>1. Calls \in Nat
  BY AttemptAssumption, FS_CardinalityType DEF Calls
<1>2. arm' \in [Dispatchers -> Works] /\ \A e \in Dispatchers \ {d} : arm'[e] = arm[e]
  BY <1>1, NoArmWorks DEF CInv, Works
<1>3. CASE arm' = [arm EXCEPT ![d] = NoArm]
  <2>1. arm'[d] = NoArm
    BY <1>3 DEF CInv
  <2>2. ReadInv(d)'
    BY <2>1, NothingRead
  <2> QED
    BY <1>2, <2>2, OneReads
<1>4. CASE arm' = [arm EXCEPT ![d].next = 1] /\ arm[d].next = 0
  <2>1. arm'[d].next = 1 /\ arm'[d].count = arm[d].count
    BY <1>4 DEF CInv, Works
  <2>2. (1..(arm[d].next - 1)) = {} /\ (1..(arm'[d].next - 1)) = {}
    BY <1>4, <2>1
  <2>3. ReadKeys(d) = {} /\ ReadKeys(d)' = {}
    BY <2>2 DEF ReadKeys, Active
  <2>4. ReadInv(d)'
    BY <2>1, <2>3, StoreGrows DEF CInv, ReadInv, Supporting
  <2> QED
    BY <1>2, <2>4, OneReads
<1> QED
  BY <1>3, <1>4

LEMMA BeginReads ==
  ASSUME IInv, CInv, [ArmNext]_armVars, NEW d \in Dispatchers, Begin(d) \/ RefuseNext(d) \/ Killed(d)
  PROVE  CInv'
<1>1. Calls \in Nat
  BY AttemptAssumption, FS_CardinalityType DEF Calls
<1>2. CASE Begin(d) \/ RefuseNext(d)
  <2>1. /\ pc[d] = "ready" /\ UNCHANGED <<pc, attempt, answers, returned>>
        /\ \/ arm' = [arm EXCEPT ![d] = NoArm]
           \/ arm' = [arm EXCEPT ![d].next = 1] /\ arm[d].next = 0
    BY <1>2 DEF Begin, RefuseNext, InRun, AfterRefusal, At, vars
  <2> QED
    BY <1>1, <2>1, FreshReads DEF Active
<1>3. CASE Killed(d)
  <2>1. CASE pc[d] # "done"
    BY <1>3, <2>1, FreshReads DEF IInv, Typed, Killed, Kill, Goto, ghosts, Active
  <2>2. CASE pc[d] = "done"
    <3>1. /\ arm' = [arm EXCEPT ![d] = NoArm] /\ pc'[d] = "closed"
          /\ UNCHANGED <<answers, returned>>
          /\ \A e \in Dispatchers \ {d} : pc'[e] = pc[e] /\ attempt'[e] = attempt[e]
      BY <1>3 DEF IInv, Typed, Killed, Kill, Goto, ghosts
    <3>2. arm'[d] = NoArm /\ arm' \in [Dispatchers -> Works] /\ \A e \in Dispatchers \ {d} : arm'[e] = arm[e]
      BY <3>1, NoArmWorks DEF CInv
    <3>3. ReadInv(d)'
      BY <3>1, <3>2, NothingRead DEF Active
    <3> QED
      BY <3>1, <3>2, <3>3, OneReads
  <2> QED
    BY <2>1, <2>2
<1> QED
  BY <1>2, <1>3

LEMMA ReserveReads ==
  ASSUME IInv, CInv, [ArmNext]_armVars, NEW d \in Dispatchers, ReserveNext(d)
  PROVE  CInv'
<1> DEFINE k == KeyAt(arm[d].next)
<1>1. /\ pc[d] = "ready" /\ pc'[d] = "reserved" /\ arm[d].next \in 1..Calls
      /\ attempt' = [attempt EXCEPT ![d] = [reading |-> k[1], unit |-> k[2], id |-> NextId]]
      /\ UNCHANGED <<answers, arm, returned>>
      /\ \A e \in Dispatchers \ {d} : pc'[e] = pc[e]
  BY DEF IInv, Typed, ReserveNext, InRun, Reserve, Goto, At, ghosts
<1>2. k = <<k[1], k[2]>>
  BY DEF KeyAt
<1>3. KeyOf(d)' = k /\ \A e \in Dispatchers \ {d} : attempt'[e] = attempt[e]
  <2> HIDE DEF k
  <2> QED
    BY <1>1, <1>2 DEF IInv, Typed, KeyOf
<1>4. ReadKeys(d)' = ReadKeys(d)
  BY <1>1 DEF ReadKeys
<1>5. ReadInv(d)'
  BY <1>1, <1>3, <1>4, ReadKept DEF CInv
<1> QED
  BY <1>1, <1>3, <1>5, OneReads DEF CInv

\* A step of a dispatch without a receipt.
LEMMA DispatchReads ==
  ASSUME IInv, CInv, [ArmNext]_armVars, NEW d \in Dispatchers,
         \/ Dispatch(d)
         \/ Answer(d) /\ pc'[d] # "done"
  PROVE  CInv'
<1>1. /\ pc[d] \in Active \ {"done"} /\ UNCHANGED <<answers, returned>>
      /\ \A e \in Dispatchers \ {d} : pc'[e] = pc[e] /\ attempt'[e] = attempt[e]
      /\ \/ pc'[d] = "ready" /\ arm' = [arm EXCEPT ![d] = NoArm]
         \/ pc'[d] \in Active \ {"done"} /\ attempt' = attempt /\ arm' = arm
  BY DEF IInv, Typed, Dispatch, Prepare, MarkDispatched, MarkUnknown, Call, Answer, MarkSucceeded, GiveUp,
     Goto, At, AfterRefusal, Active, ghosts
<1>2. CASE pc'[d] = "ready" /\ arm' = [arm EXCEPT ![d] = NoArm]
  BY <1>1, <1>2, FreshReads DEF Active
<1>3. CASE pc'[d] \in Active \ {"done"} /\ attempt' = attempt /\ arm' = arm
  <2>1. ReadKeys(d)' = ReadKeys(d) /\ KeyOf(d)' = KeyOf(d)
    BY <1>1, <1>3 DEF ReadKeys, KeyOf
  <2>2. ReadInv(d)'
    BY <1>1, <1>3, <2>1, ReadKept DEF CInv, ReadInv
  <2> QED
    BY <1>1, <1>3, <2>2, OneReads DEF CInv
<1> QED
  BY <1>1, <1>2, <1>3

LEMMA AdvanceReads ==
  ASSUME IInv, CInv, [ArmNext]_armVars, NEW d \in Dispatchers, Advance(d)
  PROVE  CInv'
<1>1. /\ pc[d] = "done" /\ pc'[d] = "ready" /\ UNCHANGED <<answers, returned>>
      /\ \A e \in Dispatchers \ {d} : pc'[e] = pc[e] /\ attempt'[e] = attempt[e]
      /\ arm' = [arm EXCEPT ![d].next = @ + 1]
  BY DEF IInv, Typed, Advance, GiveUp, Goto, At, ghosts
<1>2. Calls \in Nat
  BY AttemptAssumption, FS_CardinalityType DEF Calls
<1>3. arm[d].next \in 1..Calls /\ KeyOf(d) = KeyAt(arm[d].next)
  BY <1>1 DEF CInv, ReadInv, Active
<1>4. /\ arm'[d].next = arm[d].next + 1 /\ arm'[d].count = arm[d].count
      /\ arm' \in [Dispatchers -> Works]
      /\ \A e \in Dispatchers \ {d} : arm'[e] = arm[e]
  BY <1>1, <1>2, <1>3 DEF CInv, Works
<1>5. 1..(arm'[d].next - 1) = (1..(arm[d].next - 1)) \cup {arm[d].next}
  BY <1>2, <1>3, <1>4
<1>6. ReadKeys(d)' = ReadKeys(d)
  BY <1>1, <1>3, <1>5 DEF ReadKeys
<1>7. ReadInv(d)'
  BY <1>1, <1>4, <1>6, StoreGrows DEF CInv, ReadInv, Supporting, Answered, Active
<1> QED
  BY <1>1, <1>4, <1>7, OneReads

\* A receipt: its key had no answer yet.
LEMMA ReceiptIsNew ==
  ASSUME IInv, AnswersInv, ~ remigrated, NEW d \in Dispatchers, pc[d] = "answered",
         RowOf(attempt[d].id).status = "dispatched"
  PROVE  KeyOf(d) \notin Answered
<1> SUFFICES ASSUME NEW a \in answers, a.key = KeyOf(d) PROVE FALSE
  BY DEF Answered
<1>1. PICK s \in rows : OwnRow(d, s)
  BY DEF IInv, WorkInv, Active
<1>2. RowOf(attempt[d].id) = s
  BY <1>1 DEF RowOf, IInv, RowsInv, OwnRow
<1>3. PICK r \in rows : <<r.reading, r.unit>> = a.key /\ r.status = "succeeded"
  BY DEF AnswersInv
<1>4. r = s
  BY <1>1, <1>3 DEF IInv, KeysInv, OwnRow, KeyOf
<1> QED
  BY <1>2, <1>3, <1>4

LEMMA ReceiptReads ==
  ASSUME IInv, CInv, [ArmNext]_armVars, NEW d \in Dispatchers, Answer(d), pc'[d] = "done"
  PROVE  CInv'
<1>1. PICK P \in SUBSET Units :
        /\ MarkSucceeded(d, P)
        /\ arm' = [arm EXCEPT ![d].count = [u \in Units |-> IF u \in P THEN @[u] + 1 ELSE @[u]]]
  BY DEF Answer
<1> DEFINE k   == KeyOf(d)
           new == [key |-> k, units |-> P]
<1>2. /\ pc[d] = "answered" /\ RowOf(attempt[d].id).status = "dispatched"
      /\ UNCHANGED <<attempt, remigrated, hasUnits, returned>>
      /\ Update(attempt[d].id, "succeeded")
      /\ answers' = answers \cup {new}
      /\ \A e \in Dispatchers \ {d} : pc'[e] = pc[e]
  BY <1>1 DEF IInv, Typed, Answer, MarkSucceeded, Settles, Goto, At, KeyOf
<1>3. k \in Keys /\ hasUnits /\ KeyOf(d)' = k
  BY <1>2 DEF IInv, WorkInv, Active, KeyOf
<1>4. /\ arm' \in [Dispatchers -> Works] /\ arm'[d].next = arm[d].next
      /\ \A u \in Units : arm'[d].count[u] = IF u \in P THEN arm[d].count[u] + 1 ELSE arm[d].count[u]
      /\ \A e \in Dispatchers \ {d} : arm'[e] = arm[e]
  BY <1>1 DEF CInv, Works
<1>5. ~ remigrated => k \notin Answered /\ new \notin answers
  BY <1>2, ReceiptIsNew DEF CInv, Answered
<1>6. ASSUME NEW K, NEW u \in Units, k \notin K
      PROVE  {a \in answers' : a.key \in K /\ u \in a.units} = Supporting(K, u)
  BY <1>2, <1>6 DEF Supporting
<1>7. new \in [key: Keys, units: SUBSET Units] /\ new.key = k /\ new.units = P
  BY <1>3
<1>8. Answered' = Answered \cup {k}
  BY <1>2, <1>7 DEF Answered
<1>9. AnswersInv'
  <2>1. answers' \subseteq [key: Keys, units: SUBSET Units] /\ IsFiniteSet(answers')
    <3> HIDE DEF new
    <3> QED
      BY <1>2, <1>7, FS_AddElement DEF CInv, AnswersInv
  <2>2. ~ remigrated => \A a, b \in answers' : a.key = b.key => a = b
    BY <1>2, <1>5, <1>7 DEF CInv, AnswersInv, Answered
  <2>3. ASSUME ~ remigrated, NEW a \in answers'
        PROVE  \E r \in rows' : <<r.reading, r.unit>> = a.key /\ r.status = "succeeded"
    <3>1. CASE a \in answers
      BY <1>2, <1>3, <2>3, <3>1, SuccessStays DEF CInv, AnswersInv
    <3>2. CASE a = new
      <4>1. PICK s \in rows : OwnRow(d, s)
        BY <1>2 DEF IInv, WorkInv, Active
      <4>2. WithStatus(s, "succeeded") \in rows'
        BY <1>2, <4>1, UpdateOne DEF IInv, OwnRow, Statuses
      <4>3. /\ WithStatus(s, "succeeded").reading = s.reading /\ WithStatus(s, "succeeded").unit = s.unit
            /\ WithStatus(s, "succeeded").status = "succeeded"
        BY DEF IInv, RowsInv, Row, WithStatus
      <4> QED
        BY <1>7, <2>3, <3>2, <4>1, <4>2, <4>3 DEF OwnRow, KeyOf
    <3> QED
      BY <1>2, <3>1, <3>2
  <2> QED
    BY <1>2, <1>3, <2>1, <2>2, <2>3 DEF AnswersInv
<1>10. ReadInv(d)'
  <2>1. ReadKeys(d)' = ReadKeys(d) \cup {k}
    BY <1>2, <1>3, <1>4 DEF ReadKeys
  <2>2. ReadKeys(d) \subseteq Answered /\ arm[d].next \in 1..Calls /\ k = KeyAt(arm[d].next)
    BY <1>2 DEF CInv, ReadInv, Active
  <2>3. ASSUME ~ remigrated, NEW u \in Units
        PROVE  arm'[d].count[u] = Cardinality(Supporting(ReadKeys(d), u)')
    <3> DEFINE S == Supporting(ReadKeys(d), u)
    <3>1. arm[d].count[u] = Cardinality(S) /\ S \subseteq answers
      BY <2>3 DEF CInv, ReadInv, Supporting
    <3>2. IsFiniteSet(S) /\ new \notin S
      BY <1>5, <2>3, <3>1, FS_Subset DEF CInv, AnswersInv
    <3>3. Supporting(ReadKeys(d), u)' = IF u \in P THEN S \cup {new} ELSE S
      <4>1. Supporting(ReadKeys(d), u)' = {a \in answers \cup {new} : a.key \in ReadKeys(d) \cup {k} /\ u \in a.units}
        BY <1>2, <2>1 DEF Supporting
      <4>2. \A a \in answers : a.key # k
        BY <1>5, <2>3 DEF Answered
      <4> QED
        BY <1>7, <4>1, <4>2 DEF Supporting
    <3> HIDE DEF S, new
    <3>4. Cardinality(S \cup {new}) = Cardinality(S) + 1
      BY <3>2, FS_AddElement
    <3> QED
      BY <1>4, <3>1, <3>3, <3>4
  <2> QED
    BY <1>2, <1>3, <1>4, <1>8, <2>1, <2>2, <2>3 DEF ReadInv
<1>11. ASSUME NEW e \in Dispatchers \ {d} PROVE ReadInv(e)'
  <2>1. KeyOf(e)' = KeyOf(e) /\ ReadKeys(e)' = ReadKeys(e)
    BY <1>2, <1>4 DEF KeyOf, ReadKeys
  <2>2. ReadKeys(e) \subseteq Answered
    BY DEF CInv, ReadInv
  <2>3. ASSUME ~ remigrated, NEW u \in Units
        PROVE  arm'[e].count[u] = Cardinality(Supporting(ReadKeys(e), u)')
    <3>1. Supporting(ReadKeys(e), u)' = {a \in answers' : a.key \in ReadKeys(e) /\ u \in a.units}
      BY <2>1 DEF Supporting
    <3>2. Supporting(ReadKeys(e), u)' = Supporting(ReadKeys(e), u)
      BY <1>5, <1>6, <2>2, <2>3, <3>1
    <3> QED
      BY <1>4, <2>3, <3>2 DEF CInv, ReadInv
  <2> QED
    BY <1>2, <1>4, <1>8, <2>1, <2>2, <2>3 DEF CInv, ReadInv
<1>12. ReturnedInv'
  <2> SUFFICES ASSUME NEW r \in returned
               PROVE  /\ Answered' = Keys
                      /\ ~ remigrated => \A u \in Units : r.count[u] = Cardinality(Proposing(u)')
                      /\ ListedByCount(r.list, r.count)
    BY <1>2 DEF ReturnedInv
  <2>1. Answered = Keys /\ ListedByCount(r.list, r.count)
    BY DEF CInv, ReturnedInv
  <2> QED
    BY <1>3, <1>5, <1>8, <2>1
<1> QED
  BY <1>4, <1>9, <1>10, <1>11, <1>12 DEF CInv

LEMMA ReturnReads ==
  ASSUME IInv, CInv, [ArmNext]_armVars, NEW d \in Dispatchers, Return(d)
  PROVE  CInv'
<1> DEFINE tally == arm[d].count
           result == [list |-> SubSeq(Ranked(tally), 1, Short), count |-> tally]
<1>1. /\ pc[d] = "ready" /\ arm[d].next = Calls + 1
      /\ arm' = [arm EXCEPT ![d] = NoArm] /\ UNCHANGED vars
      /\ \/ returned' = returned
         \/ returned' = returned \cup {result} /\ ~ (Len(Ranked(tally)) < Short)
  BY DEF Return, Finished, At
<1>2. Calls \in Nat
  BY AttemptAssumption, FS_CardinalityType DEF Calls
<1>3. UNCHANGED <<pc, attempt, answers, remigrated>>
  BY <1>1 DEF vars
<1>4. ReadKeys(d) = Keys
  <2>1. 1..(arm[d].next - 1) = 1..Calls
    BY <1>1, <1>2
  <2> QED
    BY <1>1, <2>1, WorklistComplete DEF ReadKeys
<1>5. Answered = Keys
  BY <1>4 DEF CInv, ReadInv, AnswersInv, Answered
<1>6. ASSUME NEW u \in Units PROVE Supporting(Keys, u) = Proposing(u)
  BY DEF CInv, AnswersInv, Supporting, Proposing
<1>7. ~ remigrated => \A u \in Units : tally[u] = Cardinality(Proposing(u))
  BY <1>4, <1>6 DEF CInv, ReadInv
<1>8. tally \in [Units -> Nat]
  BY DEF CInv, Works
<1>9. returned' # returned => ListedByCount(result.list, tally)
  <2>1. Len(Ranked(tally)) \in Nat /\ Short \in Nat
    <3> DEFINE N == Cardinality({u \in Units : tally[u] >= 2})
    <3>1. Ranked(tally) \in [1..N -> Units] /\ N \in Nat
      BY <1>8, Ranking
    <3> HIDE DEF N
    <3>2. Len(Ranked(tally)) = N
      BY <3>1
    <3> QED
      BY <3>1, <3>2, ArmAssumption
  <2> QED
    BY <1>1, <1>8, <2>1, ListIsRanked
<1>10. arm' \in [Dispatchers -> Works] /\ \A e \in Dispatchers \ {d} : arm'[e] = arm[e]
  BY <1>1, NoArmWorks DEF CInv
<1>11. ReadInv(d)'
  BY <1>1, <1>3, NothingRead DEF CInv, Active
<1>12. AnswersInv'
  BY <1>3, AnswersKept DEF CInv
<1>13. ASSUME NEW e \in Dispatchers \ {d} PROVE ReadInv(e)'
  <2>1. KeyOf(e)' = KeyOf(e) /\ ReadKeys(e)' = ReadKeys(e)
    BY <1>3, <1>10 DEF KeyOf, ReadKeys
  <2> QED
    BY <1>3, <1>10, <2>1, ReadKept DEF CInv, ReadInv
<1>14. ReturnedInv'
  <2> SUFFICES ASSUME NEW r \in returned'
               PROVE  /\ Answered = Keys
                      /\ ~ remigrated => \A u \in Units : r.count[u] = Cardinality(Proposing(u))
                      /\ ListedByCount(r.list, r.count)
    BY <1>3 DEF ReturnedInv, Answered, Proposing
  <2>1. CASE r \in returned
    BY <2>1 DEF CInv, ReturnedInv
  <2>2. CASE r \notin returned
    <3>1. r = result /\ returned' # returned
      BY <1>1, <2>2
    <3> QED
      BY <1>5, <1>7, <1>9, <3>1
  <2> QED
    BY <2>1, <2>2
<1> QED
  BY <1>10, <1>11, <1>12, <1>13, <1>14 DEF CInv

LEMMA NextReads == IInv /\ CInv /\ [ArmNext]_armVars => CInv'
<1> SUFFICES ASSUME IInv, CInv, [ArmNext]_armVars PROVE CInv'
  OBVIOUS
<1>1. CASE Withdraw \/ UNCHANGED armVars
  BY <1>1, QuietReads
<1>2. ASSUME NEW d \in Dispatchers,
             \/ Store(d) \/ Begin(d) \/ ReserveNext(d) \/ RefuseNext(d) \/ Dispatch(d)
             \/ Answer(d) \/ Advance(d) \/ Return(d) \/ Killed(d)
      PROVE  CInv'
  BY <1>2, StoreReads, BeginReads, ReserveReads, DispatchReads, ReceiptReads, AdvanceReads, ReturnReads
<1> QED
  BY <1>1, <1>2 DEF ArmNext

LEMMA InitReads == ArmInit => CInv
<1> SUFFICES ASSUME ArmInit PROVE CInv
  OBVIOUS
<1>1. answers = {} /\ returned = {} /\ \A d \in Dispatchers : arm[d] = NoArm /\ pc[d] = "closed"
  BY DEF ArmInit, Init
<1>2. AnswersInv
  BY <1>1, FS_EmptySet DEF AnswersInv
<1>3. ASSUME NEW d \in Dispatchers PROVE ReadInv(d)
  <2>1. (1..(arm[d].next - 1)) = {}
    BY <1>1 DEF NoArm
  <2>2. ReadKeys(d) = {}
    BY <1>1, <2>1 DEF ReadKeys
  <2>3. \A u \in Units : Supporting(ReadKeys(d), u) = {} /\ arm[d].count[u] = 0
    BY <1>1, <2>2 DEF Supporting, NoArm
  <2> QED
    BY <1>1, <2>2, <2>3, FS_EmptySet DEF ReadInv, Active
<1>4. arm \in [Dispatchers -> Works]
  BY NoArmWorks DEF ArmInit
<1> QED
  BY <1>1, <1>2, <1>3, <1>4 DEF CInv, ReturnedInv

-----------------------------------------------------------------------------

\* Every process under way has the answers it has counted, whoever else works, opens or is killed.
THEOREM Counting == ArmSpec => []CInv
BY InitInv, NextInv, InitReads, NextReads, PTL DEF ArmSpec

\* A consensus is the work of one process: each unit of each reading answered once, the counts those
\* of these answers, the list the units proposed most often (run_b3_consensus).
THEOREM Consensus == ArmSpec => []ConsensusIsEarned
<1>1. ASSUME CInv, NEW r \in returned, ~ remigrated PROVE Cardinality(answers) = Cardinality(Keys)
  <2> DEFINE key == [a \in answers |-> a.key]
  <2>1. /\ Answered = Keys /\ IsFiniteSet(answers)
        /\ \A a \in answers, b \in answers : a.key = b.key => a = b
    BY <1>1 DEF CInv, ReturnedInv, AnswersInv
  <2>2. key \in Surjection(answers, Keys) /\ key \in Injection(answers, Keys)
    BY <2>1 DEF Surjection, Injection, IsInjective, Answered
  <2> QED
    BY <2>1, <2>2, FS_Surjection
<1>2. CInv => ConsensusIsEarned
  BY <1>1 DEF CInv, ReturnedInv, Answered, ListedByCount, ConsensusIsEarned
<1> QED
  BY <1>2, Counting, PTL

(***************************************************************************)
(* The corpus.  The inductive invariant: a clone is only made where nothing *)
(* is, so that no step takes a commit from a cache; what the acquisition is *)
(* about to list and what the inventory has seen is there.                  *)
(***************************************************************************)
Commits == UNION {{Entries[i].pre, Entries[i].post} : i \in DOMAIN Entries}
States == Shapes \cup {"metadata-invalid", "repository-cache-miss", "referenced-commit-unavailable"}
Working == {"look", "clone", "cloning", "update", "check"}

Caching     == [dir : {"absent", "stub", "bare"}, commits : SUBSET Commits, head : BOOLEAN]
Acquisition == [pc : Working \cup {"off", "write"}, at : Nat, receipts : SUBSET Clusters, failures : SUBSET Clusters]

CorpusTyped ==
  /\ hosted \in [Clusters -> SUBSET Commits]
  /\ cache \in [Caches -> Caching]
  /\ acq \in Acquisition
  /\ receipt \subseteq [receipts : SUBSET Clusters, failures : SUBSET Clusters]
  /\ inv \in [pc : {"off", "reading", "done"}, at : Nat, states : Seq(States)]
  /\ ledger \in [decision : {"none", "admitted", "not-admitted"}, clusters : SUBSET Clusters, gates : SUBSET Gates]
  /\ count \in [acquisitions : Nat, losses : Nat]

\* A clone is made where there was nothing, so no commit is lost by it.
Placed ==
  /\ acq.pc \in Working => acq.at \in Urls
  /\ acq.pc \in {"clone", "cloning"} => Mine.commits = {}
  /\ acq.pc \in {"update", "check"} => Mine.dir # "absent"
  /\ \A c \in Caches : cache[c].dir = "absent" => cache[c].commits = {}

\* What the document of the acquisition lists, and what the inventory has seen, is cached.
Listed == \A r \in acq.receipts : Sourced(r)
Seen ==
  /\ inv.at = Len(inv.states) + 1 /\ Len(inv.states) <= Len(Entries)
  /\ \A i \in Candidates(inv.states) :
       /\ Entries[i].shape = "candidate"
       /\ {Entries[i].pre, Entries[i].post} \subseteq cache[CacheOf[Entries[i].cluster]].commits

CorpusInv == CorpusTyped /\ Placed /\ Listed /\ Seen /\ CorpusIsSound

-----------------------------------------------------------------------------
LEMMA EntryIs ==
  ASSUME CorpusAssumption
  PROVE  /\ Len(Entries) \in Nat /\ DOMAIN Entries = 1..Len(Entries)
         /\ \A i \in DOMAIN Entries : /\ Entries[i].cluster \in Clusters /\ CacheOf[Entries[i].cluster] \in Caches
                                      /\ Entries[i].shape \in Shapes
                                      /\ Entries[i].pre \in Commits /\ Entries[i].post \in Commits
BY DEF CorpusAssumption, Clusters, Caches, Commits

LEMMA OnwardIs ==
  ASSUME CorpusAssumption, NEW a \in Acquisition
  PROVE  /\ Onward(a) \in Acquisition
         /\ Onward(a).receipts = a.receipts /\ Onward(a).failures = a.failures
         /\ \/ Onward(a).pc = "write"
            \/ Onward(a).pc = "look" /\ Onward(a).at \in Urls
<1> DEFINE later == {i \in Urls : i > a.at}
           R == OpToRel(<, Nat)
<1>1. Urls \subseteq Nat  BY EntryIs DEF Urls
<1>2. CASE later = {}  BY <1>2 DEF Onward, Working, Acquisition
<1>3. CASE later # {}
  <2>1. PICK i \in later : \A j \in later : <<j, i>> \notin R
    BY <1>1, <1>3, WFMin, NatLessThanWellFounded
  <2>2. later \subseteq Nat /\ i \in Nat  BY <1>1
  <2>3. \A j \in later : ~ (j < i)  BY <2>1, <2>2 DEF OpToRel
  <2>4. \A j \in later : i <= j  BY <2>2, <2>3
  <2> DEFINE n == CHOOSE k \in later : \A j \in later : k <= j
  <2>5. n \in later  BY <2>4
  <2>6. Onward(a) = [a EXCEPT !.pc = "look", !.at = n]  BY <1>3 DEF Onward
  <2>7. n \in Urls /\ n \in Nat  BY <1>1, <2>5
  <2> HIDE DEF n
  <2> QED  BY <2>6, <2>7 DEF Working, Acquisition
<1> QED  BY <1>2, <1>3

\* What is sourced stays so as long as no cache loses a commit.
LEMMA SourcedStays ==
  ASSUME CorpusAssumption, \A c \in Caches : cache[c].commits \subseteq cache'[c].commits
  PROVE  /\ \A r \in Clusters : Sourced(r) => Sourced(r)'
         /\ \A i \in DOMAIN Entries :
              {Entries[i].pre, Entries[i].post} \subseteq cache[CacheOf[Entries[i].cluster]].commits =>
              {Entries[i].pre, Entries[i].post} \subseteq cache'[CacheOf[Entries[i].cluster]].commits
BY EntryIs DEF Sourced, Required, Clusters, Caches

\* A step that leaves inventory and ledger alone, loses no commit and lists only what is sourced.
LEMMA CacheStep ==
  ASSUME CorpusAssumption, CorpusInv, CorpusTyped', Placed',
         \A c \in Caches : cache[c].commits \subseteq cache'[c].commits,
         UNCHANGED inventory,
         \A r \in acq'.receipts : r \in acq.receipts \/ (r \in Clusters /\ Sourced(r)'),
         \A doc \in receipt' : doc \in receipt \/ doc.receipts = acq.receipts
  PROVE  CorpusInv'
<1>1. acq.receipts \subseteq Clusters /\ \A doc \in receipt : doc.receipts \subseteq Clusters
  BY DEF CorpusInv, CorpusTyped, Acquisition
<1>2. Listed'  BY <1>1, SourcedStays DEF CorpusInv, Listed
<1>3. inv' = inv /\ ledger' = ledger  BY DEF inventory
<1>4. inv.states \in Seq(States) /\ ledger.clusters \subseteq Clusters  BY DEF CorpusInv, CorpusTyped
<1>5. \A i \in Candidates(inv.states) : i \in DOMAIN Entries
  <2> SUFFICES ASSUME NEW i \in Candidates(inv.states) PROVE i \in DOMAIN Entries  OBVIOUS
  <2>1. i \in 1..Len(inv.states) /\ Len(inv.states) \in Nat /\ Len(inv.states) <= Len(Entries)
    BY <1>4 DEF Candidates, CorpusInv, Seen
  <2> QED  BY <2>1, EntryIs
<1>6. Seen'  BY <1>3, <1>5, SourcedStays DEF CorpusInv, Seen, Candidates
<1>7. SourceStays'
  BY <1>1, <1>3, <1>5, SourcedStays DEF CorpusInv, Listed, CorpusIsSound, SourceStays, Candidates
<1>8. AdmissionIsEarned'
  <2> SUFFICES ASSUME ledger.decision = "admitted"
               PROVE  \A r \in ledger.clusters : \E i \in DOMAIN Entries :
                        /\ Entries[i].cluster = r /\ Entries[i].shape = "candidate"
                        /\ {Entries[i].pre, Entries[i].post} \subseteq cache'[CacheOf[r]].commits
    BY <1>3 DEF CorpusInv, CorpusIsSound, AdmissionIsEarned
  <2> TAKE r \in ledger.clusters
  <2>1. PICK i \in DOMAIN Entries :
               /\ Entries[i].cluster = r /\ Entries[i].shape = "candidate"
               /\ {Entries[i].pre, Entries[i].post} \subseteq cache[CacheOf[r]].commits
    BY DEF CorpusInv, CorpusIsSound, AdmissionIsEarned
  <2> QED  BY <2>1, SourcedStays
<1> QED  BY <1>2, <1>6, <1>7, <1>8 DEF CorpusInv, CorpusIsSound

LEMMA HereIs ==
  ASSUME CorpusAssumption, CorpusInv, acq.pc \in Working
  PROVE  Here \in Clusters /\ CacheOf[Here] \in Caches /\ Mine \in Caching /\ cache \in [Caches -> Caching]
<1>1. acq.at \in DOMAIN Entries  BY DEF CorpusInv, Placed, Urls
<1> QED  BY <1>1, EntryIs DEF Here, Mine, CorpusInv, CorpusTyped, Caching

LEMMA ProceedIs ==
  ASSUME CorpusAssumption, CorpusInv, NEW receipts \in SUBSET Clusters, NEW failures \in SUBSET Clusters,
         Proceed(receipts, failures)
  PROVE  /\ acq' \in Acquisition /\ acq'.receipts = acq.receipts \union receipts
         /\ acq'.pc = "write" \/ (acq'.pc = "look" /\ acq'.at \in Urls)
<1> DEFINE a == [acq EXCEPT !.receipts = @ \union receipts, !.failures = @ \union failures]
<1>1. acq \in Acquisition  BY DEF CorpusInv, CorpusTyped, Acquisition
<1>2. a \in Acquisition /\ a.receipts = acq.receipts \union receipts  BY <1>1 DEF Acquisition
<1>3. acq' = Onward(a)  BY DEF Proceed
<1> HIDE DEF a
<1> QED  BY <1>2, <1>3, OnwardIs DEF Acquisition

\* A cache that grows in place, or is made where nothing was.
LEMMA InCacheIs ==
  ASSUME CorpusAssumption, CorpusInv, acq.pc \in Working, NEW c \in Caching, InCache(c),
         Mine.commits \subseteq c.commits
  PROVE  /\ cache' \in [Caches -> Caching] /\ cache'[CacheOf[Here]] = c
         /\ \A d \in Caches : cache[d].commits \subseteq cache'[d].commits
         /\ \A d \in Caches \ {CacheOf[Here]} : cache'[d] = cache[d]
BY HereIs DEF InCache, Mine

LEMMA AcquireKeeps == ASSUME CorpusAssumption, CorpusInv, Acquire PROVE CorpusInv'
<1>1. NotAcquiring \in Acquisition  BY DEF NotAcquiring, Acquisition, Working
<1>2. acq' = Onward(NotAcquiring) \/ acq' = NotAcquiring  BY DEF Acquire
<1>3. /\ acq' \in Acquisition /\ acq'.receipts = {}
      /\ acq'.pc \in {"off", "write"} \/ (acq'.pc = "look" /\ acq'.at \in Urls)
  BY <1>1, <1>2, OnwardIs DEF Acquisition, NotAcquiring
<1>4. hosted' = hosted /\ cache' = cache /\ receipt' = receipt /\ inv' = inv /\ ledger' = ledger
      /\ count' = [count EXCEPT !.acquisitions = @ + 1]
  BY DEF Acquire, inventory
<1>5. CorpusTyped'  BY <1>3, <1>4 DEF CorpusInv, CorpusTyped, Acquisition
<1>6. Placed'  BY <1>3, <1>4 DEF CorpusInv, Placed, Working
<1> QED  BY <1>3, <1>4, <1>5, <1>6, CacheStep DEF inventory

LEMMA LookKeeps == ASSUME CorpusAssumption, CorpusInv, Look PROVE CorpusInv'
<1>0. acq.pc = "look" /\ acq.pc \in Working /\ acq \in Acquisition
  BY DEF Look, Working, CorpusInv, CorpusTyped, Acquisition
<1>1. hosted' = hosted /\ cache' = cache /\ receipt' = receipt /\ inv' = inv /\ ledger' = ledger
      /\ count' = count
  BY DEF Look, inventory
<1>2. Here \in Clusters /\ CacheOf[Here] \in Caches  BY <1>0, HereIs
<1>3. CASE Mine.dir = "absent" /\ acq' = [acq EXCEPT !.pc = "clone"]
  <2>1. acq' \in Acquisition /\ acq'.pc = "clone" /\ acq'.at = acq.at /\ acq'.receipts = acq.receipts
    BY <1>0, <1>3 DEF Acquisition, Working
  <2>2. CorpusTyped'  BY <1>1, <2>1 DEF CorpusInv, CorpusTyped, Acquisition
  <2>3. Placed'  BY <1>0, <1>1, <1>2, <1>3, <2>1 DEF CorpusInv, Placed, Working, Mine, Here
  <2> QED  BY <1>1, <2>1, <2>2, <2>3, CacheStep DEF inventory
<1>4. CASE Mine.dir = "stub" /\ Proceed({}, {Here})
  <2>1. /\ acq' \in Acquisition /\ acq'.receipts = acq.receipts
        /\ acq'.pc = "write" \/ (acq'.pc = "look" /\ acq'.at \in Urls)
    <3>1. {} \in SUBSET Clusters /\ {Here} \in SUBSET Clusters /\ acq.receipts \cup {} = acq.receipts  BY <1>2
    <3> QED  BY <1>4, <3>1, ProceedIs
  <2>2. CorpusTyped'  BY <1>1, <2>1 DEF CorpusInv, CorpusTyped, Acquisition
  <2>3. Placed'  BY <1>1, <2>1 DEF CorpusInv, Placed, Working
  <2> QED  BY <1>1, <2>1, <2>2, <2>3, CacheStep DEF inventory
<1>5. CASE Mine.dir = "bare" /\ acq' = [acq EXCEPT !.pc = "update"]
  <2>1. acq' \in Acquisition /\ acq'.pc = "update" /\ acq'.at = acq.at /\ acq'.receipts = acq.receipts
    BY <1>0, <1>5 DEF Acquisition, Working
  <2>2. CorpusTyped'  BY <1>1, <2>1 DEF CorpusInv, CorpusTyped, Acquisition
  <2>3. Placed'  BY <1>0, <1>1, <1>5, <2>1 DEF CorpusInv, Placed, Working, Mine, Here
  <2> QED  BY <1>1, <2>1, <2>2, <2>3, CacheStep DEF inventory
<1> QED  BY <1>3, <1>4, <1>5 DEF Look

LEMMA CloneBeginsKeeps == ASSUME CorpusAssumption, CorpusInv, CloneBegins PROVE CorpusInv'
<1>0. acq.pc = "clone" /\ acq.pc \in Working /\ acq \in Acquisition /\ acq' = [acq EXCEPT !.pc = "cloning"]
  BY DEF CloneBegins, Working, CorpusInv, CorpusTyped, Acquisition
<1>1. hosted' = hosted /\ receipt' = receipt /\ inv' = inv /\ ledger' = ledger /\ count' = count
  BY DEF CloneBegins, inventory
<1>2. PICK dir \in {"stub", "bare"} : InCache([NoCache EXCEPT !.dir = dir])  BY DEF CloneBegins
<1> DEFINE c == [NoCache EXCEPT !.dir = dir]
<1>3. c \in Caching /\ c.commits = {} /\ c.dir # "absent" /\ InCache(c)  BY <1>2 DEF NoCache, Caching
<1> HIDE DEF c
<1>4. Mine.commits = {}  BY <1>0 DEF CorpusInv, Placed
<1>5. /\ cache' \in [Caches -> Caching] /\ cache'[CacheOf[Here]] = c
      /\ \A d \in Caches : cache[d].commits \subseteq cache'[d].commits
      /\ \A d \in Caches \ {CacheOf[Here]} : cache'[d] = cache[d]
  BY <1>0, <1>3, <1>4, InCacheIs
<1>6. acq' \in Acquisition /\ acq'.pc = "cloning" /\ acq'.at = acq.at /\ acq'.receipts = acq.receipts
  BY <1>0 DEF Acquisition, Working
<1>7. CorpusTyped'  BY <1>1, <1>5, <1>6 DEF CorpusInv, CorpusTyped, Acquisition, Caching
<1>8. Placed'  BY <1>0, <1>3, <1>5, <1>6 DEF CorpusInv, Placed, Mine, Here
<1> QED  BY <1>1, <1>5, <1>6, <1>7, <1>8, CacheStep DEF inventory

LEMMA CloneEndsKeeps == ASSUME CorpusAssumption, CorpusInv, CloneEnds PROVE CorpusInv'
<1>0. acq.pc = "cloning" /\ acq.pc \in Working /\ acq \in Acquisition
  BY DEF CloneEnds, Working, CorpusInv, CorpusTyped, Acquisition
<1>1. hosted' = hosted /\ receipt' = receipt /\ inv' = inv /\ ledger' = ledger /\ count' = count
  BY DEF CloneEnds, inventory
<1>2. Here \in Clusters /\ Mine.commits = {}  BY <1>0, HereIs DEF CorpusInv, Placed
<1>3. CASE InCache([dir |-> "bare", commits |-> hosted[Here], head |-> TRUE]) /\ acq' = [acq EXCEPT !.pc = "check"]
  <2> DEFINE c == [dir |-> "bare", commits |-> hosted[Here], head |-> TRUE]
  <2>1. c \in Caching /\ c.dir = "bare"  BY <1>2 DEF CorpusInv, CorpusTyped, Caching
  <2>2. InCache(c)  BY <1>3
  <2> HIDE DEF c
  <2>3. /\ cache' \in [Caches -> Caching] /\ cache'[CacheOf[Here]] = c
        /\ \A d \in Caches : cache[d].commits \subseteq cache'[d].commits
        /\ \A d \in Caches \ {CacheOf[Here]} : cache'[d] = cache[d]
    BY <1>0, <1>2, <2>1, <2>2, InCacheIs
  <2>4. acq' \in Acquisition /\ acq'.pc = "check" /\ acq'.at = acq.at /\ acq'.receipts = acq.receipts
    BY <1>0, <1>3 DEF Acquisition, Working
  <2>5. CorpusTyped'  BY <1>1, <2>3, <2>4 DEF CorpusInv, CorpusTyped, Acquisition, Caching
  <2>6. Placed'  BY <1>0, <2>1, <2>3, <2>4 DEF CorpusInv, Placed, Mine, Here
  <2> QED  BY <1>1, <2>3, <2>4, <2>5, <2>6, CacheStep DEF inventory
<1>4. CASE InCache(NoCache) /\ Proceed({}, {Here})
  <2>1. NoCache \in Caching /\ NoCache.commits = {}  BY DEF NoCache, Caching
  <2>2. /\ cache' \in [Caches -> Caching] /\ cache'[CacheOf[Here]] = NoCache
        /\ \A d \in Caches : cache[d].commits \subseteq cache'[d].commits
        /\ \A d \in Caches \ {CacheOf[Here]} : cache'[d] = cache[d]
    BY <1>0, <1>2, <1>4, <2>1, InCacheIs
  <2>3. /\ acq' \in Acquisition /\ acq'.receipts = acq.receipts
        /\ acq'.pc = "write" \/ (acq'.pc = "look" /\ acq'.at \in Urls)
    <3>1. {} \in SUBSET Clusters /\ {Here} \in SUBSET Clusters /\ acq.receipts \cup {} = acq.receipts  BY <1>2
    <3> QED  BY <1>4, <3>1, ProceedIs
  <2>4. CorpusTyped'  BY <1>1, <2>2, <2>3 DEF CorpusInv, CorpusTyped, Acquisition, Caching
  <2>5. Placed'  BY <2>1, <2>2, <2>3 DEF CorpusInv, Placed, Working
  <2> QED  BY <1>1, <2>2, <2>3, <2>4, <2>5, CacheStep DEF inventory
<1> QED  BY <1>3, <1>4 DEF CloneEnds

LEMMA UpdateKeeps == ASSUME CorpusAssumption, CorpusInv, UpdateClone PROVE CorpusInv'
<1>0. acq.pc = "update" /\ acq.pc \in Working /\ acq \in Acquisition /\ acq' = [acq EXCEPT !.pc = "check"]
  BY DEF UpdateClone, Working, CorpusInv, CorpusTyped, Acquisition
<1>1. hosted' = hosted /\ receipt' = receipt /\ inv' = inv /\ ledger' = ledger /\ count' = count
  BY DEF UpdateClone, inventory
<1>2. PICK got \in {{}, hosted[Here]} : InCache([Mine EXCEPT !.commits = @ \union got])  BY DEF UpdateClone
<1> DEFINE c == [Mine EXCEPT !.commits = @ \union got]
<1>3. Here \in Clusters /\ Mine \in Caching  BY <1>0, HereIs
<1>4. got \in SUBSET Commits  BY <1>2, <1>3 DEF CorpusInv, CorpusTyped
<1>5. c \in Caching /\ Mine.commits \subseteq c.commits /\ c.dir = Mine.dir /\ InCache(c)
      /\ c.commits = Mine.commits \union got
  BY <1>2, <1>3, <1>4 DEF Caching
<1> HIDE DEF c
<1>6. /\ cache' \in [Caches -> Caching] /\ cache'[CacheOf[Here]] = c
      /\ \A d \in Caches : cache[d].commits \subseteq cache'[d].commits
      /\ \A d \in Caches \ {CacheOf[Here]} : cache'[d] = cache[d]
  BY <1>0, <1>5, InCacheIs
<1>7. acq' \in Acquisition /\ acq'.pc = "check" /\ acq'.at = acq.at /\ acq'.receipts = acq.receipts
  BY <1>0 DEF Acquisition, Working
<1>8. CorpusTyped'  BY <1>1, <1>6, <1>7 DEF CorpusInv, CorpusTyped, Acquisition, Caching
<1>9. Placed'  BY <1>0, <1>5, <1>6, <1>7 DEF CorpusInv, Placed, Mine, Here
<1> QED  BY <1>1, <1>6, <1>7, <1>8, <1>9, CacheStep DEF inventory

\* A repository is listed with the commits its entries name.
LEMMA CheckKeeps == ASSUME CorpusAssumption, CorpusInv, Check PROVE CorpusInv'
<1>0. acq.pc = "check" /\ acq.pc \in Working  BY DEF Check, Working
<1>1. hosted' = hosted /\ receipt' = receipt /\ inv' = inv /\ ledger' = ledger /\ count' = count
  BY DEF Check, inventory
<1>2. Here \in Clusters /\ Mine \in Caching /\ {} \in SUBSET Clusters /\ {Here} \in SUBSET Clusters
  BY <1>0, HereIs
<1>3. PICK fetched \in SUBSET ((Required(Here) \intersect hosted[Here]) \ Mine.commits) :
        LET c == [Mine EXCEPT !.commits = @ \union fetched] IN
        IF Available(fetched) /\ Mine.head
        THEN InCache(c) /\ Proceed({Here}, {})
        ELSE InCache(AfterFailure(c)) /\ Proceed({}, {Here})
  BY DEF Check
<1> DEFINE c == [Mine EXCEPT !.commits = @ \union fetched]
<1>4. fetched \in SUBSET Commits  BY <1>2, <1>3 DEF CorpusInv, CorpusTyped
<1>5. c \in Caching /\ Mine.commits \subseteq c.commits /\ c.dir = Mine.dir
      /\ c.commits = Mine.commits \union fetched
  BY <1>2, <1>4 DEF Caching
<1>6. InCache(c)  BY <1>3 DEF AfterFailure
<1>7. (Available(fetched) /\ Proceed({Here}, {})) \/ Proceed({}, {Here})  BY <1>3
<1> HIDE DEF c
<1>8. /\ cache' \in [Caches -> Caching] /\ cache'[CacheOf[Here]] = c
      /\ \A d \in Caches : cache[d].commits \subseteq cache'[d].commits
      /\ \A d \in Caches \ {CacheOf[Here]} : cache'[d] = cache[d]
  BY <1>0, <1>5, <1>6, InCacheIs
<1>9. /\ acq' \in Acquisition
      /\ acq'.pc = "write" \/ (acq'.pc = "look" /\ acq'.at \in Urls)
      /\ \A r \in acq'.receipts : r \in acq.receipts \/ (r \in Clusters /\ Sourced(r)')
  <2>1. CASE Available(fetched) /\ Proceed({Here}, {})
    <3>1. /\ acq' \in Acquisition /\ acq'.receipts = acq.receipts \union {Here}
          /\ acq'.pc = "write" \/ (acq'.pc = "look" /\ acq'.at \in Urls)
      BY <1>2, <2>1, ProceedIs
    <3>2. Required(Here) \subseteq cache'[CacheOf[Here]].commits  BY <1>5, <1>8, <2>1 DEF Available
    <3>3. \A r \in {Here} : Sourced(r)'
      <4> SUFFICES ASSUME NEW r, r = Here PROVE Required(r) \subseteq cache'[CacheOf[r]].commits
        BY DEF Sourced, Required
      <4> QED  BY <3>2
    <3> QED  BY <1>2, <3>1, <3>3
  <2>2. CASE Proceed({}, {Here})
    <3>1. acq.receipts \cup {} = acq.receipts  OBVIOUS
    <3> QED  BY <1>2, <2>2, <3>1, ProceedIs
  <2> QED  BY <1>7, <2>1, <2>2
<1>10. CorpusTyped'  BY <1>1, <1>8, <1>9 DEF CorpusInv, CorpusTyped, Acquisition, Caching
<1>11. Placed'  BY <1>0, <1>5, <1>8, <1>9 DEF CorpusInv, Placed, Working
<1> QED  BY <1>1, <1>8, <1>9, <1>10, <1>11, CacheStep DEF inventory

LEMMA WriteKeeps == ASSUME CorpusAssumption, CorpusInv, Write PROVE CorpusInv'
<1>1. hosted' = hosted /\ cache' = cache /\ inv' = inv /\ ledger' = ledger /\ count' = count
      /\ acq' = NotAcquiring
  BY DEF Write, inventory
<1>2. NotAcquiring \in Acquisition /\ NotAcquiring.pc = "off" /\ NotAcquiring.receipts = {}
  BY DEF NotAcquiring, Acquisition, Working
<1>3. receipt' = {[receipts |-> acq.receipts, failures |-> acq.failures]} \/ receipt' = receipt
  BY DEF Write
<1>4. CorpusTyped'  BY <1>1, <1>2, <1>3 DEF CorpusInv, CorpusTyped, Acquisition
<1>5. Placed'  BY <1>1, <1>2 DEF CorpusInv, Placed, Working
<1> QED  BY <1>1, <1>2, <1>3, <1>4, <1>5, CacheStep DEF inventory

LEMMA KillAcquisitionKeeps == ASSUME CorpusAssumption, CorpusInv, KillAcquisition PROVE CorpusInv'
<1>1. hosted' = hosted /\ cache' = cache /\ receipt' = receipt /\ inv' = inv /\ ledger' = ledger /\ count' = count
      /\ acq' = NotAcquiring
  BY DEF KillAcquisition, inventory
<1>2. NotAcquiring \in Acquisition /\ NotAcquiring.pc = "off" /\ NotAcquiring.receipts = {}
  BY DEF NotAcquiring, Acquisition, Working
<1>4. CorpusTyped'  BY <1>1, <1>2 DEF CorpusInv, CorpusTyped, Acquisition
<1>5. Placed'  BY <1>1, <1>2 DEF CorpusInv, Placed, Working
<1> QED  BY <1>1, <1>2, <1>4, <1>5, CacheStep DEF inventory

LEMMA LoseKeeps == ASSUME CorpusAssumption, CorpusInv, Lose PROVE CorpusInv'
<1>1. cache' = cache /\ acq' = acq /\ receipt' = receipt /\ inv' = inv /\ ledger' = ledger
      /\ count' = [count EXCEPT !.losses = @ + 1]
  BY DEF Lose, inventory, acquisition
<1>2. hosted' \in [Clusters -> SUBSET Commits]  BY DEF Lose, CorpusInv, CorpusTyped
<1>4. CorpusTyped'  BY <1>1, <1>2 DEF CorpusInv, CorpusTyped
<1>5. Placed'  BY <1>1 DEF CorpusInv, Placed, Mine, Here
<1> QED  BY <1>1, <1>4, <1>5, CacheStep DEF inventory

LEMMA InventoryKeeps == ASSUME CorpusAssumption, CorpusInv, Inventory PROVE CorpusInv'
<1>1. hosted' = hosted /\ cache' = cache /\ acq' = acq /\ receipt' = receipt /\ ledger' = ledger /\ count' = count
  BY DEF Inventory, acquisition
<1> DEFINE n == inv.at
           s == State(Entries[n])
<1>2. /\ inv.at <= Len(Entries) /\ inv'.at = n + 1 /\ inv'.states = Append(inv.states, s)
      /\ inv' = [pc |-> inv'.pc, at |-> inv'.at, states |-> inv'.states] /\ inv'.pc \in {"done", "reading"}
  BY DEF Inventory
<1>3. inv.states \in Seq(States) /\ n \in Nat /\ n = Len(inv.states) + 1
  BY DEF CorpusInv, CorpusTyped, Seen
<1>4. n \in DOMAIN Entries  BY <1>2, <1>3, EntryIs
<1>5. s \in States  BY <1>4, EntryIs DEF State, States
<1>6. s = "candidate" =>
        /\ Entries[n].shape = "candidate"
        /\ {Entries[n].pre, Entries[n].post} \subseteq cache[CacheOf[Entries[n].cluster]].commits
  BY <1>4, EntryIs DEF State, Shapes
<1> HIDE DEF s
<1>7. /\ inv'.states \in Seq(States) /\ Len(inv'.states) = n
      /\ \A i \in 1..n : inv'.states[i] = IF i = n THEN s ELSE inv.states[i]
  BY <1>2, <1>3, <1>5, AppendProperties
<1>8. CorpusTyped'
  <2> HIDE DEF n
  <2>1. n + 1 \in Nat /\ inv'.at = n + 1  BY <1>2, <1>3
  <2>2. inv' \in [pc : {"off", "reading", "done"}, at : Nat, states : Seq(States)]
    BY <1>2, <1>7, <2>1
  <2> QED  BY <1>1, <2>2 DEF CorpusInv, CorpusTyped
<1>9. Candidates(inv'.states) \subseteq Candidates(inv.states) \cup {n} /\ (n \in Candidates(inv'.states) => s = "candidate")
  BY <1>3, <1>7 DEF Candidates
<1>10. \A i \in Candidates(inv'.states) :
         /\ Entries[i].shape = "candidate"
         /\ {Entries[i].pre, Entries[i].post} \subseteq cache[CacheOf[Entries[i].cluster]].commits
  BY <1>6, <1>9 DEF CorpusInv, Seen
<1>11. Seen'  BY <1>1, <1>2, <1>3, <1>7, <1>10 DEF Seen, Candidates
<1>12. SourceStays'  BY <1>1, <1>10 DEF CorpusInv, CorpusIsSound, SourceStays, Sourced, Candidates
<1>13. Placed' /\ Listed' /\ AdmissionIsEarned'
  BY <1>1 DEF CorpusInv, CorpusIsSound, Placed, Listed, Mine, Here, Sourced, AdmissionIsEarned
<1> QED  BY <1>8, <1>11, <1>12, <1>13 DEF CorpusInv, CorpusIsSound

LEMMA EvaluateKeeps == ASSUME CorpusAssumption, CorpusInv, Evaluate PROVE CorpusInv'
<1>1. hosted' = hosted /\ cache' = cache /\ acq' = acq /\ receipt' = receipt /\ count' = count /\ inv' = NoInventory
  BY DEF Evaluate, acquisition
<1>2. PICK evidence \in SUBSET Gates :
        ledger' = [decision |-> IF GatesPassed(evidence) /\ Cardinality(Counted(inv.states)) >= MinClusters
                                THEN "admitted" ELSE "not-admitted",
                   clusters |-> {Entries[i].cluster : i \in Candidates(inv.states)}, gates |-> evidence]
  BY DEF Evaluate
<1>3. inv.states \in Seq(States) /\ Len(inv.states) <= Len(Entries)  BY DEF CorpusInv, CorpusTyped, Seen
<1>4. \A i \in Candidates(inv.states) : i \in DOMAIN Entries  BY <1>3, EntryIs DEF Candidates
<1>5. ledger' \in [decision : {"none", "admitted", "not-admitted"}, clusters : SUBSET Clusters, gates : SUBSET Gates]
  <2>1. {Entries[i].cluster : i \in Candidates(inv.states)} \in SUBSET Clusters  BY <1>4, EntryIs
  <2> QED  BY <1>2, <2>1
<1>6. <<>> \in Seq(States) /\ Len(<<>>) = 0 /\ Candidates(<<>>) = {}  BY DEF Candidates
<1>7. CorpusTyped'  BY <1>1, <1>5, <1>6 DEF CorpusInv, CorpusTyped, NoInventory
<1>8. Seen' /\ SourceStays'
  BY <1>1, <1>6, EntryIs DEF CorpusInv, CorpusIsSound, Seen, SourceStays, NoInventory, Sourced, Candidates
<1>9. Placed' /\ Listed'
  BY <1>1 DEF CorpusInv, Placed, Listed, Mine, Here, Sourced
<1>10. AdmissionIsEarned'
  <2> SUFFICES ASSUME ledger'.decision = "admitted"
               PROVE  /\ ledger'.gates = Gates /\ Cardinality(ledger'.clusters) >= MinClusters
                      /\ \A r \in ledger'.clusters : \E i \in DOMAIN Entries :
                           /\ Entries[i].cluster = r /\ Entries[i].shape = "candidate"
                           /\ {Entries[i].pre, Entries[i].post} \subseteq cache[CacheOf[r]].commits
    BY <1>1 DEF AdmissionIsEarned
  <2>1. evidence = Gates /\ Cardinality(Counted(inv.states)) >= MinClusters  BY <1>2 DEF GatesPassed
  <2>2. ledger'.gates = Gates /\ Cardinality(ledger'.clusters) >= MinClusters  BY <1>2, <2>1 DEF Counted
  <2> QED  BY <1>2, <1>4, <2>2 DEF CorpusInv, Seen
<1> QED  BY <1>7, <1>8, <1>9, <1>10 DEF CorpusInv, CorpusIsSound

LEMMA CorpusInitKeeps == ASSUME CorpusAssumption, CorpusInit PROVE CorpusInv
<1>1. hosted \in [Clusters -> SUBSET Commits]
  <2>1. \A r \in Clusters :
          UNION {{Entries[i].pre, Entries[i].post} : i \in {i \in DOMAIN Entries : Entries[i].cluster = r}} \subseteq Commits
    BY DEF Commits
  <2> QED  BY <2>1 DEF CorpusInit
<1>2. <<>> \in Seq(States) /\ Len(<<>>) = 0 /\ Candidates(<<>>) = {}  BY DEF Candidates
<1>3. CorpusTyped
  BY <1>1, <1>2 DEF CorpusInit, CorpusTyped, NoCache, NotAcquiring, NoInventory, Caching, Acquisition
<1>4. Placed /\ Listed
  BY DEF CorpusInit, Placed, Listed, NoCache, NotAcquiring, Working
<1>5. Seen /\ CorpusIsSound
  BY <1>2, EntryIs DEF CorpusInit, Seen, CorpusIsSound, SourceStays, AdmissionIsEarned, NoInventory
<1> QED  BY <1>3, <1>4, <1>5 DEF CorpusInv

\* A receipt, an inventory and an admitted ledger rest on commits that are in the cache and stay
\* there, whatever the hosts lose and whoever is killed (acquire_repository, _entry,
\* evaluate_inventory_admission).
THEOREM CorpusSound == ASSUME CorpusAssumption PROVE CorpusSpec => []CorpusIsSound
<1>1. CorpusInit => CorpusInv  BY CorpusInitKeeps
<1>2. CorpusInv /\ [CorpusNext]_corpusVars => CorpusInv'
  <2> SUFFICES ASSUME CorpusInv, [CorpusNext]_corpusVars PROVE CorpusInv'  OBVIOUS
  <2>1. CASE UNCHANGED corpusVars
    BY <2>1 DEF CorpusInv, CorpusTyped, Placed, Listed, Seen, CorpusIsSound, SourceStays, AdmissionIsEarned,
       Mine, Here, Sourced, Candidates, corpusVars, acquisition, inventory
  <2>2. CASE CorpusNext
    BY <2>2, AcquireKeeps, LookKeeps, CloneBeginsKeeps, CloneEndsKeeps, UpdateKeeps, CheckKeeps, WriteKeeps,
       KillAcquisitionKeeps, LoseKeeps, InventoryKeeps, EvaluateKeeps DEF CorpusNext
  <2> QED  BY <2>1, <2>2
<1>3. CorpusInv => CorpusIsSound  BY DEF CorpusInv
<1> QED  BY <1>1, <1>2, <1>3, PTL DEF CorpusSpec

(***************************************************************************)
(* The submission of week 1.  The inductive invariant: whoever links keeps  *)
(* on disk what it linked, and every manifest names one projection, the one *)
(* its aggregate holds for whoever loads the pair.                          *)
(***************************************************************************)
Files == Seq(DOMAIN Data)
Reads == {r \in Seq(Files) : Len(r) = 3}
Names == {"aggregate", "manifest"}

Aggregates == [by : Importers, records : {Projected(r) : r \in Reads}]
Manifests == {[by |-> p, sha |-> Projected(r), inputs |-> r] : p \in Importers, r \in Reads}

Importing == [pc : {"reading", "linking", "undoing", "ok", "refused", "killed"}, read : Seq(Files), linked : SUBSET Names]
Analysing == [pc : {"idle", "opened", "loaded", "failed", "reported"},
              aggregate : SUBSET Aggregates, manifest : SUBSET Manifests]

Week1Typed ==
  /\ submitted \in [DOMAIN Scans -> Files]
  /\ imp \in [Importers -> Importing]
  /\ disk \in [aggregate : SUBSET Aggregates, manifest : SUBSET Manifests]
  /\ ana \in [Analysts -> Analysing]

\* An importer that is past reading has read the three files, and one that is linking or
\* done has on disk what it linked, the aggregate first.
Imported(p) ==
  /\ Len(imp[p].read) <= 3
  /\ imp[p].pc # "reading" => Len(imp[p].read) = 3
  /\ imp[p].linked \in {{}, {"aggregate"}, Names}
  /\ imp[p].pc = "reading" => imp[p].linked = {}
  /\ imp[p].pc = "ok" => imp[p].linked = Names
  /\ imp[p].pc \in {"linking", "ok"} => \A n \in imp[p].linked : disk[n] = {File(p, n)}

\* What an analyst loaded is the one projection of the inputs its manifest names.
Loaded(q) ==
  /\ ana[q].pc \in {"opened", "loaded"} => ana[q].aggregate # {}
  /\ ana[q].pc = "loaded" => \A a \in ana[q].aggregate, m \in ana[q].manifest : a.records = m.sha

Week1Inv ==
  /\ Week1Typed /\ ReportAccounts
  /\ \A p \in Importers : Imported(p)
  /\ \A q \in Analysts : Loaded(q)

-----------------------------------------------------------------------------
(* The projection and the groups of a submission.                           *)

\* Every finding is the one its source names, so that findings of one source are one.
FindingSet == {Finding(t, f, n) : t \in DOMAIN Scans, f \in Files, n \in Nat}

LEMMA ProjectedIs ==
  ASSUME Week1Assumption, NEW read \in Reads
  PROVE  Projected(read) \in Seq(FindingSet)
<1>1. \A t \in DOMAIN Scans : \A f \in Files : Records(t, f) \in Seq(FindingSet)
  <2> SUFFICES ASSUME NEW t \in DOMAIN Scans, NEW f \in Files PROVE Records(t, f) \in Seq(FindingSet)
    OBVIOUS
  <2>1. Len(f) \in Nat /\ DOMAIN f = 1..Len(f)  BY DEF Files
  <2>2. \A n \in 1..Len(f) : Finding(t, f, n) \in FindingSet  BY <2>1 DEF FindingSet
  <2>3. Records(t, f) \in [1..Len(f) -> FindingSet]  BY <2>1, <2>2 DEF Records
  <2> QED  BY <2>1, <2>3
<1>2. read[1] \in Files /\ read[2] \in Files /\ read[3] \in Files  BY DEF Reads
<1>3. Tools[1] \in DOMAIN Scans /\ Tools[2] \in DOMAIN Scans /\ Tools[3] \in DOMAIN Scans
  BY DEF Week1Assumption, Tools
<1>4. /\ Records(Tools[1], read[1]) \in Seq(FindingSet) /\ Records(Tools[2], read[2]) \in Seq(FindingSet)
      /\ Records(Tools[3], read[3]) \in Seq(FindingSet)
  BY <1>1, <1>2, <1>3
<1> QED  BY <1>4, ConcatProperties DEF Projected

LEMMA SourceNames ==
  ASSUME NEW r \in FindingSet, NEW s \in FindingSet, r.source = s.source
  PROVE  r = s
<1>1. PICK t \in DOMAIN Scans, f \in Files, n \in Nat : r = Finding(t, f, n)  BY DEF FindingSet
<1>2. PICK u \in DOMAIN Scans, g \in Files, k \in Nat : s = Finding(u, g, k)  BY DEF FindingSet
<1>3. r.source = <<t, f, n>> /\ s.source = <<u, g, k>>  BY <1>1, <1>2 DEF Finding
<1>4. <<t, f, n>> = <<u, g, k>>  BY <1>3
<1>5. t = u /\ f = g /\ n = k  BY <1>4
<1> QED  BY <1>1, <1>2, <1>5

\* One line per class of findings that differ in nothing but their source.
LEMMA GroupsAccount ==
  ASSUME NEW all \in Seq(FindingSet)
  PROVE  /\ \A i \in DOMAIN all : Cardinality({l \in Groups(all) : all[i].source \in l.sources}) = 1
         /\ \A l \in Groups(all) : \A s \in l.sources : \E i \in DOMAIN all :
              /\ all[i].source = s
              /\ all[i].facts = l.finding.facts /\ all[i].location = l.finding.location
<1>1. Len(all) \in Nat /\ DOMAIN all = 1..Len(all) /\ \A i \in DOMAIN all : all[i] \in FindingSet  OBVIOUS
<1> DEFINE line(i) == [finding |-> all[i],
                       sources |-> {all[j].source : j \in {k \in DOMAIN all : SameKey(all[i], all[k])}}]
           first(i) == \A j \in 1..(i - 1) : ~ SameKey(all[j], all[i])
<1>2. Groups(all) = {line(i) : i \in {k \in DOMAIN all : first(k)}}  BY DEF Groups
<1>3. ASSUME NEW i \in DOMAIN all
      PROVE  Cardinality({l \in Groups(all) : all[i].source \in l.sources}) = 1
  <2> DEFINE K == {k \in DOMAIN all : SameKey(all[k], all[i])}
             R == OpToRel(<, Nat)
  <2>1. i \in K /\ K \subseteq Nat  BY <1>1 DEF SameKey
  <2>2. PICK k \in K : \A j \in K : <<j, k>> \notin R  BY <2>1, WFMin, NatLessThanWellFounded
  <2>3. \A j \in K : ~ (j < k)  BY <2>1, <2>2 DEF OpToRel
  <2>4. first(k)
    <3> SUFFICES ASSUME NEW j \in 1..(k - 1), SameKey(all[j], all[k]) PROVE FALSE  OBVIOUS
    <3>1. j \in DOMAIN all /\ j < k  BY <1>1, <2>1
    <3>2. SameKey(all[j], all[i])  BY <2>2 DEF SameKey
    <3> QED  BY <2>3, <3>1, <3>2
  <2>5. line(k) \in Groups(all) /\ all[i].source \in line(k).sources
    BY <1>2, <2>2, <2>4 DEF SameKey
  <2>6. ASSUME NEW l \in Groups(all), all[i].source \in l.sources PROVE l = line(k)
    <3>1. PICK m \in DOMAIN all : first(m) /\ l = line(m)  BY <1>2
    <3>2. PICK j \in DOMAIN all : SameKey(all[m], all[j]) /\ all[j].source = all[i].source
      BY <2>6, <3>1
    <3>3. all[j] = all[i]  BY <1>1, <3>2, SourceNames
    <3>4. SameKey(all[m], all[k]) /\ SameKey(all[k], all[m])  BY <2>2, <3>2, <3>3 DEF SameKey
    <3>5. ~ (m < k) /\ ~ (k < m)
      <4>1. m \in Nat /\ k \in Nat /\ (m < k => m \in 1..(k - 1)) /\ (k < m => k \in 1..(m - 1))
        BY <1>1, <2>1
      <4> QED  BY <2>4, <3>1, <3>4, <4>1
    <3>6. m = k  BY <1>1, <2>1, <3>5
    <3> QED  BY <3>1, <3>6
  <2> DEFINE ln == line(k)
  <2>7. ln \in Groups(all) /\ all[i].source \in ln.sources  BY <2>5
  <2>8. \A l \in Groups(all) : all[i].source \in l.sources => l = ln  BY <2>6
  <2> HIDE DEF ln
  <2>9. {l \in Groups(all) : all[i].source \in l.sources} = {ln}  BY <2>7, <2>8
  <2> QED  BY <2>9, FS_Singleton
<1>4. ASSUME NEW l \in Groups(all), NEW s \in l.sources
      PROVE  \E i \in DOMAIN all :
               /\ all[i].source = s
               /\ all[i].facts = l.finding.facts /\ all[i].location = l.finding.location
  <2>1. PICK m \in DOMAIN all : l = line(m)  BY <1>2
  <2>2. PICK j \in DOMAIN all : SameKey(all[m], all[j]) /\ all[j].source = s  BY <2>1
  <2> QED  BY <2>1, <2>2 DEF SameKey
<1> QED  BY <1>3, <1>4

-----------------------------------------------------------------------------
(* The importers and the analysis.                                          *)

LEMMA FileIs ==
  ASSUME NEW p \in Importers, imp[p].read \in Reads
  PROVE  File(p, "aggregate") \in Aggregates /\ File(p, "manifest") \in Manifests
BY DEF File, Aggregates, Manifests

LEMMA ReadIs ==
  ASSUME Week1Inv, NEW p \in Importers, imp[p].pc # "reading"
  PROVE  imp[p].read \in Reads
BY DEF Week1Inv, Week1Typed, Imported, Importing, Reads

\* A step of one importer that leaves the disk and the analysts alone.
LEMMA ImporterStep ==
  ASSUME Week1Inv, NEW p \in Importers, NEW r \in Importing, imp' = [imp EXCEPT ![p] = r],
         UNCHANGED <<submitted, disk, ana, report>>, Imported(p)'
  PROVE  Week1Inv'
<1>1. imp' \in [Importers -> Importing] /\ \A o \in Importers \ {p} : imp'[o] = imp[o]
  BY DEF Week1Inv, Week1Typed
<1>2. Week1Typed'  BY <1>1 DEF Week1Inv, Week1Typed
<1>3. \A o \in Importers : Imported(o)'
  <2> SUFFICES ASSUME NEW o \in Importers, o # p PROVE Imported(o)'  OBVIOUS
  <2>1. imp'[o] = imp[o] /\ Imported(o)  BY <1>1 DEF Week1Inv
  <2> QED  BY <2>1 DEF Imported, File
<1>4. ReportAccounts' /\ \A q \in Analysts : Loaded(q)'  BY DEF Week1Inv, ReportAccounts, Loaded
<1> QED  BY <1>2, <1>3, <1>4 DEF Week1Inv

LEMMA ReadKeeps == ASSUME Week1Assumption, Week1Inv, NEW p \in Importers, Read(p) PROVE Week1Inv'
<1>1. imp[p] \in Importing /\ Imported(p) /\ submitted \in [DOMAIN Scans -> Files]
  BY DEF Week1Inv, Week1Typed
<1>2. imp[p].pc = "reading" /\ Len(imp[p].read) < 3 /\ Len(imp[p].read) \in Nat /\ imp[p].read \in Seq(Files)
  BY <1>1 DEF Read, Tools, Importing
<1> DEFINE file == submitted[Tools[Len(imp[p].read) + 1]]
           r == [imp[p] EXCEPT !.read = Append(@, file)]
<1>3. Len(imp[p].read) + 1 \in 1..3  BY <1>2
<1>4. file \in Files  BY <1>1, <1>3 DEF Week1Assumption, Tools
<1>5. imp' = [imp EXCEPT ![p] = r]  BY DEF Read
<1> HIDE DEF file
<1>6. Append(imp[p].read, file) \in Seq(Files) /\ Len(Append(imp[p].read, file)) = Len(imp[p].read) + 1
  BY <1>2, <1>4, AppendProperties
<1> DEFINE more == Append(imp[p].read, file)
<1>7. more \in Seq(Files) /\ Len(more) <= 3  BY <1>2, <1>6
<1> HIDE DEF more
<1>8. r = [imp[p] EXCEPT !.read = more]  BY DEF more
<1>9. r \in Importing /\ r.pc = "reading" /\ r.read = more /\ r.linked = imp[p].linked
  BY <1>1, <1>2, <1>7, <1>8 DEF Importing
<1> HIDE DEF r
<1>10. imp'[p] = r  BY <1>5 DEF Week1Inv, Week1Typed
<1>11. Imported(p)'  BY <1>1, <1>2, <1>7, <1>9, <1>10 DEF Imported
<1> QED  BY <1>5, <1>9, <1>11, ImporterStep DEF Read

LEMMA NormalizeKeeps == ASSUME Week1Inv, NEW p \in Importers, Normalize(p) PROVE Week1Inv'
<1>1. imp[p] \in Importing /\ Imported(p)  BY DEF Week1Inv, Week1Typed
<1>2. PICK end \in {"linking", "refused"} : imp' = [imp EXCEPT ![p] = [imp[p] EXCEPT !.pc = end]]
  BY DEF Normalize
<1> DEFINE r == [imp[p] EXCEPT !.pc = end]
<1>3. r \in Importing /\ r.pc = end /\ r.read = imp[p].read /\ r.linked = imp[p].linked
  BY <1>1 DEF Importing
<1>4. imp' = [imp EXCEPT ![p] = r]  BY <1>2
<1> HIDE DEF r
<1>5. imp'[p] = r  BY <1>4 DEF Week1Inv, Week1Typed
<1>6. Imported(p)'  BY <1>1, <1>3, <1>5 DEF Imported, Normalize, Tools
<1> QED  BY <1>3, <1>4, <1>6, ImporterStep DEF Normalize

LEMMA SettleKeeps == ASSUME Week1Inv, NEW p \in Importers, Settle(p) PROVE Week1Inv'
<1>1. imp[p] \in Importing /\ Imported(p)  BY DEF Week1Inv, Week1Typed
<1>2. PICK end \in {"ok", "undoing"} : imp' = [imp EXCEPT ![p] = [imp[p] EXCEPT !.pc = end]]
  BY DEF Settle
<1>3. imp[p].pc = "linking" /\ Cardinality(imp[p].linked) = 2  BY DEF Settle, LinkOrder
<1>4. imp[p].linked = Names
  <2>1. Cardinality({}) = 0 /\ Cardinality({"aggregate"}) = 1  BY FS_EmptySet, FS_Singleton
  <2>2. imp[p].linked # {} /\ imp[p].linked # {"aggregate"}  BY <1>3, <2>1
  <2> QED  BY <1>1, <2>2 DEF Imported
<1> DEFINE r == [imp[p] EXCEPT !.pc = end]
<1>5. r \in Importing /\ r.pc = end /\ r.read = imp[p].read /\ r.linked = imp[p].linked
  BY <1>1 DEF Importing
<1>6. imp' = [imp EXCEPT ![p] = r]  BY <1>2
<1> HIDE DEF r
<1>7. imp'[p] = r  BY <1>6 DEF Week1Inv, Week1Typed
<1>8. Imported(p)'  BY <1>1, <1>3, <1>4, <1>5, <1>7 DEF Imported, Settle, File
<1> QED  BY <1>5, <1>6, <1>8, ImporterStep DEF Settle

LEMMA KillKeeps == ASSUME Week1Inv, NEW p \in Importers, KillImporter(p) PROVE Week1Inv'
<1>1. imp[p] \in Importing /\ Imported(p)  BY DEF Week1Inv, Week1Typed
<1> DEFINE r == [imp[p] EXCEPT !.pc = "killed"]
<1>2. r \in Importing /\ r.pc = "killed" /\ r.read = imp[p].read /\ r.linked = imp[p].linked
  BY <1>1 DEF Importing
<1>3. imp' = [imp EXCEPT ![p] = r]  BY DEF KillImporter
<1> HIDE DEF r
<1>4. imp'[p] = r  BY <1>3 DEF Week1Inv, Week1Typed
<1>5. Imported(p)'  BY <1>1, <1>2, <1>4 DEF Imported, KillImporter
<1> QED  BY <1>2, <1>3, <1>5, ImporterStep DEF KillImporter

LEMMA LinkKeeps == ASSUME Week1Inv, NEW p \in Importers, Link(p) PROVE Week1Inv'
<1>1. imp[p] \in Importing /\ Imported(p)  BY DEF Week1Inv, Week1Typed
<1>2. imp[p].pc = "linking" /\ imp[p].read \in Reads  BY ReadIs DEF Link
<1>3. CASE imp' = [imp EXCEPT ![p].pc = "undoing"] /\ UNCHANGED disk
  <2> DEFINE r == [imp[p] EXCEPT !.pc = "undoing"]
  <2>1. r \in Importing /\ r.pc = "undoing" /\ r.read = imp[p].read /\ r.linked = imp[p].linked
    BY <1>1 DEF Importing
  <2>2. imp' = [imp EXCEPT ![p] = r]  BY <1>3
  <2> HIDE DEF r
  <2>3. imp'[p] = r  BY <2>2 DEF Week1Inv, Week1Typed
  <2>4. Imported(p)'  BY <1>1, <1>2, <2>1, <2>3 DEF Imported
  <2> QED  BY <1>3, <2>1, <2>2, <2>4, ImporterStep DEF Link
<1>4. ASSUME NEW name \in Names, disk[name] = {}, disk' = [disk EXCEPT ![name] = {File(p, name)}],
             imp' = [imp EXCEPT ![p].linked = @ \union {name}],
             imp[p].linked = IF name = "aggregate" THEN {} ELSE {"aggregate"},
             UNCHANGED <<submitted, ana, report>>
      PROVE  Week1Inv'
  <2> DEFINE r == [imp[p] EXCEPT !.linked = @ \union {name}]
  <2>1. r \in Importing /\ r.pc = "linking" /\ r.read = imp[p].read /\ r.linked = imp[p].linked \union {name}
    BY <1>1, <1>2 DEF Importing
  <2>2. imp' = [imp EXCEPT ![p] = r]  BY <1>4
  <2> HIDE DEF r
  <2>3. imp'[p] = r /\ imp' \in [Importers -> Importing] /\ \A o \in Importers \ {p} : imp'[o] = imp[o]
    BY <2>1, <2>2 DEF Week1Inv, Week1Typed
  <2>4. disk' \in [aggregate : SUBSET Aggregates, manifest : SUBSET Manifests]
        /\ disk'[name] = {File(p, name)} /\ \A n \in Names \ {name} : disk'[n] = disk[n]
    <3>1. disk \in [aggregate : SUBSET Aggregates, manifest : SUBSET Manifests]  BY DEF Week1Inv, Week1Typed
    <3>2. File(p, "aggregate") \in Aggregates /\ File(p, "manifest") \in Manifests  BY <1>2, FileIs
    <3> QED  BY <1>4, <3>1, <3>2 DEF Names
  <2>5. Week1Typed'  BY <1>4, <2>3, <2>4 DEF Week1Inv, Week1Typed
  <2>6. Imported(p)'
    <3>1. \A n \in Names : File(p, n)' = File(p, n)  BY <2>1, <2>3 DEF File
    <3>2. r.linked \in {{"aggregate"}, Names} /\ \A n \in r.linked : n = name \/ n \in imp[p].linked
      BY <1>4, <2>1 DEF Names
    <3>3. Len(r.read) = 3 /\ r.linked \subseteq Names  BY <1>2, <2>1, <3>2 DEF Reads, Names
    <3>4. \A n \in r.linked : disk'[n] = {File(p, n)}
      BY <1>1, <1>2, <2>4, <3>2, <3>3 DEF Imported
    <3>5. imp'[p].linked = r.linked /\ imp'[p].pc = "linking" /\ imp'[p].read = r.read  BY <2>1, <2>3
    <3>6. r.linked \in {{}, {"aggregate"}, Names}  BY <3>2
    <3>7. \A n \in imp'[p].linked : disk'[n] = {File(p, n)'}  BY <3>1, <3>3, <3>4, <3>5
    <3>8. Len(imp'[p].read) = 3 /\ imp'[p].linked \in {{}, {"aggregate"}, Names}  BY <3>3, <3>5, <3>6
    <3> QED  BY <3>5, <3>7, <3>8 DEF Imported
  <2>7. \A o \in Importers \ {p} : Imported(o)'
    <3> SUFFICES ASSUME NEW o \in Importers \ {p} PROVE Imported(o)'  OBVIOUS
    <3>1. Imported(o) /\ imp'[o] = imp[o]  BY <2>3 DEF Week1Inv
    <3>2. \A n \in Names : File(o, n)' = File(o, n)  BY <3>1 DEF File
    <3>3. imp[o].pc \in {"linking", "ok"} => name \notin imp[o].linked  BY <1>4, <3>1 DEF Imported
    <3>4. imp[o].linked \subseteq Names  BY <3>1 DEF Imported, Names
    <3> QED  BY <2>4, <3>1, <3>2, <3>3, <3>4 DEF Imported
  <2>8. ReportAccounts' /\ \A q \in Analysts : Loaded(q)'  BY <1>4 DEF Week1Inv, ReportAccounts, Loaded
  <2> QED  BY <2>5, <2>6, <2>7, <2>8 DEF Week1Inv
<1>5. LinkOrder[Cardinality(imp[p].linked) + 1] \in Names
      /\ imp[p].linked = IF LinkOrder[Cardinality(imp[p].linked) + 1] = "aggregate" THEN {} ELSE {"aggregate"}
  <2>1. Cardinality({}) = 0 /\ Cardinality({"aggregate"}) = 1 /\ Cardinality(Names) = 2
    <3>1. Names = {"aggregate"} \cup {"manifest"} /\ "manifest" \notin {"aggregate"}  BY DEF Names
    <3>2. IsFiniteSet({"aggregate"}) /\ Cardinality({"aggregate"}) = 1 /\ Cardinality({}) = 0
      BY FS_EmptySet, FS_Singleton
    <3>3. Cardinality(Names) = 1 + 1  BY <3>1, <3>2, FS_AddElement
    <3> QED  BY <3>2, <3>3
  <2>2. Cardinality(imp[p].linked) < 2  BY DEF Link, LinkOrder
  <2>3. CASE imp[p].linked = {}  BY <2>1, <2>3 DEF LinkOrder, Names
  <2>4. CASE imp[p].linked = {"aggregate"}  BY <2>1, <2>4 DEF LinkOrder, Names
  <2> QED  BY <1>1, <2>1, <2>2, <2>3, <2>4 DEF Imported
<1> QED  BY <1>3, <1>4, <1>5 DEF Link

\* What an importer undoes is its own: what another linked names that one.
LEMMA UndoKeeps == ASSUME Week1Inv, NEW p \in Importers, Undo(p) PROVE Week1Inv'
<1>1. imp[p] \in Importing /\ Imported(p) /\ imp[p].pc = "undoing"  BY DEF Week1Inv, Week1Typed, Undo
<1>2. CASE imp' = [imp EXCEPT ![p].pc = "refused", ![p].linked = {}] /\ UNCHANGED disk
  <2> DEFINE r == [imp[p] EXCEPT !.pc = "refused", !.linked = {}]
  <2>1. r \in Importing /\ r.pc = "refused" /\ r.read = imp[p].read /\ r.linked = {}
    BY <1>1 DEF Importing
  <2>2. imp' = [imp EXCEPT ![p] = r]  BY <1>2
  <2> HIDE DEF r
  <2>3. imp'[p] = r  BY <2>2 DEF Week1Inv, Week1Typed
  <2>4. Imported(p)'  BY <1>1, <2>1, <2>3 DEF Imported
  <2> QED  BY <1>2, <2>1, <2>2, <2>4, ImporterStep DEF Undo
<1>3. ASSUME NEW name \in Left(p), disk' = [disk EXCEPT ![name] = {}], UNCHANGED imp,
             UNCHANGED <<submitted, ana, report>>
      PROVE  Week1Inv'
  <2>1. disk \in [aggregate : SUBSET Aggregates, manifest : SUBSET Manifests]  BY DEF Week1Inv, Week1Typed
  <2>2. name \in Names /\ \A f \in disk[name] : f.by = p  BY <2>1 DEF Left, Ours, Names
  <2>3. disk' \in [aggregate : SUBSET Aggregates, manifest : SUBSET Manifests]
        /\ \A n \in Names \ {name} : disk'[n] = disk[n]
    BY <1>3, <2>1, <2>2
  <2>4. Week1Typed'  BY <1>3, <2>3 DEF Week1Inv, Week1Typed
  <2>5. ASSUME NEW o \in Importers PROVE Imported(o)'
    <3>1. Imported(o)  BY DEF Week1Inv
    <3>2. \A n \in Names : File(o, n)' = File(o, n) /\ File(o, n).by = o  BY <1>3 DEF File
    <3>3. imp[o].pc \in {"linking", "ok"} => name \notin imp[o].linked
      BY <1>1, <2>2, <3>1, <3>2 DEF Imported
    <3>4. imp'[o] = imp[o] /\ imp[o].linked \subseteq Names  BY <1>3, <3>1 DEF Imported, Names
    <3> QED  BY <2>3, <3>1, <3>2, <3>3, <3>4 DEF Imported
  <2>6. ReportAccounts' /\ \A q \in Analysts : Loaded(q)'  BY <1>3 DEF Week1Inv, ReportAccounts, Loaded
  <2> QED  BY <2>4, <2>5, <2>6 DEF Week1Inv
<1> QED  BY <1>2, <1>3 DEF Undo

LEMMA RewriteKeeps ==
  ASSUME Week1Assumption, Week1Inv, NEW t \in DOMAIN submitted, Rewrite(t) PROVE Week1Inv'
<1>1. submitted' \in [DOMAIN Scans -> Files]
  BY DEF Rewrite, Week1Inv, Week1Typed, Week1Assumption, Files
<1>2. Week1Typed' /\ ReportAccounts' /\ \A q \in Analysts : Loaded(q)'
  BY <1>1 DEF Rewrite, Week1Inv, Week1Typed, ReportAccounts, Loaded
<1>3. \A p \in Importers : Imported(p)'  BY DEF Rewrite, Week1Inv, Imported, File
<1> QED  BY <1>2, <1>3 DEF Week1Inv

\* A step of one analyst that publishes nothing.
LEMMA AnalystStep ==
  ASSUME Week1Inv, NEW q \in Analysts, NEW r \in Analysing, ana' = [ana EXCEPT ![q] = r],
         UNCHANGED <<submitted, disk, imp>>, Loaded(q)', ReportAccounts'
  PROVE  Week1Inv'
<1>1. ana' \in [Analysts -> Analysing] /\ \A o \in Analysts \ {q} : ana'[o] = ana[o]
  BY DEF Week1Inv, Week1Typed
<1>2. Week1Typed'  BY <1>1 DEF Week1Inv, Week1Typed
<1>3. \A o \in Analysts : Loaded(o)'  BY <1>1 DEF Week1Inv, Loaded
<1>4. \A p \in Importers : Imported(p)'  BY DEF Week1Inv, Imported, File
<1> QED  BY <1>2, <1>3, <1>4 DEF Week1Inv

LEMMA ReadAggregateKeeps == ASSUME Week1Inv, NEW q \in Analysts, ReadAggregate(q) PROVE Week1Inv'
<1> DEFINE r == [ana[q] EXCEPT !.pc = IF disk.aggregate = {} THEN "failed" ELSE "opened",
                               !.aggregate = disk.aggregate]
<1>1. ana' = [ana EXCEPT ![q] = r]  BY DEF ReadAggregate
<1>2. r \in Analysing /\ (r.pc = "failed" \/ (r.pc = "opened" /\ r.aggregate # {}))
  BY DEF Week1Inv, Week1Typed, Analysing
<1> HIDE DEF r
<1>3. ana'[q] = r  BY <1>1 DEF Week1Inv, Week1Typed
<1>4. Loaded(q)'  BY <1>2, <1>3 DEF Loaded
<1>5. ReportAccounts'  BY DEF ReadAggregate, Week1Inv, ReportAccounts
<1> QED  BY <1>1, <1>2, <1>4, <1>5, AnalystStep DEF ReadAggregate

LEMMA ReadManifestKeeps == ASSUME Week1Inv, NEW q \in Analysts, ReadManifest(q) PROVE Week1Inv'
<1> DEFINE ok == disk.manifest # {} /\ \A a \in ana[q].aggregate, m \in disk.manifest : Loads(a, m)
           r == [ana[q] EXCEPT !.pc = IF ok THEN "loaded" ELSE "failed", !.manifest = disk.manifest]
<1>1. ana' = [ana EXCEPT ![q] = r]  BY DEF ReadManifest
<1>2. ana[q] \in Analysing /\ disk.manifest \subseteq Manifests /\ ana[q].aggregate # {}
  BY DEF Week1Inv, Week1Typed, ReadManifest, Loaded
<1>3. /\ r \in Analysing /\ r.aggregate = ana[q].aggregate /\ r.manifest = disk.manifest
      /\ r.pc = "failed" \/ (r.pc = "loaded" /\ ok)
  BY <1>2 DEF Analysing
<1>4. ok => \A a \in ana[q].aggregate, m \in disk.manifest : a.records = m.sha  BY DEF Loads
<1> HIDE DEF r, ok
<1>5. ana'[q] = r  BY <1>1 DEF Week1Inv, Week1Typed
<1>6. Loaded(q)'  BY <1>2, <1>3, <1>4, <1>5 DEF Loaded
<1>7. ReportAccounts'  BY DEF ReadManifest, Week1Inv, ReportAccounts
<1> QED  BY <1>1, <1>3, <1>6, <1>7, AnalystStep DEF ReadManifest

\* The lines published are the groups of the one projection the analyst loaded.
LEMMA AnalyzeKeeps == ASSUME Week1Assumption, Week1Inv, NEW q \in Analysts, Analyze(q) PROVE Week1Inv'
<1> DEFINE lines == UNION {Groups(a.records) : a \in ana[q].aggregate}
<1>1. ana[q] \in Analysing /\ Loaded(q) /\ ana[q].pc = "loaded"  BY DEF Week1Inv, Week1Typed, Analyze
<1>2. PICK end \in {"reported", "failed"} : ana' = [ana EXCEPT ![q] = [ana[q] EXCEPT !.pc = end]]
  BY DEF Analyze, Publish
<1> DEFINE r == [ana[q] EXCEPT !.pc = end]
<1>3. r \in Analysing /\ r.pc = end  BY <1>1 DEF Analysing
<1>4. ana' = [ana EXCEPT ![q] = r]  BY <1>2
<1> HIDE DEF r
<1>5. ana'[q] = r  BY <1>4 DEF Week1Inv, Week1Typed
<1>6. Loaded(q)'  BY <1>3, <1>5 DEF Loaded
<1>7. ReportAccounts'
  <2>1. CASE UNCHANGED report  BY <2>1 DEF Week1Inv, ReportAccounts
  <2>2. CASE report' = {[lines |-> lines, inputs |-> m.inputs] : m \in ana[q].manifest}
    <3> SUFFICES ASSUME NEW m \in ana[q].manifest PROVE AccountsFor([lines |-> lines, inputs |-> m.inputs])
      BY <2>2 DEF ReportAccounts
    <3>1. m.inputs \in Reads /\ m.sha = Projected(m.inputs)  BY <1>1 DEF Analysing, Manifests
    <3>2. ana[q].aggregate # {} /\ \A a \in ana[q].aggregate : a.records = Projected(m.inputs)
      BY <1>1, <3>1 DEF Loaded
    <3>3. lines = Groups(Projected(m.inputs))  BY <3>2
    <3>4. Projected(m.inputs) \in Seq(FindingSet)  BY <3>1, ProjectedIs
    <3> HIDE DEF lines
    <3> QED  BY <3>3, <3>4, GroupsAccount DEF AccountsFor
  <2> QED  BY <2>1, <2>2 DEF Analyze, Publish
<1> QED  BY <1>3, <1>4, <1>6, <1>7, AnalystStep DEF Analyze

LEMMA Week1InitOk == ASSUME Week1Assumption, Week1Init PROVE Week1Inv
<1>1. submitted \in [DOMAIN Scans -> Files]
  <2>1. {Tools[i] : i \in DOMAIN Tools} = DOMAIN Scans  BY DEF Tools, Week1Assumption
  <2> QED  BY <2>1 DEF Week1Init, Week1Assumption, Files
<1>2. <<>> \in Seq(Files) /\ Len(<<>>) = 0  OBVIOUS
<1>3. Week1Typed  BY <1>1, <1>2 DEF Week1Init, Week1Typed, Importing, Analysing, Names
<1>4. \A p \in Importers : Imported(p)  BY <1>2 DEF Week1Init, Imported
<1> QED  BY <1>3, <1>4 DEF Week1Init, Week1Inv, ReportAccounts, Loaded

\* A report accounts for every datum of the files its manifest names, and an import that answered
\* ok keeps both files (_groups, load_aggregate, _publish_pair_exclusive).
THEOREM SubmissionKept == ASSUME Week1Assumption PROVE Week1Spec => []SubmissionIsKept
<1>1. Week1Init => Week1Inv  BY Week1InitOk
<1>2. Week1Inv /\ [Week1Next]_week1Vars => Week1Inv'
  <2> SUFFICES ASSUME Week1Inv, [Week1Next]_week1Vars PROVE Week1Inv'  OBVIOUS
  <2>1. CASE UNCHANGED week1Vars
    BY <2>1 DEF Week1Inv, Week1Typed, Imported, File, ReportAccounts, Loaded, week1Vars
  <2>2. CASE Week1Next
    BY <2>2, ReadKeeps, NormalizeKeeps, LinkKeeps, SettleKeeps, UndoKeeps, KillKeeps, RewriteKeeps,
       ReadAggregateKeeps, ReadManifestKeeps, AnalyzeKeeps DEF Week1Next
  <2> QED  BY <2>1, <2>2
<1>3. Week1Inv => SubmissionIsKept
  BY DEF Week1Inv, SubmissionIsKept, ImportedStays, Imported, Names
<1> QED  BY <1>1, <1>2, <1>3, PTL DEF Week1Spec
=============================================================================
