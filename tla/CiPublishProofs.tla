--------------------------- MODULE CiPublishProofs ---------------------------
(* Theorems about the CI publication, for any number of publishers that     *)
(* come one after the other.                                                *)
EXTENDS CiPublish, FiniteSetTheorems, TLAPS

(***************************************************************************)
(* The inductive invariant: one publisher is inside, the files are in one  *)
(* of the recoverable states at every moment, and the publisher's place    *)
(* says which: what it checked before it acts is still so.                 *)
(***************************************************************************)
Alone == \A p, q \in Publishers : pc[p] \in Inside /\ pc[q] \in Inside => p = q

Files == <<manifest, candidate, binding>>

PlaceInv(p) ==
  /\ At(p, "planning") => Files = <<"unpublished", FALSE, FALSE>>
  /\ At(p, "reading") => manifest \in States
  /\ At(p, "candidate-planned") => manifest = "candidate-planned"
  /\ At(p, "creating candidate") => Files = <<"candidate-planned", FALSE, FALSE>>
  /\ pc[p] \in {"marking candidate", "writing candidate mark"} =>
       Files = <<"candidate-planned", TRUE, FALSE>>
  /\ At(p, "candidate-created") => manifest = "candidate-created"
  /\ At(p, "creating binding") => Files = <<"candidate-created", TRUE, FALSE>>
  /\ pc[p] \in {"marking binding", "writing binding mark"} =>
       Files = <<"candidate-created", TRUE, TRUE>>
  /\ At(p, "binding-created") => manifest = "binding-created"
  /\ At(p, "confirming") => manifest = "final"

IInv ==
  /\ TypeOK /\ Alone
  /\ Files \in Recoverable
  /\ \A p \in Publishers : PlaceInv(p)

\* Which files go with which state of the manifest.
LEMMA RecoverableFiles ==
  ASSUME Files \in Recoverable
  PROVE  /\ manifest = "unpublished" => ~ candidate /\ ~ binding
         /\ manifest = "candidate-planned" => ~ binding
         /\ manifest = "candidate-created" => candidate
         /\ manifest = "binding-created" => candidate /\ binding
         /\ manifest = "final" => ~ candidate /\ binding
BY DEF Files, Recoverable

\* A publisher outside does not constrain the files.
LEMMA OutsidePlace ==
  ASSUME NEW p \in Publishers, pc[p] \in Outside
  PROVE  PlaceInv(p)
BY DEF PlaceInv, Outside, At

\* A step of the one publisher that is inside, or of one that comes in.
LEMMA OneMoves ==
  ASSUME IInv, NEW p \in Publishers, NEW place \in Outside \cup Inside, Goto(p, place),
         \A q \in Publishers \ {p} : pc[q] \notin Inside,
         TypeOK', Files' \in Recoverable, PlaceInv(p)'
  PROVE  IInv'
<1>1. \A q \in Publishers \ {p} : pc'[q] = pc[q] /\ pc[q] \in Outside
  BY DEF IInv, TypeOK, Goto
<1>2. Alone'
  BY <1>1 DEF Alone, Outside, Inside
<1>3. \A q \in Publishers \ {p} : PlaceInv(q)'
  BY <1>1 DEF PlaceInv, Outside, At
<1>4. (Files \in Recoverable)'
  BY DEF Recoverable
<1> QED
  BY <1>2, <1>3, <1>4 DEF IInv

LEMMA PlaceType ==
  ASSUME TypeOK, NEW p \in Publishers, NEW place \in Outside \cup Inside, Goto(p, place)
  PROVE  pc' \in [Publishers -> Outside \cup Inside] /\ pc'[p] = place
BY DEF TypeOK, Goto

LEMMA StartInv == ASSUME Together = 1, IInv, NEW p \in Publishers, Start(p) PROVE IInv'
<1> DEFINE In == {q \in Publishers : pc[q] \in Inside}
<1>1. In = {}
  <2>1. IsFiniteSet(In)
    BY PublisherAssumption, FS_Subset
  <2>2. Cardinality(In) \in Nat /\ Cardinality(In) < 1
    BY <2>1, FS_CardinalityType DEF Start
  <2> QED
    BY <2>1, <2>2, FS_EmptySet
<1>2. Entry \in Outside \cup Inside /\ Goto(p, Entry) /\ UNCHANGED <<manifest, candidate, binding>>
  BY DEF Start, Entry, Outside, Inside
<1>3. pc' \in [Publishers -> Outside \cup Inside] /\ pc'[p] = Entry
  BY <1>2, PlaceType DEF IInv
<1>4. TypeOK' /\ Files' \in Recoverable
  BY <1>2, <1>3 DEF IInv, TypeOK, Files
<1>5. PlaceInv(p)'
  <2>1. CASE manifest = "final"
    BY <1>2, <1>3, <2>1 DEF PlaceInv, At, Entry
  <2>2. CASE manifest = "unpublished"
    BY <1>2, <1>3, <2>2, RecoverableFiles DEF PlaceInv, At, Entry, IInv, TypeOK, Files
  <2>3. CASE manifest \in States
    BY <1>2, <1>3, <2>3 DEF PlaceInv, At, Entry, States
  <2> QED
    BY <2>1, <2>2, <2>3 DEF IInv, TypeOK
<1> QED
  BY <1>1, <1>2, <1>4, <1>5, OneMoves

\* The publisher that is inside is the only one.
LEMMA InsideAlone ==
  ASSUME IInv, NEW p \in Publishers, pc[p] \in Inside
  PROVE  \A q \in Publishers \ {p} : pc[q] \notin Inside
BY DEF IInv, Alone

\* A step that only looks at the files.
LEMMA LooksInv ==
  ASSUME IInv, NEW p \in Publishers, pc[p] \in Inside, NEW place \in Outside \cup Inside,
         Goto(p, place), UNCHANGED <<manifest, candidate, binding>>,
         pc'[p] = place => PlaceInv(p)'
  PROVE  IInv'
<1>1. pc' \in [Publishers -> Outside \cup Inside] /\ pc'[p] = place
  BY PlaceType DEF IInv
<1>2. TypeOK' /\ Files' \in Recoverable
  BY <1>1 DEF IInv, TypeOK, Files
<1> QED
  BY <1>1, <1>2, InsideAlone, OneMoves

\* A step that changes the files.
LEMMA WritesInv ==
  ASSUME IInv, NEW p \in Publishers, pc[p] \in Inside, NEW place \in Outside \cup Inside,
         Goto(p, place), Files' \in Recoverable,
         pc'[p] = place => PlaceInv(p)'
  PROVE  IInv'
<1>1. pc' \in [Publishers -> Outside \cup Inside] /\ pc'[p] = place
  BY PlaceType DEF IInv
<1>2. TypeOK'
  BY <1>1 DEF TypeOK, Files, Recoverable, States
<1> QED
  BY <1>1, <1>2, InsideAlone, OneMoves

LEMMA StepInv == ASSUME IInv, NEW p \in Publishers, Step(p) PROVE IInv'
<1>0. TypeOK /\ PlaceInv(p) /\ Files \in Recoverable
  BY DEF IInv
<1>1. CASE Plan(p)
  <2>1. Files = <<"unpublished", FALSE, FALSE>>
    BY <1>0, <1>1 DEF Plan, PlaceInv
  <2>2. Files' = <<"candidate-planned", FALSE, FALSE>>
    BY <1>1, <2>1 DEF Plan, Files
  <2>3. Files' \in Recoverable
    BY <2>2 DEF Recoverable
  <2>4. pc'[p] = "reading" => PlaceInv(p)'
    BY <2>2 DEF PlaceInv, At, Files, States
  <2> QED
    BY <1>1, <2>3, <2>4, WritesInv DEF Plan, At, Inside
<1>2. CASE ReadState(p)
  <2>1. manifest \in States
    BY <1>0, <1>2 DEF ReadState, PlaceInv
  <2>2. pc'[p] = manifest => PlaceInv(p)'
    BY <1>2, <2>1 DEF ReadState, PlaceInv, At, States
  <2>3. manifest \in Outside \cup Inside
    BY <2>1 DEF States, Inside
  <2> QED
    BY <1>2, <2>1, <2>2, <2>3, LooksInv DEF ReadState, At, Inside
<1>3. CASE CheckCandidate(p)
  <2>1. manifest = "candidate-planned" /\ ~ binding
    BY <1>0, <1>3, RecoverableFiles DEF CheckCandidate, PlaceInv
  <2>2. pc'[p] = CandidateStep => PlaceInv(p)'
    BY <1>0, <1>3, <2>1 DEF CheckCandidate, CandidateStep, PlaceInv, At, Files, TypeOK
  <2>3. CandidateStep \in Outside \cup Inside
    BY DEF CandidateStep, Outside, Inside
  <2> QED
    BY <1>3, <2>2, <2>3, LooksInv DEF CheckCandidate, At, Inside
<1>4. CASE CreateCandidate(p)
  <2>1. Files = <<"candidate-planned", FALSE, FALSE>>
    BY <1>0, <1>4 DEF CreateCandidate, PlaceInv
  <2>2. Files' = <<"candidate-planned", TRUE, FALSE>> /\ Goto(p, "marking candidate")
    BY <1>4, <2>1 DEF CreateCandidate, Files
  <2>3. Files' \in Recoverable
    BY <2>2 DEF Recoverable
  <2>4. pc'[p] = "marking candidate" => PlaceInv(p)'
    BY <2>2 DEF PlaceInv, At, Files
  <2> QED
    BY <1>4, <2>2, <2>3, <2>4, WritesInv DEF CreateCandidate, At, Inside
<1>5. CASE LoadForMark(p)
  <2>1. manifest \in States
    BY <1>0, <1>5 DEF LoadForMark, PlaceInv, Files, States
  <2> DEFINE place == IF At(p, "marking candidate") THEN "writing candidate mark"
                                                    ELSE "writing binding mark"
  <2>2. Goto(p, place) /\ place \in Outside \cup Inside
    BY <1>5, <2>1 DEF LoadForMark, Inside
  <2>3. pc'[p] = place => PlaceInv(p)'
    BY <1>0, <1>5 DEF LoadForMark, PlaceInv, At, Files
  <2> HIDE DEF place
  <2> QED
    BY <1>5, <2>2, <2>3, LooksInv DEF LoadForMark, Inside
<1>6. CASE MarkCandidate(p)
  <2>1. Files = <<"candidate-planned", TRUE, FALSE>>
    BY <1>0, <1>6 DEF MarkCandidate, PlaceInv, At
  <2>2. Files' = <<"candidate-created", TRUE, FALSE>>
    BY <1>6, <2>1 DEF MarkCandidate, Mark, Files
  <2>3. Files' \in Recoverable
    BY <2>2 DEF Recoverable
  <2>4. pc'[p] = "candidate-created" => PlaceInv(p)'
    BY <2>2 DEF PlaceInv, At, Files
  <2> QED
    BY <1>6, <2>3, <2>4, WritesInv DEF MarkCandidate, At, Inside
<1>7. CASE CheckBinding(p)
  <2>1. manifest = "candidate-created" /\ candidate
    BY <1>0, <1>7, RecoverableFiles DEF CheckBinding, PlaceInv
  <2> DEFINE place == IF binding THEN "marking binding" ELSE "creating binding"
  <2>2. Goto(p, place) /\ place \in Outside \cup Inside
    BY <1>7, <2>1 DEF CheckBinding, Inside
  <2>3. pc'[p] = place => PlaceInv(p)'
    BY <1>0, <1>7, <2>1 DEF CheckBinding, PlaceInv, At, Files, TypeOK
  <2> HIDE DEF place
  <2> QED
    BY <1>7, <2>2, <2>3, LooksInv DEF CheckBinding, At, Inside
<1>8. CASE CreateBinding(p)
  <2>1. Files = <<"candidate-created", TRUE, FALSE>>
    BY <1>0, <1>8 DEF CreateBinding, PlaceInv
  <2>2. Files' = <<"candidate-created", TRUE, TRUE>> /\ Goto(p, "marking binding")
    BY <1>8, <2>1 DEF CreateBinding, Files
  <2>3. Files' \in Recoverable
    BY <2>2 DEF Recoverable
  <2>4. pc'[p] = "marking binding" => PlaceInv(p)'
    BY <2>2 DEF PlaceInv, At, Files
  <2> QED
    BY <1>8, <2>2, <2>3, <2>4, WritesInv DEF CreateBinding, At, Inside
<1>9. CASE MarkBinding(p)
  <2>1. Files = <<"candidate-created", TRUE, TRUE>>
    BY <1>0, <1>9 DEF MarkBinding, PlaceInv, At
  <2>2. Files' = <<"binding-created", TRUE, TRUE>>
    BY <1>9, <2>1 DEF MarkBinding, Mark, Files
  <2>3. Files' \in Recoverable
    BY <2>2 DEF Recoverable
  <2>4. pc'[p] = "binding-created" => PlaceInv(p)'
    BY <2>2 DEF PlaceInv, At, Files
  <2> QED
    BY <1>9, <2>3, <2>4, WritesInv DEF MarkBinding, At, Inside
<1>10. CASE Install(p)
  <2>1. candidate /\ binding
    BY <1>0, <1>10, RecoverableFiles DEF Install, PlaceInv
  <2>2. manifest' = "final" /\ candidate' = FALSE /\ binding' = binding /\ Goto(p, "confirming")
    BY <1>10, <2>1 DEF Install
  <2>3. Files' \in Recoverable
    BY <1>0, <2>1, <2>2 DEF Recoverable, Files, TypeOK
  <2>4. pc'[p] = "confirming" => PlaceInv(p)'
    BY <2>2 DEF PlaceInv, At
  <2> QED
    BY <1>10, <2>2, <2>3, <2>4, WritesInv DEF Install, At, Inside
<1>11. CASE Confirm(p)
  <2>1. pc'[p] \in Outside => PlaceInv(p)'
    BY DEF PlaceInv, At, Outside
  <2> DEFINE place == IF manifest = "final" THEN "done" ELSE "refused"
  <2>2. Goto(p, place) /\ place \in Outside
    BY <1>11 DEF Confirm, Outside
  <2> HIDE DEF place
  <2> QED
    BY <1>11, <2>1, <2>2, LooksInv DEF Confirm, At, Inside
<1> QED
  BY <1>1, <1>2, <1>3, <1>4, <1>5, <1>6, <1>7, <1>8, <1>9, <1>10, <1>11 DEF Step

LEMMA KillInv == ASSUME IInv, NEW p \in Publishers, Kill(p) PROVE IInv'
<1>1. pc'[p] = "killed" => PlaceInv(p)'
  BY DEF PlaceInv, At
<1> QED
  BY <1>1, LooksInv DEF Kill, Outside

LEMMA NextInv == Together = 1 /\ IInv /\ [Next]_vars => IInv'
<1> SUFFICES ASSUME Together = 1, IInv, [Next]_vars PROVE IInv'
  OBVIOUS
<1>1. CASE UNCHANGED vars
  BY <1>1 DEF vars, IInv, TypeOK, Alone, Files, PlaceInv, At
<1> QED
  BY <1>1, StartInv, StepInv, KillInv DEF Next

LEMMA InitInv == Init => IInv
BY DEF Init, IInv, TypeOK, Alone, Files, Recoverable, PlaceInv, At, Outside, Inside

\* One publisher at a time keeps the inductive invariant, wherever it is killed.
THEOREM Invariance == Together = 1 => (Spec => []IInv)
<1> SUFFICES ASSUME Together = 1 PROVE Spec => []IInv
  OBVIOUS
<1>1. IInv /\ [Next]_vars => IInv'
  BY NextInv
<1> QED
  BY <1>1, InitInv, PTL DEF Spec

\* Publishers that come one after the other and are killed anywhere leave one of the
\* five states of the recovery test, the run as it was before, or the final manifest
\* alone with its binding (ci_publish).
THEOREM Recovers == Together = 1 => (Spec => []FiveStates)
<1>1. IInv => FiveStates
  BY DEF IInv, FiveStates, Files
<1> QED
  BY <1>1, Invariance, PTL

\* The final manifest is not replaced by any publisher that comes later.
THEOREM FinalIsKept == Together = 1 => (Spec => FinalStays)
<1> SUFFICES ASSUME Together = 1 PROVE Spec => FinalStays
  OBVIOUS
<1>1. ASSUME IInv, [Next]_vars, manifest = "final" PROVE manifest' = "final"
  <2>1. ~ candidate
    BY <1>1, RecoverableFiles DEF IInv
  <2>2. ASSUME NEW p \in Publishers, Step(p) PROVE manifest' = "final"
    <3>1. PlaceInv(p)
      BY <1>1 DEF IInv
    <3> QED
      BY <1>1, <2>1, <2>2, <3>1 DEF Step, Plan, ReadState, CheckCandidate, CreateCandidate,
         LoadForMark, MarkCandidate, CheckBinding, CreateBinding, MarkBinding, Install, Confirm,
         PlaceInv, At, Files, States
  <2> QED
    BY <1>1, <2>2 DEF Next, Start, Kill, vars
<1>2. Spec => []IInv
  BY Invariance
<1> QED
  BY <1>1, <1>2, PTL DEF FinalStays, Spec
=============================================================================
