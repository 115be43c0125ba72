-------------------------------- MODULE B3Arm --------------------------------
(***************************************************************************)
(* run_b3_consensus (workbench/ai_arm.py) over B3Attempts: each process    *)
(* works through every unit of every reading, in order, gives the run up   *)
(* at the first dispatch that is refused, and ranks what at least two      *)
(* readings propose.                                                       *)
(***************************************************************************)
EXTENDS B3Attempts, Sequences, SequencesExt

CONSTANT Short     \* the length of the worklist, and the fewest units (12)

\* The readings are 1, 2, ..; the units are numbered in the order of their ids.
ASSUME ArmAssumption ==
  Readings = 1..Cardinality(Readings) /\ Units = 1..Cardinality(Units) /\ Short \in Nat

VARIABLES
  arm,         \* how far each process is, and the proposals it has counted
  returned     \* the consensuses that were returned

armVars == <<vars, arm, returned>>

Calls     == Cardinality(Readings) * Cardinality(Units)
KeyAt(n) == <<((n - 1) \div Cardinality(Units)) + 1, ((n - 1) % Cardinality(Units)) + 1>>
NoArm    == [next |-> 0, count |-> [u \in Units |-> 0]]

ArmTypeOK ==
  /\ TypeOK
  /\ \A d \in Dispatchers :
       /\ arm[d] \in [next: 0..(Calls + 1), count: [Units -> 0..Calls]]
       /\ arm[d].next = 0 => arm[d] = NoArm
       /\ attempt[d] # NoAttempt => KeyAt(arm[d].next) = <<attempt[d].reading, attempt[d].unit>>
  /\ \A r \in returned : r.list \in Seq(Units) /\ Len(r.list) = Short

ArmInit == Init /\ arm = [d \in Dispatchers |-> NoArm] /\ returned = {}

Begin(d) ==
  /\ At(d, "ready") /\ arm[d].next = 0
  /\ Cardinality(Units) >= Short
  /\ arm' = [arm EXCEPT ![d].next = 1]
  /\ UNCHANGED <<vars, returned>>

InRun(d) == At(d, "ready") /\ arm[d].next \in 1..Calls

ReserveNext(d) ==
  /\ InRun(d)
  /\ Reserve(d, KeyAt(arm[d].next))
  /\ UNCHANGED <<arm, returned>>

\* Seeded fault: a refused dispatch is skipped.
AfterRefusalNext(d) == [arm EXCEPT ![d].next = @ + 1]
\* A refused dispatch fails the whole run.
AfterRefusal(d) == [arm EXCEPT ![d] = NoArm]

\* The health check says no, or the key is taken.
RefuseNext(d) ==
  /\ InRun(d)
  /\ arm' = AfterRefusal(d)
  /\ UNCHANGED <<vars, returned>>

\* A step within dispatch; it is over when the dispatcher is ready again.
Dispatch(d) ==
  /\ Prepare(d) \/ MarkDispatched(d) \/ MarkUnknown(d) \/ Call(d)
  /\ arm' = IF pc'[d] = "ready" THEN AfterRefusal(d) ELSE arm
  /\ UNCHANGED returned

\* The receipt: its proposals are counted.
Answer(d) ==
  \E proposals \in SUBSET Units :
    /\ MarkSucceeded(d, proposals)
    /\ arm' = IF pc'[d] = "done"
              THEN [arm EXCEPT ![d].count =
                      [u \in Units |-> IF u \in proposals THEN @[u] + 1 ELSE @[u]]]
              ELSE arm
    /\ UNCHANGED returned

Advance(d) ==
  /\ At(d, "done")
  /\ GiveUp(d)
  /\ arm' = [arm EXCEPT ![d].next = @ + 1]
  /\ UNCHANGED <<table, ghosts, returned>>

Precedes(count, u, v) == count[u] > count[v] \/ (count[u] = count[v] /\ u < v)

\* What at least two readings proposed, the most often proposed first.
Ranked(count) ==
  CHOOSE list \in SetToSeqs({u \in Units : count[u] >= 2}) :
    \A i, j \in DOMAIN list : i < j => Precedes(count, list[i], list[j])

Finished(d) == arm[d].next = Calls + 1

\* A short list is no result.
Return(d) ==
  /\ At(d, "ready") /\ Finished(d)
  /\ LET ranked == Ranked(arm[d].count)
     IN returned' = IF Len(ranked) < Short THEN returned
                    ELSE returned \cup {[list |-> SubSeq(ranked, 1, Short), count |-> arm[d].count]}
  /\ arm' = [arm EXCEPT ![d] = NoArm]
  /\ UNCHANGED vars

Store(d) == (Open(d) \/ Migrate(d) \/ Recover(d)) /\ UNCHANGED <<arm, returned>>
Killed(d) == Kill(d) /\ arm' = [arm EXCEPT ![d] = NoArm] /\ UNCHANGED returned
Withdraw == ~ revoked /\ Revoke /\ UNCHANGED <<arm, returned>>

ArmNext ==
  \/ Withdraw
  \/ \E d \in Dispatchers :
       \/ Store(d) \/ Begin(d) \/ ReserveNext(d) \/ RefuseNext(d) \/ Dispatch(d)
       \/ Answer(d) \/ Advance(d) \/ Return(d) \/ Killed(d)

ArmSpec == ArmInit /\ [][ArmNext]_armVars

-----------------------------------------------------------------------------
(* Properties.                                                             *)

Proposing(u) == {a \in answers : u \in a.units}

\* A consensus is one process's uninterrupted work: each unit of each reading was
\* answered, once, and the counts are those of these answers - never a mixture of a
\* failed try and the next one, or of two processes.  The list holds the units proposed
\* most often, twice at least, and of equals the first (run_b3_consensus).
ConsensusIsEarned ==
  \A r \in returned :
    /\ {a.key : a \in answers} = Keys
    /\ ~ remigrated => /\ Cardinality(answers) = Cardinality(Keys)
                       /\ \A u \in Units : r.count[u] = Cardinality(Proposing(u))
    /\ \A i \in DOMAIN r.list :
         /\ r.count[r.list[i]] >= 2
         /\ \A u \in Units \ Range(r.list) :
              \/ r.count[u] < r.count[r.list[i]]
              \/ r.count[u] = r.count[r.list[i]] /\ r.list[i] < u
==============================================================================
