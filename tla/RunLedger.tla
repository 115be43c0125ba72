------------------------------ MODULE RunLedger ------------------------------
(***************************************************************************)
(* What the manifest of a run promises, whoever advances it and wherever   *)
(* they are killed: stages pass one after the other; an effect on a remote *)
(* system is announced in the manifest, in its own stage, before it        *)
(* happens, and happens at most once; a stage with an effect passes only   *)
(* after it happened; nothing happens to a run that has a verdict, except  *)
(* that a failed run whose effect did happen may be recovered.             *)
(***************************************************************************)
EXTENDS Naturals

CONSTANTS
  Last,         \* the number of stages
  Effects,      \* the remote effects
  StageOf       \* [Effects -> 1..Last]: the stage an effect belongs to

VARIABLES
  verdict,      \* none, open, or how the run ended
  stage,        \* how many stages passed
  announced,    \* effects the manifest announced
  happened      \* effects that took place

vars == <<verdict, stage, announced, happened>>

Verdicts == {"none", "open", "passed", "rejected", "failed", "recovered"}

Init ==
  /\ verdict = "none"
  /\ stage = 0
  /\ announced = {}
  /\ happened = {}

Begin ==
  /\ verdict = "none"
  /\ verdict' = "open"
  /\ UNCHANGED <<stage, announced, happened>>

Announce(e) ==
  /\ verdict = "open" /\ StageOf[e] = stage + 1
  /\ announced' = announced \cup {e}
  /\ UNCHANGED <<verdict, stage, happened>>

Happen(e) ==
  /\ verdict = "open"
  /\ e \in announced \ happened
  /\ happened' = happened \cup {e}
  /\ UNCHANGED <<verdict, stage, announced>>

Advance ==
  /\ verdict = "open" /\ stage < Last
  /\ \A e \in Effects : StageOf[e] = stage + 1 => e \in happened
  /\ stage' = stage + 1
  /\ UNCHANGED <<verdict, announced, happened>>

\* Only a run with every stage passed passes.
End(v) ==
  /\ verdict = "open" /\ v \in {"passed", "rejected", "failed"}
  /\ v = "passed" => stage = Last
  /\ verdict' = v
  /\ UNCHANGED <<stage, announced, happened>>

\* The run failed in the stage of an effect that is proven to have happened.
Recover ==
  /\ verdict = "failed"
  /\ \E e \in happened : StageOf[e] = stage + 1
  /\ verdict' = "recovered"
  /\ UNCHANGED <<stage, announced, happened>>

Next ==
  \/ Begin \/ Advance \/ Recover
  \/ \E e \in Effects : Announce(e) \/ Happen(e)
  \/ \E v \in Verdicts : End(v)

Spec == Init /\ [][Next]_vars
==============================================================================
