------------------------------ MODULE CiPublish ------------------------------
(***************************************************************************)
(* The publication of a CI run (ci_publish in scripts/sentinel-manifest.py *)
(* as resume in scripts/sentinel-demo.sh calls it).  All stages of the run *)
(* have passed and its manifest is pending.  A publisher writes the final  *)
(* manifest beside it as a candidate, then the binding of the artifacts,   *)
(* recording each in the pending manifest, and at last renames the         *)
(* candidate over the manifest.  A publisher may be killed anywhere; the   *)
(* next one goes on from what it finds.  No lock keeps a second publisher  *)
(* out of the run's directory.                                             *)
(*                                                                         *)
(* A file appears by link or by rename, so each is one action; a manifest  *)
(* is loaded in one action and replaced in a later one.                    *)
(***************************************************************************)
EXTENDS Naturals, FiniteSets

CONSTANTS
  Publishers,   \* the operator's shells, each of which may resume again and again
  Together      \* how many of them are inside ci_publish at once

ASSUME PublisherAssumption == IsFiniteSet(Publishers) /\ Together \in Nat \ {0}

VARIABLES
  manifest,     \* ci_publication.state of a pending manifest.json, or final
  candidate,    \* does manifest.final.json exist
  binding,      \* does ci-artifact-binding.json exist
  pc            \* where each publisher is

vars == <<manifest, candidate, binding, pc>>

States == {"candidate-planned", "candidate-created", "binding-created"}

\* A publisher outside has not started, has published, was refused or was killed.
Outside == {"idle", "done", "refused", "killed"}
Inside  == {"planning", "reading", "candidate-planned", "creating candidate",
            "marking candidate", "writing candidate mark", "candidate-created",
            "creating binding", "marking binding", "writing binding mark",
            "binding-created", "confirming"}

TypeOK ==
  /\ manifest \in States \cup {"unpublished", "final"}
  /\ candidate \in BOOLEAN
  /\ binding \in BOOLEAN
  /\ pc \in [Publishers -> Outside \cup Inside]

Init ==
  /\ manifest = "unpublished"
  /\ candidate = FALSE
  /\ binding = FALSE
  /\ pc = [p \in Publishers |-> "idle"]

-----------------------------------------------------------------------------

At(p, place) == pc[p] = place
Goto(p, place) == pc' = [pc EXCEPT ![p] = place]

\* Seeded fault: the status of the manifest is not looked at.
EntryUnchecked == IF manifest \in States THEN "reading" ELSE "planning"
\* authorize-resume and the first load: only a pending manifest is published, and
\* one that was planned before is not planned again.
Entry ==
  CASE manifest = "final" -> "refused"
    [] manifest = "unpublished" -> "planning"
    [] OTHER -> "reading"

Start(p) ==
  /\ pc[p] \in Outside
  /\ Cardinality({q \in Publishers : pc[q] \in Inside}) < Together
  /\ Goto(p, Entry)
  /\ UNCHANGED <<manifest, candidate, binding>>

\* The plan replaces whatever manifest there is by now.
Plan(p) ==
  /\ At(p, "planning")
  /\ manifest' = "candidate-planned"
  /\ Goto(p, "reading")
  /\ UNCHANGED <<candidate, binding>>

\* load(path)["ci_publication"]["state"]: a KeyError if it is not there any more.
ReadState(p) ==
  /\ At(p, "reading")
  /\ Goto(p, IF manifest \in States THEN manifest ELSE "refused")
  /\ UNCHANGED <<manifest, candidate, binding>>

\* Seeded fault: an existing candidate is refused instead of compared.
CandidateStepFresh == IF binding \/ candidate THEN "refused" ELSE "creating candidate"
\* Where a publisher goes from candidate-planned.
CandidateStep ==
  IF binding THEN "refused"
  ELSE IF candidate THEN "marking candidate" ELSE "creating candidate"

CheckCandidate(p) ==
  /\ At(p, "candidate-planned")
  /\ Goto(p, CandidateStep)
  /\ UNCHANGED <<manifest, candidate, binding>>

\* write_exclusive: the link fails if another publisher came first.
CreateCandidate(p) ==
  /\ At(p, "creating candidate")
  /\ candidate' = TRUE
  /\ Goto(p, IF candidate THEN "refused" ELSE "marking candidate")
  /\ UNCHANGED <<manifest, binding>>

\* Seeded faults: the checkpoint runs ahead of the files; or the state it records is
\* none that the manifest's validation knows.
MarkEarly(mark) == "binding-created"
MarkPassed(mark) == "passed"
\* What is recorded once a file is there.
Mark(mark) == mark

\* Each checkpoint loads the manifest and then replaces it.
LoadForMark(p) ==
  /\ pc[p] \in {"marking candidate", "marking binding"}
  /\ Goto(p, IF manifest \notin States THEN "refused"
             ELSE IF At(p, "marking candidate") THEN "writing candidate mark"
                                                ELSE "writing binding mark")
  /\ UNCHANGED <<manifest, candidate, binding>>

MarkCandidate(p) ==
  /\ At(p, "writing candidate mark")
  /\ manifest' = Mark("candidate-created")
  /\ Goto(p, "candidate-created")
  /\ UNCHANGED <<candidate, binding>>

CheckBinding(p) ==
  /\ At(p, "candidate-created")
  /\ Goto(p, IF ~ candidate THEN "refused"
             ELSE IF binding THEN "marking binding" ELSE "creating binding")
  /\ UNCHANGED <<manifest, candidate, binding>>

CreateBinding(p) ==
  /\ At(p, "creating binding")
  /\ binding' = TRUE
  /\ Goto(p, IF binding THEN "refused" ELSE "marking binding")
  /\ UNCHANGED <<manifest, candidate>>

MarkBinding(p) ==
  /\ At(p, "writing binding mark")
  /\ manifest' = Mark("binding-created")
  /\ Goto(p, "binding-created")
  /\ UNCHANGED <<candidate, binding>>

\* The rename.  Without a candidate it is refused or fails.
Install(p) ==
  /\ At(p, "binding-created")
  /\ IF candidate /\ binding
     THEN manifest' = "final" /\ candidate' = FALSE /\ Goto(p, "confirming")
     ELSE Goto(p, "refused") /\ UNCHANGED <<manifest, candidate>>
  /\ UNCHANGED binding

Confirm(p) ==
  /\ At(p, "confirming")
  /\ Goto(p, IF manifest = "final" THEN "done" ELSE "refused")
  /\ UNCHANGED <<manifest, candidate, binding>>

\* A file of a killed publisher is there or not: its temporary is not its name.
Kill(p) ==
  /\ pc[p] \in Inside
  /\ Goto(p, "killed")
  /\ UNCHANGED <<manifest, candidate, binding>>

Step(p) ==
  \/ Plan(p) \/ ReadState(p) \/ CheckCandidate(p) \/ CreateCandidate(p) \/ LoadForMark(p)
  \/ MarkCandidate(p) \/ CheckBinding(p) \/ CreateBinding(p) \/ MarkBinding(p)
  \/ Install(p) \/ Confirm(p)

Next == \E p \in Publishers : Start(p) \/ Step(p) \/ Kill(p)

Spec == Init /\ [][Next]_vars

\* A publisher that is not killed runs to its end: it waits for nobody.
FairSpec == Spec /\ \A p \in Publishers : WF_vars(Step(p))

-----------------------------------------------------------------------------
(* Properties.                                                             *)

\* What the run's directory may look like while nobody publishes: as the recovery
\* test lists it, and before and after.
Recoverable ==
  { <<"unpublished", FALSE, FALSE>>,
    <<"candidate-planned", FALSE, FALSE>>, <<"candidate-planned", TRUE, FALSE>>,
    <<"candidate-created", TRUE, FALSE>>, <<"candidate-created", TRUE, TRUE>>,
    <<"binding-created", TRUE, TRUE>>,
    <<"final", FALSE, TRUE>> }

\* Publishers killed anywhere, one after the other, leave one of "the five allowed CI
\* publication states" (ci_publish's docstring): the manifest's checkpoint and the two
\* files always fit, and the final manifest is alone with its binding.
FiveStates ==
  (\A p \in Publishers : pc[p] \in Outside) => <<manifest, candidate, binding>> \in Recoverable

\* An installed final manifest is not replaced any more, by no later publisher.
FinalStays == [][manifest = "final" => manifest' = "final"]_vars

\* No state that a killed publisher leaves stops the next one: who found a pending
\* manifest publishes, unless killed as well.
PublishesUnlessKilled ==
  \A p \in Publishers : pc[p] \in Inside ~> pc[p] \in {"done", "killed"}
=============================================================================
