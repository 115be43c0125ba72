---------------------------- MODULE RunController ----------------------------
(***************************************************************************)
(* The controller of one local charter run (scripts/sentinel-demo.sh with  *)
(* scripts/sentinel-manifest.py): run, resume and recover-audit advance    *)
(* the same run directory through its twelve stages.  manifest.json is     *)
(* loaded by one process and replaced by a later rename; the artifacts     *)
(* beside it are created exclusively and never replaced.  Two stages act   *)
(* on remote systems: the import of the scan and the one target request,   *)
(* which a separate adapter sends.  A controller may be killed anywhere;   *)
(* nothing keeps a second one out of the directory.                        *)
(*                                                                         *)
(* The request store is reduced to the row of the run's one request; its   *)
(* own steps are CharterStore's.                                           *)
(***************************************************************************)
EXTENDS Naturals, Sequences, FiniteSets

CONSTANTS
  Controllers,   \* the operator's shells
  Together,      \* how many of them are inside the run's directory at once
  RunnerStages,  \* stages that a component runner may take over
  Nobody         \* whose adapter it is before there is one

\* stages_for local
StageOrder ==
  <<"preflight", "labelled-chat", "topology-ready", "scan-redact-import",
    "analysis-report", "proposal", "approval", "executor", "response-guard",
    "final-report", "evaluation", "finalize">>
Stages == {StageOrder[i] : i \in DOMAIN StageOrder}
Index(s) == CHOOSE i \in DOMAIN StageOrder : StageOrder[i] = s

Effects == {"import", "request"}
EffectStage == [e \in Effects |-> IF e = "import" THEN "scan-redact-import" ELSE "executor"]

\* A runner may provide only stages without a remote effect.
ASSUME ControllerAssumption ==
  /\ IsFiniteSet(Controllers) /\ Nobody \notin Controllers
  /\ Together \in Nat \ {0}
  /\ RunnerStages \subseteq Stages \ {EffectStage[e] : e \in Effects}

VARIABLES
  manifest,     \* manifest.json
  files,        \* which artifacts of the run exist
  bound,        \* the manifest that artifact-bindings.json holds the digest of
  pc,           \* where each controller is
  job,          \* what each controller holds in memory
  row,          \* the run's request in executor-state.sqlite
  settledBy,    \* requests.receipt_digest: who settled the row
  adapter,      \* the executor adapter that reserved the request, and its caller
  kong,         \* what the gateway's log says of the request
  count,        \* ghost: how often each effect took place (2 stands for more)
  overlapped,   \* ghost: were two controllers ever inside together
  calls,        \* ghost: how often the adapter was started (2 stands for more)
  killed        \* ghost: was a controller or an adapter ever killed
                \* (these two are kept only until controllers overlap)

runFiles == <<manifest, files, bound>>
shells   == <<pc, job>>
remote   == <<row, settledBy, adapter, kong>>
ghosts   == <<count, calls, overlapped, killed>>
vars     == <<runFiles, shells, remote, ghosts>>

Statuses  == {"none", "pending", "passed", "rejected", "failed", "recovered"}
Outcomes  == {"passed", "rejected", "failed", "skipped"}
States    == {"none", "prepared", "observed", "unknown", "recovered"}

Manifests ==
  [status: Statuses, stages: Seq(Outcomes \cup {"recovered"}),
   effect: [Effects -> States], requests: 0..1, findings: BOOLEAN]

\* Before init-v2, and right after it.
NoManifest ==
  [status |-> "none", stages |-> <<>>, effect |-> [e \in Effects |-> "none"],
   requests |-> 0, findings |-> FALSE]
FreshManifest == [NoManifest EXCEPT !.status = "pending"]

\* The outputs of the stages; what publication adds; what audit recovery adds.
Output ==
  [s \in Stages |->
     CASE s = "scan-redact-import" ->
            {"nuclei.sanitized", "scan-admission", "import-intent", "import-observation"}
       [] s = "analysis-report" -> {"normalized", "report"}
       [] s = "proposal" -> {"request-spec"}
       [] s = "approval" -> {"approval"}
       [] s = "executor" -> {"receipt", "request-descriptor"}
       [] OTHER -> {}]
NormalArtifacts ==
  {"receipt", "request-descriptor", "request", "artifact-bindings", "charter-evaluation"}
AuditArtifacts == {"audit-recovery", "audit-recovery-report", "audit-evaluation"}
Artifacts ==
  {"directory", "executor-state"} \cup NormalArtifacts \cup AuditArtifacts
    \cup UNION {Output[s] : s \in Stages}

Places ==
  {"idle", "created", "staging", "scanned", "admitted", "announcing import", "importing",
   "imported", "observing import", "import lost", "normalized",
   "calling", "awaiting", "answered", "receipted", "observing request", "request lost",
   "recording", "writing", "recorded", "finalizing", "publishing", "binding", "evaluating",
   "acquiring", "audited", "terminalizing", "reporting", "limiting", "recovering"}

\* In place of a process that runs no command.
NoJob == [mode |-> "none", stage |-> 0, outcome |-> "none", findings |-> FALSE,
          draft |-> NoManifest, then |-> "idle"]
Jobs  == [mode: {"none", "run", "resume", "recover"}, stage: 0..Len(StageOrder),
          outcome: Outcomes \cup {"none"}, findings: BOOLEAN,
          draft: Manifests, then: Places]

TypeOK ==
  /\ manifest \in Manifests
  /\ files \subseteq Artifacts
  /\ bound \in Manifests
  /\ pc \in [Controllers -> Places]
  /\ job \in [Controllers -> Jobs]
  /\ \A c \in Controllers : pc[c] = "idle" <=> job[c] = NoJob
  /\ row \in {"absent", "prepared", "dispatched", "unknown", "terminal"}
  /\ settledBy \in {"none", "response", "audit"}
  /\ adapter \in [at: {"none", "prepared", "dispatched", "sent", "answered", "refused"},
                  by: Controllers \cup {Nobody}]
  /\ kong \in {"silent", "in policy", "out of policy"}
  /\ count \in [Effects -> 0..2]
  /\ calls \in 0..2
  /\ overlapped \in BOOLEAN /\ killed \in BOOLEAN

Init ==
  /\ manifest = NoManifest
  /\ files = {}
  /\ bound = NoManifest
  /\ pc = [c \in Controllers |-> "idle"]
  /\ job = [c \in Controllers |-> NoJob]
  /\ row = "absent"
  /\ settledBy = "none"
  /\ adapter = [at |-> "none", by |-> Nobody]
  /\ kong = "silent"
  /\ count = [e \in Effects |-> 0]
  /\ calls = 0
  /\ overlapped = FALSE
  /\ killed = FALSE

-----------------------------------------------------------------------------
(* What sentinel-manifest.py reads off a manifest, and how it changes it.  *)

StagePassed(m, s) == Index(s) \in DOMAIN m.stages /\ m.stages[Index(s)] = "passed"
AllPassed(m) == \A s \in Stages : StagePassed(m, s)
Skipped(m) == \E i \in DOMAIN m.stages : m.stages[i] = "skipped"

Unresolved(m) == \E e \in Effects : m.effect[e] \in {"prepared", "unknown"}
Incomplete(m) ==
  \E e \in Effects : m.effect[e] # "none" /\ ~ StagePassed(m, EffectStage[e])

\* authorize-resume: whether the run may go on.
Authorized(m) ==
  m.status = "pending" /\ ~ Skipped(m) /\ ~ Unresolved(m) /\ ~ Incomplete(m)

\* An effect is announced once, and resolved once after that (valid_effect_ledger).
EffectAllowed(m, e, s) ==
  m.status = "pending" /\ m.effect[e] = IF s = "prepared" THEN "none" ELSE "prepared"
WithEffect(m, e, s) == [m EXCEPT !.effect[e] = s]

\* What a passed stage is checkpointed with (checkpoint_for_stage).
Checkpoint(s) ==
  IF s = "executor" /\ "audit-recovery" \in files THEN AuditArtifacts ELSE Output[s]

\* stage_v2, with the validation of the manifest it writes.
Recordable(m, i, outcome) ==
  /\ m.status = "pending" /\ i = Len(m.stages) + 1
  /\ outcome = "passed" =>
       /\ Checkpoint(StageOrder[i]) \subseteq files
       /\ \A e \in Effects : EffectStage[e] = StageOrder[i] => m.effect[e] = "observed"
  /\ outcome = "rejected" => m.requests = 0

\* Seeded fault: a failed stage is noted and the run stays pending.
WithStageOpen(m, outcome, j) ==
  [m EXCEPT !.stages = Append(@, outcome),
            !.status = IF outcome = "rejected" THEN outcome ELSE @]
WithStage(m, outcome, j) ==
  [m EXCEPT !.stages = Append(@, outcome),
            !.status = IF outcome \in {"failed", "rejected"} THEN outcome ELSE @,
            !.requests = IF outcome = "passed" /\ StageOrder[j.stage] = "executor" THEN 1 ELSE @,
            !.findings = @ \/ j.findings]

Final(m) == [m EXCEPT !.status = "passed"]
WithRecovery(m) ==
  [m EXCEPT !.status = "recovered", !.stages[Index("executor")] = "recovered",
            !.effect["request"] = "recovered", !.requests = 1]

ActionSent(m) == m.status \in {"passed", "recovered"} /\ m.requests = 1

-----------------------------------------------------------------------------
(* A controller is a shell: it runs one command after another, each with   *)
(* what the last one left in job.                                          *)

At(c, place) == pc[c] = place
Goto(c, place) == pc' = [pc EXCEPT ![c] = place]
InStage(c, s) == At(c, "staging") /\ StageOrder[job[c].stage] = s

Continue(c, place) == Goto(c, place) /\ UNCHANGED job
Leave(c) == Goto(c, "idle") /\ job' = [job EXCEPT ![c] = NoJob]
Conclude(c, outcome) == Goto(c, "recording") /\ job' = [job EXCEPT ![c].outcome = outcome]

\* A command that changes the manifest has loaded it and made its replacement.
Draft(c, m, place, outcome) ==
  /\ Goto(c, "writing")
  /\ job' = [job EXCEPT ![c].draft = m, ![c].then = place, ![c].outcome = outcome]

Create(name) == files' = files \cup {name} /\ UNCHANGED <<manifest, bound>>

Twice(n) == IF n < 2 THEN n + 1 ELSE 2

Enter(c, place, mode, stage) ==
  /\ At(c, "idle")
  /\ Cardinality({d \in Controllers : ~ At(d, "idle")}) < Together
  /\ Goto(c, place)
  /\ job' = [job EXCEPT ![c].mode = mode, ![c].stage = stage, ![c].then = "idle"]
  /\ overlapped' = (overlapped \/ \E d \in Controllers : ~ At(d, "idle"))
  /\ calls' = IF overlapped' THEN 0 ELSE calls
  /\ killed' = (killed /\ ~ overlapped')
  /\ UNCHANGED <<remote, count>>

\* run: the directory must not exist; a kill before init-v2 leaves it for good.
Run(c) ==
  /\ "directory" \notin files
  /\ Enter(c, "created", "run", 1)
  /\ Create("directory")

InitManifest(c) ==
  /\ At(c, "created")
  /\ manifest' = FreshManifest
  /\ Continue(c, "staging")
  /\ UNCHANGED <<files, bound, remote, ghosts>>

\* resume: one stage, or the publication that is still missing.
Resume(c) ==
  /\ Authorized(manifest)
  /\ IF AllPassed(manifest) THEN Enter(c, "finalizing", "resume", Len(StageOrder))
                            ELSE Enter(c, "staging", "resume", Len(manifest.stages) + 1)
  /\ UNCHANGED runFiles

\* os.replace, and what the shell does next: after a stage that passed, run_all_stages
\* enters the next one; resume has the manifest read again first.
Write(c) ==
  /\ At(c, "writing")
  /\ manifest' = job[c].draft
  /\ IF job[c].then = "idle" THEN Leave(c)
     ELSE IF job[c].then # "recorded" \/ job[c].mode = "resume"
     THEN /\ Goto(c, job[c].then)
          /\ job' = [job EXCEPT ![c].draft = NoManifest, ![c].then = "idle"]
     ELSE LET last == job[c].stage = Len(StageOrder)
          IN /\ Goto(c, IF last THEN "finalizing" ELSE "staging")
             /\ job' = [job EXCEPT ![c] =
                         [NoJob EXCEPT !.mode = "run",
                                       !.stage = IF last THEN @ ELSE job[c].stage + 1]]
  /\ UNCHANGED <<files, bound, remote, ghosts>>

\* Seeded fault: a failed run is published as well.
AfterRecordPublished(outcome) ==
  CASE outcome = "passed" -> "recorded"
    [] outcome \in {"rejected", "failed"} -> "publishing"
    [] OTHER -> "idle"
\* advance_stage: a rejection goes on to its publication, recorded or not.
AfterRecord(outcome) ==
  CASE outcome = "passed" -> "recorded"
    [] outcome = "rejected" -> "publishing"
    [] OTHER -> "idle"

\* record_stage up to its os.replace.
RecordStage(c, outcome) ==
  IF Recordable(manifest, job[c].stage, outcome)
  THEN Draft(c, WithStage(manifest, outcome, job[c]), AfterRecord(outcome), outcome)
  ELSE IF outcome = "rejected" THEN Continue(c, "publishing") ELSE Leave(c)

Record(c) ==
  /\ At(c, "recording")
  /\ RecordStage(c, job[c].outcome)
  /\ UNCHANGED <<runFiles, remote, ghosts>>

\* resume ends here unless that was the last stage.
Reread(c) ==
  /\ At(c, "recorded")
  /\ IF Len(manifest.stages) = Len(StageOrder) THEN Continue(c, "finalizing") ELSE Leave(c)
  /\ UNCHANGED <<runFiles, remote, ghosts>>

-----------------------------------------------------------------------------
(* The stages (invoke_stage and production_stage).                         *)

\* Stages that only look at what there is.
LocalStages ==
  {"preflight", "labelled-chat", "topology-ready", "response-guard", "final-report",
   "evaluation", "finalize"}
Needs(s) ==
  CASE s = "response-guard" -> {"request-spec", "receipt"}
    [] s = "final-report" -> {"normalized", "report", "receipt"}
    [] OTHER -> {}

LocalStage(c) ==
  \E s \in LocalStages :
    /\ InStage(c, s)
    /\ \E outcome \in {"passed", "failed"} :
         /\ outcome = "passed" => Needs(s) \subseteq files
         /\ s = "finalize" => outcome = "passed"
         /\ RecordStage(c, outcome)
    /\ UNCHANGED <<runFiles, remote, ghosts>>

\* Another program in place of production: it may report what it likes, with or
\* without the stage's artifacts, and with or without a count of the findings.
RunnerStage(c) ==
  \E s \in RunnerStages, outcome \in Outcomes :
    /\ InStage(c, s)
    /\ s = "approval" => "request-spec" \in files
    /\ files' \in {files, files \cup Output[s]}
    /\ Goto(c, "recording")
    /\ \E counted \in BOOLEAN :
         /\ counted => s = "analysis-report"
         /\ job' = [job EXCEPT ![c].outcome = outcome, ![c].findings = counted]
    /\ UNCHANGED <<manifest, bound, remote, ghosts>>

\* A stage of production stops with an error or says failed.
StageFails(c) ==
  /\ \E s \in {"scan-redact-import", "analysis-report", "proposal", "approval", "executor"} :
       InStage(c, s)
  /\ RecordStage(c, "failed")
  /\ UNCHANGED <<runFiles, remote, ghosts>>

\* charter_admit: the scan, the sanitized copy, the admission of it.
Scan(c) ==
  /\ InStage(c, "scan-redact-import") /\ "nuclei.sanitized" \notin files
  /\ Create("nuclei.sanitized")
  /\ Continue(c, "scanned")
  /\ UNCHANGED <<remote, ghosts>>

\* A file opened with O_EXCL, or linked: the stage fails if it is already there.
CreateOnce(c, name, place) ==
  /\ IF name \in files
     THEN Conclude(c, "failed") /\ UNCHANGED runFiles
     ELSE Continue(c, place) /\ Create(name)
  /\ UNCHANGED <<remote, ghosts>>

Admit(c)  == At(c, "scanned")  /\ CreateOnce(c, "scan-admission", "admitted")
Intend(c) == At(c, "admitted") /\ CreateOnce(c, "import-intent", "announcing import")

\* Seeded fault: the request is not announced.
AnnounceImportOnly(c, e, place) ==
  IF e = "request" THEN Continue(c, place)
  ELSE IF EffectAllowed(manifest, e, "prepared")
       THEN Draft(c, WithEffect(manifest, e, "prepared"), place, "none")
       ELSE Conclude(c, "failed")
\* record_effect prepared, before the effect
Announce(c, e, place) ==
  IF EffectAllowed(manifest, e, "prepared")
  THEN Draft(c, WithEffect(manifest, e, "prepared"), place, "none")
  ELSE Conclude(c, "failed")

AnnounceImport(c) ==
  /\ At(c, "announcing import")
  /\ Announce(c, "import", "importing")
  /\ UNCHANGED <<runFiles, remote, ghosts>>

\* charter_import: refused before the POST, or posted and answered, or not answered.
Import(c) ==
  /\ At(c, "importing")
  /\ \/ Continue(c, "import lost") /\ UNCHANGED count
     \/ /\ "import-observation" \notin files
        /\ count' = [count EXCEPT !["import"] = Twice(@)]
        /\ \E place \in {"imported", "import lost"} : Continue(c, place)
  /\ UNCHANGED <<runFiles, remote, calls, overlapped, killed>>

\* The gate on the answer, then the observation.
ObserveImport(c) ==
  /\ At(c, "imported")
  /\ \/ Continue(c, "import lost") /\ UNCHANGED runFiles
     \/ Continue(c, "observing import") /\ Create("import-observation")
  /\ UNCHANGED <<remote, ghosts>>

\* record_effect observed or unknown, at the end of a stage with an effect.
Resolve(c, e, s, outcome) ==
  /\ IF EffectAllowed(manifest, e, s)
     THEN Draft(c, WithEffect(manifest, e, s), "recording", outcome)
     ELSE Conclude(c, "failed")
  /\ UNCHANGED <<runFiles, remote, ghosts>>

RecordImport(c) ==
  \/ At(c, "observing import") /\ Resolve(c, "import", "observed", "passed")
  \/ At(c, "import lost") /\ Resolve(c, "import", "unknown", "failed")

\* agent.recon links the normalized findings and the report one after the other.
Analyse(c) ==
  /\ InStage(c, "analysis-report")
  /\ "nuclei.sanitized" \in files /\ "normalized" \notin files
  /\ Create("normalized")
  /\ Continue(c, "normalized")
  /\ UNCHANGED <<remote, ghosts>>

LinkReport(c) ==
  /\ At(c, "normalized")
  /\ IF "report" \in files
     THEN Conclude(c, "failed") /\ UNCHANGED runFiles
     ELSE /\ Create("report")
          /\ Goto(c, "recording")
          /\ job' = [job EXCEPT ![c].outcome = "passed", ![c].findings = TRUE]
  /\ UNCHANGED <<remote, ghosts>>

Propose(c) ==
  /\ InStage(c, "proposal")
  /\ "report" \in files /\ "request-spec" \notin files
  /\ Create("request-spec")
  /\ Conclude(c, "passed")
  /\ UNCHANGED <<remote, ghosts>>

\* No decision yet, or a request that expired meanwhile: nothing is recorded.
Pause(c) ==
  /\ InStage(c, "approval")
  /\ Leave(c)
  /\ UNCHANGED <<runFiles, remote, ghosts>>

Approve(c) ==
  /\ InStage(c, "approval")
  /\ "request-spec" \in files /\ "approval" \notin files
  /\ Create("approval")
  /\ \E outcome \in {"passed", "rejected"} : Conclude(c, outcome)
  /\ UNCHANGED <<remote, ghosts>>

AnnounceRequest(c) ==
  /\ InStage(c, "executor") /\ {"request-spec", "approval"} \subseteq files
  /\ Announce(c, "request", "calling")
  /\ UNCHANGED <<runFiles, remote, ghosts>>

-----------------------------------------------------------------------------
(* The executor adapter.  It runs in a session of its own, so it outlives  *)
(* the controller that called it.  The first one to reserve the request    *)
(* owns it; every later one opens the store and is refused.                *)

\* What opening the store does to a row in flight, whoever owns it.
Reopened(s) ==
  CASE s = "prepared" -> "terminal" [] s = "dispatched" -> "unknown" [] OTHER -> s

\* Seeded fault: a request without an outcome may be reserved again.
ReservableAgain == Reopened(row) \in {"absent", "unknown"}
Reservable == row = "absent"

CallAdapter(c) ==
  /\ At(c, "calling")
  /\ calls' = IF overlapped THEN calls ELSE Twice(calls)
  /\ \/ /\ Continue(c, "request lost")     \* refused without a look at the store
        /\ UNCHANGED <<runFiles, remote>>
     \/ /\ Continue(c, "request lost")     \* refused after opening it
        /\ Create("executor-state")
        /\ row' = Reopened(row)
        /\ UNCHANGED <<settledBy, adapter, kong>>
     \/ /\ Reservable
        /\ Continue(c, "awaiting")
        /\ Create("executor-state")
        /\ row' = "prepared"
        /\ adapter' = [at |-> "prepared", by |-> c]
        /\ UNCHANGED <<settledBy, kong>>
  /\ UNCHANGED <<count, overlapped, killed>>

AdapterGoes(place) == adapter' = [adapter EXCEPT !.at = place]

\* dispatch_if_not_revoked: not if another process reopened the store meanwhile.
AdapterDispatches ==
  /\ adapter.at = "prepared"
  /\ IF row = "prepared" THEN row' = "dispatched" /\ AdapterGoes("dispatched")
                         ELSE AdapterGoes("refused") /\ UNCHANGED row
  /\ UNCHANGED <<runFiles, shells, settledBy, kong, ghosts>>

\* No token: nothing will be sent.
AdapterMintFails ==
  /\ adapter.at = "dispatched"
  /\ row' = IF row = "dispatched" THEN "terminal" ELSE row
  /\ AdapterGoes("refused")
  /\ UNCHANGED <<runFiles, shells, settledBy, kong, ghosts>>

\* The gateway logs the request, or the line is lost.
AdapterSends ==
  /\ adapter.at = "dispatched"
  /\ count' = [count EXCEPT !["request"] = Twice(@)]
  /\ kong' \in {"silent", "in policy", "out of policy"}
  /\ AdapterGoes("sent")
  /\ UNCHANGED <<runFiles, shells, row, settledBy, calls, overlapped, killed>>

\* Seeded fault: the answer is handed over although its row was rewritten meanwhile.
RepliesUnsettled == {"answered", "refused"}
\* An answer to a request whose row another process rewrote is refused.
Replies == IF row = "dispatched" THEN {"answered", "refused"} ELSE {"refused"}

\* A bounded answer settles the row, even one that is refused afterwards.
AdapterSettles ==
  /\ adapter.at = "sent"
  /\ IF row = "dispatched" THEN row' = "terminal" /\ settledBy' = "response"
                           ELSE UNCHANGED <<row, settledBy>>
  /\ \E place \in Replies : AdapterGoes(place)
  /\ UNCHANGED <<runFiles, shells, kong, ghosts>>

AdapterHearsNothing ==
  /\ adapter.at \in {"dispatched", "sent"}
  /\ row' = Reopened(row)
  /\ AdapterGoes("refused")
  /\ UNCHANGED <<runFiles, shells, settledBy, kong, ghosts>>

\* Killed, by its own end or because it printed too much.
AdapterDies ==
  /\ adapter.at \in {"prepared", "dispatched", "sent"}
  /\ AdapterGoes("refused")
  /\ killed' = ~ overlapped
  /\ UNCHANGED <<runFiles, shells, row, settledBy, kong, count, calls, overlapped>>

Adapter ==
  \/ AdapterDispatches \/ AdapterMintFails \/ AdapterSends \/ AdapterSettles
  \/ AdapterHearsNothing \/ AdapterDies

\* sentinel-adapter-capture: the caller, if it still lives, gets a result or a status.
Receive(c) ==
  /\ At(c, "awaiting") /\ adapter.by = c
  /\ \/ adapter.at = "answered" /\ Continue(c, "answered")
     \/ adapter.at = "refused" /\ Continue(c, "request lost")
  /\ UNCHANGED <<runFiles, remote, ghosts>>

\* The result meets the receipt's contract, or does not; then the two artifacts.
CheckResult(c) ==
  /\ At(c, "answered")
  /\ \/ Continue(c, "request lost") /\ UNCHANGED runFiles
     \/ /\ {"receipt", "request-descriptor"} \cap files = {}
        /\ Continue(c, "receipted")
        /\ Create("receipt")
  /\ UNCHANGED <<remote, ghosts>>

Describe(c) ==
  /\ At(c, "receipted")
  /\ IF "request-descriptor" \in files
     THEN Continue(c, "request lost") /\ UNCHANGED runFiles
     ELSE Continue(c, "observing request") /\ Create("request-descriptor")
  /\ UNCHANGED <<remote, ghosts>>

RecordRequest(c) ==
  \/ At(c, "observing request") /\ Resolve(c, "request", "observed", "passed")
  \/ At(c, "request lost") /\ Resolve(c, "request", "unknown", "failed")

Executor(c) ==
  \/ AnnounceRequest(c) \/ CallAdapter(c) \/ Receive(c)
  \/ CheckResult(c) \/ Describe(c) \/ RecordRequest(c)

-----------------------------------------------------------------------------
(* The end of the run and its publication.                                 *)

Finalize(c) ==
  /\ At(c, "finalizing")
  /\ IF manifest.status = "pending" /\ AllPassed(manifest) /\ ~ Unresolved(manifest)
     THEN Draft(c, Final(manifest), "publishing", "none")
     ELSE Leave(c)
  /\ UNCHANGED <<runFiles, remote, ghosts>>

\* publish_terminal_artifacts: what must be there, and what must not.
Publishable ==
  /\ {"normalized", "report"} \subseteq files
  /\ IF ActionSent(manifest)
     THEN {"request-spec", "receipt", "request-descriptor"} \subseteq files
     ELSE {"receipt", "request-descriptor", "executor-state"} \cap files = {}

\* write_private_json_once: the publication dies if the file is already there.
PublishOnce(c, name, place) ==
  /\ IF name \in files THEN Leave(c) /\ UNCHANGED files
                       ELSE Continue(c, place) /\ files' = files \cup {name}
  /\ UNCHANGED <<manifest, remote, ghosts>>

PublishRequest(c) ==
  /\ At(c, "publishing")
  /\ IF Publishable
     THEN PublishOnce(c, "request", "binding")
     ELSE Leave(c) /\ UNCHANGED <<manifest, files, remote, ghosts>>
  /\ UNCHANGED bound

PublishBindings(c) ==
  /\ At(c, "binding")
  /\ PublishOnce(c, "artifact-bindings", "evaluating")
  /\ bound' = IF "artifact-bindings" \in files THEN bound ELSE manifest

\* result-report.py evaluate: of a completed run without skips, whose metrics are
\* exactly the ones it knows, bound to the manifest as it is now.
Evaluable ==
  /\ manifest.status \in {"passed", "rejected"} /\ ~ Skipped(manifest)
  /\ ~ manifest.findings
  /\ {"normalized", "report", "request", "artifact-bindings"} \subseteq files
  /\ bound = manifest

Evaluate(c) ==
  /\ At(c, "evaluating")
  /\ files' = IF Evaluable THEN files \cup {"charter-evaluation"} ELSE files
  /\ Leave(c)
  /\ UNCHANGED <<manifest, bound, remote, ghosts>>

-----------------------------------------------------------------------------
(* recover-audit (with agent/charter_audit_recovery.py).                   *)

\* Seeded fault: only an effect that nobody resolved counts as stranded.
StrandedUnresolved(m) ==
  /\ m.status = "failed" /\ Len(m.stages) = Index("executor")
  /\ m.effect["request"] = "prepared"
\* _manifest_and_spec and _stranded_effect
Stranded(m) ==
  /\ m.status = "failed" /\ Len(m.stages) = Index("executor")
  /\ m.stages[Index("executor")] = "failed"
  /\ \A i \in 1..(Index("executor") - 1) : m.stages[i] = "passed"
  /\ m.effect["request"] \in {"prepared", "unknown"}

\* state: which durable step of the recovery came last, or that there is none.
AuditState ==
  LET present == files \cap AuditArtifacts
      settled == row = "terminal" /\ settledBy = "audit"
  IN IF ~ Stranded(manifest) \/ files \cap NormalArtifacts # {} THEN "refused"
     ELSE CASE present = {} /\ row = "unknown" -> "none"
            [] present = {"audit-recovery"} /\ row = "unknown" -> "audit-artifact-durable"
            [] present = {"audit-recovery"} /\ settled -> "sqlite-terminal"
            [] present = AuditArtifacts /\ settled -> "limited-artifacts-complete"
            [] OTHER -> "refused"

RecoverAudit(c) ==
  /\ \/ AuditState = "none" /\ Enter(c, "acquiring", "recover", 0)
     \/ AuditState = "audit-artifact-durable" /\ Enter(c, "terminalizing", "recover", 0)
     \/ AuditState = "sqlite-terminal" /\ Enter(c, "reporting", "recover", 0)
     \/ AuditState = "limited-artifacts-complete" /\ Enter(c, "recovering", "recover", 0)
  /\ UNCHANGED runFiles

\* Seeded fault: a line of the log is enough, whatever status it has.
ProvenByAny == kong # "silent"
\* audit_candidate
Proven == kong = "in policy"

Acquire(c) ==
  /\ At(c, "acquiring")
  /\ IF AuditState = "none" /\ Proven THEN Continue(c, "audited") ELSE Leave(c)
  /\ UNCHANGED <<runFiles, remote, ghosts>>

WriteAudit(c) ==
  /\ At(c, "audited")
  /\ PublishOnce(c, "audit-recovery", "terminalizing")
  /\ UNCHANGED bound

Terminalize(c) ==
  /\ At(c, "terminalizing")
  /\ IF AuditState = "audit-artifact-durable"
     THEN Continue(c, "reporting") /\ row' = "terminal" /\ settledBy' = "audit"
     ELSE Leave(c) /\ UNCHANGED <<row, settledBy>>
  /\ UNCHANGED <<runFiles, adapter, kong, ghosts>>

Report(c) ==
  /\ At(c, "reporting")
  /\ IF AuditState = "sqlite-terminal"
     THEN PublishOnce(c, "audit-recovery-report", "limiting")
     ELSE Leave(c) /\ UNCHANGED <<manifest, files, remote, ghosts>>
  /\ UNCHANGED bound

Limit(c) ==
  /\ At(c, "limiting")
  /\ PublishOnce(c, "audit-evaluation", "recovering")
  /\ UNCHANGED bound

BindRecovery(c) ==
  /\ At(c, "recovering")
  /\ IF AuditState = "limited-artifacts-complete"
     THEN Draft(c, WithRecovery(manifest), "idle", "none")
     ELSE Leave(c)
  /\ UNCHANGED <<runFiles, remote, ghosts>>

Recovery(c) ==
  \/ RecoverAudit(c) \/ Acquire(c) \/ WriteAudit(c) \/ Terminalize(c)
  \/ Report(c) \/ Limit(c) \/ BindRecovery(c)

\* The shell and its children are killed; the adapter is not among them.
Kill(c) ==
  /\ ~ At(c, "idle")
  /\ Leave(c)
  /\ killed' = ~ overlapped
  /\ UNCHANGED <<runFiles, remote, count, calls, overlapped>>

Controller(c) ==
  \/ Run(c) \/ InitManifest(c) \/ Resume(c) \/ Write(c)
  \/ LocalStage(c) \/ RunnerStage(c) \/ StageFails(c)
  \/ Scan(c) \/ Admit(c) \/ Intend(c) \/ AnnounceImport(c) \/ Import(c)
  \/ ObserveImport(c) \/ RecordImport(c)
  \/ Analyse(c) \/ LinkReport(c) \/ Propose(c) \/ Pause(c) \/ Approve(c) \/ Executor(c)
  \/ Record(c) \/ Reread(c) \/ Finalize(c)
  \/ PublishRequest(c) \/ PublishBindings(c) \/ Evaluate(c)
  \/ Recovery(c) \/ Kill(c)

Next == Adapter \/ \E c \in Controllers : Controller(c)

Spec == Init /\ [][Next]_vars

-----------------------------------------------------------------------------
(* Properties.                                                             *)

Resting == \A c \in Controllers : At(c, "idle")

\* However many controllers run, resume, overlap and are killed, the scan is imported at most once and
\* the target is called at most once (the exclusive artifacts of charter-admit and write_import_intent,
\* the store behind the adapter).  And the adapter is started once: a run whose request was announced
\* is never driven through its executor stage again, although a kill may leave the manifest pending
\* and the adapter running (authorize_resume, valid_effect_ledger); controllers that overlap may
\* overwrite each other's announcement.
EffectsOnce ==
  /\ \A e \in Effects : count[e] <= 1
  /\ ~ overlapped => calls <= 1

\* A passed run has all it claims: each stage with its artifacts, the import and the
\* request done once and observed, the request settled by its own answer.
PassedIsComplete ==
  manifest.status = "passed" =>
    /\ AllPassed(manifest)
    /\ \A s \in Stages : Output[s] \subseteq files
    /\ \A e \in Effects : manifest.effect[e] = "observed" /\ count[e] = 1
    /\ manifest.requests = 1 /\ row = "terminal" /\ settledBy = "response"

\* A recovered run is one whose request the gateway let through, proven by its log
\* alone: the row names the audit, and there is neither a receipt nor a published
\* outcome beside it.
RecoveredIsProven ==
  manifest.status = "recovered" =>
    /\ kong = "in policy" /\ count["request"] = 1
    /\ row = "terminal" /\ settledBy = "audit"
    /\ AuditArtifacts \subseteq files
    /\ overlapped \/ files \cap NormalArtifacts = {}

\* Both good verdicts are earned, overlapping controllers or not: the receipt and the
\* audit never vouch for the same request (finalize, valid_effect_ledger,
\* checkpoint_for_stage, recover_audit, _audit_recovery_forbids_normal_artifacts).
VerdictIsEarned == PassedIsComplete /\ RecoveredIsProven

\* What is published is the run's final word: the outcome appears only beside a
\* final manifest, which the bindings' digest still fits (publish_terminal_artifacts).
OutcomeIsFinal ==
  ~ overlapped =>
    /\ "request" \in files => manifest.status \in {"passed", "rejected"}
    /\ "artifact-bindings" \in files => bound = manifest

\* Without a kill no run is stranded: at rest, a pending run may be resumed (unless a
\* required stage was skipped), a passed run was evaluated (unless its metrics count
\* findings), and a failed run whose request may have been sent can be recovered
\* from the log, whichever call failed (advance_stage's and production_stage's error
\* paths).
NothingStranded ==
  Resting /\ ~ killed /\ ~ overlapped =>
    /\ manifest.status = "pending" => Authorized(manifest) \/ Skipped(manifest)
    /\ manifest.status = "passed" /\ ~ manifest.findings => "charter-evaluation" \in files
    /\ manifest.status = "failed" /\ row = "unknown" => AuditState # "refused"

\* While no controllers overlap, the manifest keeps the promises of RunLedger.
Ledger == INSTANCE RunLedger WITH
  Last <- Len(StageOrder),
  StageOf <- [e \in Effects |-> Index(EffectStage[e])],
  verdict <- IF manifest.status = "pending" THEN "open" ELSE manifest.status,
  stage <- Cardinality({s \in Stages : StagePassed(manifest, s)}),
  announced <- {e \in Effects : manifest.effect[e] # "none"},
  happened <- {e \in Effects : count[e] > 0}

KeepsLedger == Ledger!Init /\ [][Ledger!Next \/ overlapped']_(Ledger!vars)

\* The finding's property.  A run that passed, was never interrupted and is left alone
\* has its evaluation (run_new and resume call evaluate_terminal_artifacts).
PassedIsEvaluated ==
  Resting /\ ~ killed /\ ~ overlapped /\ manifest.status = "passed" =>
    "charter-evaluation" \in files
==============================================================================
