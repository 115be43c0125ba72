------------------------- MODULE RunControllerProofs -------------------------
(* Theorems about the controllers of one run, however many there are and     *)
(* wherever they are killed.  Each remote effect happens at most once; every *)
(* verdict is earned and what is published is final; the manifest keeps the  *)
(* promises of RunLedger; and without a kill nothing is left stranded.       *)
EXTENDS RunController, FiniteSetTheorems, TLAPS

(***************************************************************************)
(* The inductive invariant has three parts.  The import: who is past the   *)
(* exclusive intent file is alone there, for good, and has not imported.   *)
(* The request: only an absent row is reserved, and none becomes absent.   *)
(* The calls, while no controllers overlap: the manifest that is on disk,  *)
(* or drafted, announces the request before the adapter is started.        *)
(***************************************************************************)
Importing(c) ==
  \/ pc[c] \in {"announcing import", "importing"}
  \/ pc[c] = "writing" /\ job[c].then = "importing"

ImportInv ==
  /\ count["import"] <= 1
  /\ "import-intent" \notin files => count["import"] = 0
  /\ \A c \in Controllers :
       Importing(c) => "import-intent" \in files /\ count["import"] = 0
  /\ \A c, d \in Controllers : Importing(c) /\ Importing(d) => c = d

RequestInv ==
  /\ count["request"] <= 1
  /\ row = "absent" => adapter.at = "none"
  /\ adapter.at \in {"none", "prepared", "dispatched"} => count["request"] = 0

Announced(m) == m.effect["request"] # "none"
Calling(c)   == pc[c] = "calling" \/ (pc[c] = "writing" /\ job[c].then = "calling")

CallInv(c) ==
  /\ pc[c] = "created" \/ Calling(c) => calls = 0
  /\ pc[c] = "writing" /\ (Announced(manifest) \/ job[c].then = "calling") => Announced(job[c].draft)
  /\ pc[c] = "calling" => Announced(manifest)

CallsInv ==
  /\ calls <= 1
  /\ calls > 0 => "directory" \in files /\ Announced(manifest)
  /\ \A c, d \in Controllers : pc[c] # "idle" /\ pc[d] # "idle" => c = d
  /\ \A c \in Controllers : CallInv(c)

\* Where a command goes on after its os.replace.
Targets == Places \ {"created", "announcing import", "writing"}

\* What is needed of the types.
IsManifest(m) == "effect" \in DOMAIN m /\ m.effect \in [Effects -> States]
IsJob(j) ==
  /\ {"draft", "then"} \subseteq DOMAIN j
  /\ j.then \in Targets
  /\ IsManifest(j.draft)

Typed ==
  /\ IsManifest(manifest)
  /\ pc \in [Controllers -> Places]
  /\ job = [c \in Controllers |-> job[c]] /\ \A c \in Controllers : IsJob(job[c])
  /\ "at" \in DOMAIN adapter
  /\ count \in [Effects -> 0..2] /\ calls \in 0..2 /\ overlapped \in BOOLEAN

IInv == Typed /\ ImportInv /\ RequestInv /\ (~ overlapped => CallsInv)

-----------------------------------------------------------------------------
(* Manifests and jobs.                                                     *)

LEMMA NoManifestIs == IsManifest(NoManifest) /\ IsManifest(FreshManifest) /\ ~ Announced(NoManifest)
                        /\ ~ Announced(FreshManifest)
BY DEF IsManifest, NoManifest, FreshManifest, Announced, Effects, States

LEMMA NoJobIs == IsJob(NoJob) /\ NoJob.then = "idle"
BY NoManifestIs DEF IsJob, NoJob, Targets, Places

LEMMA WithEffectIs ==
  ASSUME NEW m, IsManifest(m), NEW e \in Effects, NEW s \in States
  PROVE  /\ IsManifest(WithEffect(m, e, s))
         /\ WithEffect(m, e, s).effect = [m.effect EXCEPT ![e] = s]
BY DEF IsManifest, WithEffect

\* A drafted manifest keeps the effects, or resolves one of them.
LEMMA WithStageIs ==
  ASSUME NEW m, IsManifest(m), NEW o, NEW j
  PROVE  /\ IsManifest(WithStage(m, o, j)) /\ WithStage(m, o, j).effect = m.effect
         /\ IsManifest(Final(m)) /\ Final(m).effect = m.effect
BY DEF IsManifest, WithStage, Final

LEMMA WithRecoveryIs ==
  ASSUME NEW m, IsManifest(m)
  PROVE  IsManifest(WithRecovery(m)) /\ Announced(WithRecovery(m))
BY DEF IsManifest, WithRecovery, Announced, Effects, States

-----------------------------------------------------------------------------
(* Steps that all actions are made of.                                     *)

\* Places the invariant says something about.
Special == {"announcing import", "importing", "writing", "calling", "created"}
Plain   == Places \ Special

\* What a step leaves alone that is neither about the import nor about the request.
Quiet ==
  /\ manifest' = manifest /\ files \subseteq files'
  /\ count' = count /\ calls' = calls /\ overlapped' = overlapped
  /\ (row' = "absent" => row = "absent") /\ adapter' = adapter

LEMMA QuietFiles ==
  /\ UNCHANGED runFiles => manifest' = manifest /\ files \subseteq files'
  /\ \A name : Create(name) => manifest' = manifest /\ files \subseteq files'
  /\ UNCHANGED <<remote, ghosts>> =>
       /\ row' = row /\ adapter' = adapter /\ count' = count /\ calls' = calls /\ overlapped' = overlapped
BY DEF runFiles, remote, ghosts, Create

\* c goes to a plain place, or to one it may go to.
LEMMA PlainStep ==
  ASSUME IInv, NEW c \in Controllers, pc[c] # "idle", Quiet,
         NEW place \in Plain, NEW j, IsJob(j),
         pc' = [pc EXCEPT ![c] = place], job' = [job EXCEPT ![c] = j]
  PROVE  IInv'
<1>1. /\ pc'[c] = place /\ job'[c] = j
      /\ \A d \in Controllers \ {c} : pc'[d] = pc[d] /\ job'[d] = job[d]
  BY DEF IInv, Typed
<1>2. Typed'
  BY <1>1 DEF IInv, Typed, Quiet, Plain
<1>3. ~ Importing(c)' /\ \A d \in Controllers \ {c} : Importing(d)' = Importing(d)
  BY <1>1 DEF Importing, Plain, Special
<1>4. ImportInv'
  BY <1>3 DEF IInv, ImportInv, Quiet
<1>5. RequestInv'
  BY DEF IInv, RequestInv, Quiet
<1>6. ASSUME ~ overlapped' PROVE CallsInv'
  <2>1. CallsInv
    BY <1>6 DEF IInv, Quiet
  <2>2. CallInv(c)'
    BY <1>1 DEF CallInv, Calling, Plain, Special
  <2>3. \A d \in Controllers \ {c} : CallInv(d)'
    BY <1>1, <2>1 DEF CallsInv, CallInv, Calling, Announced, Quiet
  <2> QED
    BY <1>1, <2>1, <2>2, <2>3 DEF CallsInv, Announced, Quiet
<1> QED
  BY <1>2, <1>4, <1>5, <1>6 DEF IInv

LEMMA ContinueStep ==
  ASSUME IInv, NEW c \in Controllers, pc[c] # "idle", Quiet,
         NEW place \in Plain, Continue(c, place)
  PROVE  IInv'
<1>1. job' = [job EXCEPT ![c] = job[c]] /\ IsJob(job[c])
  BY DEF IInv, Typed, Continue
<1> QED
  BY <1>1, PlainStep DEF Continue, Goto

LEMMA LeaveStep ==
  ASSUME IInv, NEW c \in Controllers, pc[c] # "idle", Quiet, Leave(c)
  PROVE  IInv'
<1>1. "idle" \in Plain
  BY DEF Plain, Places, Special
<1> QED
  BY <1>1, NoJobIs, PlainStep DEF Leave, Goto

LEMMA ConcludeStep ==
  ASSUME IInv, NEW c \in Controllers, pc[c] # "idle", Quiet, NEW outcome, Conclude(c, outcome)
  PROVE  IInv'
<1> DEFINE j == [job[c] EXCEPT !.outcome = outcome]
<1>1. job' = [job EXCEPT ![c] = j] /\ IsJob(j)
  BY DEF IInv, Typed, Conclude, IsJob
<1>2. "recording" \in Plain
  BY DEF Plain, Places, Special
<1> HIDE DEF j
<1> QED
  BY <1>1, <1>2, PlainStep DEF Conclude, Goto

\* A command has loaded the manifest and drafted its replacement.
LEMMA DraftStep ==
  ASSUME IInv, NEW c \in Controllers, pc[c] # "idle", Quiet,
         NEW m, IsManifest(m), NEW place \in Targets \ {"importing", "calling"}, NEW outcome,
         Announced(manifest) => Announced(m),
         Draft(c, m, place, outcome)
  PROVE  IInv'
<1> DEFINE j == [job[c] EXCEPT !.draft = m, !.then = place, !.outcome = outcome]
<1>1. IsJob(j) /\ j.draft = m /\ j.then = place
  BY DEF IInv, Typed, IsJob
<1>2. job' = [job EXCEPT ![c] = j] /\ pc' = [pc EXCEPT ![c] = "writing"]
  BY DEF IInv, Typed, Draft, Goto
<1> HIDE DEF j
<1>3. /\ pc'[c] = "writing" /\ job'[c] = j
      /\ \A d \in Controllers \ {c} : pc'[d] = pc[d] /\ job'[d] = job[d]
  BY <1>2 DEF IInv, Typed
<1>4. Typed'
  BY <1>1, <1>2, <1>3 DEF IInv, Typed, Quiet, Places
<1>5. ~ Importing(c)' /\ \A d \in Controllers \ {c} : Importing(d)' = Importing(d)
  BY <1>1, <1>3 DEF Importing
<1>6. ImportInv'
  BY <1>5 DEF IInv, ImportInv, Quiet
<1>7. RequestInv'
  BY DEF IInv, RequestInv, Quiet
<1>8. ASSUME ~ overlapped' PROVE CallsInv'
  <2>1. CallsInv
    BY <1>8 DEF IInv, Quiet
  <2>2. CallInv(c)'
    BY <1>1, <1>3 DEF CallInv, Calling, Announced, Quiet
  <2>3. \A d \in Controllers \ {c} : CallInv(d)'
    BY <1>3, <2>1 DEF CallsInv, CallInv, Calling, Announced, Quiet
  <2> QED
    BY <1>3, <2>1, <2>2, <2>3 DEF CallsInv, Announced, Quiet
<1> QED
  BY <1>4, <1>6, <1>7, <1>8 DEF IInv

\* record_stage keeps the effects of the manifest.
LEMMA RecordStep ==
  ASSUME IInv, NEW c \in Controllers, pc[c] # "idle", Quiet, NEW outcome, RecordStage(c, outcome)
  PROVE  IInv'
<1>1. AfterRecord(outcome) \in Targets \ {"importing", "calling"} /\ "publishing" \in Plain
  BY DEF AfterRecord, Targets, Places, Plain, Special
<1>2. /\ IsManifest(WithStage(manifest, outcome, job[c]))
      /\ Announced(manifest) => Announced(WithStage(manifest, outcome, job[c]))
  BY WithStageIs DEF IInv, Typed, Announced
<1> QED
  BY <1>1, <1>2, DraftStep, ContinueStep, LeaveStep DEF RecordStage

\* record_effect at the end of a stage with an effect.
LEMMA ResolveStep ==
  ASSUME IInv, NEW c \in Controllers, pc[c] # "idle",
         NEW e \in Effects, NEW s \in States \ {"none"}, NEW outcome, Resolve(c, e, s, outcome)
  PROVE  IInv'
<1>1. Quiet
  BY QuietFiles DEF Resolve, Quiet
<1>2. /\ IsManifest(WithEffect(manifest, e, s))
      /\ Announced(manifest) => Announced(WithEffect(manifest, e, s))
  <2>1. /\ IsManifest(WithEffect(manifest, e, s)) /\ manifest.effect \in [Effects -> States]
        /\ WithEffect(manifest, e, s).effect = [manifest.effect EXCEPT ![e] = s]
    BY WithEffectIs DEF IInv, Typed, IsManifest
  <2>2. "request" \in Effects
    BY DEF Effects
  <2> QED
    BY <2>1, <2>2 DEF Announced
<1>3. "recording" \in Targets \ {"importing", "calling"}
  BY DEF Targets, Places
<1> QED
  BY <1>1, <1>2, <1>3, DraftStep, ConcludeStep DEF Resolve

-----------------------------------------------------------------------------
(* The invariant, one action after the other: the controllers.             *)

\* A controller comes into the directory; from then on they overlap if another is there.
LEMMA EnterStep ==
  ASSUME IInv, NEW c \in Controllers, manifest' = manifest, files \subseteq files',
         NEW place \in (Places \ Special) \cup {"created"}, NEW mode, NEW stage,
         Enter(c, place, mode, stage),
         place = "created" => "directory" \notin files
  PROVE  IInv'
<1> DEFINE j == [job[c] EXCEPT !.mode = mode, !.stage = stage, !.then = "idle"]
<1>1. IsJob(j)
  BY DEF IInv, Typed, IsJob, Targets, Places
<1>2. /\ job' = [job EXCEPT ![c] = j] /\ pc' = [pc EXCEPT ![c] = place] /\ pc[c] = "idle"
      /\ row' = row /\ adapter' = adapter /\ count' = count
      /\ overlapped' = (overlapped \/ \E d \in Controllers : pc[d] # "idle")
      /\ calls' = IF overlapped' THEN 0 ELSE calls
  BY DEF IInv, Typed, Enter, Goto, At, remote
<1> HIDE DEF j
<1>3. /\ pc'[c] = place /\ job'[c] = j
      /\ \A d \in Controllers \ {c} : pc'[d] = pc[d] /\ job'[d] = job[d]
  BY <1>2 DEF IInv, Typed
<1>4. Typed'
  <2>1. place \in Places
    BY DEF Places
  <2> QED
    BY <1>1, <1>2, <1>3, <2>1 DEF IInv, Typed
<1>5. ~ Importing(c)' /\ \A d \in Controllers \ {c} : Importing(d)' = Importing(d)
  BY <1>3 DEF Importing, Special
<1>6. ImportInv'
  BY <1>2, <1>5 DEF IInv, ImportInv
<1>7. RequestInv'
  BY <1>2 DEF IInv, RequestInv
<1>8. ASSUME ~ overlapped' PROVE CallsInv'
  <2>1. CallsInv /\ calls' = calls /\ \A d \in Controllers : pc[d] = "idle"
    BY <1>2, <1>8 DEF IInv, Typed
  <2>2. pc'[c] = "created" => calls' = 0
    BY <1>3, <2>1 DEF CallsInv, IInv, Typed
  <2>3. CallInv(c)'
    BY <1>3, <2>2 DEF CallInv, Calling, Special
  <2>4. \A d \in Controllers \ {c} : CallInv(d)'
    BY <1>3, <2>1 DEF CallInv, Calling
  <2> QED
    BY <1>3, <2>1, <2>3, <2>4 DEF CallsInv, Announced
<1> QED
  BY <1>4, <1>6, <1>7, <1>8 DEF IInv

LEMMA RunInv == ASSUME IInv, NEW c \in Controllers, Run(c) PROVE IInv'
BY EnterStep DEF Run, Create

LEMMA ResumeInv == ASSUME IInv, NEW c \in Controllers, Resume(c) PROVE IInv'
<1>1. {"finalizing", "staging"} \subseteq Places \ Special
  BY DEF Places, Special
<1> QED
  BY <1>1, EnterStep DEF Resume, runFiles

LEMMA RecoverAuditInv == ASSUME IInv, NEW c \in Controllers, RecoverAudit(c) PROVE IInv'
<1>1. {"acquiring", "terminalizing", "reporting", "recovering"} \subseteq Places \ Special
  BY DEF Places, Special
<1> QED
  BY <1>1, EnterStep DEF RecoverAudit, runFiles

\* init-v2: the request is not announced, and the adapter was not started.
LEMMA InitManifestInv == ASSUME IInv, NEW c \in Controllers, InitManifest(c) PROVE IInv'
<1>1. /\ pc[c] = "created" /\ pc' = [pc EXCEPT ![c] = "staging"] /\ job' = job
      /\ manifest' = FreshManifest /\ files' = files /\ row' = row /\ adapter' = adapter
      /\ count' = count /\ calls' = calls /\ overlapped' = overlapped
  BY DEF InitManifest, At, Goto, Continue, remote, ghosts
<1>2. pc'[c] = "staging" /\ \A d \in Controllers \ {c} : pc'[d] = pc[d]
  BY <1>1 DEF IInv, Typed
<1>3. Typed'
  BY <1>1, NoManifestIs DEF IInv, Typed, Places
<1>4. ~ Importing(c)' /\ \A d \in Controllers \ {c} : Importing(d)' = Importing(d)
  BY <1>1, <1>2 DEF Importing
<1>5. ImportInv' /\ RequestInv'
  BY <1>1, <1>4 DEF IInv, ImportInv, RequestInv
<1>6. ASSUME ~ overlapped' PROVE CallsInv'
  <2>1. CallsInv /\ CallInv(c)
    BY <1>1, <1>6 DEF IInv, CallsInv
  <2>2. calls = 0 /\ \A d \in Controllers \ {c} : pc[d] = "idle"
    BY <1>1, <2>1 DEF CallsInv, CallInv
  <2> QED
    BY <1>1, <1>2, <2>1, <2>2 DEF CallsInv, CallInv, Calling
<1> QED
  BY <1>3, <1>5, <1>6 DEF IInv

\* The drafted manifest replaces the one on disk, and the shell goes on.
LEMMA WriteStep ==
  ASSUME IInv, NEW c \in Controllers, pc[c] = "writing",
         manifest' = job[c].draft, UNCHANGED <<files, bound, remote, ghosts>>,
         NEW place \in Targets, place \in {"importing", "calling"} => place = job[c].then,
         NEW j, IsJob(j),
         pc' = [pc EXCEPT ![c] = place], job' = [job EXCEPT ![c] = j]
  PROVE  IInv'
<1>1. /\ files' = files /\ row' = row /\ adapter' = adapter
      /\ count' = count /\ calls' = calls /\ overlapped' = overlapped
  BY DEF remote, ghosts
<1>2. /\ pc'[c] = place /\ job'[c] = j
      /\ \A d \in Controllers \ {c} : pc'[d] = pc[d] /\ job'[d] = job[d]
  BY DEF IInv, Typed
<1>3. Typed'
  BY <1>1, <1>2 DEF IInv, Typed, IsJob, Targets
<1>4. /\ Importing(c)' => Importing(c)
      /\ \A d \in Controllers \ {c} : Importing(d)' = Importing(d)
  BY <1>2 DEF Importing, Targets
<1>5. ImportInv'
  BY <1>1, <1>4 DEF IInv, ImportInv
<1>6. RequestInv'
  BY <1>1 DEF IInv, RequestInv
<1>7. ASSUME ~ overlapped' PROVE CallsInv'
  <2>1. CallsInv /\ CallInv(c)
    BY <1>1, <1>7 DEF IInv, CallsInv
  <2>2. \A d \in Controllers \ {c} : pc[d] = "idle"
    BY <2>1 DEF CallsInv
  <2>3. calls > 0 => Announced(manifest)'
    BY <2>1 DEF CallsInv, CallInv, Announced
  <2>4. CallInv(c)'
    BY <1>1, <1>2, <2>1 DEF CallInv, Calling, Announced, Targets
  <2>5. \A d \in Controllers \ {c} : CallInv(d)'
    BY <1>2, <2>2 DEF CallInv, Calling
  <2> QED
    BY <1>1, <1>2, <2>1, <2>2, <2>3, <2>4, <2>5 DEF CallsInv
<1> QED
  BY <1>3, <1>5, <1>6, <1>7 DEF IInv

LEMMA WriteInv == ASSUME IInv, NEW c \in Controllers, Write(c) PROVE IInv'
<1>1. /\ pc[c] = "writing" /\ manifest' = job[c].draft
      /\ UNCHANGED <<files, bound, remote, ghosts>>
  BY DEF Write, At
<1>2. CASE job[c].then = "idle"
  <2>1. pc' = [pc EXCEPT ![c] = "idle"] /\ job' = [job EXCEPT ![c] = NoJob]
    BY <1>2 DEF Write, Leave, Goto
  <2>2. "idle" \in Targets
    BY DEF Targets, Places
  <2> QED
    BY <1>1, <2>1, <2>2, NoJobIs, WriteStep
<1>3. CASE job[c].then # "idle" /\ (job[c].then # "recorded" \/ job[c].mode = "resume")
  <2> DEFINE j == [job[c] EXCEPT !.draft = NoManifest, !.then = "idle"]
  <2>1. IsJob(j) /\ job[c].then \in Targets
    BY NoManifestIs DEF IInv, Typed, IsJob, Targets, Places
  <2>2. pc' = [pc EXCEPT ![c] = job[c].then] /\ job' = [job EXCEPT ![c] = j]
    BY <1>3 DEF Write, Goto, IInv, Typed
  <2> HIDE DEF j
  <2> QED
    BY <1>1, <2>1, <2>2, WriteStep
<1>4. CASE job[c].then = "recorded" /\ job[c].mode # "resume"
  <2> DEFINE last == job[c].stage = Len(StageOrder)
             j == [NoJob EXCEPT !.mode = "run", !.stage = IF last THEN @ ELSE job[c].stage + 1]
             place == IF last THEN "finalizing" ELSE "staging"
  <2>1. IsJob(j)
    BY NoJobIs, NoManifestIs DEF IsJob, NoJob, Targets, Places
  <2>2. pc' = [pc EXCEPT ![c] = place] /\ job' = [job EXCEPT ![c] = j]
    BY <1>4 DEF Write, Goto
  <2>3. place \in Targets /\ place \notin {"importing", "calling"}
    BY DEF Targets, Places
  <2> HIDE DEF j, place
  <2> QED
    BY <1>1, <2>1, <2>2, <2>3, WriteStep
<1> QED
  BY <1>2, <1>3, <1>4

\* The import is announced by the one who is past the intent file.
LEMMA AnnounceImportInv == ASSUME IInv, NEW c \in Controllers, AnnounceImport(c) PROVE IInv'
<1>1. pc[c] = "announcing import" /\ Quiet
  BY QuietFiles DEF AnnounceImport, At, Quiet
<1>2. CASE Conclude(c, "failed")
  BY <1>1, <1>2, ConcludeStep
<1>3. CASE Draft(c, WithEffect(manifest, "import", "prepared"), "importing", "none")
  <2> DEFINE m == WithEffect(manifest, "import", "prepared")
             j == [job[c] EXCEPT !.draft = m, !.then = "importing", !.outcome = "none"]
  <2>1. IsManifest(m) /\ (Announced(manifest) => Announced(m))
    <3>1. /\ IsManifest(m) /\ manifest.effect \in [Effects -> States]
          /\ m.effect = [manifest.effect EXCEPT !["import"] = "prepared"]
      BY WithEffectIs DEF IInv, Typed, IsManifest, Effects, States
    <3> QED
      BY <3>1 DEF Announced, Effects
  <2> HIDE DEF m
  <2>2. IsJob(j) /\ j.draft = m /\ j.then = "importing"
    BY <2>1 DEF IInv, Typed, IsJob, Targets, Places
  <2>3. job' = [job EXCEPT ![c] = j] /\ pc' = [pc EXCEPT ![c] = "writing"]
    BY <1>3 DEF IInv, Typed, Draft, Goto, m
  <2> HIDE DEF j
  <2>4. /\ pc'[c] = "writing" /\ job'[c] = j
        /\ \A d \in Controllers \ {c} : pc'[d] = pc[d] /\ job'[d] = job[d]
    BY <2>3 DEF IInv, Typed
  <2>5. Typed'
    BY <1>1, <2>2, <2>3, <2>4 DEF IInv, Typed, Quiet, Places
  <2>6. Importing(c) /\ Importing(c)' /\ \A d \in Controllers \ {c} : Importing(d)' = Importing(d)
    BY <1>1, <2>2, <2>4 DEF Importing
  <2>7. ImportInv'
    BY <1>1, <2>6 DEF IInv, ImportInv, Quiet
  <2>8. RequestInv'
    BY <1>1 DEF IInv, RequestInv, Quiet
  <2>9. ASSUME ~ overlapped' PROVE CallsInv'
    <3>1. CallsInv
      BY <1>1, <2>9 DEF IInv, Quiet
    <3>2. CallInv(c)'
      BY <1>1, <2>1, <2>2, <2>4 DEF CallInv, Calling, Announced, Quiet
    <3>3. \A d \in Controllers \ {c} : CallInv(d)'
      BY <1>1, <2>4, <3>1 DEF CallsInv, CallInv, Calling, Announced, Quiet
    <3> QED
      BY <1>1, <2>4, <3>1, <3>2, <3>3 DEF CallsInv, Announced, Quiet
  <2> QED
    BY <2>5, <2>7, <2>8, <2>9 DEF IInv
<1> QED
  BY <1>2, <1>3 DEF AnnounceImport, Announce

\* The request is announced where it was not, so the adapter was not started.
LEMMA AnnounceRequestInv == ASSUME IInv, NEW c \in Controllers, AnnounceRequest(c) PROVE IInv'
<1>1. pc[c] = "staging" /\ Quiet
  BY QuietFiles DEF AnnounceRequest, InStage, At, Quiet
<1>2. CASE Conclude(c, "failed")
  BY <1>1, <1>2, ConcludeStep
<1>3. CASE /\ EffectAllowed(manifest, "request", "prepared")
           /\ Draft(c, WithEffect(manifest, "request", "prepared"), "calling", "none")
  <2> DEFINE m == WithEffect(manifest, "request", "prepared")
             j == [job[c] EXCEPT !.draft = m, !.then = "calling", !.outcome = "none"]
  <2>1. IsManifest(m) /\ Announced(m) /\ ~ Announced(manifest)
    <3>1. /\ IsManifest(m) /\ manifest.effect \in [Effects -> States]
          /\ m.effect = [manifest.effect EXCEPT !["request"] = "prepared"]
      BY WithEffectIs DEF IInv, Typed, IsManifest, Effects, States
    <3> QED
      BY <1>3, <3>1 DEF Announced, Effects, EffectAllowed
  <2> HIDE DEF m
  <2>2. IsJob(j) /\ j.draft = m /\ j.then = "calling"
    BY <2>1 DEF IInv, Typed, IsJob, Targets, Places
  <2>3. job' = [job EXCEPT ![c] = j] /\ pc' = [pc EXCEPT ![c] = "writing"]
    BY <1>3 DEF IInv, Typed, Draft, Goto, m
  <2> HIDE DEF j
  <2>4. /\ pc'[c] = "writing" /\ job'[c] = j
        /\ \A d \in Controllers \ {c} : pc'[d] = pc[d] /\ job'[d] = job[d]
    BY <2>3 DEF IInv, Typed
  <2>5. Typed'
    BY <1>1, <2>2, <2>3, <2>4 DEF IInv, Typed, Quiet, Places
  <2>6. ~ Importing(c)' /\ \A d \in Controllers \ {c} : Importing(d)' = Importing(d)
    BY <2>2, <2>4 DEF Importing
  <2>7. ImportInv'
    BY <1>1, <2>6 DEF IInv, ImportInv, Quiet
  <2>8. RequestInv'
    BY <1>1 DEF IInv, RequestInv, Quiet
  <2>9. ASSUME ~ overlapped' PROVE CallsInv'
    <3>1. CallsInv
      BY <1>1, <2>9 DEF IInv, Quiet
    <3>2. calls = 0
      BY <2>1, <3>1 DEF CallsInv, IInv, Typed
    <3>3. CallInv(c)'
      BY <1>1, <2>1, <2>2, <2>4, <3>2 DEF CallInv, Calling, Announced, Quiet
    <3>4. \A d \in Controllers \ {c} : CallInv(d)'
      BY <1>1, <2>4, <3>1 DEF CallsInv, CallInv, Calling, Announced, Quiet
    <3> QED
      BY <1>1, <2>4, <3>1, <3>2, <3>3, <3>4 DEF CallsInv, Announced, Quiet
  <2> QED
    BY <2>5, <2>7, <2>8, <2>9 DEF IInv
<1> QED
  BY <1>2, <1>3 DEF AnnounceRequest, Announce

\* write_import_intent: whoever makes the file is the first, and will be alone behind it.
LEMMA IntendInv == ASSUME IInv, NEW c \in Controllers, Intend(c) PROVE IInv'
<1>1. pc[c] = "admitted" /\ Quiet
  <2>1. CASE UNCHANGED runFiles
    BY <2>1, QuietFiles DEF Intend, CreateOnce, At, Quiet
  <2>2. CASE Create("import-intent")
    BY <2>2, QuietFiles DEF Intend, CreateOnce, At, Quiet
  <2> QED
    BY <2>1, <2>2 DEF Intend, CreateOnce
<1>2. CASE "import-intent" \in files
  BY <1>1, <1>2, ConcludeStep DEF Intend, CreateOnce
<1>3. CASE "import-intent" \notin files
  <2>1. /\ pc' = [pc EXCEPT ![c] = "announcing import"] /\ job' = job
        /\ "import-intent" \in files'
    BY <1>3 DEF Intend, CreateOnce, Continue, Goto, Create
  <2>2. pc'[c] = "announcing import" /\ \A d \in Controllers \ {c} : pc'[d] = pc[d]
    BY <2>1 DEF IInv, Typed
  <2>3. Typed'
    BY <1>1, <2>1 DEF IInv, Typed, Quiet, Places
  <2>4. /\ count["import"] = 0 /\ count["import"] <= 1
        /\ \A d \in Controllers : ~ Importing(d)
    BY <1>3 DEF IInv, ImportInv
  <2>5. \A d \in Controllers \ {c} : ~ Importing(d)'
    BY <2>1, <2>2, <2>4 DEF Importing
  <2>6. ImportInv'
    BY <1>1, <2>1, <2>4, <2>5 DEF ImportInv, Quiet
  <2>7. RequestInv'
    BY <1>1 DEF IInv, RequestInv, Quiet
  <2>8. ASSUME ~ overlapped' PROVE CallsInv'
    <3>1. CallsInv
      BY <1>1, <2>8 DEF IInv, Quiet
    <3>2. \A d \in Controllers : CallInv(d)'
      BY <1>1, <2>1, <2>2, <3>1 DEF CallsInv, CallInv, Calling, Announced, Quiet
    <3> QED
      BY <1>1, <2>2, <3>1, <3>2 DEF CallsInv, Announced, Quiet
  <2> QED
    BY <2>3, <2>6, <2>7, <2>8 DEF IInv
<1> QED
  BY <1>2, <1>3

LEMMA CountIs == Twice(0) = 1 /\ 1 \in 0..2 /\ 1 <= 1
BY DEF Twice

LEMMA TwiceIs == \A n \in 0..2 : Twice(n) \in 0..2
BY DEF Twice

LEMMA ExceptIs ==
  ASSUME NEW D, NEW R, NEW f \in [D -> R], NEW a, NEW v \in R
  PROVE  [f EXCEPT ![a] = v] \in [D -> R]
OBVIOUS

\* charter_import: the only one there, and the first.
LEMMA ImportStep == ASSUME IInv, NEW c \in Controllers, Import(c) PROVE IInv'
<1>1. pc[c] = "importing" /\ UNCHANGED <<runFiles, remote, calls, overlapped, killed>>
  BY DEF Import, At
<1>2. {"imported", "import lost"} \subseteq Plain
  BY DEF Plain, Places, Special
<1>3. CASE Continue(c, "import lost") /\ UNCHANGED count
  <2>1. Quiet
    BY <1>1, <1>3 DEF Quiet, runFiles, remote
  <2> QED
    BY <1>1, <1>2, <1>3, <2>1, ContinueStep
<1>4. ASSUME NEW place \in {"imported", "import lost"}, Continue(c, place),
             count' = [count EXCEPT !["import"] = Twice(@)]
      PROVE  IInv'
  <2>1. /\ pc'[c] = place /\ job' = job
        /\ \A d \in Controllers \ {c} : pc'[d] = pc[d]
    BY <1>4 DEF Continue, Goto, IInv, Typed
  <2>2. /\ manifest' = manifest /\ files' = files /\ row' = row /\ adapter' = adapter
        /\ calls' = calls /\ overlapped' = overlapped
    BY <1>1 DEF runFiles, remote
  <2>3. /\ Importing(c) /\ count["import"] = 0 /\ "import-intent" \in files
        /\ \A d \in Controllers : Importing(d) => d = c
    BY <1>1 DEF IInv, ImportInv, Importing
  <2>4. count'["import"] <= 1 /\ count'["request"] = count["request"] /\ count' \in [Effects -> 0..2]
    <3>1. Twice(count["import"]) = 1
      BY <2>3, CountIs
    <3>2. count' = [count EXCEPT !["import"] = 1] /\ count \in [Effects -> 0..2]
      BY <1>4, <3>1 DEF IInv, Typed
    <3>3. count'["import"] = 1 /\ count'["request"] = count["request"]
      BY <3>2 DEF Effects
    <3>4. count' \in [Effects -> 0..2]
      BY <3>2, CountIs, ExceptIs
    <3> QED
      BY <3>3, <3>4, CountIs, Zenon
  <2>5. Typed'
    BY <1>2, <1>4, <2>1, <2>2, <2>4 DEF IInv, Typed, Continue, Goto, Plain
  <2>6. \A d \in Controllers : ~ Importing(d)'
    BY <2>1, <2>3 DEF Importing
  <2>7. ImportInv'
    BY <2>2, <2>3, <2>4, <2>6 DEF ImportInv
  <2>8. RequestInv'
    BY <2>2, <2>4 DEF IInv, RequestInv
  <2>9. ASSUME ~ overlapped' PROVE CallsInv'
    <3>1. CallsInv
      BY <2>2, <2>9 DEF IInv
    <3>2. \A d \in Controllers : CallInv(d)'
      BY <2>1, <2>2, <3>1 DEF CallsInv, CallInv, Calling, Announced
    <3> QED
      BY <1>1, <2>1, <2>2, <3>1, <3>2 DEF CallsInv, Announced
  <2> QED
    BY <2>5, <2>7, <2>8, <2>9 DEF IInv
<1> QED
  BY <1>3, <1>4 DEF Import

\* Once the manifest says so, the adapter is started; the store has the last word on the request.
LEMMA CallAdapterInv ==
  ASSUME IInv, NEW c \in Controllers, CallAdapter(c), "directory" \in files
  PROVE  IInv'
<1>1. /\ pc[c] = "calling" /\ manifest' = manifest /\ files \subseteq files'
      /\ count' = count /\ overlapped' = overlapped
      /\ calls' = IF overlapped THEN calls ELSE Twice(calls)
  <2>1. manifest' = manifest /\ files \subseteq files'
    BY QuietFiles DEF CallAdapter
  <2> QED
    BY <2>1 DEF CallAdapter, At
<1>2. RequestInv'
  <2>1. CASE UNCHANGED <<runFiles, remote>>
    BY <1>1, <2>1 DEF remote, IInv, RequestInv
  <2>2. CASE row' = Reopened(row) /\ UNCHANGED <<settledBy, adapter, kong>>
    <3>1. row' = "absent" => row = "absent"
      BY <2>2 DEF Reopened
    <3> QED
      BY <1>1, <2>2, <3>1 DEF IInv, RequestInv
  <2>3. CASE Reservable /\ row' = "prepared" /\ adapter' = [at |-> "prepared", by |-> c]
    <3>1. adapter.at = "none" /\ adapter'.at = "prepared"
      BY <2>3 DEF IInv, RequestInv, Reservable
    <3> QED
      BY <1>1, <2>3, <3>1 DEF IInv, RequestInv
  <2> QED
    BY <2>1, <2>2, <2>3 DEF CallAdapter
<1>3. PICK place \in {"request lost", "awaiting"} : Continue(c, place)
  BY DEF CallAdapter
<1>4. /\ pc'[c] = place /\ job' = job /\ \A d \in Controllers \ {c} : pc'[d] = pc[d]
  BY <1>3 DEF Continue, Goto, IInv, Typed
<1>5. "at" \in DOMAIN adapter'
  <2>1. CASE adapter' = adapter
    BY <2>1 DEF IInv, Typed
  <2>2. CASE adapter' = [at |-> "prepared", by |-> c]
    BY <2>2
  <2> QED
    BY <2>1, <2>2 DEF CallAdapter, remote
<1>6. calls' \in 0..2
  <2>1. calls \in 0..2
    BY DEF IInv, Typed
  <2> QED
    BY <1>1, <2>1, TwiceIs
<1>7. Typed'
  BY <1>1, <1>3, <1>4, <1>5, <1>6 DEF IInv, Typed, Continue, Goto, Places
<1>8. \A d \in Controllers : Importing(d)' = Importing(d)
  BY <1>1, <1>4 DEF Importing
<1>9. ImportInv'
  BY <1>1, <1>8 DEF IInv, ImportInv
<1>10. ASSUME ~ overlapped' PROVE CallsInv'
  <2>1. CallsInv /\ CallInv(c)
    BY <1>1, <1>10 DEF IInv, CallsInv
  <2>2. calls = 0 /\ Announced(manifest)
    BY <1>1, <2>1 DEF CallInv, Calling
  <2>3. calls' <= 1
    BY <1>1, <1>10, <2>2, CountIs
  <2>4. \A d \in Controllers \ {c} : pc[d] = "idle"
    BY <1>1, <2>1 DEF CallsInv
  <2>5. \A d \in Controllers : CallInv(d)'
    BY <1>4, <2>4 DEF CallInv, Calling
  <2> QED
    BY <1>1, <1>4, <2>2, <2>3, <2>4, <2>5 DEF CallsInv, Announced
<1> QED
  BY <1>2, <1>7, <1>9, <1>10 DEF IInv

-----------------------------------------------------------------------------
(* The adapter.                                                            *)

\* The adapter changes nothing the controllers' part of the invariant is about.
LEMMA AdapterStep ==
  ASSUME IInv, UNCHANGED <<runFiles, shells>>, calls' = calls, overlapped' = overlapped,
         RequestInv', NEW place, AdapterGoes(place),
         count'["import"] = count["import"], count' \in [Effects -> 0..2]
  PROVE  IInv'
<1>1. manifest' = manifest /\ files' = files /\ pc' = pc /\ job' = job
  BY DEF runFiles, shells
<1>2. Typed'
  BY <1>1 DEF IInv, Typed, AdapterGoes
<1>3. ImportInv'
  BY <1>1 DEF IInv, ImportInv, Importing
<1>4. ASSUME ~ overlapped' PROVE CallsInv'
  BY <1>1, <1>4 DEF IInv, CallsInv, CallInv, Calling, Announced
<1> QED
  BY <1>2, <1>3, <1>4 DEF IInv

\* Where the adapter goes on without sending.
LEMMA AdapterWaits ==
  ASSUME IInv, UNCHANGED <<runFiles, shells>>, UNCHANGED <<calls, overlapped, count>>,
         adapter.at # "none", row' = "absent" => row = "absent",
         NEW place, AdapterGoes(place),
         place = "dispatched" => adapter.at = "prepared", place \notin {"none", "prepared"}
  PROVE  IInv'
<1>1. adapter'.at = place
  BY DEF AdapterGoes, IInv, Typed
<1>2. row # "absent" /\ row' # "absent"
  BY DEF IInv, RequestInv
<1>3. RequestInv'
  BY <1>1, <1>2 DEF IInv, RequestInv
<1> QED
  BY <1>3, AdapterStep DEF IInv, Typed

\* Only a dispatched request is sent, and none was sent before.
LEMMA AdapterInv == ASSUME IInv, Adapter PROVE IInv'
<1>1. CASE AdapterDispatches
  <2>1. PICK place \in {"dispatched", "refused"} : AdapterGoes(place) /\ (row' = "absent" => row = "absent")
    BY <1>1 DEF AdapterDispatches
  <2> QED
    BY <1>1, <2>1, AdapterWaits DEF AdapterDispatches, ghosts
<1>2. CASE AdapterMintFails
  BY <1>2, AdapterWaits DEF AdapterMintFails, ghosts
<1>3. CASE AdapterSends
  <2>1. adapter.at = "dispatched" /\ adapter'.at = "sent" /\ count["request"] = 0
    BY <1>3 DEF AdapterSends, AdapterGoes, IInv, Typed, RequestInv
  <2>2. count' = [count EXCEPT !["request"] = 1] /\ count \in [Effects -> 0..2]
    BY <1>3, <2>1, CountIs DEF AdapterSends, IInv, Typed
  <2>3. count'["request"] = 1 /\ count'["import"] = count["import"]
    BY <2>2 DEF Effects
  <2>4. count' \in [Effects -> 0..2]
    BY <2>2, CountIs, ExceptIs
  <2>5. row # "absent" /\ row' = row
    BY <1>3, <2>1 DEF AdapterSends, IInv, RequestInv
  <2>6. RequestInv'
    BY <2>1, <2>3, <2>5, CountIs, Zenon DEF RequestInv
  <2> QED
    BY <1>3, <2>3, <2>4, <2>6, AdapterStep DEF AdapterSends
<1>4. CASE AdapterSettles
  <2>1. PICK place \in {"answered", "refused"} : AdapterGoes(place)
    BY <1>4 DEF AdapterSettles, Replies
  <2>2. row' = "absent" => row = "absent"
    BY <1>4 DEF AdapterSettles
  <2> QED
    BY <1>4, <2>1, <2>2, AdapterWaits DEF AdapterSettles, ghosts
<1>5. CASE AdapterHearsNothing
  <2>1. row' = "absent" => row = "absent"
    BY <1>5 DEF AdapterHearsNothing, Reopened
  <2> QED
    BY <1>5, <2>1, AdapterWaits DEF AdapterHearsNothing, ghosts
<1>6. CASE AdapterDies
  BY <1>6, AdapterWaits DEF AdapterDies
<1> QED
  BY <1>1, <1>2, <1>3, <1>4, <1>5, <1>6 DEF Adapter

-----------------------------------------------------------------------------
(* The other actions of a controller, which keep effects and calls alone.  *)

LEMMA PlainPlaces ==
  {"idle", "staging", "scanned", "admitted", "imported", "observing import", "import lost",
   "normalized", "awaiting", "answered", "receipted", "observing request", "request lost",
   "recording", "recorded", "finalizing", "publishing", "binding", "evaluating", "acquiring",
   "audited", "terminalizing", "reporting", "limiting", "recovering"} \subseteq Plain
BY DEF Plain, Places, Special

\* Nothing but the controller's own place and job changes, or a file is created.
LEMMA QuietIs ==
  /\ UNCHANGED <<runFiles, remote, ghosts>> => Quiet
  /\ \A name : Create(name) /\ UNCHANGED <<remote, ghosts>> => Quiet
  /\ manifest' = manifest /\ files \subseteq files' /\ UNCHANGED <<remote, ghosts>> => Quiet
BY QuietFiles DEF Quiet

\* The outcome of a stage is noted, with whether its metrics count findings.
LEMMA NotedStep ==
  ASSUME IInv, NEW c \in Controllers, pc[c] # "idle", Quiet, NEW outcome, NEW counted,
         Goto(c, "recording"), job' = [job EXCEPT ![c].outcome = outcome, ![c].findings = counted]
  PROVE  IInv'
<1> DEFINE j == [job[c] EXCEPT !.outcome = outcome, !.findings = counted]
<1>1. job' = [job EXCEPT ![c] = j] /\ IsJob(j)
  BY DEF IInv, Typed, IsJob
<1> HIDE DEF j
<1> QED
  BY <1>1, PlainPlaces, PlainStep DEF Goto

LEMMA OnceStep ==
  ASSUME IInv, NEW c \in Controllers, pc[c] # "idle", NEW name, NEW place \in Plain,
         CreateOnce(c, name, place) \/ (PublishOnce(c, name, place) /\ files \subseteq files')
  PROVE  IInv'
<1>1. CASE CreateOnce(c, name, place)
  <2>1. Quiet
    BY <1>1, QuietIs DEF CreateOnce
  <2> QED
    BY <1>1, <2>1, ConcludeStep, ContinueStep DEF CreateOnce
<1>2. CASE PublishOnce(c, name, place) /\ files \subseteq files'
  <2>1. Quiet
    BY <1>2, QuietIs DEF PublishOnce
  <2> QED
    BY <1>2, <2>1, LeaveStep, ContinueStep DEF PublishOnce
<1> QED
  BY <1>1, <1>2

LEMMA StageInv ==
  ASSUME IInv, NEW c \in Controllers,
         \/ LocalStage(c) \/ RunnerStage(c) \/ StageFails(c) \/ Record(c) \/ Reread(c) \/ Pause(c)
  PROVE  IInv'
<1>1. CASE LocalStage(c)
  <2>1. pc[c] # "idle" /\ Quiet /\ \E outcome : RecordStage(c, outcome)
    BY <1>1, QuietIs DEF LocalStage, InStage, At
  <2> QED
    BY <2>1, RecordStep
<1>2. CASE RunnerStage(c)
  <2>1. pc[c] # "idle" /\ manifest' = manifest /\ files \subseteq files' /\ UNCHANGED <<remote, ghosts>>
    BY <1>2 DEF RunnerStage, InStage, At
  <2>2. Quiet
    BY <2>1, QuietIs
  <2>3. PICK outcome, counted :
          /\ Goto(c, "recording")
          /\ job' = [job EXCEPT ![c].outcome = outcome, ![c].findings = counted]
    BY <1>2 DEF RunnerStage
  <2> QED
    BY <2>1, <2>2, <2>3, NotedStep
<1>3. CASE StageFails(c)
  <2>1. pc[c] # "idle" /\ Quiet
    BY <1>3, QuietIs DEF StageFails, InStage, At
  <2> QED
    BY <1>3, <2>1, RecordStep DEF StageFails
<1>4. CASE Record(c)
  <2>1. pc[c] # "idle" /\ Quiet
    BY <1>4, QuietIs DEF Record, At
  <2> QED
    BY <1>4, <2>1, RecordStep DEF Record
<1>5. CASE Reread(c)
  <2>1. pc[c] # "idle" /\ Quiet
    BY <1>5, QuietIs DEF Reread, At
  <2> QED
    BY <1>5, <2>1, PlainPlaces, ContinueStep, LeaveStep DEF Reread
<1>6. CASE Pause(c)
  <2>1. pc[c] # "idle" /\ Quiet
    BY <1>6, QuietIs DEF Pause, InStage, At
  <2> QED
    BY <1>6, <2>1, LeaveStep DEF Pause
<1> QED
  BY <1>1, <1>2, <1>3, <1>4, <1>5, <1>6

LEMMA ScanInv ==
  ASSUME IInv, NEW c \in Controllers,
         \/ Scan(c) \/ Admit(c) \/ ObserveImport(c) \/ RecordImport(c)
         \/ Analyse(c) \/ LinkReport(c) \/ Propose(c) \/ Approve(c)
  PROVE  IInv'
<1>1. CASE Scan(c)
  <2>1. pc[c] # "idle" /\ Quiet
    BY <1>1, QuietIs DEF Scan, InStage, At
  <2> QED
    BY <1>1, <2>1, PlainPlaces, ContinueStep DEF Scan
<1>2. CASE Admit(c)
  BY <1>2, PlainPlaces, OnceStep DEF Admit, At
<1>3. CASE ObserveImport(c)
  <2>1. pc[c] # "idle" /\ Quiet
    BY <1>3, QuietIs DEF ObserveImport, At
  <2> QED
    BY <1>3, <2>1, PlainPlaces, ContinueStep DEF ObserveImport
<1>4. CASE RecordImport(c)
  <2>1. {"observed", "unknown"} \subseteq States \ {"none"} /\ "import" \in Effects
    BY DEF States, Effects
  <2> QED
    BY <1>4, <2>1, ResolveStep DEF RecordImport, At
<1>5. CASE Analyse(c)
  <2>1. pc[c] # "idle" /\ Quiet
    BY <1>5, QuietIs DEF Analyse, InStage, At
  <2> QED
    BY <1>5, <2>1, PlainPlaces, ContinueStep DEF Analyse
<1>6. CASE LinkReport(c)
  <2>1. pc[c] # "idle" /\ Quiet
    BY <1>6, QuietIs DEF LinkReport, At
  <2> QED
    BY <1>6, <2>1, ConcludeStep, NotedStep DEF LinkReport
<1>7. CASE Propose(c)
  <2>1. pc[c] # "idle" /\ Quiet
    BY <1>7, QuietIs DEF Propose, InStage, At
  <2> QED
    BY <1>7, <2>1, ConcludeStep DEF Propose
<1>8. CASE Approve(c)
  <2>1. pc[c] # "idle" /\ Quiet
    BY <1>8, QuietIs DEF Approve, InStage, At
  <2> QED
    BY <1>8, <2>1, ConcludeStep DEF Approve
<1> QED
  BY <1>1, <1>2, <1>3, <1>4, <1>5, <1>6, <1>7, <1>8

LEMMA AnsweredInv ==
  ASSUME IInv, NEW c \in Controllers,
         Receive(c) \/ CheckResult(c) \/ Describe(c) \/ RecordRequest(c)
  PROVE  IInv'
<1>1. CASE Receive(c)
  <2>1. pc[c] # "idle" /\ Quiet
    BY <1>1, QuietIs DEF Receive, At
  <2> QED
    BY <1>1, <2>1, PlainPlaces, ContinueStep DEF Receive
<1>2. CASE CheckResult(c)
  <2>1. pc[c] # "idle" /\ Quiet
    BY <1>2, QuietIs DEF CheckResult, At
  <2> QED
    BY <1>2, <2>1, PlainPlaces, ContinueStep DEF CheckResult
<1>3. CASE Describe(c)
  <2>1. pc[c] # "idle" /\ Quiet
    BY <1>3, QuietIs DEF Describe, At
  <2> QED
    BY <1>3, <2>1, PlainPlaces, ContinueStep DEF Describe
<1>4. CASE RecordRequest(c)
  <2>1. {"observed", "unknown"} \subseteq States \ {"none"} /\ "request" \in Effects
    BY DEF States, Effects
  <2> QED
    BY <1>4, <2>1, ResolveStep DEF RecordRequest, At
<1> QED
  BY <1>1, <1>2, <1>3, <1>4

LEMMA PublicationInv ==
  ASSUME IInv, NEW c \in Controllers,
         Finalize(c) \/ PublishRequest(c) \/ PublishBindings(c) \/ Evaluate(c)
  PROVE  IInv'
<1>1. CASE Finalize(c)
  <2>1. pc[c] # "idle" /\ Quiet
    BY <1>1, QuietIs DEF Finalize, At
  <2>2. /\ IsManifest(Final(manifest)) /\ (Announced(manifest) => Announced(Final(manifest)))
        /\ "publishing" \in Targets \ {"importing", "calling"}
    BY WithStageIs DEF IInv, Typed, Announced, Targets, Places
  <2> QED
    BY <1>1, <2>1, <2>2, DraftStep, LeaveStep DEF Finalize
<1>2. CASE PublishRequest(c)
  <2>1. pc[c] # "idle"
    BY <1>2 DEF PublishRequest, At
  <2>2. CASE Publishable
    BY <1>2, <2>1, <2>2, PlainPlaces, OnceStep DEF PublishRequest, PublishOnce
  <2>3. CASE ~ Publishable
    <3>1. Quiet
      BY <1>2, <2>3, QuietIs DEF PublishRequest
    <3> QED
      BY <1>2, <2>1, <2>3, <3>1, LeaveStep DEF PublishRequest
  <2> QED
    BY <2>2, <2>3
<1>3. CASE PublishBindings(c)
  BY <1>3, PlainPlaces, OnceStep DEF PublishBindings, PublishOnce, At
<1>4. CASE Evaluate(c)
  <2>1. pc[c] # "idle" /\ manifest' = manifest /\ files \subseteq files' /\ UNCHANGED <<remote, ghosts>>
    BY <1>4 DEF Evaluate, At
  <2>2. Quiet
    BY <2>1, QuietIs
  <2> QED
    BY <1>4, <2>1, <2>2, LeaveStep DEF Evaluate
<1> QED
  BY <1>1, <1>2, <1>3, <1>4

LEMMA RecoveryInv == ASSUME IInv, NEW c \in Controllers, Recovery(c) PROVE IInv'
<1>1. CASE RecoverAudit(c)
  BY <1>1, RecoverAuditInv
<1>2. CASE Acquire(c)
  <2>1. pc[c] # "idle" /\ Quiet
    BY <1>2, QuietIs DEF Acquire, At
  <2> QED
    BY <1>2, <2>1, PlainPlaces, ContinueStep, LeaveStep DEF Acquire
<1>3. CASE WriteAudit(c)
  BY <1>3, PlainPlaces, OnceStep DEF WriteAudit, PublishOnce, At
<1>4. CASE Terminalize(c)
  <2>1. pc[c] # "idle" /\ manifest' = manifest /\ files' = files /\ adapter' = adapter
    BY <1>4 DEF Terminalize, At, runFiles
  <2>2. row' = "absent" => row = "absent"
    BY <1>4 DEF Terminalize
  <2>3. Quiet
    BY <1>4, <2>1, <2>2 DEF Terminalize, Quiet, ghosts
  <2> QED
    BY <1>4, <2>1, <2>3, PlainPlaces, ContinueStep, LeaveStep DEF Terminalize
<1>5. CASE Report(c)
  <2>1. pc[c] # "idle"
    BY <1>5 DEF Report, At
  <2>2. CASE AuditState = "sqlite-terminal"
    BY <1>5, <2>1, <2>2, PlainPlaces, OnceStep DEF Report, PublishOnce
  <2>3. CASE AuditState # "sqlite-terminal"
    <3>1. Quiet
      BY <1>5, <2>3, QuietIs DEF Report
    <3> QED
      BY <1>5, <2>1, <2>3, <3>1, LeaveStep DEF Report
  <2> QED
    BY <2>2, <2>3
<1>6. CASE Limit(c)
  BY <1>6, PlainPlaces, OnceStep DEF Limit, PublishOnce, At
<1>7. CASE BindRecovery(c)
  <2>1. pc[c] # "idle" /\ Quiet
    BY <1>7, QuietIs DEF BindRecovery, At
  <2>2. /\ IsManifest(WithRecovery(manifest)) /\ Announced(WithRecovery(manifest))
        /\ "idle" \in Targets \ {"importing", "calling"}
    BY WithRecoveryIs DEF IInv, Typed, Targets, Places
  <2> QED
    BY <1>7, <2>1, <2>2, DraftStep, LeaveStep DEF BindRecovery
<1> QED
  BY <1>1, <1>2, <1>3, <1>4, <1>5, <1>6, <1>7 DEF Recovery

LEMMA KillInv == ASSUME IInv, NEW c \in Controllers, Kill(c) PROVE IInv'
<1>1. pc[c] # "idle" /\ Quiet
  BY DEF Kill, At, Quiet, runFiles, remote
<1> QED
  BY <1>1, LeaveStep DEF Kill

-----------------------------------------------------------------------------
(* The directory is there before anything else.                            *)

DirInv ==
  "directory" \notin files => manifest.status = "none" /\ \A c \in Controllers : pc[c] = "idle"

Inv == IInv /\ DirInv

\* Files are never removed.
LEMMA FilesStay == ASSUME NEW c \in Controllers, Controller(c) PROVE files \subseteq files'
<1>1. UNCHANGED runFiles => files \subseteq files'
  BY DEF runFiles
<1>2. \A name : Create(name) => files \subseteq files'
  BY DEF Create
<1>3. \A name, place : PublishOnce(c, name, place) \/ CreateOnce(c, name, place) => files \subseteq files'
  BY <1>1, <1>2 DEF PublishOnce, CreateOnce
<1>4. CASE Run(c) \/ InitManifest(c) \/ Resume(c) \/ Write(c) \/ Kill(c)
  BY <1>1, <1>2, <1>4 DEF Run, InitManifest, Resume, Write, Kill
<1>5. CASE LocalStage(c) \/ RunnerStage(c) \/ StageFails(c) \/ Record(c) \/ Reread(c) \/ Pause(c)
  BY <1>1, <1>5 DEF LocalStage, RunnerStage, StageFails, Record, Reread, Pause
<1>6. CASE Scan(c) \/ Admit(c) \/ Intend(c) \/ AnnounceImport(c) \/ Import(c) \/ ObserveImport(c)
  BY <1>1, <1>2, <1>3, <1>6 DEF Scan, Admit, Intend, AnnounceImport, Import, ObserveImport
<1>7. CASE RecordImport(c) \/ RecordRequest(c)
  BY <1>1, <1>7 DEF RecordImport, RecordRequest, Resolve
<1>8. CASE Analyse(c) \/ LinkReport(c) \/ Propose(c) \/ Approve(c)
  BY <1>1, <1>2, <1>8 DEF Analyse, LinkReport, Propose, Approve
<1>9. CASE AnnounceRequest(c) \/ CallAdapter(c) \/ Receive(c) \/ CheckResult(c) \/ Describe(c)
  BY <1>1, <1>2, <1>9 DEF AnnounceRequest, CallAdapter, Receive, CheckResult, Describe
<1>10. CASE Finalize(c) \/ PublishRequest(c) \/ PublishBindings(c) \/ Evaluate(c)
  BY <1>1, <1>3, <1>10 DEF Finalize, PublishRequest, PublishBindings, Evaluate
<1>11. CASE Recovery(c)
  BY <1>1, <1>3, <1>11
     DEF Recovery, RecoverAudit, Acquire, WriteAudit, Terminalize, Report, Limit, BindRecovery
<1> QED
  BY <1>4, <1>5, <1>6, <1>7, <1>8, <1>9, <1>10, <1>11 DEF Controller, Executor

LEMMA DirectoryStays == ASSUME DirInv, [Next]_vars PROVE DirInv'
<1>1. CASE Adapter \/ UNCHANGED vars
  <2>1. UNCHANGED <<runFiles, shells>>
    BY <1>1 DEF Adapter, AdapterDispatches, AdapterMintFails, AdapterSends, AdapterSettles,
                AdapterHearsNothing, AdapterDies, vars
  <2> QED
    BY <2>1 DEF DirInv, runFiles, shells
<1>2. ASSUME NEW c \in Controllers, Controller(c) PROVE DirInv'
  <2>1. CASE "directory" \in files
    BY <1>2, <2>1, FilesStay DEF DirInv
  <2>2. CASE "directory" \notin files
    <3>1. manifest.status = "none" /\ pc[c] = "idle"
      BY <2>2 DEF DirInv
    <3>2. CASE Run(c)
      BY <3>2 DEF Run, Create, DirInv
    <3>3. ~ Resume(c) /\ ~ RecoverAudit(c)
      <4>1. ~ Authorized(manifest) /\ ~ Stranded(manifest)
        BY <3>1 DEF Authorized, Stranded
      <4>2. AuditState = "refused"
        BY <4>1 DEF AuditState
      <4> QED
        BY <4>1, <4>2 DEF Resume, RecoverAudit
    <3>4. Run(c)
      BY <1>2, <3>1, <3>3
         DEF Controller, InitManifest, Write, LocalStage, RunnerStage, StageFails, Scan, Admit, Intend,
             AnnounceImport, Import, ObserveImport, RecordImport, Analyse, LinkReport, Propose, Pause,
             Approve, Executor, AnnounceRequest, CallAdapter, Receive, CheckResult, Describe,
             RecordRequest, Record, Reread, Finalize, PublishRequest, PublishBindings, Evaluate,
             Recovery, Acquire, WriteAudit, Terminalize, Report, Limit, BindRecovery, Kill, InStage, At
    <3> QED
      BY <3>2, <3>4
  <2> QED
    BY <2>1, <2>2
<1> QED
  BY <1>1, <1>2 DEF Next

-----------------------------------------------------------------------------
(* The theorem.                                                            *)

LEMMA InitInv == Init => Inv
<1> SUFFICES ASSUME Init PROVE Inv
  OBVIOUS
<1>1. Typed
  <2>1. count \in [Effects -> 0..2] /\ calls \in 0..2
    BY DEF Init
  <2>2. IsManifest(manifest) /\ "at" \in DOMAIN adapter /\ overlapped \in BOOLEAN
    BY NoManifestIs DEF Init
  <2>3. \A c \in Controllers : job[c] = NoJob
    BY DEF Init
  <2>4. job = [c \in Controllers |-> job[c]]
    BY <2>3 DEF Init
  <2> QED
    BY <2>1, <2>2, <2>3, <2>4, NoJobIs DEF Init, Typed, Places
<1>2. ImportInv
  BY DEF Init, ImportInv, Importing, Effects
<1>3. RequestInv
  BY DEF Init, RequestInv, Effects
<1>4. CallsInv
  BY DEF Init, CallsInv, CallInv, Calling
<1>5. DirInv
  BY DEF Init, DirInv, NoManifest
<1> QED
  BY <1>1, <1>2, <1>3, <1>4, <1>5 DEF Inv, IInv

LEMMA NextInv == Inv /\ [Next]_vars => Inv'
<1> SUFFICES ASSUME Inv, [Next]_vars PROVE Inv'
  OBVIOUS
<1>1. DirInv'
  BY DirectoryStays DEF Inv
<1>2. CASE UNCHANGED vars
  BY <1>2 DEF Inv, IInv, Typed, IsManifest, IsJob, ImportInv, Importing, RequestInv, CallsInv, CallInv,
              Calling, Announced, DirInv, vars, runFiles, shells, remote, ghosts
<1>3. CASE Adapter
  BY <1>1, <1>3, AdapterInv DEF Inv
<1>4. ASSUME NEW c \in Controllers, Controller(c) PROVE IInv'
  <2> USE <1>4 DEF Inv
  <2>1. CASE Run(c) \/ InitManifest(c) \/ Resume(c) \/ Write(c) \/ Kill(c)
    BY <2>1, RunInv, InitManifestInv, ResumeInv, WriteInv, KillInv
  <2>2. CASE LocalStage(c) \/ RunnerStage(c) \/ StageFails(c) \/ Record(c) \/ Reread(c) \/ Pause(c)
    BY <2>2, StageInv
  <2>3. CASE \/ Scan(c) \/ Admit(c) \/ ObserveImport(c) \/ RecordImport(c)
             \/ Analyse(c) \/ LinkReport(c) \/ Propose(c) \/ Approve(c)
    BY <2>3, ScanInv
  <2>4. CASE Intend(c) \/ AnnounceImport(c) \/ Import(c)
    BY <2>4, IntendInv, AnnounceImportInv, ImportStep
  <2>5. CASE Executor(c)
    <3>1. CASE CallAdapter(c)
      <4>1. "directory" \in files
        BY <3>1 DEF CallAdapter, At, DirInv
      <4> QED
        BY <3>1, <4>1, CallAdapterInv
    <3> QED
      BY <2>5, <3>1, AnnounceRequestInv, AnsweredInv DEF Executor
  <2>6. CASE Finalize(c) \/ PublishRequest(c) \/ PublishBindings(c) \/ Evaluate(c)
    BY <2>6, PublicationInv
  <2>7. CASE Recovery(c)
    BY <2>7, RecoveryInv
  <2> QED
    BY <2>1, <2>2, <2>3, <2>4, <2>5, <2>6, <2>7 DEF Controller
<1> QED
  BY <1>1, <1>2, <1>3, <1>4 DEF Inv, Next

\* The places, the effect ledger and the exclusive files fit together at every moment.
THEOREM Invariance == Spec => []Inv
BY InitInv, NextInv, PTL DEF Spec

\* The scan is imported once and the target called once, whoever runs, resumes, overlaps and is killed;
\* and the adapter is started once unless controllers overlap (charter-admit, write_import_intent, the
\* store behind the adapter; authorize_resume, valid_effect_ledger).
THEOREM OnceEach == Spec => []EffectsOnce
<1>1. Inv => EffectsOnce
  BY DEF Inv, IInv, ImportInv, RequestInv, CallsInv, EffectsOnce, Effects
<1> QED
  BY <1>1, Invariance, PTL

\* Who settled the row, if it is settled: that is never taken back.
Settler == IF row = "terminal" THEN settledBy ELSE "none"

-----------------------------------------------------------------------------
Imp == Index("scan-redact-import")
Exe == Index("executor")

LEMMA OneToTwelve == \A i \in 1..12 : i = 1 \/ i = 2 \/ i = 3 \/ i = 4 \/ i = 5 \/ i = 6 \/ i = 7 \/ i = 8
                                   \/ i = 9 \/ i = 10 \/ i = 11 \/ i = 12
OBVIOUS

LEMMA StageOrderIs ==
  /\ Len(StageOrder) = 12 /\ DOMAIN StageOrder = 1..12
  /\ StageOrder[4] = "scan-redact-import" /\ StageOrder[8] = "executor" /\ StageOrder[5] = "analysis-report"
  /\ StageOrder[7] = "approval" 
BY DEF StageOrder

LEMMA StageOrderInjective == \A i, j \in 1..12 : StageOrder[i] = StageOrder[j] => i = j
<1> SUFFICES ASSUME NEW i \in 1..12, NEW j \in 1..12, StageOrder[i] = StageOrder[j] PROVE i = j
  OBVIOUS
<1> QED
  BY OneToTwelve DEF StageOrder

LEMMA IndexIs == /\ \A i \in 1..12 : StageOrder[i] \in Stages /\ Index(StageOrder[i]) = i
                 /\ \A s \in Stages : Index(s) \in 1..12 /\ StageOrder[Index(s)] = s
<1>1. ASSUME NEW i \in 1..12 PROVE StageOrder[i] \in Stages /\ Index(StageOrder[i]) = i
  <2>1. \E k \in DOMAIN StageOrder : StageOrder[k] = StageOrder[i]
    BY StageOrderIs
  <2> QED
  BY <2>1, StageOrderIs, StageOrderInjective DEF Stages, Index
<1>2. ASSUME NEW s \in Stages PROVE Index(s) \in 1..12 /\ StageOrder[Index(s)] = s
  BY StageOrderIs DEF Stages, Index
<1> QED
  BY <1>1, <1>2

StageNames == {"preflight", "labelled-chat", "topology-ready", "scan-redact-import", "analysis-report",
               "proposal", "approval", "executor", "response-guard", "final-report", "evaluation", "finalize"}

LEMMA StagesAre == Stages = StageNames
<1>1. Stages = {StageOrder[i] : i \in 1..12}
  BY StageOrderIs DEF Stages
<1>2. \A s \in StageNames : \E i \in 1..12 : StageOrder[i] = s
  BY DEF StageNames, StageOrder
<1>3. \A i \in 1..12 : StageOrder[i] \in StageNames
  BY OneToTwelve DEF StageNames, StageOrder
<1> QED
  BY <1>1, <1>2, <1>3

LEMMA OutputIs ==
  /\ Output["scan-redact-import"] = {"nuclei.sanitized", "scan-admission", "import-intent", "import-observation"}
  /\ Output["analysis-report"] = {"normalized", "report"}
  /\ Output["proposal"] = {"request-spec"} /\ Output["approval"] = {"approval"}
  /\ Output["executor"] = {"receipt", "request-descriptor"}
  /\ \A s \in Stages : s \notin {"scan-redact-import", "analysis-report", "proposal", "approval", "executor"} =>
                          Output[s] = {}
  /\ \A s \in Stages : s # "executor" => Output[s] \cap (NormalArtifacts \cup AuditArtifacts \cup {"executor-state"}) = {}
BY StagesAre DEF Output, StageNames, NormalArtifacts, AuditArtifacts

LEMMA ArtifactsAre ==
  /\ {"directory", "executor-state"} \cup NormalArtifacts \cup AuditArtifacts \subseteq Artifacts
  /\ \A s \in Stages : Output[s] \subseteq Artifacts
  /\ {"nuclei.sanitized", "scan-admission", "import-intent", "import-observation", "normalized", "report",
      "request-spec", "approval"} \subseteq Artifacts
<1>1. \A s \in Stages : Output[s] \subseteq Artifacts
  BY DEF Artifacts
<1> QED
  BY <1>1, OutputIs, StagesAre DEF StageNames, Artifacts

LEMMA RunnerStagesAre == RunnerStages \subseteq Stages /\ "executor" \notin RunnerStages /\ "scan-redact-import" \notin RunnerStages
BY ControllerAssumption, StagesAre DEF EffectStage, Effects, StageNames

LEMMA ManifestIs ==
  ASSUME NEW m \in Manifests
  PROVE  /\ m.status \in Statuses /\ m.stages \in Seq(Outcomes \cup {"recovered"})
         /\ m.effect \in [Effects -> States] /\ m.requests \in 0..1 /\ m.findings \in BOOLEAN
BY DEF Manifests

LEMMA StageTypes ==
  ASSUME NEW m \in Manifests, NEW o \in Outcomes, NEW j, j.findings \in BOOLEAN
  PROVE  /\ WithStage(m, o, j) \in Manifests
         /\ WithStage(m, o, j).status = (IF o \in {"failed", "rejected"} THEN o ELSE m.status)
         /\ WithStage(m, o, j).stages = Append(m.stages, o)
         /\ WithStage(m, o, j).effect = m.effect
         /\ WithStage(m, o, j).requests =
              (IF o = "passed" /\ StageOrder[j.stage] = "executor" THEN 1 ELSE m.requests)
         /\ WithStage(m, o, j).findings = (m.findings \/ j.findings)
<1> DEFINE T == Outcomes \cup {"recovered"}
           S == Seq(T)
<1>1. m.stages \in S /\ o \in T
  BY ManifestIs
<1>2. Append(m.stages, o) \in S
  <2> HIDE DEF T
  <2> QED
    BY <1>1
<1>3. /\ (IF o \in {"failed", "rejected"} THEN o ELSE m.status) \in Statuses
      /\ (IF o = "passed" /\ StageOrder[j.stage] = "executor" THEN 1 ELSE m.requests) \in 0..1
      /\ (m.findings \/ j.findings) \in BOOLEAN
  BY ManifestIs DEF Statuses
<1>4. Manifests = [status: Statuses, stages: S, effect: [Effects -> States], requests: 0..1,
                   findings: BOOLEAN]
  BY DEF Manifests
<1> HIDE DEF S
<1> QED
  BY <1>2, <1>3, <1>4 DEF WithStage

LEMMA EffectTypes ==
  ASSUME NEW m \in Manifests, NEW e \in Effects, NEW s \in States
  PROVE  /\ WithEffect(m, e, s) \in Manifests
         /\ WithEffect(m, e, s).status = m.status
         /\ WithEffect(m, e, s).stages = m.stages
         /\ WithEffect(m, e, s).effect = [m.effect EXCEPT ![e] = s]
         /\ WithEffect(m, e, s).requests = m.requests
         /\ WithEffect(m, e, s).findings = m.findings
<1> DEFINE S == Seq(Outcomes \cup {"recovered"})
           F == [Effects -> States]
<1>1. Manifests = [status: Statuses, stages: S, effect: F, requests: 0..1, findings: BOOLEAN]
  BY DEF Manifests
<1>2. [m.effect EXCEPT ![e] = s] \in F
  BY ManifestIs
<1> HIDE DEF S, F
<1> QED
  BY <1>1, <1>2 DEF WithEffect

LEMMA FinalTypes ==
  ASSUME NEW m \in Manifests
  PROVE  /\ Final(m) \in Manifests /\ Final(m).status = "passed" /\ Final(m).stages = m.stages
         /\ Final(m).effect = m.effect /\ Final(m).requests = m.requests /\ Final(m).findings = m.findings
<1> DEFINE S == Seq(Outcomes \cup {"recovered"})
           F == [Effects -> States]
<1>1. Manifests = [status: Statuses, stages: S, effect: F, requests: 0..1, findings: BOOLEAN]
  BY DEF Manifests
<1>2. "passed" \in Statuses
  BY DEF Statuses
<1> HIDE DEF S, F
<1> QED
  BY <1>1, <1>2 DEF Final

LEMMA ExecutorIs == Exe = 8 /\ Imp = 4 /\ Index("executor") = 8 /\ Index("scan-redact-import") = 4
BY StageOrderIs, IndexIs DEF Exe, Imp

LEMMA RecoveryTypes ==
  ASSUME NEW m \in Manifests
  PROVE  /\ WithRecovery(m) \in Manifests /\ WithRecovery(m).status = "recovered"
         /\ WithRecovery(m).stages = [m.stages EXCEPT ![8] = "recovered"]
         /\ WithRecovery(m).effect = [m.effect EXCEPT !["request"] = "recovered"]
         /\ WithRecovery(m).requests = 1 /\ WithRecovery(m).findings = m.findings
<1> DEFINE T == Outcomes \cup {"recovered"}
           S == Seq(T)
           F == [Effects -> States]
<1>1. Manifests = [status: Statuses, stages: S, effect: F, requests: 0..1, findings: BOOLEAN]
  BY DEF Manifests
<1>2. m.stages \in Seq(T) /\ "recovered" \in T
  BY ManifestIs
<1>3. [m.stages EXCEPT ![8] = "recovered"] \in S
  <2> HIDE DEF T
  <2>1. ASSUME NEW q \in Seq(T), NEW t \in T, NEW i PROVE [q EXCEPT ![i] = t] \in Seq(T)
    <3>1. Len(q) \in Nat /\ q \in [1..Len(q) -> T]
      OBVIOUS
    <3>2. [q EXCEPT ![i] = t] \in [1..Len(q) -> T]
      BY <3>1
    <3> QED
      BY <3>1, <3>2
  <2> QED
    BY <1>2, <2>1
<1>4. [m.effect EXCEPT !["request"] = "recovered"] \in F
  BY ManifestIs DEF Effects, States
<1>5. "recovered" \in Statuses /\ 1 \in 0..1
  BY DEF Statuses
<1> HIDE DEF S, F
<1> QED
  BY <1>1, <1>3, <1>4, <1>5, ExecutorIs DEF WithRecovery

LEMMA FreshTypes ==
  /\ NoManifest \in Manifests /\ FreshManifest \in Manifests /\ NoJob \in Jobs
  /\ FreshManifest.status = "pending" /\ FreshManifest.stages = << >> /\ FreshManifest.requests = 0
  /\ FreshManifest.effect = [e \in Effects |-> "none"] /\ ~ FreshManifest.findings
<1> DEFINE S == Seq(Outcomes \cup {"recovered"})
           F == [Effects -> States]
<1>1. Manifests = [status: Statuses, stages: S, effect: F, requests: 0..1, findings: BOOLEAN]
  BY DEF Manifests
<1>2. [e \in Effects |-> "none"] \in F /\ << >> \in S /\ {"none", "pending"} \subseteq Statuses
  BY DEF States, Statuses
<1> HIDE DEF S, F
<1>3. NoManifest \in Manifests
  BY <1>1, <1>2 DEF NoManifest
<1>4. FreshManifest \in Manifests
  BY <1>1, <1>2, <1>3 DEF FreshManifest
<1>5. NoJob \in Jobs
  BY <1>3, StageOrderIs DEF NoJob, Jobs, Places
<1>6. /\ FreshManifest.status = "pending" /\ FreshManifest.stages = << >> /\ FreshManifest.requests = 0
      /\ FreshManifest.effect = [e \in Effects |-> "none"] /\ ~ FreshManifest.findings
  BY DEF FreshManifest, NoManifest
<1> QED
  BY <1>3, <1>4, <1>5, <1>6

-----------------------------------------------------------------------------
(* What every manifest is, however it came about.                          *)

Kept(m) ==
  /\ Len(m.stages) <= 12
  /\ m.status = "pending" => \A i \in 1..Len(m.stages) : m.stages[i] \in {"passed", "skipped"}
  /\ m.status = "passed" => AllPassed(m)
  /\ \A e \in Effects : StagePassed(m, EffectStage[e]) => m.effect[e] = "observed"
  /\ StagePassed(m, "executor") => m.requests = 1

Good == {m \in Manifests : Kept(m)}

\* Which stage passed, by its position.
LEMMA PassedIs ==
  ASSUME NEW m \in Manifests
  PROVE  /\ Len(m.stages) \in Nat /\ DOMAIN m.stages = 1..Len(m.stages)
         /\ \A i \in 1..12 : StagePassed(m, StageOrder[i]) <=> i <= Len(m.stages) /\ m.stages[i] = "passed"
         /\ StagePassed(m, "executor") <=> 8 <= Len(m.stages) /\ m.stages[8] = "passed"
         /\ StagePassed(m, EffectStage["request"]) <=> 8 <= Len(m.stages) /\ m.stages[8] = "passed"
         /\ StagePassed(m, EffectStage["import"]) <=> 4 <= Len(m.stages) /\ m.stages[4] = "passed"
         /\ AllPassed(m) <=> 12 <= Len(m.stages) /\ \A i \in 1..12 : m.stages[i] = "passed"
<1>1. Len(m.stages) \in Nat /\ DOMAIN m.stages = 1..Len(m.stages)
  BY ManifestIs
<1>2. ASSUME NEW i \in 1..12
      PROVE  StagePassed(m, StageOrder[i]) <=> i <= Len(m.stages) /\ m.stages[i] = "passed"
  <2>1. Index(StageOrder[i]) = i /\ (i \in 1..Len(m.stages) <=> i <= Len(m.stages))
    BY <1>1, IndexIs
  <2> QED
    BY <1>1, <2>1 DEF StagePassed
<1>3. EffectStage["request"] = StageOrder[8] /\ EffectStage["import"] = StageOrder[4] /\ StageOrder[8] = "executor"
  BY StageOrderIs DEF EffectStage, Effects
<1>4. AllPassed(m) <=> \A i \in 1..12 : StagePassed(m, StageOrder[i])
  BY StageOrderIs DEF AllPassed, Stages
<1>5. (\A i \in 1..12 : i <= Len(m.stages) /\ m.stages[i] = "passed")
       <=> 12 <= Len(m.stages) /\ \A i \in 1..12 : m.stages[i] = "passed"
  <2>1. 12 \in 1..12 /\ \A i \in 1..12 : 12 <= Len(m.stages) => i <= Len(m.stages)
    BY <1>1
  <2> QED
    BY <2>1
<1>6. AllPassed(m) <=> 12 <= Len(m.stages) /\ \A i \in 1..12 : m.stages[i] = "passed"
  BY <1>2, <1>4, <1>5
<1> QED
  BY <1>1, <1>2, <1>3, <1>6

LEMMA KeptIs ==
  ASSUME NEW m \in Manifests
  PROVE  Kept(m) <=>
           /\ Len(m.stages) <= 12
           /\ m.status = "pending" => \A i \in 1..Len(m.stages) : m.stages[i] \in {"passed", "skipped"}
           /\ m.status = "passed" => 12 <= Len(m.stages) /\ \A i \in 1..12 : m.stages[i] = "passed"
           /\ 4 <= Len(m.stages) /\ m.stages[4] = "passed" => m.effect["import"] = "observed"
           /\ 8 <= Len(m.stages) /\ m.stages[8] = "passed" => m.effect["request"] = "observed" /\ m.requests = 1
BY PassedIs DEF Kept, Effects

LEMMA RecordableIs ==
  ASSUME NEW m \in Manifests, NEW i, NEW o \in Outcomes, Recordable(m, i, o), i <= 12
  PROVE  /\ m.status = "pending" /\ i = Len(m.stages) + 1 /\ i \in 1..12
         /\ o = "passed" /\ i = 4 => m.effect["import"] = "observed"
         /\ o = "passed" /\ i = 8 => m.effect["request"] = "observed"
         /\ o = "passed" => Checkpoint(StageOrder[i]) \subseteq files
         /\ o = "rejected" => m.requests = 0
<1>1. m.status = "pending" /\ i = Len(m.stages) + 1 /\ i \in 1..12
  BY PassedIs DEF Recordable
<1>2. EffectStage["import"] = StageOrder[4] /\ EffectStage["request"] = StageOrder[8]
  BY StageOrderIs DEF EffectStage, Effects
<1> QED
  BY <1>1, <1>2 DEF Recordable, Effects

LEMMA AppendIs ==
  ASSUME NEW m \in Manifests, NEW o \in Outcomes
  PROVE  /\ Len(Append(m.stages, o)) = Len(m.stages) + 1
         /\ \A i \in 1..Len(m.stages) : Append(m.stages, o)[i] = m.stages[i]
         /\ Append(m.stages, o)[Len(m.stages) + 1] = o
<1> DEFINE T == Outcomes \cup {"recovered"}
<1>1. m.stages \in Seq(T) /\ o \in T
  BY ManifestIs
<1> HIDE DEF T
<1> QED
  BY <1>1

LEMMA StageKept ==
  ASSUME NEW m \in Good, NEW o \in Outcomes, NEW j, j.findings \in BOOLEAN, j.stage <= 12,
         Recordable(m, j.stage, o)
  PROVE  WithStage(m, o, j) \in Good
<1> DEFINE d == WithStage(m, o, j)
           n == Len(m.stages)
<1>1. m \in Manifests /\ d \in Manifests /\ Kept(m)
  BY StageTypes DEF Good
<1>2. /\ d.status = (IF o \in {"failed", "rejected"} THEN o ELSE m.status) /\ d.effect = m.effect
      /\ d.requests = (IF o = "passed" /\ StageOrder[j.stage] = "executor" THEN 1 ELSE m.requests)
      /\ d.stages = Append(m.stages, o)
  BY <1>1, StageTypes
<1>3. /\ Len(d.stages) = n + 1 /\ n + 1 \in 1..12 /\ d.stages[n + 1] = o /\ j.stage = n + 1 /\ n \in Nat
      /\ \A i \in 1..n : d.stages[i] = m.stages[i]
      /\ m.status = "pending" /\ n <= 12
  BY <1>1, <1>2, RecordableIs, AppendIs, PassedIs
<1>4. /\ \A i \in 1..n : m.stages[i] \in {"passed", "skipped"}
      /\ 4 <= n /\ m.stages[4] = "passed" => m.effect["import"] = "observed"
      /\ 8 <= n /\ m.stages[8] = "passed" => m.effect["request"] = "observed" /\ m.requests = 1
  BY <1>1, <1>3, KeptIs
<1>5. /\ o = "passed" /\ n + 1 = 4 => m.effect["import"] = "observed"
      /\ o = "passed" /\ n + 1 = 8 => m.effect["request"] = "observed" /\ d.requests = 1
  BY <1>1, <1>2, <1>3, RecordableIs, StageOrderIs
<1> HIDE DEF d
<1>6. d.status # "passed"
  BY <1>2, <1>3
<1>7. d.status = "pending" => \A i \in 1..Len(d.stages) : d.stages[i] \in {"passed", "skipped"}
  <2>1. d.status = "pending" => o \in {"passed", "skipped"}
    BY <1>2, <1>3 DEF Outcomes
  <2> QED
    BY <2>1, <1>3, <1>4
<1>8. 4 <= Len(d.stages) /\ d.stages[4] = "passed" => d.effect["import"] = "observed"
  BY <1>2, <1>3, <1>4, <1>5
<1>9. 8 <= Len(d.stages) /\ d.stages[8] = "passed" => d.effect["request"] = "observed" /\ d.requests = 1
  <2>1. 8 <= n => d.stages[8] = m.stages[8]
    BY <1>3
  <2>2. m.requests = 1 => d.requests = 1
    BY <1>2
  <2> QED
    BY <2>1, <2>2, <1>2, <1>3, <1>4, <1>5
<1>10. Kept(d)
  BY <1>1, <1>3, <1>6, <1>7, <1>8, <1>9, KeptIs
<1> QED
  BY <1>1, <1>10 DEF Good, d

LEMMA EffectKept ==
  ASSUME NEW m \in Good, NEW e \in Effects, NEW s \in States, EffectAllowed(m, e, s)
  PROVE  WithEffect(m, e, s) \in Good
<1> DEFINE d == WithEffect(m, e, s)
<1>1. m \in Manifests /\ d \in Manifests /\ Kept(m) /\ m.effect[e] # "observed"
  BY EffectTypes DEF Good, EffectAllowed
<1>2. /\ d.status = m.status /\ d.stages = m.stages /\ d.requests = m.requests
      /\ d.effect = [m.effect EXCEPT ![e] = s] /\ m.effect \in [Effects -> States]
  BY <1>1, EffectTypes, ManifestIs
<1> HIDE DEF d
<1>3. /\ m.stages[4] = "passed" /\ 4 <= Len(m.stages) => e # "import"
      /\ m.stages[8] = "passed" /\ 8 <= Len(m.stages) => e # "request"
  BY <1>1, KeptIs
<1>4. \A g \in Effects : g # e => d.effect[g] = m.effect[g]
  BY <1>2
<1>5. Kept(d)
  BY <1>1, <1>2, <1>3, <1>4, KeptIs DEF Effects
<1> QED
  BY <1>1, <1>5 DEF Good, d

LEMMA FinalKept == ASSUME NEW m \in Good, AllPassed(m) PROVE Final(m) \in Good
<1>1. m \in Manifests /\ Final(m) \in Manifests /\ Kept(m)
  BY FinalTypes DEF Good
<1>2. /\ 12 <= Len(m.stages) /\ \A i \in 1..12 : m.stages[i] = "passed"
      /\ Final(m).stages = m.stages /\ Final(m).effect = m.effect /\ Final(m).requests = m.requests
      /\ Final(m).status = "passed"
  BY <1>1, FinalTypes, PassedIs
<1>3. Kept(Final(m))
  BY <1>1, <1>2, KeptIs
<1> QED
  BY <1>1, <1>3 DEF Good

LEMMA StrandedIs ==
  ASSUME NEW m \in Manifests
  PROVE  Stranded(m) <=> /\ m.status = "failed" /\ Len(m.stages) = 8 /\ m.stages[8] = "failed"
                         /\ \A i \in 1..7 : m.stages[i] = "passed"
                         /\ m.effect["request"] \in {"prepared", "unknown"}
<1>1. Index("executor") = 8 /\ Index("executor") - 1 = 7
  BY ExecutorIs
<1> QED
  BY <1>1 DEF Stranded

LEMMA EightIs == \A n \in Nat : 1..n = 1..8 => n = 8
<1> SUFFICES ASSUME NEW n \in Nat, 1..n = 1..8 PROVE n = 8
  OBVIOUS
<1>1. 8 \in 1..n
  OBVIOUS
<1>2. n \in 1..8
  BY <1>1
<1> QED
  BY <1>1, <1>2

LEMMA RecoveryKept == ASSUME NEW m \in Good, Stranded(m) PROVE WithRecovery(m) \in Good
<1> DEFINE d == WithRecovery(m)
<1>1. /\ m \in Manifests /\ d \in Manifests /\ Kept(m) /\ Len(m.stages) = 8
      /\ d.status = "recovered" /\ d.stages = [m.stages EXCEPT ![8] = "recovered"]
      /\ d.effect = [m.effect EXCEPT !["request"] = "recovered"]
  BY RecoveryTypes, StrandedIs DEF Good
<1> HIDE DEF d
<1>2. Len(d.stages) = 8 /\ d.stages[8] = "recovered" /\ d.stages[4] = m.stages[4]
      /\ d.effect["import"] = m.effect["import"]
  <2>1. m.effect \in [Effects -> States] /\ DOMAIN m.stages = 1..8
    BY <1>1, ManifestIs, PassedIs
  <2>2. d.stages[8] = "recovered" /\ d.stages[4] = m.stages[4] /\ DOMAIN d.stages = 1..8
    BY <1>1, <2>1
  <2>3. d.effect["import"] = m.effect["import"]
    BY <1>1, <2>1 DEF Effects
  <2>4. Len(d.stages) \in Nat /\ DOMAIN d.stages = 1..Len(d.stages)
    BY <1>1, PassedIs
  <2>6. Len(d.stages) = 8
    BY <2>2, <2>4, EightIs
  <2> QED
    BY <2>2, <2>3, <2>6
<1>3. m.stages[4] = "passed" => m.effect["import"] = "observed"
  <2>1. 4 <= Len(m.stages)
    BY <1>1
  <2> QED
    BY <1>1, <2>1, KeptIs
<1>4. Kept(d)
  <2>1. d.status # "pending" /\ d.status # "passed"
    BY <1>1
  <2>2. Len(d.stages) <= 12 /\ d.stages[8] # "passed"
    BY <1>2
  <2>3. d.stages[4] = "passed" => d.effect["import"] = "observed"
    BY <1>2, <1>3
  <2> QED
    BY <1>1, <2>1, <2>2, <2>3, KeptIs
<1> QED
  BY <1>1, <1>4 DEF Good, d

LEMMA FreshKept == NoManifest \in Good /\ FreshManifest \in Good
<1>1. /\ NoManifest \in Manifests /\ FreshManifest \in Manifests
      /\ NoManifest.status = "none" /\ NoManifest.stages = << >> /\ FreshManifest.status = "pending"
      /\ FreshManifest.stages = << >>
  BY FreshTypes DEF NoManifest, FreshManifest
<1>2. Kept(NoManifest) /\ Kept(FreshManifest)
  BY <1>1, KeptIs
<1> QED
  BY <1>1, <1>2 DEF Good

-----------------------------------------------------------------------------
(* Types.                                                                  *)

Rest ==
  /\ manifest \in Good
  /\ files \subseteq Artifacts
  /\ bound \in Manifests
  /\ row \in {"absent", "prepared", "dispatched", "unknown", "terminal"}
  /\ settledBy \in {"none", "response", "audit"}
  /\ adapter \in [at: {"none", "prepared", "dispatched", "sent", "answered", "refused"},
                  by: Controllers \cup {Nobody}]
  /\ kong \in {"silent", "in policy", "out of policy"}
  /\ count \in [Effects -> 0..2]
  /\ calls \in 0..2
  /\ overlapped \in BOOLEAN /\ killed \in BOOLEAN

\* A process has a mode, and a stage is only recorded with an outcome.
JobFits(place, j) ==
  /\ IF place = "idle" THEN j = NoJob ELSE j.mode # "none"
  /\ j.draft \in Good
  /\ place = "recording" \/ (place = "writing" /\ j.then = "recording") => j.outcome \in Outcomes

TInv == TypeOK /\ manifest \in Good /\ \A c \in Controllers : JobFits(pc[c], job[c])

LEMMA TInvIs ==
  TInv <=> /\ Rest /\ pc \in [Controllers -> Places] /\ job \in [Controllers -> Jobs]
           /\ \A c \in Controllers : JobFits(pc[c], job[c])
<1>1. NoJob.mode = "none"
  BY DEF NoJob
<1> QED
  BY <1>1 DEF TInv, TypeOK, Rest, JobFits, Good

Moves(c) ==
  \E place \in Places, j \in Jobs :
    /\ pc' = [pc EXCEPT ![c] = place] /\ job' = [job EXCEPT ![c] = j]
    /\ JobFits(place, j)

LEMMA MovesStep == ASSUME TInv, NEW c \in Controllers, Moves(c), Rest' PROVE TInv'
<1>1. PICK place \in Places, j \in Jobs :
        /\ pc' = [pc EXCEPT ![c] = place] /\ job' = [job EXCEPT ![c] = j]
        /\ JobFits(place, j)
  BY DEF Moves
<1>2. /\ pc \in [Controllers -> Places] /\ job \in [Controllers -> Jobs]
      /\ \A d \in Controllers : JobFits(pc[d], job[d])
  BY TInvIs
<1>3. /\ pc' \in [Controllers -> Places] /\ job' \in [Controllers -> Jobs]
      /\ \A d \in Controllers : JobFits(pc'[d], job'[d])
  BY <1>1, <1>2
<1> QED
  <2>1. NoJob.mode = "none"
    BY DEF NoJob
  <2> QED
    BY <1>3, <2>1 DEF TInv, TypeOK, Rest, JobFits, Good


\* Nothing but the controller's own place and job changes, or files are created.
LEMMA RestStays ==
  ASSUME Rest, UNCHANGED <<manifest, bound, remote, ghosts>>, files' = files \/ files' \subseteq Artifacts
  PROVE  Rest'
BY DEF Rest, remote, ghosts

LEMMA MovesIs ==
  ASSUME TInv, NEW c \in Controllers, pc[c] # "idle"
  PROVE  /\ Leave(c) => Moves(c)
         /\ \A place \in Places \ {"idle", "recording", "writing"} : Continue(c, place) => Moves(c)
         /\ \A m \in Good, then \in Places, o \in Outcomes \cup {"none"} :
              Draft(c, m, then, o) /\ (then = "recording" => o \in Outcomes) => Moves(c)
         /\ \A o \in Outcomes : Conclude(c, o) => Moves(c)
<1>1. /\ pc \in [Controllers -> Places] /\ job \in [Controllers -> Jobs] /\ job[c] \in Jobs
      /\ job[c].mode # "none" /\ job[c].draft \in Good
  BY TInvIs DEF JobFits
<1>2. Leave(c) => Moves(c)
  <2>1. "idle" \in Places
    BY DEF Places
  <2>2. JobFits("idle", NoJob) /\ NoJob \in Jobs
    BY FreshTypes, FreshKept DEF JobFits, NoJob
  <2> QED
    BY <1>1, <2>1, <2>2 DEF Leave, Goto, Moves
<1>3. ASSUME NEW place \in Places \ {"idle", "recording", "writing"}, Continue(c, place) PROVE Moves(c)
  <2>1. job' = [job EXCEPT ![c] = job[c]]
    BY <1>1, <1>3 DEF Continue
  <2> QED
    BY <1>1, <1>3, <2>1 DEF Continue, Goto, Moves, JobFits
<1>4. ASSUME NEW m \in Good, NEW then \in Places, NEW o \in Outcomes \cup {"none"}, Draft(c, m, then, o),
             then = "recording" => o \in Outcomes
      PROVE Moves(c)
  <2> DEFINE j == [job[c] EXCEPT !.draft = m, !.then = then, !.outcome = o]
  <2>1. j \in Jobs /\ j.mode = job[c].mode /\ j.then = then /\ j.outcome = o /\ j.draft = m
    BY <1>1 DEF Jobs, Good
  <2>2. job' = [job EXCEPT ![c] = j] /\ pc' = [pc EXCEPT ![c] = "writing"]
    BY <1>4 DEF Draft, Goto
  <2>3. "writing" \in Places
    BY DEF Places
  <2> HIDE DEF j
  <2> QED
    BY <1>1, <1>4, <2>1, <2>2, <2>3 DEF Moves, JobFits
<1>5. ASSUME NEW o \in Outcomes, Conclude(c, o) PROVE Moves(c)
  <2> DEFINE j == [job[c] EXCEPT !.outcome = o]
  <2>1. j \in Jobs /\ j.mode = job[c].mode /\ j.outcome = o /\ j.draft = job[c].draft
    BY <1>1 DEF Jobs
  <2>2. job' = [job EXCEPT ![c] = j] /\ pc' = [pc EXCEPT ![c] = "recording"]
    BY <1>1, <1>5 DEF Conclude, Goto
  <2>3. "recording" \in Places
    BY DEF Places
  <2> HIDE DEF j
  <2> QED
    BY <1>1, <2>1, <2>2, <2>3 DEF Moves, JobFits
<1> QED
  BY <1>2, <1>3, <1>4, <1>5

LEMMA PlacesAre ==
  {"created", "staging", "scanned", "admitted", "announcing import", "importing",
   "imported", "observing import", "import lost", "normalized",
   "calling", "awaiting", "answered", "receipted", "observing request", "request lost",
   "recording", "writing", "recorded", "finalizing", "publishing", "binding", "evaluating",
   "acquiring", "audited", "terminalizing", "reporting", "limiting", "recovering"} = Places \ {"idle"}
BY DEF Places

LEMMA OutcomesAre == {"passed", "failed", "rejected"} \subseteq Outcomes /\ Outcomes \subseteq Outcomes \cup {"none"}
BY DEF Outcomes

LEMMA RecordMoves ==
  ASSUME TInv, NEW c \in Controllers, pc[c] # "idle", NEW o \in Outcomes, RecordStage(c, o)
  PROVE  Moves(c)
<1>1. job[c] \in Jobs /\ manifest \in Good
  BY TInvIs DEF Rest
<1>2. job[c].findings \in BOOLEAN /\ job[c].stage <= 12
  BY <1>1, StageOrderIs DEF Jobs
<1>3. AfterRecord(o) \in Places \ {"recording"}
  BY DEF AfterRecord, Places
<1>4. Recordable(manifest, job[c].stage, o) => WithStage(manifest, o, job[c]) \in Good
  BY <1>1, <1>2, StageKept
<1> QED
  BY <1>3, <1>4, MovesIs, PlacesAre DEF RecordStage

LEMMA ResolveTypes ==
  ASSUME TInv, NEW c \in Controllers, pc[c] # "idle", NEW e \in Effects, NEW s \in States,
         NEW o \in Outcomes, Resolve(c, e, s, o)
  PROVE  TInv'
<1>1. Rest'
  BY RestStays, TInvIs DEF Resolve, runFiles
<1>2. /\ EffectAllowed(manifest, e, s) => WithEffect(manifest, e, s) \in Good
      /\ "recording" \in Places /\ "failed" \in Outcomes
  BY EffectKept, TInvIs DEF Rest, Places, Outcomes
<1>3. Moves(c)
  BY <1>2, MovesIs, PlacesAre DEF Resolve
<1> QED
  BY <1>1, <1>3, MovesStep

LEMMA AnnounceMoves ==
  ASSUME TInv, NEW c \in Controllers, pc[c] # "idle", NEW e \in Effects, NEW place \in Places \ {"recording"},
         Announce(c, e, place)
  PROVE  Moves(c)
<1>1. /\ EffectAllowed(manifest, e, "prepared") => WithEffect(manifest, e, "prepared") \in Good
      /\ "failed" \in Outcomes
  BY EffectKept, TInvIs DEF Rest, States, Outcomes
<1> QED
  BY <1>1, MovesIs, PlacesAre DEF Announce

LEMMA OnceTypes ==
  ASSUME TInv, NEW c \in Controllers, pc[c] # "idle", NEW name \in Artifacts, NEW place \in Places \ {"idle", "recording", "writing"},
         CreateOnce(c, name, place) \/ (PublishOnce(c, name, place) /\ bound' \in Manifests)
  PROVE  TInv'
<1>1. Rest'
  BY TInvIs DEF Rest, CreateOnce, PublishOnce, Create, runFiles, remote, ghosts
<1>2. Moves(c)
  BY MovesIs, OutcomesAre DEF CreateOnce, PublishOnce
<1> QED
  BY <1>1, <1>2, MovesStep

LEMMA EnterTypes ==
  ASSUME TInv, NEW c \in Controllers, NEW place \in Places \ {"idle", "recording", "writing"},
         NEW mode \in {"run", "resume", "recover"}, NEW stage \in 0..12, Enter(c, place, mode, stage),
         UNCHANGED <<manifest, bound>>, files' \subseteq Artifacts
  PROVE  TInv'
<1> DEFINE j == [job[c] EXCEPT !.mode = mode, !.stage = stage, !.then = "idle"]
<1>1. j \in Jobs /\ j.mode # "none" /\ j.draft \in Good
  <2>1. job[c] \in Jobs /\ "idle" \in Places /\ stage \in 0..Len(StageOrder) /\ job[c].draft \in Good
    BY TInvIs, StageOrderIs DEF Places, JobFits
  <2> QED
    BY <2>1 DEF Jobs
<1>2. job' = [job EXCEPT ![c] = j] /\ pc' = [pc EXCEPT ![c] = place]
  BY TInvIs DEF Enter, Goto
<1> HIDE DEF j
<1>3. Moves(c)
  BY <1>1, <1>2 DEF Moves, JobFits
<1>4. overlapped' \in BOOLEAN /\ killed' \in BOOLEAN /\ calls' \in 0..2
  <2>1. overlapped' \in BOOLEAN /\ killed' \in BOOLEAN
    BY Zenon DEF Enter
  <2>2. calls' = IF overlapped' THEN 0 ELSE calls
    BY DEF Enter
  <2>3. calls \in 0..2
    BY TInvIs DEF Rest
  <2>4. calls' \in 0..2
    BY <2>1, <2>2, <2>3
  <2> QED
    BY <2>1, <2>4
<1>5. Rest'
  BY <1>4, TInvIs DEF Rest, Enter, remote
<1> QED
  BY <1>3, <1>5, MovesStep

LEMMA AdapterTypes == ASSUME TInv, Adapter PROVE TInv'
<1>1. manifest' = manifest /\ files' = files /\ bound' = bound /\ pc' = pc /\ job' = job
  BY DEF Adapter, AdapterDispatches, AdapterMintFails, AdapterSends, AdapterSettles, AdapterHearsNothing,
         AdapterDies, runFiles, shells
<1>2. \E place \in {"dispatched", "sent", "answered", "refused"} : AdapterGoes(place)
  BY DEF Adapter, AdapterDispatches, AdapterMintFails, AdapterSends, AdapterSettles, AdapterHearsNothing,
         AdapterDies, Replies
<1>3. adapter' \in [at: {"none", "prepared", "dispatched", "sent", "answered", "refused"},
                    by: Controllers \cup {Nobody}]
  BY <1>2, TInvIs DEF AdapterGoes, Rest
<1>4. row' \in {"absent", "prepared", "dispatched", "unknown", "terminal"}
  BY TInvIs DEF Rest, Adapter, AdapterDispatches, AdapterMintFails, AdapterSends, AdapterSettles,
                AdapterHearsNothing, AdapterDies, Reopened
<1>5. settledBy' \in {"none", "response", "audit"} /\ kong' \in {"silent", "in policy", "out of policy"}
  BY TInvIs DEF Rest, Adapter, AdapterDispatches, AdapterMintFails, AdapterSends, AdapterSettles,
                AdapterHearsNothing, AdapterDies, ghosts
<1>6. count' \in [Effects -> 0..2]
  <2>1. count' = [count EXCEPT !["request"] = Twice(@)] \/ count' = count
    BY DEF Adapter, AdapterDispatches, AdapterMintFails, AdapterSends, AdapterSettles,
           AdapterHearsNothing, AdapterDies, ghosts
  <2>2. Twice(count["request"]) \in 0..2 /\ count \in [Effects -> 0..2]
    BY TInvIs, TwiceIs DEF Rest, Effects
  <2> QED
    BY <2>1, <2>2, ExceptIs
<1>7. calls' = calls /\ overlapped' = overlapped /\ killed' \in BOOLEAN
  BY TInvIs DEF Rest, Adapter, AdapterDispatches, AdapterMintFails, AdapterSends, AdapterSettles,
                AdapterHearsNothing, AdapterDies, ghosts
<1>8. Rest'
  BY <1>1, <1>3, <1>4, <1>5, <1>6, <1>7, TInvIs DEF Rest
<1> QED
  BY <1>1, <1>8, TInvIs DEF TInv, TypeOK, Rest

\* The actions that touch nothing but the manifest's replacement, artifacts and the shell itself.
LEMMA LocalTypes ==
  ASSUME TInv, NEW c \in Controllers,
         \/ InitManifest(c) \/ LocalStage(c) \/ RunnerStage(c) \/ StageFails(c)
         \/ Scan(c) \/ AnnounceImport(c) \/ ObserveImport(c) \/ Analyse(c) \/ LinkReport(c)
         \/ Propose(c) \/ Pause(c) \/ Approve(c) \/ AnnounceRequest(c) \/ Receive(c)
         \/ CheckResult(c) \/ Describe(c) \/ Record(c) \/ Reread(c) \/ Finalize(c) \/ Evaluate(c)
         \/ Acquire(c) \/ BindRecovery(c)
  PROVE  TInv'
<1>1. pc[c] # "idle" /\ Rest
  BY TInvIs
     DEF InitManifest, LocalStage, RunnerStage, StageFails, Scan, AnnounceImport, ObserveImport, Analyse,
         LinkReport, Propose, Pause, Approve, AnnounceRequest, Receive, CheckResult, Describe, Record, Reread,
         Finalize, Evaluate, Acquire, BindRecovery, InStage, At
<1>2. Rest'
  <2>1. CASE InitManifest(c)
    BY <1>1, <2>1, FreshKept DEF Rest, InitManifest, remote, ghosts
  <2>2. CASE RunnerStage(c)
    <3>1. files' \subseteq Artifacts
      BY <1>1, <2>2, ArtifactsAre, RunnerStagesAre DEF Rest, RunnerStage
    <3> QED
      BY <1>1, <2>2, <3>1, RestStays DEF RunnerStage
  <2>3. CASE Evaluate(c)
    <3>1. files' \subseteq Artifacts
      BY <1>1, <2>3, ArtifactsAre DEF Rest, Evaluate, NormalArtifacts
    <3> QED
      BY <1>1, <2>3, <3>1, RestStays DEF Evaluate
  <2>4. CASE UNCHANGED <<runFiles, remote, ghosts>>
    BY <1>1, <2>4, RestStays DEF runFiles
  <2>5. CASE /\ UNCHANGED <<remote, ghosts>>
             /\ \E name \in {"nuclei.sanitized", "import-observation", "normalized", "report", "request-spec",
                             "approval", "receipt", "request-descriptor"} : Create(name)
    <3>1. files' \subseteq Artifacts /\ UNCHANGED <<manifest, bound>>
      BY <1>1, <2>5, ArtifactsAre DEF Rest, Create, NormalArtifacts
    <3> QED
      BY <1>1, <2>5, <3>1, RestStays
  <2>6. CASE /\ UNCHANGED <<remote, ghosts>> /\ UNCHANGED runFiles
    BY <1>1, <2>6, RestStays DEF runFiles
  <2> QED
    BY <2>1, <2>2, <2>3, <2>4, <2>5, <2>6
       DEF LocalStage, StageFails, Scan, AnnounceImport, ObserveImport, Analyse,
           LinkReport, Propose, Pause, Approve, AnnounceRequest, Receive, CheckResult, Describe, Record, Reread,
           Finalize, Acquire, BindRecovery
<1>3. Moves(c)
  <2>1. CASE LocalStage(c) \/ StageFails(c)
    BY <1>1, <2>1, RecordMoves, OutcomesAre DEF LocalStage, StageFails
  <2>2. CASE Record(c)
    <3>1. job[c].outcome \in Outcomes
      BY <2>2, TInvIs DEF Record, At, JobFits
    <3> QED
      BY <1>1, <2>2, <3>1, RecordMoves DEF Record
  <2>3. CASE RunnerStage(c) \/ LinkReport(c)
    <3>1. CASE Conclude(c, "failed")
      BY <1>1, <3>1, MovesIs, OutcomesAre
    <3>2. ASSUME NEW o \in Outcomes, NEW counted \in BOOLEAN, Goto(c, "recording"),
                 job' = [job EXCEPT ![c].outcome = o, ![c].findings = counted]
          PROVE Moves(c)
      <4> DEFINE j == [job[c] EXCEPT !.outcome = o, !.findings = counted]
      <4>1. job[c] \in Jobs /\ job[c].mode # "none" /\ job[c].draft \in Good
        BY <1>1, TInvIs DEF JobFits
      <4>2. j \in Jobs /\ j.mode = job[c].mode /\ j.outcome = o /\ j.draft = job[c].draft
        BY <4>1 DEF Jobs
      <4>3. job' = [job EXCEPT ![c] = j] /\ pc' = [pc EXCEPT ![c] = "recording"] /\ "recording" \in Places
        BY <3>2, TInvIs DEF Goto, Places
      <4> HIDE DEF j
      <4> QED
        BY <4>1, <4>2, <4>3 DEF Moves, JobFits
    <3> QED
      BY <2>3, <3>1, <3>2, OutcomesAre DEF RunnerStage, LinkReport
  <2>4. CASE AnnounceImport(c) \/ AnnounceRequest(c)
    BY <1>1, <2>4, AnnounceMoves, PlacesAre DEF AnnounceImport, AnnounceRequest, Effects
  <2>5. CASE Finalize(c) \/ BindRecovery(c)
    <3>1. /\ AllPassed(manifest) => Final(manifest) \in Good
          /\ AuditState = "limited-artifacts-complete" => WithRecovery(manifest) \in Good
      BY <1>1, FinalKept, RecoveryKept DEF Rest, AuditState
    <3>2. {"publishing", "idle"} \subseteq Places
      BY DEF Places
    <3> QED
      BY <1>1, <2>5, <3>1, <3>2, MovesIs DEF Finalize, BindRecovery
  <2>6. CASE \/ InitManifest(c) \/ Scan(c) \/ ObserveImport(c) \/ Analyse(c)
             \/ Propose(c) \/ Pause(c) \/ Approve(c) \/ Receive(c) \/ CheckResult(c) \/ Describe(c)
             \/ Reread(c) \/ Evaluate(c) \/ Acquire(c)
    BY <1>1, <2>6, MovesIs, OutcomesAre, PlacesAre
       DEF InitManifest, Scan, ObserveImport, Analyse, Propose, Pause, Approve, Receive, CheckResult, Describe,
           Reread, Evaluate, Acquire
  <2> QED
    BY <2>1, <2>2, <2>3, <2>4, <2>5, <2>6
<1> QED
  BY <1>2, <1>3, MovesStep

LEMMA EnteringTypes == ASSUME TInv, NEW c \in Controllers, Run(c) \/ Resume(c) \/ RecoverAudit(c) PROVE TInv'
<1>1. UNCHANGED <<manifest, bound>> /\ files' \subseteq Artifacts
  BY ArtifactsAre, TInvIs DEF Rest, Run, Resume, RecoverAudit, Create, runFiles
<1>2. CASE Run(c)
  <2>1. 1 \in 0..12
    OBVIOUS
  <2> QED
    BY <1>1, <1>2, <2>1, EnterTypes, PlacesAre DEF Run
<1>3. CASE Resume(c)
  <2>1. manifest \in Manifests /\ Kept(manifest) /\ manifest.status = "pending" /\ ~ Skipped(manifest)
    BY <1>3, TInvIs DEF Rest, Good, Resume, Authorized
  <2>2. AllPassed(manifest) \/ Len(manifest.stages) + 1 \in 0..12
    <3>1. \A i \in 1..Len(manifest.stages) : manifest.stages[i] = "passed"
      BY <2>1, KeptIs, PassedIs DEF Skipped
    <3>2. Len(manifest.stages) = 12 => AllPassed(manifest)
      BY <2>1, <3>1, PassedIs
    <3>3. Len(manifest.stages) \in Nat /\ Len(manifest.stages) <= 12
      BY <2>1, KeptIs, PassedIs
    <3>4. \A n \in Nat : n <= 12 /\ n # 12 => n + 1 \in 0..12
      OBVIOUS
    <3> QED
      BY <3>2, <3>3, <3>4
  <2>3. 12 \in 0..12 /\ Len(StageOrder) = 12
    BY StageOrderIs
  <2>4. CASE AllPassed(manifest)
    BY <1>1, <1>3, <2>3, <2>4, EnterTypes, PlacesAre DEF Resume
  <2>5. CASE ~ AllPassed(manifest)
    BY <1>1, <1>3, <2>2, <2>5, EnterTypes, PlacesAre DEF Resume
  <2> QED
    BY <2>4, <2>5
<1>4. CASE RecoverAudit(c)
  <2>1. PICK place \in {"acquiring", "terminalizing", "reporting", "recovering"} : Enter(c, place, "recover", 0)
    BY <1>4 DEF RecoverAudit
  <2>2. place \in Places \ {"idle", "recording", "writing"}
    BY DEF Places
  <2>3. 0 \in 0..12
    OBVIOUS
  <2> QED
    BY <1>1, <2>1, <2>2, <2>3, EnterTypes
<1> QED
  BY <1>2, <1>3, <1>4

LEMMA WriteTypes == ASSUME TInv, NEW c \in Controllers, Write(c) PROVE TInv'
<1>1. /\ pc[c] = "writing" /\ manifest' = job[c].draft /\ UNCHANGED <<files, bound, remote, ghosts>>
      /\ JobFits(pc[c], job[c]) /\ job[c] \in Jobs
  BY TInvIs DEF Write, At
<1>2. Rest'
  BY <1>1, TInvIs DEF Rest, remote, ghosts, JobFits
<1>3. CASE job[c].then = "idle"
  BY <1>1, <1>2, <1>3, MovesIs, MovesStep DEF Write
<1>4. CASE job[c].then # "idle" /\ (job[c].then # "recorded" \/ job[c].mode = "resume")
  <2> DEFINE j == [job[c] EXCEPT !.draft = NoManifest, !.then = "idle"]
  <2>1. "idle" \in Places /\ NoManifest \in Manifests
    BY FreshTypes DEF Places
  <2>2. /\ j \in Jobs /\ j.mode = job[c].mode /\ j.draft = NoManifest /\ j.then = "idle"
        /\ j.outcome = job[c].outcome
    BY <1>1, <2>1 DEF Jobs
  <2>3. job' = [job EXCEPT ![c] = j] /\ pc' = [pc EXCEPT ![c] = job[c].then] /\ job[c].then \in Places
    BY <1>1, <1>4, TInvIs DEF Write, Goto, Jobs
  <2> HIDE DEF j
  <2>4. JobFits(job[c].then, j)
    BY <1>1, <1>4, <2>2, FreshKept DEF JobFits
  <2>5. Moves(c)
    BY <2>2, <2>3, <2>4 DEF Moves
  <2> QED
    BY <1>2, <2>5, MovesStep
<1>5. CASE job[c].then = "recorded" /\ job[c].mode # "resume"
  <2> DEFINE last == job[c].stage = Len(StageOrder)
             i == IF last THEN 0 ELSE job[c].stage + 1
             j == [NoJob EXCEPT !.mode = "run", !.stage = i]
             place == IF last THEN "finalizing" ELSE "staging"
  <2>1. i \in 0..12 /\ Len(StageOrder) = 12
    BY <1>1, StageOrderIs DEF Jobs
  <2>2. j \in Jobs /\ j.mode = "run" /\ j.draft = NoManifest /\ place \in Places \ {"idle", "recording", "writing"}
    <3> HIDE DEF i
    <3> QED
      BY <2>1, FreshTypes DEF NoJob, Jobs, Places
  <2>3. job' = [job EXCEPT ![c] = j] /\ pc' = [pc EXCEPT ![c] = place]
    <3>1. NoJob.stage = 0
      BY DEF NoJob
    <3> QED
      BY <1>5, <3>1 DEF Write, Goto
  <2> HIDE DEF j, place
  <2>4. Moves(c)
    BY <2>2, <2>3, FreshKept DEF Moves, JobFits
  <2> QED
    BY <1>2, <2>4, MovesStep
<1> QED
  BY <1>3, <1>4, <1>5

LEMMA OtherTypes ==
  ASSUME TInv, NEW c \in Controllers,
         \/ Admit(c) \/ Intend(c) \/ Import(c) \/ RecordImport(c) \/ RecordRequest(c) \/ CallAdapter(c)
         \/ PublishRequest(c) \/ PublishBindings(c) \/ WriteAudit(c) \/ Terminalize(c) \/ Report(c)
         \/ Limit(c) \/ Kill(c)
  PROVE  TInv'
<1>1. pc[c] # "idle" /\ Rest
  BY TInvIs DEF Admit, Intend, Import, RecordImport, RecordRequest, CallAdapter, PublishRequest,
                PublishBindings, WriteAudit, Terminalize, Report, Limit, Kill, At
<1>2. CASE Admit(c) \/ Intend(c)
  <2>1. PICK name \in {"scan-admission", "import-intent"}, place \in {"admitted", "announcing import"} :
          CreateOnce(c, name, place)
    BY <1>2 DEF Admit, Intend
  <2>2. name \in Artifacts /\ place \in Places \ {"idle", "recording", "writing"}
    BY ArtifactsAre DEF Places
  <2> QED
    BY <1>1, <2>1, <2>2, OnceTypes
<1>3. CASE Import(c)
  <2>1. count' \in [Effects -> 0..2]
    <3>1. Twice(count["import"]) \in 0..2 /\ count \in [Effects -> 0..2]
      BY <1>1, TwiceIs DEF Rest, Effects
    <3>2. count' = count \/ count' = [count EXCEPT !["import"] = Twice(count["import"])]
      BY <1>3 DEF Import
    <3> QED
      BY <3>1, <3>2, ExceptIs
  <2>2. Rest'
    BY <1>1, <1>3, <2>1 DEF Rest, Import, runFiles, remote
  <2>3. Moves(c)
    BY <1>1, <1>3, MovesIs, PlacesAre DEF Import
  <2> QED
    BY <2>2, <2>3, MovesStep
<1>4. CASE RecordImport(c) \/ RecordRequest(c)
  BY <1>1, <1>4, ResolveTypes, OutcomesAre DEF RecordImport, RecordRequest, Effects, States
<1>5. CASE CallAdapter(c)
  <2>1. calls' \in 0..2
    <3>1. calls \in 0..2 /\ Twice(calls) \in 0..2
      BY <1>1, TwiceIs DEF Rest
    <3> QED
      BY <1>5, <3>1 DEF CallAdapter
  <2>2. UNCHANGED <<manifest, bound, settledBy, kong, count, overlapped, killed>> /\ files' \subseteq Artifacts
    BY <1>1, <1>5, ArtifactsAre DEF CallAdapter, Create, Rest, runFiles, remote
  <2>3. row' \in {"absent", "prepared", "dispatched", "unknown", "terminal"}
    BY <1>1, <1>5 DEF CallAdapter, Reopened, Rest, remote
  <2>4. adapter' \in [at: {"none", "prepared", "dispatched", "sent", "answered", "refused"},
                       by: Controllers \cup {Nobody}]
    <3>1. adapter' = adapter \/ adapter' = [at |-> "prepared", by |-> c]
      BY <1>5 DEF CallAdapter, remote
    <3>2. "prepared" \in {"none", "prepared", "dispatched", "sent", "answered", "refused"}
      OBVIOUS
    <3>3. [at |-> "prepared", by |-> c] \in [at: {"none", "prepared", "dispatched", "sent", "answered", "refused"},
                                            by: Controllers \cup {Nobody}]
      BY <3>2
    <3> QED
      BY <1>1, <3>1, <3>3 DEF Rest
  <2>5. Rest'
    BY <1>1, <2>1, <2>2, <2>3, <2>4 DEF Rest
  <2>6. Moves(c)
    BY <1>1, <1>5, MovesIs, PlacesAre DEF CallAdapter
  <2> QED
    BY <2>5, <2>6, MovesStep
<1>6. CASE PublishRequest(c) \/ Report(c)
  <2>1. bound' \in Manifests
    BY <1>1, <1>6 DEF Good, Rest, PublishRequest, Report
  <2>2. CASE PublishOnce(c, "request", "binding") \/ PublishOnce(c, "audit-recovery-report", "limiting")
    <3>1. PICK name \in {"request", "audit-recovery-report"}, place \in {"binding", "limiting"} :
            PublishOnce(c, name, place)
      BY <2>2
    <3>2. name \in Artifacts /\ place \in Places \ {"idle", "recording", "writing"}
      BY ArtifactsAre DEF Places, NormalArtifacts, AuditArtifacts
    <3> QED
      BY <1>1, <2>1, <3>1, <3>2, OnceTypes
  <2>3. CASE Leave(c) /\ UNCHANGED <<manifest, files, remote, ghosts>>
    <3>1. Rest'
      BY <1>1, <2>1, <2>3 DEF Rest, remote, ghosts
    <3> QED
      BY <1>1, <2>3, <3>1, MovesIs, MovesStep
  <2> QED
    BY <1>6, <2>2, <2>3 DEF PublishRequest, Report
<1>7. CASE PublishBindings(c) \/ WriteAudit(c) \/ Limit(c)
  <2>1. bound' \in Manifests
    BY <1>1, <1>7 DEF Rest, PublishBindings, WriteAudit, Limit, Good
  <2>2. PICK name \in {"artifact-bindings", "audit-recovery", "audit-evaluation"},
             place \in {"evaluating", "terminalizing", "recovering"} : PublishOnce(c, name, place)
    BY <1>7 DEF PublishBindings, WriteAudit, Limit
  <2>3. name \in Artifacts /\ place \in Places \ {"idle", "recording", "writing"}
    BY ArtifactsAre DEF Places, NormalArtifacts, AuditArtifacts
  <2> QED
    BY <1>1, <2>1, <2>2, <2>3, OnceTypes
<1>8. CASE Terminalize(c)
  <2>1. Rest'
    BY <1>1, <1>8 DEF Rest, Terminalize, runFiles, ghosts
  <2>2. Moves(c)
    BY <1>1, <1>8, MovesIs, PlacesAre DEF Terminalize
  <2> QED
    BY <2>1, <2>2, MovesStep
<1>9. CASE Kill(c)
  <2>1. killed' \in BOOLEAN
    BY <1>9, Zenon DEF Kill
  <2>2. Rest'
    BY <1>1, <1>9, <2>1 DEF Rest, Kill, runFiles, remote
  <2>3. Moves(c)
    BY <1>1, <1>9, MovesIs DEF Kill
  <2> QED
    BY <2>2, <2>3, MovesStep
<1> QED
  BY <1>2, <1>3, <1>4, <1>5, <1>6, <1>7, <1>8, <1>9

LEMMA InitTypes == Init => TInv
<1> SUFFICES ASSUME Init PROVE TInv
  OBVIOUS
<1>1. Rest
  <2>1. count \in [Effects -> 0..2] /\ calls \in 0..2
    BY DEF Init
  <2>2. adapter \in [at: {"none", "prepared", "dispatched", "sent", "answered", "refused"},
                       by: Controllers \cup {Nobody}]
    BY DEF Init
  <2> QED
    BY <2>1, <2>2, FreshKept, FreshTypes DEF Init, Rest
<1>2. "idle" \in Places
  BY DEF Places
<1>3. \A c \in Controllers : JobFits(pc[c], job[c])
  BY FreshKept DEF Init, JobFits, NoJob
<1>4. pc \in [Controllers -> Places] /\ job \in [Controllers -> Jobs]
  BY <1>2, FreshTypes DEF Init
<1> QED
  BY <1>1, <1>3, <1>4, TInvIs

LEMMA NextTypes == ASSUME TInv, [Next]_vars PROVE TInv'
<1>1. CASE UNCHANGED vars
  BY <1>1 DEF TInv, TypeOK, JobFits, Resting, vars, runFiles, shells, remote, ghosts
<1>2. CASE Adapter
  BY <1>2, AdapterTypes
<1>3. ASSUME NEW c \in Controllers, Controller(c) PROVE TInv'
  BY <1>3, EnteringTypes, WriteTypes, LocalTypes, OtherTypes DEF Controller, Executor, Recovery
<1> QED
  BY <1>1, <1>2, <1>3 DEF Next

\* Every variable keeps its type, and a shell without a command holds nothing.
THEOREM TypeCorrect == Spec => []TypeOK
<1>1. TInv => TypeOK
  BY DEF TInv
<1>2. TInv /\ [Next]_vars => TInv'
  BY NextTypes
<1> QED
  BY <1>1, <1>2, InitTypes, PTL DEF Spec

(***************************************************************************)
(* The verdict.  What a manifest claims is covered by what is there for    *)
(* good: artifacts, effects that took place, a settled row, the log.  The  *)
(* same holds of a manifest that was only drafted, so it does not matter   *)
(* whose replacement comes last.                                           *)
(***************************************************************************)
\* What a manifest m claims, given the artifacts f, the counts n and the settlement s.
Covered(m, f, n, s) ==
  /\ \A t \in Stages : StagePassed(m, t) /\ t # "executor" => Output[t] \subseteq f
  /\ m.effect["import"] = "observed" => n["import"] = 1
  /\ m.effect["request"] = "observed" => {"receipt", "request-descriptor"} \subseteq f
  /\ m.status = "recovered" => s = "audit" /\ AuditArtifacts \subseteq f

\* What a controller may rely on at a place p.
Relies(p, f, n, s, k) ==
  /\ p \in {"imported", "observing import"} => n["import"] = 1
  /\ p = "answered" => s = "response" /\ n["request"] = 1
  /\ p \in {"receipted", "observing request"} => "receipt" \in f
  /\ p = "observing request" => "request-descriptor" \in f
  /\ p = "audited" => k = "in policy"

\* What the artifacts and the log prove.
Vouched(f, n, s, k) ==
  /\ "receipt" \in f => s = "response" /\ n["request"] = 1
  /\ "audit-recovery" \in f => k = "in policy"
  /\ k # "silent" => n["request"] = 1

\* What the adapter's place says.
Answers(a, n, s) ==
  /\ a \in {"sent", "answered"} => n["request"] = 1
  /\ a = "answered" => s = "response"

\* Places that rely on nothing.
Free == {"idle", "staging", "scanned", "admitted", "announcing import", "importing", "import lost", "normalized",
         "calling", "awaiting", "request lost", "recording", "writing", "recorded", "finalizing", "publishing",
         "binding", "evaluating", "created", "acquiring", "terminalizing", "reporting", "limiting", "recovering"}

VerdictInv ==
  /\ Covered(manifest, files, count, Settler)
  /\ \A c \in Controllers : Covered(job[c].draft, files, count, Settler) /\ job[c].then \in Free
  /\ \A c \in Controllers : Relies(pc[c], files, count, Settler, kong)
  /\ Vouched(files, count, Settler, kong)
  /\ Answers(adapter.at, count, Settler)

\* The evidence only grows.
Grows(f, g, n, o, s, t, k, l) ==
  /\ f \subseteq g
  /\ \A e \in Effects : n[e] = 1 => o[e] = 1
  /\ s # "none" => t = s
  /\ k # "silent" => l = k

LEMMA CoveredGrows ==
  ASSUME NEW m, NEW f, NEW g, NEW n, NEW o, NEW s, NEW t, NEW k, NEW l,
         Grows(f, g, n, o, s, t, k, l), Covered(m, f, n, s)
  PROVE  Covered(m, g, o, t)
BY DEF Grows, Covered, Effects

LEMMA ReliesGrows ==
  ASSUME NEW p, NEW f, NEW g, NEW n, NEW o, NEW s, NEW t, NEW k, NEW l,
         Grows(f, g, n, o, s, t, k, l), Relies(p, f, n, s, k)
  PROVE  Relies(p, g, o, t, l)
BY DEF Grows, Relies, Effects

\* The two artifacts that vouch for something are made where it is known.
LEMMA VouchedGrows ==
  ASSUME NEW f, NEW g, NEW n, NEW o, NEW s, NEW t, NEW k,
         Grows(f, g, n, o, s, t, k, k), Vouched(f, n, s, k),
         "receipt" \in g => "receipt" \in f \/ (s = "response" /\ n["request"] = 1),
         "audit-recovery" \in g => "audit-recovery" \in f \/ k = "in policy"
  PROVE  Vouched(g, o, t, k)
BY DEF Grows, Vouched, Effects

LEMMA StagePassedIs ==
  ASSUME NEW m \in Manifests, NEW t \in Stages
  PROVE  StagePassed(m, t) <=> Index(t) <= Len(m.stages) /\ m.stages[Index(t)] = "passed"
BY IndexIs, PassedIs

\* A manifest that replaces a covered one is covered.
LEMMA StageCovered ==
  ASSUME NEW m \in Good, NEW o \in Outcomes, NEW j, j.findings \in BOOLEAN, j.stage <= 12,
         Recordable(m, j.stage, o), NEW n, NEW s, Covered(m, files, n, s)
  PROVE  Covered(WithStage(m, o, j), files, n, s)
<1> DEFINE d == WithStage(m, o, j)
           i == Len(m.stages)
<1>1. m \in Manifests /\ d \in Manifests
  BY StageTypes DEF Good
<1>2. d.effect = m.effect /\ d.stages = Append(m.stages, o)
      /\ d.status = (IF o \in {"failed", "rejected"} THEN o ELSE m.status)
  BY <1>1, StageTypes
<1>3. /\ Len(d.stages) = i + 1 /\ i + 1 \in 1..12 /\ d.stages[i + 1] = o /\ i \in Nat /\ m.status = "pending"
      /\ \A k \in 1..i : d.stages[k] = m.stages[k]
      /\ o = "passed" => Checkpoint(StageOrder[i + 1]) \subseteq files
  BY <1>1, <1>2, RecordableIs, AppendIs, PassedIs
<1> HIDE DEF d
<1>4. ASSUME NEW t \in Stages, StagePassed(d, t), t # "executor" PROVE Output[t] \subseteq files
  <2>1. Index(t) <= i + 1 /\ d.stages[Index(t)] = "passed" /\ Index(t) \in 1..12 /\ StageOrder[Index(t)] = t
    BY <1>1, <1>3, <1>4, StagePassedIs, IndexIs
  <2>2. CASE Index(t) <= i
    <3>1. StagePassed(m, t)
      BY <1>1, <1>3, <2>1, <2>2, StagePassedIs
    <3> QED
      BY <1>4, <3>1 DEF Covered
  <2>3. CASE Index(t) = i + 1
    <3>1. Checkpoint(t) \subseteq files
      BY <1>3, <2>1, <2>3
    <3> QED
      BY <1>4, <3>1 DEF Checkpoint
  <2> QED
    BY <1>3, <2>1, <2>2, <2>3
<1>5. d.status # "recovered"
  BY <1>2, <1>3
<1> QED
  BY <1>2, <1>4, <1>5 DEF Covered, d

LEMMA EffectCovered ==
  ASSUME NEW m \in Good, NEW e \in Effects, NEW s \in States, m.status = "pending",
         NEW f, NEW n, NEW b, Covered(m, f, n, b),
         s = "observed" => IF e = "import" THEN n["import"] = 1 ELSE {"receipt", "request-descriptor"} \subseteq f
  PROVE  Covered(WithEffect(m, e, s), f, n, b)
<1> DEFINE d == WithEffect(m, e, s)
<1>1. m \in Manifests /\ d \in Manifests /\ m.effect \in [Effects -> States]
  BY EffectTypes, ManifestIs DEF Good
<1>2. d.effect = [m.effect EXCEPT ![e] = s] /\ d.stages = m.stages /\ d.status = "pending"
  BY <1>1, EffectTypes
<1> HIDE DEF d
<1>3. \A t \in Stages : StagePassed(d, t) <=> StagePassed(m, t)
  BY <1>2 DEF StagePassed
<1>4. \A g \in Effects : d.effect[g] = IF g = e THEN s ELSE m.effect[g]
  BY <1>1, <1>2
<1> QED
  BY <1>2, <1>3, <1>4 DEF Covered, d, Effects

LEMMA FinalCovered ==
  ASSUME NEW m \in Good, NEW f, NEW n, NEW b, Covered(m, f, n, b)
  PROVE  Covered(Final(m), f, n, b)
<1>1. m \in Manifests
  BY DEF Good
<1>2. Final(m).effect = m.effect /\ Final(m).stages = m.stages /\ Final(m).status = "passed"
  BY <1>1, FinalTypes
<1> QED
  BY <1>2 DEF Covered, StagePassed

LEMMA RecoveryCovered ==
  ASSUME NEW m \in Good, NEW f, NEW n, Covered(m, f, n, "audit"), Stranded(m), AuditArtifacts \subseteq f
  PROVE  Covered(WithRecovery(m), f, n, "audit")
<1> DEFINE d == WithRecovery(m)
<1>1. m \in Manifests /\ d \in Manifests /\ m.effect \in [Effects -> States]
  BY RecoveryTypes, ManifestIs DEF Good
<1>2. d.effect = [m.effect EXCEPT !["request"] = "recovered"] /\ d.stages = [m.stages EXCEPT ![8] = "recovered"]
  BY <1>1, RecoveryTypes
<1>3. Len(m.stages) = 8 /\ DOMAIN m.stages = 1..8
  BY <1>1, StrandedIs, PassedIs
<1> HIDE DEF d
<1>4. \A t \in Stages : StagePassed(d, t) => StagePassed(m, t)
  BY <1>2, <1>3 DEF StagePassed
<1>5. d.effect["import"] = m.effect["import"] /\ d.effect["request"] # "observed"
  BY <1>1, <1>2 DEF Effects
<1> QED
  BY <1>4, <1>5 DEF Covered, d

LEMMA NothingClaimed == \A f, n, s : Covered(NoManifest, f, n, s) /\ Covered(FreshManifest, f, n, s)
<1>1. /\ NoManifest \in Manifests /\ FreshManifest \in Manifests
      /\ NoManifest.stages = << >> /\ FreshManifest.stages = << >>
      /\ NoManifest.effect = [e \in Effects |-> "none"] /\ FreshManifest.effect = [e \in Effects |-> "none"]
      /\ NoManifest.status = "none" /\ FreshManifest.status = "pending"
  BY FreshTypes DEF NoManifest
<1>2. \A t \in Stages : ~ StagePassed(NoManifest, t) /\ ~ StagePassed(FreshManifest, t)
  BY <1>1 DEF StagePassed
<1> QED
  BY <1>1, <1>2 DEF Covered, Effects

\* The evidence of this step.
GrowsNow == Grows(files, files', count, count', Settler, Settler', kong, kong')

LEMMA EvidenceGrows == ASSUME Inv, TInv, VerdictInv, [Next]_vars PROVE GrowsNow
<1>1. CASE UNCHANGED vars
  BY <1>1 DEF GrowsNow, Grows, Settler, vars, runFiles, remote, ghosts
<1>2. CASE Adapter
  <2>1. files' = files
    BY <1>2 DEF Adapter, AdapterDispatches, AdapterMintFails, AdapterSends, AdapterSettles,
                AdapterHearsNothing, AdapterDies, runFiles
  <2>2. \A e \in Effects : count[e] = 1 => count'[e] = 1
    <3>1. CASE AdapterSends
      <4>1. count["request"] = 0 /\ count \in [Effects -> 0..2]
        BY <3>1, TInvIs DEF AdapterSends, Inv, IInv, RequestInv, Rest
      <4>2. count' = [count EXCEPT !["request"] = Twice(count["request"])]
        BY <3>1 DEF AdapterSends
      <4>3. \A e \in Effects : e # "request" => count'[e] = count[e]
        BY <4>1, <4>2
      <4> QED
        BY <4>1, <4>3
    <3>2. CASE count' = count
      BY <3>2
    <3> QED
      BY <1>2, <3>1, <3>2 DEF Adapter, AdapterDispatches, AdapterMintFails, AdapterSettles,
                              AdapterHearsNothing, AdapterDies, ghosts
  <2>3. Settler # "none" => Settler' = Settler
    BY <1>2 DEF Settler, Adapter, AdapterDispatches, AdapterMintFails, AdapterSends, AdapterSettles,
                AdapterHearsNothing, AdapterDies, Reopened
  <2>4. kong # "silent" => kong' = kong
    <3>1. CASE AdapterSends
      <4>1. count["request"] = 0
        BY <3>1 DEF AdapterSends, Inv, IInv, RequestInv
      <4>2. kong # "silent" => count["request"] = 1
        BY DEF VerdictInv, Vouched
      <4> QED
        BY <4>1, <4>2
    <3>2. CASE kong' = kong
      BY <3>2
    <3> QED
      BY <1>2, <3>1, <3>2 DEF Adapter, AdapterDispatches, AdapterMintFails, AdapterSettles,
                              AdapterHearsNothing, AdapterDies
  <2> QED
    BY <2>1, <2>2, <2>3, <2>4 DEF GrowsNow, Grows
<1>3. ASSUME NEW c \in Controllers, Controller(c) PROVE GrowsNow
  <2>1. files \subseteq files'
    BY <1>3, FilesStay
  <2>2. CASE UNCHANGED <<remote, ghosts>>
    BY <2>1, <2>2 DEF GrowsNow, Grows, Settler, remote, ghosts
  <2>3. CASE UNCHANGED <<remote, count>>
    BY <2>1, <2>3 DEF GrowsNow, Grows, Settler, remote
  <2>4. CASE Import(c)
    <3>1. count["import"] = 1 => count' = count
      <4>1. count["import"] = 0
        BY <2>4 DEF Import, At, Importing, Inv, IInv, ImportInv
      <4> QED
        BY <4>1
    <3>2. count' = count \/ count' = [count EXCEPT !["import"] = Twice(count["import"])]
      BY <2>4 DEF Import
    <3>3. count \in [Effects -> 0..2]
      BY TInvIs DEF Rest
    <3>4. \A e \in Effects : e # "import" => count'[e] = count[e]
      BY <3>2, <3>3
    <3>5. Settler' = Settler /\ kong' = kong
      BY <2>4 DEF Import, Settler, remote
    <3> QED
      BY <2>1, <3>1, <3>4, <3>5 DEF GrowsNow, Grows
  <2>5. CASE CallAdapter(c)
    <3>1. Settler # "none" => Settler' = Settler
      BY <2>5 DEF CallAdapter, Settler, Reopened, Reservable, remote
    <3>2. kong' = kong /\ count' = count
      BY <2>5 DEF CallAdapter, remote
    <3> QED
      BY <2>1, <3>1, <3>2 DEF GrowsNow, Grows
  <2>6. CASE Terminalize(c)
    <3>1. Settler # "none" => Settler' = Settler
      BY <2>6 DEF Terminalize, Settler, AuditState
    <3>2. kong' = kong /\ count' = count
      BY <2>6 DEF Terminalize, ghosts
    <3> QED
      BY <2>1, <3>1, <3>2 DEF GrowsNow, Grows
  <2>7. CASE Kill(c)
    BY <2>3, <2>7 DEF Kill
  <2>8. CASE Run(c) \/ Resume(c) \/ RecoverAudit(c)
    BY <2>3, <2>8 DEF Run, Resume, RecoverAudit, Enter
  <2> QED
    BY <1>3, <2>2, <2>4, <2>5, <2>6, <2>7, <2>8
       DEF Controller, Executor, Recovery,
           InitManifest, Write, LocalStage, RunnerStage, StageFails, Scan, Admit, Intend, CreateOnce,
           AnnounceImport, ObserveImport, RecordImport, Resolve, Analyse, LinkReport, Propose, Pause,
           Approve, AnnounceRequest, Receive, CheckResult, Describe,
           RecordRequest, Record, Reread, Finalize, PublishRequest, PublishBindings, PublishOnce, Evaluate,
           Acquire, WriteAudit, Report, Limit, BindRecovery
<1> QED
  BY <1>1, <1>2, <1>3 DEF Next

\* What a step of a controller keeps, wherever it goes.
Honest ==
  /\ GrowsNow /\ kong' = kong
  /\ Answers(adapter'.at, count', Settler')
  /\ "receipt" \in files' => "receipt" \in files \/ (Settler = "response" /\ count["request"] = 1)
  /\ "audit-recovery" \in files' => "audit-recovery" \in files \/ kong = "in policy"

LEMMA HonestIs ==
  ASSUME VerdictInv, GrowsNow, UNCHANGED <<remote, ghosts>> \/ UNCHANGED <<remote, count>>,
         \/ files' = files
         \/ \E name : Create(name) /\ name \notin {"receipt", "audit-recovery"}
         \/ files' \cap {"receipt", "audit-recovery"} \subseteq files
  PROVE  Honest
<1>1. kong' = kong /\ adapter' = adapter /\ Settler' = Settler /\ count' = count
  BY DEF remote, ghosts, Settler
<1>2. Answers(adapter'.at, count', Settler')
  BY <1>1 DEF VerdictInv
<1>3. "receipt" \in files' => "receipt" \in files
  BY DEF Create
<1>4. "audit-recovery" \in files' => "audit-recovery" \in files
  BY DEF Create
<1> QED
  BY <1>1, <1>2, <1>3, <1>4 DEF Honest

LEMMA VerdictStep ==
  ASSUME TInv, VerdictInv, Honest, NEW c \in Controllers,
         manifest' = manifest \/ Covered(manifest', files, count, Settler),
         NEW place, NEW j, Covered(j.draft, files, count, Settler), j.then \in Free,
         Relies(place, files', count', Settler', kong'),
         pc' = [pc EXCEPT ![c] = place], job' = [job EXCEPT ![c] = j]
  PROVE  VerdictInv'
<1>1. /\ pc'[c] = place /\ job'[c] = j
      /\ \A d \in Controllers \ {c} : pc'[d] = pc[d] /\ job'[d] = job[d]
  BY TInvIs
<1>2. Covered(manifest', files', count', Settler')
  <2>1. CASE manifest' = manifest
    BY <2>1, CoveredGrows DEF Honest, GrowsNow, VerdictInv
  <2>2. CASE Covered(manifest', files, count, Settler)
    BY <2>2, CoveredGrows DEF Honest, GrowsNow
  <2> QED
    BY <2>1, <2>2
<1>3. \A d \in Controllers : Covered(job'[d].draft, files', count', Settler') /\ job'[d].then \in Free
  BY <1>1, CoveredGrows DEF Honest, GrowsNow, VerdictInv
<1>4. \A d \in Controllers : Relies(pc'[d], files', count', Settler', kong')
  <2>1. ASSUME NEW d \in Controllers, d # c PROVE Relies(pc'[d], files', count', Settler', kong')
    <3>1. pc'[d] = pc[d]
      BY <1>1, <2>1
    <3>2. Relies(pc[d], files, count, Settler, kong)
      BY DEF VerdictInv
    <3>3. Grows(files, files', count, count', Settler, Settler', kong, kong')
      BY DEF Honest, GrowsNow
    <3> HIDE DEF Honest
    <3> QED
      BY <3>1, <3>2, <3>3, ReliesGrows
  <2> QED
    BY <1>1, <2>1
<1>5. Vouched(files', count', Settler', kong')
  BY VouchedGrows DEF Honest, GrowsNow, VerdictInv
<1> QED
  BY <1>2, <1>3, <1>4, <1>5 DEF VerdictInv, Honest

LEMMA FreeIs == \A p \in Free : \A f, n, s, k : Relies(p, f, n, s, k)
BY DEF Free, Relies

LEMMA VerdictContinue ==
  ASSUME TInv, VerdictInv, Honest, manifest' = manifest, NEW c \in Controllers, NEW place, Continue(c, place),
         place \in Free \/ Relies(place, files', count', Settler', kong')
  PROVE  VerdictInv'
<1>1. job' = [job EXCEPT ![c] = job[c]] /\ pc' = [pc EXCEPT ![c] = place]
  BY TInvIs DEF Continue, Goto
<1>2. Covered(job[c].draft, files, count, Settler) /\ job[c].then \in Free
  BY DEF VerdictInv
<1>3. Relies(place, files', count', Settler', kong')
  BY FreeIs
<1> QED
  BY <1>1, <1>2, <1>3, VerdictStep

LEMMA VerdictLeave ==
  ASSUME TInv, VerdictInv, Honest, manifest' = manifest \/ Covered(manifest', files, count, Settler),
         NEW c \in Controllers, Leave(c)
  PROVE  VerdictInv'
<1>1. job' = [job EXCEPT ![c] = NoJob] /\ pc' = [pc EXCEPT ![c] = "idle"]
  BY TInvIs DEF Leave, Goto
<1>2. Covered(NoJob.draft, files, count, Settler) /\ NoJob.then \in Free
  BY NothingClaimed DEF NoJob, Free
<1>3. Relies("idle", files', count', Settler', kong')
  BY FreeIs DEF Free
<1> QED
  BY <1>1, <1>2, <1>3, VerdictStep

LEMMA VerdictConclude ==
  ASSUME TInv, VerdictInv, Honest, manifest' = manifest, NEW c \in Controllers, NEW o,
         \/ Conclude(c, o)
         \/ Goto(c, "recording") /\ \E g : job' = [job EXCEPT ![c].outcome = o, ![c].findings = g]
  PROVE  VerdictInv'
<1>1. PICK j : job' = [job EXCEPT ![c] = j] /\ j.draft = job[c].draft /\ j.then = job[c].then
  <2>1. CASE Conclude(c, o)
    <3> DEFINE j == [job[c] EXCEPT !.outcome = o]
    <3>1. job' = [job EXCEPT ![c] = j]
      BY <2>1, TInvIs DEF Conclude
    <3>2. j.draft = job[c].draft /\ j.then = job[c].then
      BY TInvIs DEF Jobs
    <3> QED
      BY <3>1, <3>2
  <2>2. ASSUME NEW g, job' = [job EXCEPT ![c].outcome = o, ![c].findings = g]
        PROVE  \E j : job' = [job EXCEPT ![c] = j] /\ j.draft = job[c].draft /\ j.then = job[c].then
    <3> DEFINE j == [job[c] EXCEPT !.outcome = o, !.findings = g]
    <3>1. job' = [job EXCEPT ![c] = j]
      BY <2>2, TInvIs
    <3>2. j.draft = job[c].draft /\ j.then = job[c].then
      BY TInvIs DEF Jobs
    <3> QED
      BY <3>1, <3>2
  <2> QED
    BY <2>1, <2>2
<1>2. pc' = [pc EXCEPT ![c] = "recording"]
  BY DEF Conclude, Goto
<1>3. Covered(j.draft, files, count, Settler) /\ j.then \in Free
  BY <1>1 DEF VerdictInv
<1>4. Relies("recording", files', count', Settler', kong')
  BY FreeIs DEF Free
<1> QED
  BY <1>1, <1>2, <1>3, <1>4, VerdictStep

LEMMA VerdictDraft ==
  ASSUME TInv, VerdictInv, Honest, manifest' = manifest, NEW c \in Controllers, NEW m, NEW then \in Free, NEW o,
         Draft(c, m, then, o), Covered(m, files, count, Settler)
  PROVE  VerdictInv'
<1> DEFINE j == [job[c] EXCEPT !.draft = m, !.then = then, !.outcome = o]
<1>1. job' = [job EXCEPT ![c] = j] /\ pc' = [pc EXCEPT ![c] = "writing"]
  BY TInvIs DEF Draft, Goto
<1>2. j.draft = m /\ j.then = then
  BY TInvIs DEF Jobs
<1> HIDE DEF j
<1>3. Relies("writing", files', count', Settler', kong')
  BY FreeIs DEF Free
<1> QED
  BY <1>1, <1>2, <1>3, VerdictStep

LEMMA VerdictRecord ==
  ASSUME TInv, VerdictInv, Honest, manifest' = manifest, NEW c \in Controllers, NEW o \in Outcomes,
         RecordStage(c, o)
  PROVE  VerdictInv'
<1>1. job[c] \in Jobs /\ manifest \in Good /\ Covered(manifest, files, count, Settler)
  BY TInvIs DEF Rest, VerdictInv
<1>2. job[c].findings \in BOOLEAN /\ job[c].stage <= 12
  BY <1>1, StageOrderIs DEF Jobs
<1>3. CASE Recordable(manifest, job[c].stage, o)
  <2>1. Covered(WithStage(manifest, o, job[c]), files, count, Settler)
    BY <1>1, <1>2, <1>3, StageCovered
  <2>2. Draft(c, WithStage(manifest, o, job[c]), AfterRecord(o), o)
    BY <1>3 DEF RecordStage
  <2>3. AfterRecord(o) \in Free
    BY DEF AfterRecord, Free
  <2> HIDE DEF Honest
  <2> QED
    BY <2>1, <2>2, <2>3, VerdictDraft
<1>4. CASE Continue(c, "publishing")
  BY <1>4, VerdictContinue DEF Free
<1>5. CASE Leave(c)
  BY <1>5, VerdictLeave
<1> QED
  BY <1>3, <1>4, <1>5 DEF RecordStage

LEMMA VerdictEffect ==
  ASSUME TInv, VerdictInv, Honest, manifest' = manifest, NEW c \in Controllers,
         NEW e \in Effects, NEW s \in States, NEW place \in Free, NEW o,
         s = "observed" => IF e = "import" THEN count["import"] = 1
                                           ELSE {"receipt", "request-descriptor"} \subseteq files,
         IF EffectAllowed(manifest, e, s) THEN Draft(c, WithEffect(manifest, e, s), place, o)
                                          ELSE Conclude(c, "failed")
  PROVE  VerdictInv'
<1>1. manifest \in Good /\ Covered(manifest, files, count, Settler)
  BY TInvIs DEF Rest, VerdictInv
<1>2. CASE EffectAllowed(manifest, e, s)
  <2>1. manifest.status = "pending"
    BY <1>2 DEF EffectAllowed
  <2>2. Covered(WithEffect(manifest, e, s), files, count, Settler)
    BY <1>1, <2>1, EffectCovered
  <2>3. Draft(c, WithEffect(manifest, e, s), place, o)
    BY <1>2
  <2> QED
    BY <2>2, <2>3, VerdictDraft
<1>3. CASE Conclude(c, "failed")
  BY <1>3, VerdictConclude
<1> QED
  BY <1>2, <1>3

LEMMA VerdictOnce ==
  ASSUME TInv, VerdictInv, GrowsNow, NEW c \in Controllers, NEW name, name \notin {"receipt", "audit-recovery"},
         NEW place \in Free, CreateOnce(c, name, place) \/ PublishOnce(c, name, place)
  PROVE  VerdictInv'
<1>1. manifest' = manifest /\ UNCHANGED <<remote, ghosts>> /\ files' \cap {"receipt", "audit-recovery"} \subseteq files
  BY DEF CreateOnce, PublishOnce, Create, runFiles
<1>2. Honest
  BY <1>1, HonestIs
<1>3. CASE Conclude(c, "failed")
  BY <1>1, <1>2, <1>3, VerdictConclude
<1>4. CASE Continue(c, place)
  BY <1>1, <1>2, <1>4, VerdictContinue
<1>5. CASE Leave(c)
  BY <1>1, <1>2, <1>5, VerdictLeave
<1> QED
  BY <1>3, <1>4, <1>5 DEF CreateOnce, PublishOnce

LEMMA VerdictEnter ==
  ASSUME TInv, VerdictInv, GrowsNow, NEW c \in Controllers, NEW place \in Free, NEW mode, NEW stage,
         Enter(c, place, mode, stage), manifest' = manifest, files' \cap {"receipt", "audit-recovery"} \subseteq files
  PROVE  VerdictInv'
<1> DEFINE j == [job[c] EXCEPT !.mode = mode, !.stage = stage, !.then = "idle"]
<1>1. Honest
  BY HonestIs DEF Enter
<1>2. job' = [job EXCEPT ![c] = j] /\ pc' = [pc EXCEPT ![c] = place]
  BY TInvIs DEF Enter, Goto
<1>3. j.draft = job[c].draft /\ j.then = "idle"
  BY TInvIs DEF Jobs
<1> HIDE DEF j, Honest
<1>4. Covered(j.draft, files, count, Settler) /\ j.then \in Free
  BY <1>3 DEF VerdictInv, Free
<1>5. Relies(place, files', count', Settler', kong')
  BY FreeIs
<1> QED
  BY <1>1, <1>2, <1>4, <1>5, VerdictStep

\* The steps that touch nothing but the directory, and make no artifact that vouches.
LEMMA VerdictLocal ==
  ASSUME TInv, VerdictInv, GrowsNow, NEW c \in Controllers,
         \/ InitManifest(c) \/ LocalStage(c) \/ RunnerStage(c) \/ StageFails(c)
         \/ Scan(c) \/ AnnounceImport(c) \/ ObserveImport(c) \/ Analyse(c) \/ LinkReport(c)
         \/ Propose(c) \/ Pause(c) \/ Approve(c) \/ AnnounceRequest(c) \/ Record(c) \/ Reread(c)
         \/ Finalize(c) \/ Evaluate(c) \/ BindRecovery(c)
  PROVE  VerdictInv'
<1>1. UNCHANGED <<remote, ghosts>> /\ files' \cap {"receipt", "audit-recovery"} \subseteq files
  <2>1. CASE RunnerStage(c)
    BY <2>1, RunnerStagesAre, OutputIs DEF RunnerStage, NormalArtifacts, AuditArtifacts
  <2> QED
    BY <2>1 DEF InitManifest, LocalStage, StageFails, Scan, AnnounceImport, ObserveImport, Analyse, LinkReport,
                Propose, Pause, Approve, AnnounceRequest, Record, Reread, Finalize, Evaluate, BindRecovery,
                Create, runFiles
<1>2. Honest
  BY <1>1, HonestIs
<1> HIDE DEF Honest
<1>3. CASE InitManifest(c)
  <2>1. Covered(manifest', files, count, Settler)
    BY <1>3, NothingClaimed DEF InitManifest
  <2>2. job' = [job EXCEPT ![c] = job[c]] /\ pc' = [pc EXCEPT ![c] = "staging"]
    BY <1>3, TInvIs DEF InitManifest, Continue, Goto
  <2>3. Covered(job[c].draft, files, count, Settler) /\ job[c].then \in Free
    BY DEF VerdictInv
  <2>4. Relies("staging", files', count', Settler', kong')
    BY FreeIs DEF Free
  <2> QED
    BY <1>2, <2>1, <2>2, <2>3, <2>4, VerdictStep
<1>4. manifest' = manifest \/ InitManifest(c)
  BY DEF LocalStage, RunnerStage, StageFails, Scan, AnnounceImport, ObserveImport, Analyse, LinkReport,
         Propose, Pause, Approve, AnnounceRequest, Record, Reread, Finalize, Evaluate, BindRecovery,
         Create, runFiles
<1>5. CASE manifest' = manifest /\ (LocalStage(c) \/ StageFails(c))
  BY <1>2, <1>5, VerdictRecord, OutcomesAre DEF LocalStage, StageFails
<1>6. CASE manifest' = manifest /\ Record(c)
  <2>1. job[c].outcome \in Outcomes
    BY <1>6, TInvIs DEF Record, At, JobFits
  <2> QED
    BY <1>2, <1>6, <2>1, VerdictRecord DEF Record
<1>7. CASE manifest' = manifest /\ (RunnerStage(c) \/ LinkReport(c) \/ Propose(c) \/ Approve(c))
  BY <1>2, <1>7, VerdictConclude DEF RunnerStage, LinkReport, Propose, Approve
<1>8. CASE manifest' = manifest /\ (Scan(c) \/ Analyse(c) \/ Reread(c))
  BY <1>2, <1>8, VerdictContinue, VerdictLeave DEF Scan, Analyse, Reread, Free
<1>9. CASE manifest' = manifest /\ (Pause(c) \/ Evaluate(c))
  BY <1>2, <1>9, VerdictLeave DEF Pause, Evaluate
<1>10. CASE manifest' = manifest /\ ObserveImport(c)
  <2>1. count["import"] = 1
    BY <1>10 DEF ObserveImport, At, VerdictInv, Relies
  <2>2. Relies("observing import", files', count', Settler', kong')
    BY <1>1, <2>1 DEF Relies, ghosts
  <2> QED
    BY <1>2, <1>10, <2>2, VerdictContinue DEF ObserveImport, Free
<1>11. CASE manifest' = manifest /\ (AnnounceImport(c) \/ AnnounceRequest(c))
  BY <1>2, <1>11, VerdictEffect DEF AnnounceImport, AnnounceRequest, Announce, Effects, States, Free
<1>12. CASE manifest' = manifest /\ (Finalize(c) \/ BindRecovery(c))
  <2>1. manifest \in Good /\ Covered(manifest, files, count, Settler)
    BY TInvIs DEF Rest, VerdictInv
  <2>2. Covered(Final(manifest), files, count, Settler)
    BY <2>1, FinalCovered
  <2>3. AuditState = "limited-artifacts-complete" => Covered(WithRecovery(manifest), files, count, Settler)
    <3>1. AuditState = "limited-artifacts-complete" =>
             Settler = "audit" /\ AuditArtifacts \subseteq files /\ Stranded(manifest)
      BY DEF AuditState, Settler
    <3> QED
      BY <2>1, <3>1, RecoveryCovered
  <2> QED
    BY <1>2, <1>12, <2>2, <2>3, VerdictDraft, VerdictLeave DEF Finalize, BindRecovery, Free
<1> QED
  BY <1>3, <1>4, <1>5, <1>6, <1>7, <1>8, <1>9, <1>10, <1>11, <1>12

LEMMA VerdictWrite == ASSUME TInv, VerdictInv, GrowsNow, NEW c \in Controllers, Write(c) PROVE VerdictInv'
<1>1. UNCHANGED <<files, remote, ghosts>> /\ manifest' = job[c].draft
  BY DEF Write
<1>2. Honest
  BY <1>1, HonestIs
<1>3. Covered(manifest', files, count, Settler)
  BY <1>1 DEF VerdictInv
<1> HIDE DEF Honest
<1>4. CASE Leave(c)
  BY <1>2, <1>3, <1>4, VerdictLeave
<1>5. ASSUME ~ Leave(c) PROVE VerdictInv'
  <2> DEFINE last == job[c].stage = Len(StageOrder)
             j1 == [job[c] EXCEPT !.draft = NoManifest, !.then = "idle"]
             j2 == [NoJob EXCEPT !.mode = "run", !.stage = IF last THEN @ ELSE job[c].stage + 1]
  <2>1. CASE pc' = [pc EXCEPT ![c] = job[c].then] /\ job' = [job EXCEPT ![c] = j1]
    <3>1. j1.draft = NoManifest /\ j1.then = "idle"
      BY TInvIs DEF Jobs
    <3>2. job[c].then \in Free
      BY DEF VerdictInv
    <3> HIDE DEF j1
    <3>3. Covered(j1.draft, files, count, Settler) /\ j1.then \in Free
      BY <3>1, NothingClaimed DEF Free
    <3>4. Relies(job[c].then, files', count', Settler', kong')
      BY <3>2, FreeIs
    <3> QED
      BY <1>2, <1>3, <2>1, <3>3, <3>4, VerdictStep
  <2>2. ASSUME NEW place \in {"finalizing", "staging"}, pc' = [pc EXCEPT ![c] = place],
               job' = [job EXCEPT ![c] = j2]
        PROVE  VerdictInv'
    <3>1. j2.draft = NoManifest /\ j2.then = "idle"
      BY DEF NoJob
    <3> HIDE DEF j2
    <3>2. Covered(j2.draft, files, count, Settler) /\ j2.then \in Free
      BY <3>1, NothingClaimed DEF Free
    <3>3. Relies(place, files', count', Settler', kong')
      BY FreeIs DEF Free
    <3> QED
      BY <1>2, <1>3, <2>2, <3>2, <3>3, VerdictStep
  <2>3. /\ job[c].then # "recorded" \/ job[c].mode = "resume" =>
             pc' = [pc EXCEPT ![c] = job[c].then] /\ job' = [job EXCEPT ![c] = j1]
        /\ ~ (job[c].then # "recorded" \/ job[c].mode = "resume") =>
             pc' = [pc EXCEPT ![c] = IF last THEN "finalizing" ELSE "staging"] /\ job' = [job EXCEPT ![c] = j2]
    BY <1>5, TInvIs DEF Write, Goto
  <2> HIDE DEF j1, j2
  <2> QED
    BY <2>1, <2>2, <2>3
<1> QED
  BY <1>4, <1>5

LEMMA VerdictAdapter == ASSUME Inv, TInv, VerdictInv, GrowsNow, Adapter PROVE VerdictInv'
<1>1. manifest' = manifest /\ files' = files /\ pc' = pc /\ job' = job
  BY DEF Adapter, AdapterDispatches, AdapterMintFails, AdapterSends, AdapterSettles,
         AdapterHearsNothing, AdapterDies, runFiles, shells
<1>2. GrowsNow
  OBVIOUS
<1>3. Covered(manifest', files', count', Settler') /\
      \A d \in Controllers : Covered(job'[d].draft, files', count', Settler') /\ job'[d].then \in Free
  BY <1>1, <1>2, CoveredGrows DEF GrowsNow, VerdictInv
<1>4. \A d \in Controllers : Relies(pc'[d], files', count', Settler', kong')
  <2>1. ASSUME NEW d \in Controllers PROVE Relies(pc[d], files', count', Settler', kong')
    <3>1. Relies(pc[d], files, count, Settler, kong)
      BY DEF VerdictInv
    <3>2. Grows(files, files', count, count', Settler, Settler', kong, kong')
      BY <1>2 DEF GrowsNow
    <3> QED
      BY <3>1, <3>2, ReliesGrows
  <2> QED
    BY <1>1, <2>1
<1>5. adapter'.at = adapter.at \/ adapter'.at \in {"dispatched", "refused", "sent", "answered"}
  BY TInvIs DEF Adapter, AdapterDispatches, AdapterMintFails, AdapterSends, AdapterSettles,
         AdapterHearsNothing, AdapterDies, AdapterGoes, Rest, Replies
<1>6. CASE AdapterSends
  <2>1. count["request"] = 0 /\ count \in [Effects -> 0..2]
    BY <1>6, TInvIs DEF AdapterSends, Inv, IInv, RequestInv, Rest
  <2>2. count' = [count EXCEPT !["request"] = Twice(count["request"])] /\ adapter'.at = "sent"
    BY <1>6, TInvIs DEF AdapterSends, AdapterGoes, Rest
  <2>3. count'["request"] = 1
    BY <2>1, <2>2, CountIs DEF Effects
  <2>4. Answers(adapter'.at, count', Settler')
    BY <2>2, <2>3 DEF Answers
  <2>5. Vouched(files', count', Settler', kong')
    <3>1. "receipt" \notin files
      <4>1. "receipt" \in files => count["request"] = 1
        BY DEF VerdictInv, Vouched
      <4> QED
        BY <2>1, <4>1
    <3>2. "audit-recovery" \notin files
      <4>1. "audit-recovery" \in files => count["request"] = 1
        BY DEF VerdictInv, Vouched
      <4> QED
        BY <2>1, <4>1
    <3> QED
      BY <1>1, <2>3, <3>1, <3>2 DEF Vouched
  <2> QED
    BY <1>3, <1>4, <2>4, <2>5 DEF VerdictInv
<1>7. CASE kong' = kong
  <2>1. Vouched(files', count', Settler', kong')
    BY <1>1, <1>2, <1>7, VouchedGrows DEF VerdictInv, GrowsNow
  <2>2. Answers(adapter'.at, count', Settler')
    <3>1. CASE AdapterSettles
      <4>1. adapter'.at \in {"answered", "refused"} /\ adapter.at = "sent" /\ count' = count
        BY <3>1, TInvIs DEF AdapterSettles, Replies, AdapterGoes, Rest, ghosts
      <4>2. adapter'.at = "answered" => Settler' = "response"
        BY <3>1, TInvIs DEF AdapterSettles, Replies, AdapterGoes, Rest, Settler
      <4> QED
        BY <4>1, <4>2 DEF Answers, VerdictInv
    <3>2. CASE adapter'.at \in {"dispatched", "refused"}
      BY <3>2 DEF Answers
    <3>3. CASE AdapterSends
      BY <1>6, <3>3 DEF VerdictInv
    <3> QED
      BY <3>1, <3>2, <3>3, TInvIs
         DEF Adapter, AdapterDispatches, AdapterMintFails, AdapterHearsNothing, AdapterDies, AdapterGoes, Rest
  <2> QED
    BY <1>3, <1>4, <2>1, <2>2 DEF VerdictInv
<1> QED
  BY <1>6, <1>7 DEF Adapter, AdapterDispatches, AdapterMintFails, AdapterSettles, AdapterHearsNothing, AdapterDies

LEMMA VerdictRemote ==
  ASSUME Inv, TInv, VerdictInv, GrowsNow, NEW c \in Controllers,
         \/ Import(c) \/ RecordImport(c) \/ RecordRequest(c) \/ CallAdapter(c) \/ Receive(c)
         \/ CheckResult(c) \/ Describe(c)
  PROVE  VerdictInv'
<1>1. CASE Import(c)
  <2>1. UNCHANGED <<manifest, files, row, settledBy, kong, adapter>>
    BY <1>1 DEF Import, runFiles, remote
  <2>2. Answers(adapter'.at, count', Settler')
    BY <2>1 DEF Settler, VerdictInv, Answers, GrowsNow, Grows, Effects
  <2>3. Honest
    BY <2>1, <2>2 DEF Honest
  <2> HIDE DEF Honest
  <2>4. CASE Continue(c, "import lost")
    BY <2>1, <2>3, <2>4, VerdictContinue DEF Free
  <2>5. CASE count' = [count EXCEPT !["import"] = Twice(@)] /\ Continue(c, "imported")
    <3>1. count["import"] = 0 /\ count \in [Effects -> 0..2]
      BY <1>1, TInvIs DEF Rest, Import, At, Importing, Inv, IInv, ImportInv
    <3>2. count'["import"] = 1
      BY <2>5, <3>1, CountIs DEF Effects
    <3>3. Relies("imported", files', count', Settler', kong')
      BY <3>2 DEF Relies
    <3> QED
      BY <2>1, <2>3, <2>5, <3>3, VerdictContinue
  <2> QED
    BY <1>1, <2>4, <2>5 DEF Import
<1>2. CASE RecordImport(c) \/ RecordRequest(c)
  <2>1. manifest' = manifest /\ files' = files /\ UNCHANGED <<remote, ghosts>>
    BY <1>2 DEF RecordImport, RecordRequest, Resolve, runFiles
  <2>2. Honest
    BY <2>1, HonestIs
  <2> HIDE DEF Honest
  <2>3. /\ pc[c] = "observing import" => count["import"] = 1
        /\ pc[c] = "observing request" => {"receipt", "request-descriptor"} \subseteq files
    BY DEF VerdictInv, Relies
  <2>4. {"import", "request"} = Effects /\ {"observed", "unknown"} \subseteq States /\ "recording" \in Free
    BY DEF Effects, States, Free
  <2>5. CASE pc[c] = "observing import" /\ Resolve(c, "import", "observed", "passed")
    BY <2>1, <2>2, <2>3, <2>4, <2>5, VerdictEffect DEF Resolve
  <2>6. CASE pc[c] = "observing request" /\ Resolve(c, "request", "observed", "passed")
    BY <2>1, <2>2, <2>3, <2>4, <2>6, VerdictEffect DEF Resolve
  <2>7. ASSUME NEW e \in Effects, Resolve(c, e, "unknown", "failed") PROVE VerdictInv'
    BY <2>1, <2>2, <2>4, <2>7, VerdictEffect DEF Resolve
  <2> QED
    BY <1>2, <2>4, <2>5, <2>6, <2>7 DEF RecordImport, RecordRequest, At
<1>3. CASE CallAdapter(c)
  <2>1. manifest' = manifest /\ kong' = kong /\ count' = count /\ settledBy' = settledBy
    BY <1>3 DEF CallAdapter, runFiles, remote, Create
  <2>2. files' \cap {"receipt", "audit-recovery"} \subseteq files
    BY <1>3 DEF CallAdapter, runFiles, Create
  <2>3. Answers(adapter'.at, count', Settler')
    <3>1. CASE adapter' = adapter
      BY <2>1, <3>1 DEF Answers, VerdictInv, GrowsNow, Grows
    <3>2. CASE adapter'.at = "prepared"
      BY <3>2 DEF Answers
    <3>3. adapter' = adapter \/ adapter'.at = "prepared"
      <4>1. adapter' = adapter \/ adapter' = [at |-> "prepared", by |-> c]
        BY <1>3 DEF CallAdapter, remote
      <4> QED
        BY <4>1
    <3> QED
      BY <3>1, <3>2, <3>3
  <2>4. Honest
    BY <2>1, <2>2, <2>3 DEF Honest
  <2> HIDE DEF Honest
  <2>5. Continue(c, "request lost") \/ Continue(c, "awaiting")
    BY <1>3 DEF CallAdapter
  <2> QED
    BY <2>1, <2>4, <2>5, VerdictContinue DEF Free
<1>4. CASE Receive(c)
  <2>1. manifest' = manifest /\ files' = files /\ UNCHANGED <<remote, ghosts>>
    BY <1>4 DEF Receive, runFiles
  <2>2. Honest
    BY <2>1, HonestIs
  <2>3. adapter.at = "answered" => Relies("answered", files', count', Settler', kong')
    BY <2>1 DEF VerdictInv, Answers, Relies, Settler, remote, ghosts
  <2> HIDE DEF Honest
  <2>4. \/ adapter.at = "answered" /\ Continue(c, "answered")
        \/ Continue(c, "request lost")
    BY <1>4 DEF Receive
  <2> QED
    BY <2>1, <2>2, <2>3, <2>4, VerdictContinue DEF Free
<1>5. CASE CheckResult(c)
  <2>1. manifest' = manifest /\ UNCHANGED <<remote, ghosts>> /\ files' \subseteq files \cup {"receipt"}
    BY <1>5 DEF CheckResult, runFiles, Create
  <2>2. Settler = "response" /\ count["request"] = 1
    BY <1>5 DEF CheckResult, At, VerdictInv, Relies
  <2>3. Honest
    BY <2>1, <2>2 DEF Honest, VerdictInv, remote, ghosts, Settler
  <2> HIDE DEF Honest
  <2>4. CASE Continue(c, "request lost")
    BY <2>1, <2>3, <2>4, VerdictContinue DEF Free
  <2>5. CASE Continue(c, "receipted") /\ Create("receipt")
    <3>1. Relies("receipted", files', count', Settler', kong')
      BY <2>5 DEF Relies, Create
    <3> QED
      BY <2>1, <2>3, <2>5, <3>1, VerdictContinue
  <2> QED
    BY <1>5, <2>4, <2>5 DEF CheckResult
<1>6. CASE Describe(c)
  <2>1. manifest' = manifest /\ UNCHANGED <<remote, ghosts>> /\ files' \cap {"receipt", "audit-recovery"} \subseteq files
    BY <1>6 DEF Describe, runFiles, Create
  <2>2. Honest
    BY <2>1, HonestIs
  <2> HIDE DEF Honest
  <2>3. "receipt" \in files
    BY <1>6 DEF Describe, At, VerdictInv, Relies
  <2>4. CASE Continue(c, "request lost")
    BY <2>1, <2>2, <2>4, VerdictContinue DEF Free
  <2>5. CASE Continue(c, "observing request") /\ Create("request-descriptor")
    <3>1. Relies("observing request", files', count', Settler', kong')
      BY <2>3, <2>5 DEF Relies, Create
    <3> QED
      BY <2>1, <2>2, <2>5, <3>1, VerdictContinue
  <2> QED
    BY <1>6, <2>4, <2>5 DEF Describe
<1> QED
  BY <1>1, <1>2, <1>3, <1>4, <1>5, <1>6

LEMMA VerdictOther ==
  ASSUME TInv, VerdictInv, GrowsNow, NEW c \in Controllers,
         \/ Run(c) \/ Resume(c) \/ RecoverAudit(c) \/ Admit(c) \/ Intend(c)
         \/ PublishRequest(c) \/ PublishBindings(c) \/ Acquire(c) \/ WriteAudit(c) \/ Terminalize(c)
         \/ Report(c) \/ Limit(c) \/ Kill(c)
  PROVE  VerdictInv'
<1>1. CASE Run(c) \/ Resume(c) \/ RecoverAudit(c)
  <2>1. manifest' = manifest /\ files' \cap {"receipt", "audit-recovery"} \subseteq files
    BY <1>1 DEF Run, Resume, RecoverAudit, Create, runFiles
  <2> QED
    BY <1>1, <2>1, VerdictEnter DEF Run, Resume, RecoverAudit, Free
<1>2. CASE Admit(c) \/ Intend(c)
  BY <1>2, VerdictOnce DEF Admit, Intend, Free
<1>3. CASE Leave(c) /\ UNCHANGED runFiles /\ (UNCHANGED <<remote, ghosts>> \/ UNCHANGED <<remote, count>>)
  <2>1. manifest' = manifest /\ files' = files
    BY <1>3 DEF runFiles
  <2>2. Honest
    BY <1>3, <2>1, HonestIs
  <2> HIDE DEF Honest
  <2> QED
    BY <1>3, <2>1, <2>2, VerdictLeave
<1>4. CASE \/ PublishOnce(c, "request", "binding") \/ PublishOnce(c, "artifact-bindings", "evaluating")
           \/ PublishOnce(c, "audit-recovery-report", "limiting") \/ PublishOnce(c, "audit-evaluation", "recovering")
  BY <1>4, VerdictOnce DEF Free
<1>5. CASE PublishRequest(c) \/ PublishBindings(c) \/ Report(c) \/ Limit(c)
  BY <1>3, <1>4, <1>5 DEF PublishRequest, PublishBindings, Report, Limit, runFiles
<1>6. CASE Acquire(c)
  <2>1. CASE Continue(c, "audited") /\ Proven /\ UNCHANGED <<runFiles, remote, ghosts>>
    <3>1. manifest' = manifest /\ files' = files /\ kong' = kong
      BY <2>1 DEF runFiles, remote
    <3>2. Honest
      BY <2>1, <3>1, HonestIs
    <3>3. Relies("audited", files', count', Settler', kong')
      BY <2>1, <3>1 DEF Relies, Proven
    <3> HIDE DEF Honest
    <3> QED
      BY <2>1, <3>1, <3>2, <3>3, VerdictContinue
  <2> QED
    BY <1>3, <1>6, <2>1 DEF Acquire
<1>7. CASE WriteAudit(c)
  <2>1. UNCHANGED <<manifest, remote, ghosts>> /\ files' \subseteq files \cup {"audit-recovery"}
    BY <1>7 DEF WriteAudit, PublishOnce
  <2>2. kong = "in policy"
    BY <1>7 DEF WriteAudit, At, VerdictInv, Relies
  <2>3. Honest
    BY <2>1, <2>2 DEF Honest, VerdictInv, remote, ghosts, Settler
  <2> HIDE DEF Honest
  <2> QED
    BY <1>7, <2>1, <2>3, VerdictLeave, VerdictContinue DEF WriteAudit, PublishOnce, Free
<1>8. CASE Terminalize(c)
  <2>1. manifest' = manifest /\ files' = files /\ kong' = kong /\ adapter' = adapter /\ count' = count
    BY <1>8 DEF Terminalize, runFiles, ghosts
  <2>2. Honest
    BY <2>1 DEF Honest, GrowsNow, Grows, VerdictInv, Answers
  <2> HIDE DEF Honest
  <2> QED
    BY <1>8, <2>1, <2>2, VerdictLeave, VerdictContinue DEF Terminalize, Free
<1>9. CASE Kill(c)
  BY <1>3, <1>9 DEF Kill
<1> QED
  BY <1>1, <1>2, <1>5, <1>6, <1>7, <1>8, <1>9

LEMMA VerdictInit == Init => VerdictInv
<1> SUFFICES ASSUME Init PROVE VerdictInv
  OBVIOUS
<1>1. Covered(manifest, files, count, Settler)
  BY NothingClaimed DEF Init
<1>2. \A c \in Controllers : Covered(job[c].draft, files, count, Settler) /\ job[c].then \in Free
  BY NothingClaimed DEF Init, NoJob, Free
<1>3. \A c \in Controllers : Relies(pc[c], files, count, Settler, kong)
  BY FreeIs DEF Init, Free
<1> QED
  BY <1>1, <1>2, <1>3 DEF VerdictInv, Init, Vouched, Answers

LEMMA VerdictNext == ASSUME Inv, TInv, VerdictInv, [Next]_vars PROVE VerdictInv'
<1>1. GrowsNow
  BY EvidenceGrows
<1>2. CASE UNCHANGED vars
  BY <1>2 DEF VerdictInv, Covered, Relies, Vouched, Answers, Settler, StagePassed, vars, runFiles, shells, remote, ghosts
<1>3. CASE Adapter
  BY <1>1, <1>3, VerdictAdapter
<1>4. ASSUME NEW c \in Controllers, Controller(c) PROVE VerdictInv'
  BY <1>1, <1>4, VerdictLocal, VerdictWrite, VerdictRemote, VerdictOther DEF Controller, Executor, Recovery
<1> QED
  BY <1>2, <1>3, <1>4 DEF Next

(***************************************************************************)
(* While no controllers overlap, the manifest on disk tells where the only *)
(* controller is.                                                          *)
(***************************************************************************)
\* m is pending and every stage it names has passed.
Open(m) == m.status = "pending" /\ \A i \in DOMAIN m.stages : m.stages[i] = "passed"

\* Effect e is not announced, or done with.
Done(m, e) == m.effect[e] = "none" \/ (m.effect[e] = "observed" /\ StagePassed(m, EffectStage[e]))
Clear(m) == \A e \in Effects : Done(m, e)

\* Stage i of m is the next one.
Turn(m, i) == Open(m) /\ Clear(m) /\ i = Len(m.stages) + 1 /\ i <= 12

\* The stage of effect e is the next one, and e is announced.
Underway(m, e) ==
  /\ Open(m) /\ Index(EffectStage[e]) = Len(m.stages) + 1 /\ m.effect[e] = "prepared"
  /\ \A d \in Effects \ {e} : Done(m, d)

\* The next stage i ended with outcome o.
Ended(m, i, o, f) ==
  /\ Open(m) /\ i = Len(m.stages) + 1 /\ i <= 12
  /\ \A e \in Effects :
       IF Index(EffectStage[e]) = i
       THEN \/ m.effect[e] = "observed" /\ o = "passed" /\ Output[EffectStage[e]] \subseteq f
            \/ m.effect[e] = "unknown" /\ o = "failed"
            \/ m.effect[e] = "none" /\ o = "failed"
       ELSE Done(m, e)

\* The manifest that a controller has drafted to replace m, and where it goes then.
Follows(j, m, f) ==
  LET d == j.draft
      o == j.outcome
  IN \/ /\ j.then = "importing" /\ d = WithEffect(m, "import", "prepared") /\ m.effect["import"] = "none"
        /\ Turn(m, j.stage) /\ j.stage = 4 /\ {"nuclei.sanitized", "scan-admission", "import-intent"} \subseteq f
     \/ /\ j.then = "calling" /\ d = WithEffect(m, "request", "prepared") /\ m.effect["request"] = "none"
        /\ Turn(m, j.stage) /\ j.stage = 8
     \/ /\ j.then = "recording"
        /\ \E e \in Effects :
             /\ Underway(m, e) /\ j.stage = Index(EffectStage[e])
             /\ \/ d = WithEffect(m, e, "observed") /\ o = "passed" /\ Output[EffectStage[e]] \subseteq f
                \/ d = WithEffect(m, e, "unknown") /\ o = "failed"
     \/ /\ j.then = AfterRecord(o) /\ d = WithStage(m, o, j) /\ o \in Outcomes
        /\ Ended(m, j.stage, o, f) /\ (o = "rejected" => m.requests = 0)
     \/ /\ j.then = "publishing" /\ d = Final(m)
        /\ Open(m) /\ Clear(m) /\ AllPassed(m)
     \/ /\ j.then = "idle" /\ d = WithRecovery(m) /\ Stranded(m)
        /\ AuditArtifacts \subseteq f /\ NormalArtifacts \cap f = {}

Published == {"request", "artifact-bindings", "charter-evaluation"}

\* What a controller of run m is doing at a place p, with f in the directory.
Situation(p, j, m, f) ==
  /\ p = "created" => m.status = "none" /\ j.stage = 1
  /\ p = "staging" => Turn(m, j.stage)
  /\ p \in {"scanned", "admitted", "announcing import"} =>
       Turn(m, j.stage) /\ j.stage = 4 /\ "nuclei.sanitized" \in f
  /\ p \in {"admitted", "announcing import"} => "scan-admission" \in f
  /\ p = "announcing import" => "import-intent" \in f
  /\ p = "normalized" => Turn(m, j.stage) /\ j.stage = 5
  /\ p \in {"importing", "import lost", "imported", "observing import"} =>
       Underway(m, "import") /\ j.stage = 4 /\ {"nuclei.sanitized", "scan-admission", "import-intent"} \subseteq f
  /\ p = "observing import" => "import-observation" \in f
  /\ p \in {"calling", "awaiting", "answered", "receipted", "observing request", "request lost"} =>
       Underway(m, "request") /\ j.stage = 8
  /\ p = "recording" => Ended(m, j.stage, j.outcome, f)
  /\ p = "writing" => Follows(j, m, f)
  /\ p = "recorded" => Open(m) /\ Clear(m)
  /\ p = "finalizing" => Open(m) /\ Clear(m) /\ AllPassed(m)
  /\ p = "publishing" =>
       \/ m.status \in {"passed", "rejected"} /\ "request" \notin f
       \/ Open(m) /\ Clear(m) /\ StagePassed(m, "executor")
  /\ p = "binding" => {"request", "normalized", "report"} \subseteq f /\ "artifact-bindings" \notin f
  /\ p = "evaluating" => {"request", "normalized", "report", "artifact-bindings"} \subseteq f
  /\ p \in {"acquiring", "audited", "terminalizing", "reporting", "limiting", "recovering"} =>
       Stranded(m) /\ NormalArtifacts \cap f = {}
  /\ p = "limiting" => "audit-recovery-report" \in f

\* What holds of the manifest m, the files f, a row r and its settler s, whoever is there.
Ledgered(m, f, r, s) ==
  /\ m.status = "none" => m = NoManifest /\ f \subseteq {"directory"} /\ r = "absent"
  /\ m.status = "pending" => (AuditArtifacts \cup Published) \cap f = {}
  /\ m.status = "recovered" => NormalArtifacts \cap f = {}
  /\ "request" \in f => m.status \in {"passed", "rejected"}
  /\ "artifact-bindings" \in f => "request" \in f
  /\ "charter-evaluation" \in f => "artifact-bindings" \in f
  /\ "request-descriptor" \in f => "receipt" \in f
  /\ f \cap {"audit-recovery-report", "audit-evaluation"} # {} => s = "audit"
  /\ r # "absent" => m.effect["request"] # "none"
  /\ m.effect["request"] # "none" /\ m.status = "failed" => StagePassed(m, "executor") \/ Stranded(m)
  /\ m.requests = 1 => StagePassed(m, "executor") \/ m.status = "recovered"

InFlight == adapter.at \in {"prepared", "dispatched", "sent"}

Booked ==
  /\ Ledgered(manifest, files, row, Settler)
  /\ "artifact-bindings" \in files => bound = manifest

SeqInv ==
  ~ overlapped =>
    /\ Booked
    /\ InFlight => Underway(manifest, "request")
    /\ \A c \in Controllers :
         /\ Situation(pc[c], job[c], manifest, files)
         /\ InFlight => pc[c] \in {"idle", "awaiting"}
         /\ pc[c] = "awaiting" => adapter.by = c /\ adapter.at # "none"

\* Without a kill.
Quietly ==
  ~ overlapped /\ ~ killed =>
    /\ Resting /\ manifest.status = "pending" => Authorized(manifest) \/ Skipped(manifest)
    /\ manifest.status = "passed" /\ ~ manifest.findings =>
         \/ "charter-evaluation" \in files
         \/ \E c \in Controllers : pc[c] \in {"publishing", "binding", "evaluating"}

LEMMA NumbersAre ==
  /\ \A n \in Nat : n + 1 \notin 1..n /\ ~ (n + 1 <= n) /\ n + 1 \in Nat /\ 1..(n + 1) = 1..n \cup {n + 1}
  /\ \A n \in Nat, i \in Nat : i <= n => i <= n + 1 /\ i # n + 1
  /\ \A n \in Nat, i \in Nat : i <= n + 1 => i <= n \/ i = n + 1
OBVIOUS

LEMMA EffectIndex ==
  /\ EffectStage["import"] = "scan-redact-import" /\ EffectStage["request"] = "executor"
  /\ Index(EffectStage["import"]) = 4 /\ Index(EffectStage["request"]) = 8
  /\ \A e \in Effects : Index(EffectStage[e]) \in {4, 8} /\ EffectStage[e] \in Stages
  /\ \A d, e \in Effects : Index(EffectStage[d]) = Index(EffectStage[e]) => d = e
<1>1. /\ EffectStage["import"] = "scan-redact-import" /\ EffectStage["request"] = "executor"
  BY DEF EffectStage, Effects
<1>2. "scan-redact-import" \in Stages /\ "executor" \in Stages
  BY StagesAre DEF StageNames
<1> QED
  BY <1>1, <1>2, ExecutorIs DEF Effects

LEMMA OpenIs ==
  ASSUME NEW m \in Manifests
  PROVE  Open(m) <=> m.status = "pending" /\ \A i \in 1..Len(m.stages) : m.stages[i] = "passed"
BY PassedIs DEF Open

LEMMA PassedAt ==
  ASSUME NEW m \in Manifests, NEW e \in Effects
  PROVE  StagePassed(m, EffectStage[e]) <=>
           Index(EffectStage[e]) <= Len(m.stages) /\ m.stages[Index(EffectStage[e])] = "passed"
BY EffectIndex, StagePassedIs

\* While m is open, the effect of its next stage is done with only if it was not announced.
LEMMA NextEffect ==
  ASSUME NEW m \in Manifests, NEW e \in Effects, Index(EffectStage[e]) = Len(m.stages) + 1, Done(m, e)
  PROVE  m.effect[e] = "none"
<1>1. ~ StagePassed(m, EffectStage[e])
  BY PassedAt, PassedIs, NumbersAre
<1> QED
  BY <1>1 DEF Done

LEMMA EffectTurn ==
  ASSUME NEW m \in Good, NEW i, Turn(m, i), NEW e \in Effects, Index(EffectStage[e]) = i
  PROVE  Underway(WithEffect(m, e, "prepared"), e)
<1> DEFINE d == WithEffect(m, e, "prepared")
<1>1. m \in Manifests /\ m.effect \in [Effects -> States]
  BY ManifestIs DEF Good
<1>2. d.stages = m.stages /\ d.status = m.status /\ d.effect = [m.effect EXCEPT ![e] = "prepared"]
  BY <1>1, EffectTypes DEF States
<1> HIDE DEF d
<1>3. d.effect[e] = "prepared" /\ \A g \in Effects \ {e} : d.effect[g] = m.effect[g]
  BY <1>1, <1>2
<1>4. \A g \in Effects \ {e} : Done(d, g)
  BY <1>2, <1>3 DEF Turn, Clear, Done, StagePassed
<1>5. Open(d) /\ Index(EffectStage[e]) = Len(d.stages) + 1
  BY <1>2 DEF Turn, Open
<1> QED
  BY <1>3, <1>4, <1>5 DEF Underway, d

LEMMA EffectEnds ==
  ASSUME NEW m \in Good, NEW e \in Effects, Underway(m, e), NEW s, NEW o, NEW f,
         \/ s = "observed" /\ o = "passed" /\ Output[EffectStage[e]] \subseteq f
         \/ s = "unknown" /\ o = "failed"
  PROVE  Ended(WithEffect(m, e, s), Index(EffectStage[e]), o, f)
<1> DEFINE d == WithEffect(m, e, s)
           i == Index(EffectStage[e])
<1>1. m \in Manifests /\ m.effect \in [Effects -> States] /\ s \in States
  BY ManifestIs DEF Good, States
<1>2. d.stages = m.stages /\ d.status = m.status /\ d.effect = [m.effect EXCEPT ![e] = s]
  BY <1>1, EffectTypes
<1> HIDE DEF d
<1>3. d.effect[e] = s /\ \A g \in Effects \ {e} : d.effect[g] = m.effect[g]
  BY <1>1, <1>2
<1>4. \A g \in Effects \ {e} : Done(d, g) /\ Index(EffectStage[g]) # i
  BY <1>2, <1>3, EffectIndex DEF Underway, Done, StagePassed
<1>5. Open(d) /\ i = Len(d.stages) + 1
  BY <1>2 DEF Underway, Open
<1>6. i <= 12
  BY EffectIndex
<1> HIDE DEF i
<1>7. \A g \in Effects :
       IF Index(EffectStage[g]) = i
       THEN \/ d.effect[g] = "observed" /\ o = "passed" /\ Output[EffectStage[g]] \subseteq f
            \/ d.effect[g] = "unknown" /\ o = "failed"
            \/ d.effect[g] = "none" /\ o = "failed"
       ELSE Done(d, g)
  <2>1. CASE o = "passed"
    BY <1>3, <1>4, <2>1 DEF i
  <2>2. CASE o = "failed"
    BY <1>3, <1>4, <2>2 DEF i
  <2> QED
    BY <2>1, <2>2
<1> QED
  BY <1>5, <1>6, <1>7 DEF Ended, d, i

LEMMA TurnEnds ==
  ASSUME NEW m \in Good, NEW i, Turn(m, i), NEW o \in Outcomes, i \in {4, 8} => o = "failed", NEW f
  PROVE  Ended(m, i, o, f)
<1>1. m \in Manifests
  BY DEF Good
<1>2. ASSUME NEW e \in Effects, Index(EffectStage[e]) = i PROVE m.effect[e] = "none" /\ o = "failed"
  BY <1>1, <1>2, NextEffect, EffectIndex DEF Turn, Clear
<1> QED
  BY <1>2 DEF Ended, Turn, Clear

\* What m becomes with the outcome o of its stage i.
Advanced(m, i, o, d) ==
  /\ o = "passed" => Open(d) /\ Clear(d) /\ Len(d.stages) = i
  /\ o = "passed" /\ i = 12 => AllPassed(d)
  /\ o = "passed" /\ i # 12 => Turn(d, i + 1)
  /\ \A t \in Stages : StagePassed(m, t) => StagePassed(d, t)
  /\ o = "passed" /\ i = 8 => StagePassed(d, "executor")
  /\ o = "failed" /\ d.effect["request"] # "none" => StagePassed(d, "executor") \/ Stranded(d)

LEMMA StageNext ==
  ASSUME NEW m \in Good, NEW f, NEW o \in Outcomes, NEW i, Ended(m, i, o, f),
         NEW d \in Manifests, d.effect = m.effect, d.stages = Append(m.stages, o),
         d.status = (IF o \in {"failed", "rejected"} THEN o ELSE m.status)
  PROVE  Advanced(m, i, o, d)
<1> DEFINE n == Len(m.stages)
<1>1. m \in Manifests /\ d \in Manifests
  BY DEF Good
<1>2. d.effect = m.effect /\ d.stages = Append(m.stages, o)
      /\ d.status = (IF o \in {"failed", "rejected"} THEN o ELSE m.status)
  OBVIOUS
<1>3. /\ n \in Nat /\ i = n + 1 /\ i <= 12 /\ Len(d.stages) = n + 1 /\ d.stages[n + 1] = o
      /\ \A k \in 1..n : d.stages[k] = m.stages[k] /\ m.stages[k] = "passed"
  BY <1>1, <1>2, AppendIs, PassedIs, OpenIs DEF Ended
<1>4. i \in 1..12 /\ m.status = "pending"
  BY <1>3 DEF Ended, Open
<1>5. ASSUME NEW t \in Stages, StagePassed(m, t) PROVE StagePassed(d, t)
  <2>1. Index(t) \in Nat /\ Index(t) <= n /\ m.stages[Index(t)] = "passed" /\ Index(t) \in 1..12
    BY <1>1, <1>5, IndexIs, StagePassedIs
  <2>2. Index(t) <= Len(d.stages) /\ Index(t) \in 1..n
    <3>1. \A k \in 1..12, l \in Nat : k <= l => k <= l + 1 /\ k \in 1..l
      OBVIOUS
    <3> HIDE DEF n
    <3> QED
      BY <1>3, <2>1, <3>1
  <2> QED
    BY <1>1, <1>3, <2>1, <2>2, StagePassedIs
<1>6. ASSUME o = "passed" PROVE Open(d) /\ Clear(d) /\ Len(d.stages) = i
  <2>1. \A k \in 1..Len(d.stages) : d.stages[k] = "passed"
    <3>1. \A l, k \in Nat : k \in 1..(l + 1) => k \in 1..l \/ k = l + 1
      OBVIOUS
    <3>2. ASSUME NEW k \in 1..Len(d.stages) PROVE d.stages[k] = "passed"
      <4>1. k \in 1..(n + 1)
        BY <1>3
      <4>2. k \in 1..n \/ k = n + 1
        <5> HIDE DEF n
        <5> QED
          BY <1>3, <3>1, <4>1
      <4> QED
        BY <1>3, <1>6, <4>2
    <3> QED
      BY <3>2
  <2>2. Open(d)
    BY <1>1, <1>2, <1>4, <1>6, <2>1, OpenIs
  <2>3. ASSUME NEW e \in Effects PROVE Done(d, e)
    <3>1. CASE Index(EffectStage[e]) = i
      <4>1. m.effect[e] = "observed"
        BY <1>6, <3>1 DEF Ended
      <4>2. StagePassed(d, EffectStage[e])
        BY <1>1, <1>3, <1>6, <3>1, PassedAt
      <4> QED
        BY <1>2, <4>1, <4>2 DEF Done
    <3>2. CASE Index(EffectStage[e]) # i
      <4>1. Done(m, e)
        BY <3>2 DEF Ended
      <4> QED
        BY <1>2, <1>5, <4>1, EffectIndex DEF Done
    <3> QED
      BY <3>1, <3>2
  <2> QED
    BY <1>3, <2>2, <2>3 DEF Clear
<1>7. ASSUME o = "passed", i = 12 PROVE AllPassed(d)
  <2>1. Len(d.stages) = 12 /\ \A k \in 1..12 : d.stages[k] = "passed"
    <3>1. Len(d.stages) = 12 /\ \A k \in 1..Len(d.stages) : d.stages[k] = "passed"
      BY <1>1, <1>6, <1>7, OpenIs
    <3> QED
      BY <3>1
  <2>2. 12 <= Len(d.stages)
    BY <2>1
  <2> QED
    BY <1>1, <2>1, <2>2, PassedIs
<1>8. ASSUME o = "passed", i # 12 PROVE Turn(d, i + 1)
  <2>1. i + 1 <= 12
    BY <1>4, <1>8
  <2> QED
    BY <1>6, <1>8, <2>1 DEF Turn
<1>9. ASSUME o = "passed", i = 8 PROVE StagePassed(d, "executor")
  BY <1>1, <1>3, <1>9, PassedIs
<1>10. ASSUME o = "failed", d.effect["request"] # "none" PROVE StagePassed(d, "executor") \/ Stranded(d)
  <2>1. CASE i = 8
    <3>1. d.effect["request"] = "unknown"
      BY <1>2, <1>10, <2>1, EffectIndex DEF Ended, Effects
    <3>2. Len(d.stages) = 8 /\ d.stages[8] = "failed" /\ \A k \in 1..7 : d.stages[k] = "passed"
      <4>1. n = 7
        <5>1. \A k \in Nat : 8 = k + 1 => k = 7
          OBVIOUS
        <5>2. n \in Nat /\ 8 = n + 1
          BY <1>3, <2>1
        <5> HIDE DEF n
        <5> QED
          BY <5>1, <5>2
      <4> QED
        BY <1>3, <1>10, <4>1
    <3>3. d.status = "failed"
      BY <1>2, <1>10
    <3> QED
      BY <1>1, <3>1, <3>2, <3>3, StrandedIs
  <2>2. CASE i # 8
    <3>1. Done(m, "request")
      BY <2>2, EffectIndex DEF Ended, Effects
    <3>2. StagePassed(m, "executor")
      BY <1>2, <1>10, <3>1, EffectIndex DEF Done
    <3> QED
      BY <1>5, <3>2, EffectIndex DEF Effects
  <2> QED
    BY <2>1, <2>2
<1> QED
  BY <1>5, <1>6, <1>7, <1>8, <1>9, <1>10 DEF Advanced

LEMMA LedgeredStage ==
  ASSUME NEW m \in Good, NEW f, NEW r, NEW s, Ledgered(m, f, r, s), NEW o \in Outcomes, NEW j,
         j.findings \in BOOLEAN, Ended(m, j.stage, o, f), o = "rejected" => m.requests = 0
  PROVE  Ledgered(WithStage(m, o, j), f, r, s)
<1> DEFINE d == WithStage(m, o, j)
<1>1. m \in Manifests /\ m.status = "pending" /\ j.stage \in 1..12
  BY PassedIs DEF Good, Ended, Open
<1>2. /\ d.effect = m.effect
      /\ d.status = (IF o \in {"failed", "rejected"} THEN o ELSE "pending")
      /\ d.requests = (IF o = "passed" /\ StageOrder[j.stage] = "executor" THEN 1 ELSE m.requests)
  BY <1>1, StageTypes
<1>3. /\ StagePassed(m, "executor") => StagePassed(d, "executor")
      /\ o = "passed" /\ j.stage = 8 => StagePassed(d, "executor")
      /\ o = "failed" /\ d.effect["request"] # "none" => StagePassed(d, "executor") \/ Stranded(d)
  <2>1. "executor" \in Stages /\ d \in Manifests /\ d.stages = Append(m.stages, o) /\ d.effect = m.effect
        /\ d.status = (IF o \in {"failed", "rejected"} THEN o ELSE m.status)
    BY <1>1, StageTypes, StagesAre DEF StageNames
  <2> HIDE DEF d
  <2>2. Advanced(m, j.stage, o, d)
    BY <2>1, StageNext
  <2> QED
    BY <2>1, <2>2 DEF Advanced
<1>4. StageOrder[j.stage] = "executor" => j.stage = 8
  BY <1>1, StageOrderIs, StageOrderInjective
<1> HIDE DEF d
<1>5. d.status \in {"pending", "failed", "rejected"}
  BY <1>2
<1>6. (AuditArtifacts \cup Published) \cap f = {}
  BY <1>1 DEF Ledgered
<1>7. "request" \notin f /\ "artifact-bindings" \notin f /\ "charter-evaluation" \notin f
  BY <1>6 DEF Published
<1>8. r # "absent" => d.effect["request"] # "none"
  BY <1>2 DEF Ledgered
<1>9. d.requests = 1 => StagePassed(d, "executor")
  BY <1>1, <1>2, <1>3, <1>4 DEF Ledgered
<1>10. d.status = "failed" => o = "failed"
  BY <1>2
<1>11. /\ "request-descriptor" \in f => "receipt" \in f
       /\ f \cap {"audit-recovery-report", "audit-evaluation"} # {} => s = "audit"
  BY DEF Ledgered
<1> QED
  BY <1>3, <1>5, <1>6, <1>7, <1>8, <1>9, <1>10, <1>11 DEF Ledgered, d

LEMMA LedgeredEffect ==
  ASSUME NEW m \in Good, NEW f, NEW r, NEW s, Ledgered(m, f, r, s), m.status = "pending",
         NEW e \in Effects, NEW v \in States \ {"none"}
  PROVE  Ledgered(WithEffect(m, e, v), f, r, s)
<1> DEFINE d == WithEffect(m, e, v)
<1>1. m \in Manifests /\ m.effect \in [Effects -> States]
  BY ManifestIs DEF Good
<1>2. d.stages = m.stages /\ d.status = "pending" /\ d.requests = m.requests /\ d.effect = [m.effect EXCEPT ![e] = v]
  BY <1>1, EffectTypes
<1> HIDE DEF d
<1>3. m.effect["request"] # "none" => d.effect["request"] # "none"
  BY <1>1, <1>2 DEF Effects
<1>4. StagePassed(m, "executor") => StagePassed(d, "executor")
  BY <1>2 DEF StagePassed
<1> QED
  BY <1>2, <1>3, <1>4 DEF Ledgered, d

LEMMA LedgeredFinal ==
  ASSUME NEW m \in Good, NEW f, NEW r, NEW s, Ledgered(m, f, r, s), Open(m)
  PROVE  Ledgered(Final(m), f, r, s)
<1> DEFINE d == Final(m)
<1>1. m \in Manifests /\ m.status = "pending"
  BY DEF Good, Open
<1>2. d.stages = m.stages /\ d.status = "passed" /\ d.requests = m.requests /\ d.effect = m.effect
  BY <1>1, FinalTypes
<1> HIDE DEF d
<1>3. StagePassed(m, "executor") => StagePassed(d, "executor")
  BY <1>2 DEF StagePassed
<1> QED
  BY <1>1, <1>2, <1>3 DEF Ledgered, d

LEMMA LedgeredRecovery ==
  ASSUME NEW m \in Good, NEW f, NEW r, NEW s, Ledgered(m, f, r, s), Stranded(m), NormalArtifacts \cap f = {}
  PROVE  Ledgered(WithRecovery(m), f, r, s)
<1> DEFINE d == WithRecovery(m)
<1>1. m \in Manifests /\ m.effect \in [Effects -> States]
  BY ManifestIs DEF Good
<1>2. d.status = "recovered" /\ d.effect = [m.effect EXCEPT !["request"] = "recovered"]
  BY <1>1, RecoveryTypes
<1> HIDE DEF d
<1>3. d.effect["request"] = "recovered"
  BY <1>1, <1>2 DEF Effects
<1>4. "request" \notin f /\ "artifact-bindings" \notin f /\ "charter-evaluation" \notin f
  BY DEF NormalArtifacts
<1> QED
  BY <1>2, <1>3, <1>4 DEF Ledgered, d

LEMMA LedgeredFresh ==
  /\ Ledgered(NoManifest, {}, "absent", "none")
  /\ Ledgered(NoManifest, {"directory"}, "absent", "none")
  /\ \A f, s : f \subseteq {"directory"} => Ledgered(FreshManifest, f, "absent", s)
<1>1. /\ NoManifest.status = "none" /\ NoManifest.requests = 0
      /\ FreshManifest.status = "pending" /\ FreshManifest.requests = 0
  BY FreshTypes DEF NoManifest
<1>2. \A f : f \subseteq {"directory"} => f \cap (NormalArtifacts \cup AuditArtifacts) = {}
  BY DEF NormalArtifacts, AuditArtifacts
<1> QED
  BY <1>1, <1>2 DEF Ledgered, NormalArtifacts, AuditArtifacts, Published

\* One more file.
Ordinary == Artifacts \ (NormalArtifacts \cup AuditArtifacts)

LEMMA LedgeredFile ==
  ASSUME NEW m, NEW f, NEW r, NEW s, Ledgered(m, f, r, s), m.status # "none", NEW name,
         \/ name \in Ordinary
         \/ name = "receipt" /\ m.status = "pending"
         \/ name = "request-descriptor" /\ m.status = "pending" /\ "receipt" \in f
         \/ name = "request" /\ m.status \in {"passed", "rejected"}
         \/ name = "artifact-bindings" /\ "request" \in f
         \/ name = "charter-evaluation" /\ "artifact-bindings" \in f
         \/ name = "audit-recovery" /\ m.status = "failed"
         \/ name \in {"audit-recovery-report", "audit-evaluation"} /\ m.status = "failed" /\ s = "audit"
  PROVE  Ledgered(m, f \cup {name}, r, s)
<1> DEFINE g == f \cup {name}
<1>1. CASE name \in Ordinary
  BY <1>1 DEF Ledgered, Ordinary, NormalArtifacts, AuditArtifacts, Published
<1>2. CASE name \in {"receipt", "request-descriptor"} /\ m.status = "pending"
  BY <1>2 DEF Ledgered, NormalArtifacts, AuditArtifacts, Published, Ordinary
<1>3. CASE name = "request" /\ m.status \in {"passed", "rejected"}
  BY <1>3 DEF Ledgered, NormalArtifacts, AuditArtifacts, Published
<1>4. CASE name \in {"artifact-bindings", "charter-evaluation"} /\ "request" \in f
  BY <1>4 DEF Ledgered, NormalArtifacts, AuditArtifacts, Published, Ordinary
<1>5. CASE name \in AuditArtifacts /\ m.status = "failed"
  BY <1>5 DEF Ledgered, NormalArtifacts, AuditArtifacts, Published, Ordinary
<1> QED
  BY <1>1, <1>2, <1>3, <1>4, <1>5 DEF Ledgered, AuditArtifacts

LEMMA IdleIs == \A j, m, f : Situation("idle", j, m, f)
BY DEF Situation

\* The only controller, and what is known of it.
LEMMA Alone ==
  ASSUME Inv, SeqInv, ~ overlapped, NEW c \in Controllers, pc[c] # "idle"
  PROVE  /\ \A d \in Controllers \ {c} : pc[d] = "idle"
         /\ Booked /\ Situation(pc[c], job[c], manifest, files)
         /\ pc[c] # "awaiting" => ~ InFlight
BY DEF Inv, IInv, CallsInv, SeqInv

LEMMA SeqMove ==
  ASSUME Inv, TInv, SeqInv, ~ overlapped, NEW c \in Controllers, \A d \in Controllers \ {c} : pc[d] = "idle",
         ~ InFlight, adapter' = adapter, NEW place, place # "awaiting", NEW j,
         pc' = [pc EXCEPT ![c] = place], job' = [job EXCEPT ![c] = j],
         Booked', Situation(place, j, manifest', files')
  PROVE  SeqInv'
<1>1. /\ pc'[c] = place /\ job'[c] = j
      /\ \A d \in Controllers \ {c} : pc'[d] = "idle"
  BY TInvIs
<1>2. ~ InFlight'
  BY DEF InFlight
<1>3. \A d \in Controllers : Situation(pc'[d], job'[d], manifest', files')
  BY <1>1, IdleIs
<1>4. \A d \in Controllers : pc'[d] # "awaiting"
  BY <1>1
<1> QED
  BY <1>2, <1>3, <1>4 DEF SeqInv

\* The steps of the only controller that leave the remote systems alone.
Unobserved(c) ==
  /\ Inv /\ TInv /\ SeqInv /\ ~ overlapped
  /\ pc[c] \notin {"idle", "awaiting"} /\ adapter' = adapter /\ Booked'

LEMMA SeqContinue ==
  ASSUME NEW c \in Controllers, Unobserved(c), NEW place, place # "awaiting", Continue(c, place),
         Situation(place, job[c], manifest', files')
  PROVE  SeqInv'
<1>1. job' = [job EXCEPT ![c] = job[c]] /\ pc' = [pc EXCEPT ![c] = place]
  BY TInvIs DEF Continue, Goto, Unobserved
<1> QED
  BY <1>1, Alone, SeqMove DEF Unobserved

LEMMA SeqLeave ==
  ASSUME NEW c \in Controllers, Unobserved(c), Leave(c)
  PROVE  SeqInv'
<1>1. job' = [job EXCEPT ![c] = NoJob] /\ pc' = [pc EXCEPT ![c] = "idle"]
  BY TInvIs DEF Leave, Goto, Unobserved
<1> QED
  BY <1>1, Alone, IdleIs, SeqMove DEF Unobserved

LEMMA SeqConclude ==
  ASSUME NEW c \in Controllers, Unobserved(c), NEW o,
         \/ Conclude(c, o)
         \/ Goto(c, "recording") /\ \E g : job' = [job EXCEPT ![c].outcome = o, ![c].findings = g],
         Ended(manifest', job[c].stage, o, files')
  PROVE  SeqInv'
<1>1. PICK j : job' = [job EXCEPT ![c] = j] /\ j.stage = job[c].stage /\ j.outcome = o
  <2>1. CASE Conclude(c, o)
    <3> DEFINE j == [job[c] EXCEPT !.outcome = o]
    <3>1. job' = [job EXCEPT ![c] = j]
      BY <2>1, TInvIs DEF Conclude, Unobserved
    <3>2. j.stage = job[c].stage /\ j.outcome = o
      BY TInvIs DEF Jobs, Unobserved
    <3> QED
      BY <3>1, <3>2
  <2>2. ASSUME NEW g, job' = [job EXCEPT ![c].outcome = o, ![c].findings = g]
        PROVE  \E j : job' = [job EXCEPT ![c] = j] /\ j.stage = job[c].stage /\ j.outcome = o
    <3> DEFINE j == [job[c] EXCEPT !.outcome = o, !.findings = g]
    <3>1. job' = [job EXCEPT ![c] = j]
      BY <2>2, TInvIs DEF Unobserved
    <3>2. j.stage = job[c].stage /\ j.outcome = o
      BY TInvIs DEF Jobs, Unobserved
    <3> QED
      BY <3>1, <3>2
  <2> QED
    BY <2>1, <2>2
<1>2. pc' = [pc EXCEPT ![c] = "recording"]
  BY DEF Conclude, Goto
<1>3. Situation("recording", j, manifest', files')
  BY <1>1 DEF Situation
<1> QED
  BY <1>1, <1>2, <1>3, Alone, SeqMove DEF Unobserved

LEMMA SeqDraft ==
  ASSUME NEW c \in Controllers, Unobserved(c), NEW m, NEW then, NEW o, Draft(c, m, then, o),
         \A j : j.draft = m /\ j.then = then /\ j.outcome = o /\ j.stage = job[c].stage /\ j.findings = job[c].findings
                  => Follows(j, manifest', files')
  PROVE  SeqInv'
<1> DEFINE j == [job[c] EXCEPT !.draft = m, !.then = then, !.outcome = o]
<1>1. job' = [job EXCEPT ![c] = j] /\ pc' = [pc EXCEPT ![c] = "writing"]
  BY TInvIs DEF Draft, Goto, Unobserved
<1>2. j.draft = m /\ j.then = then /\ j.outcome = o /\ j.stage = job[c].stage /\ j.findings = job[c].findings
  BY TInvIs DEF Jobs, Unobserved
<1> HIDE DEF j
<1>3. Situation("writing", j, manifest', files')
  BY <1>2 DEF Situation
<1> QED
  BY <1>1, <1>3, Alone, SeqMove DEF Unobserved

LEMMA BookedSame ==
  ASSUME Booked, UNCHANGED <<manifest, bound, files, row, settledBy>>
  PROVE  Booked'
BY DEF Booked, Settler

LEMMA BookedFile ==
  ASSUME Booked, UNCHANGED <<manifest, bound, row, settledBy>>, NEW name, files' = files \cup {name},
         manifest.status # "none",
         \/ name \in Ordinary
         \/ name = "receipt" /\ manifest.status = "pending"
         \/ name = "request-descriptor" /\ manifest.status = "pending" /\ "receipt" \in files
         \/ name = "request" /\ manifest.status \in {"passed", "rejected"}
         \/ name = "charter-evaluation" /\ "artifact-bindings" \in files
         \/ name = "audit-recovery" /\ manifest.status = "failed"
         \/ name \in {"audit-recovery-report", "audit-evaluation"} /\ manifest.status = "failed" /\ Settler = "audit"
  PROVE  Booked'
<1>1. Settler' = Settler
  BY DEF Settler
<1>2. Ledgered(manifest, files \cup {name}, row, Settler)
  BY LedgeredFile DEF Booked
<1>3. name # "artifact-bindings"
  BY DEF Ordinary, NormalArtifacts
<1> QED
  BY <1>1, <1>2, <1>3 DEF Booked

-----------------------------------------------------------------------------
\* The stage that ended is recorded.
LEMMA SeqRecord ==
  ASSUME NEW c \in Controllers, Unobserved(c), UNCHANGED <<manifest, files>>, NEW o \in Outcomes,
         Ended(manifest, job[c].stage, o, files), RecordStage(c, o)
  PROVE  SeqInv'
<1>1. CASE Recordable(manifest, job[c].stage, o)
  <2>1. Draft(c, WithStage(manifest, o, job[c]), AfterRecord(o), o)
    BY <1>1 DEF RecordStage
  <2>2. o = "rejected" => manifest.requests = 0
    BY <1>1 DEF Recordable
  <2>3. ASSUME NEW j, j.draft = WithStage(manifest, o, job[c]), j.then = AfterRecord(o), j.outcome = o,
               j.stage = job[c].stage, j.findings = job[c].findings
        PROVE  Follows(j, manifest', files')
    <3>1. WithStage(manifest, o, job[c]) = WithStage(manifest, o, j)
      BY <2>3 DEF WithStage
    <3> QED
      BY <2>2, <2>3, <3>1 DEF Follows
  <2> QED
    BY <2>1, <2>3, SeqDraft
<1>2. CASE ~ Recordable(manifest, job[c].stage, o) /\ o = "rejected" /\ Continue(c, "publishing")
  <2>1. manifest \in Good /\ Booked
    BY TInvIs, Alone DEF Unobserved, Rest
  <2>2. Open(manifest) /\ job[c].stage = Len(manifest.stages) + 1 /\ manifest.status = "pending"
    BY DEF Ended, Open
  <2>3. manifest.requests # 0 /\ manifest.requests \in 0..1
    BY <1>2, <2>1, <2>2, ManifestIs DEF Recordable, Good
  <2>4. manifest.requests = 1
    BY <2>3
  <2>5. StagePassed(manifest, "executor")
    BY <2>1, <2>2, <2>4 DEF Booked, Ledgered
  <2>6. Clear(manifest)
    BY <1>2 DEF Ended, Clear
  <2>7. Situation("publishing", job[c], manifest', files')
    BY <2>2, <2>5, <2>6 DEF Situation
  <2> QED
    BY <1>2, <2>7, SeqContinue
<1>3. CASE Leave(c)
  BY <1>3, SeqLeave
<1> QED
  BY <1>1, <1>2, <1>3 DEF RecordStage

\* The effect that is under way is resolved.
LEMMA SeqResolve ==
  ASSUME NEW c \in Controllers, Unobserved(c), UNCHANGED <<manifest, files>>, NEW e \in Effects,
         Underway(manifest, e), job[c].stage = Index(EffectStage[e]), NEW s, NEW o,
         \/ s = "observed" /\ o = "passed" /\ Output[EffectStage[e]] \subseteq files
         \/ s = "unknown" /\ o = "failed",
         Resolve(c, e, s, o)
  PROVE  SeqInv'
<1>1. EffectAllowed(manifest, e, s)
  BY DEF EffectAllowed, Underway, Open
<1>2. Draft(c, WithEffect(manifest, e, s), "recording", o)
  BY <1>1 DEF Resolve
<1>3. ASSUME NEW j, j.draft = WithEffect(manifest, e, s), j.then = "recording", j.outcome = o,
             j.stage = job[c].stage, j.findings = job[c].findings
      PROVE  Follows(j, manifest', files')
  <2>1. CASE s = "observed" /\ o = "passed" /\ Output[EffectStage[e]] \subseteq files
    BY <1>3, <2>1 DEF Follows
  <2>2. CASE s = "unknown" /\ o = "failed"
    BY <1>3, <2>2 DEF Follows
  <2> QED
    BY <2>1, <2>2
<1> QED
  BY <1>2, <1>3, SeqDraft

\* The effect of the next stage is announced.
LEMMA SeqAnnounce ==
  ASSUME NEW c \in Controllers, Unobserved(c), UNCHANGED <<manifest, files>>, Turn(manifest, job[c].stage),
         \/ /\ Announce(c, "import", "importing") /\ job[c].stage = 4
            /\ {"nuclei.sanitized", "scan-admission", "import-intent"} \subseteq files
         \/ Announce(c, "request", "calling") /\ job[c].stage = 8
  PROVE  SeqInv'
<1>1. manifest \in Good /\ "failed" \in Outcomes
  BY TInvIs DEF Unobserved, Rest, Outcomes
<1>2. CASE Conclude(c, "failed")
  <2>1. Ended(manifest, job[c].stage, "failed", files)
    BY <1>1, TurnEnds
  <2> QED
    BY <1>2, <2>1, SeqConclude
<1>3. CASE /\ Draft(c, WithEffect(manifest, "import", "prepared"), "importing", "none")
           /\ EffectAllowed(manifest, "import", "prepared") /\ job[c].stage = 4
           /\ {"nuclei.sanitized", "scan-admission", "import-intent"} \subseteq files
  <2>1. manifest.effect["import"] = "none"
    BY <1>3 DEF EffectAllowed
  <2>2. ASSUME NEW j, j.draft = WithEffect(manifest, "import", "prepared"), j.then = "importing",
               j.stage = job[c].stage
        PROVE  Follows(j, manifest', files')
    BY <1>3, <2>1, <2>2 DEF Follows
  <2> QED
    BY <1>3, <2>2, SeqDraft
<1>4. CASE /\ Draft(c, WithEffect(manifest, "request", "prepared"), "calling", "none")
           /\ EffectAllowed(manifest, "request", "prepared") /\ job[c].stage = 8
  <2>1. manifest.effect["request"] = "none"
    BY <1>4 DEF EffectAllowed
  <2>2. ASSUME NEW j, j.draft = WithEffect(manifest, "request", "prepared"), j.then = "calling",
               j.stage = job[c].stage
        PROVE  Follows(j, manifest', files')
    BY <1>4, <2>1, <2>2 DEF Follows
  <2> QED
    BY <1>4, <2>2, SeqDraft
<1> QED
  BY <1>2, <1>3, <1>4 DEF Announce

LEMMA AllPassedIs ==
  ASSUME NEW m \in Manifests, Open(m), Len(m.stages) = Len(StageOrder)
  PROVE  AllPassed(m)
<1>1. Len(m.stages) = 12 /\ 12 <= 12
  BY StageOrderIs
<1>2. 12 <= Len(m.stages) /\ \A i \in 1..Len(m.stages) : m.stages[i] = "passed"
  BY <1>1, OpenIs
<1>3. \A i \in 1..12 : m.stages[i] = "passed"
  BY <1>1, <1>2
<1> QED
  BY <1>2, <1>3, PassedIs

\* Where a turn is.
LEMMA TurnIs ==
  ASSUME TInv, NEW c \in Controllers, Turn(manifest, job[c].stage)
  PROVE  /\ manifest \in Good /\ manifest \in Manifests /\ manifest.status = "pending"
         /\ job[c].stage \in 1..12 /\ StageOrder[job[c].stage] \in Stages
         /\ \A s \in {"scan-redact-import", "analysis-report", "executor"} :
              StageOrder[job[c].stage] = s => job[c].stage = Index(s)
         /\ job[c].stage = 4 <=> StageOrder[job[c].stage] = "scan-redact-import"
         /\ job[c].stage = 8 <=> StageOrder[job[c].stage] = "executor"
<1>1. manifest \in Good /\ manifest \in Manifests
  BY TInvIs DEF Rest, Good
<1>2. Len(manifest.stages) \in Nat /\ job[c].stage = Len(manifest.stages) + 1 /\ job[c].stage <= 12
      /\ manifest.status = "pending"
  BY <1>1, PassedIs DEF Turn, Open
<1>3. job[c].stage \in 1..12
  BY <1>2
<1> QED
  BY <1>1, <1>2, <1>3, IndexIs, StageOrderIs, StageOrderInjective

LEMMA BookedOrdinary ==
  ASSUME Booked, UNCHANGED <<manifest, bound, row, settledBy>>, manifest.status # "none",
         NEW X, X \subseteq Ordinary, files' = files \cup X
  PROVE  Booked'
<1>1. Settler' = Settler
  BY DEF Settler
<1>2. Ledgered(manifest, files', row, Settler)
  BY DEF Booked, Ledgered, Ordinary, NormalArtifacts, AuditArtifacts, Published
<1>3. "artifact-bindings" \in files' => "artifact-bindings" \in files
  BY DEF Ordinary, NormalArtifacts
<1> QED
  BY <1>1, <1>2, <1>3 DEF Booked

LEMMA OrdinaryAre ==
  /\ {"nuclei.sanitized", "scan-admission", "import-intent", "import-observation", "normalized", "report",
      "request-spec", "approval", "directory", "executor-state"} \subseteq Ordinary
  /\ \A s \in RunnerStages : Output[s] \subseteq Ordinary
<1>1. {"nuclei.sanitized", "scan-admission", "import-intent", "import-observation", "normalized", "report",
      "request-spec", "approval", "directory", "executor-state"} \subseteq Ordinary
  BY ArtifactsAre DEF Ordinary, NormalArtifacts, AuditArtifacts
<1>2. \A s \in RunnerStages : Output[s] \subseteq Ordinary
  BY ArtifactsAre, OutputIs, RunnerStagesAre DEF Ordinary
<1> QED
  BY <1>1, <1>2

\* Stages that are recorded where they are.
LEMMA SeqStages ==
  ASSUME Inv, TInv, SeqInv, NEW c \in Controllers,
         \/ LocalStage(c) \/ RunnerStage(c) \/ StageFails(c) \/ Record(c) \/ Pause(c) \/ Propose(c) \/ Approve(c)
  PROVE  SeqInv'
<1> SUFFICES ASSUME ~ overlapped' PROVE SeqInv'
  BY DEF SeqInv
<1>1. /\ UNCHANGED <<remote, ghosts, manifest, bound>> /\ pc[c] \in {"staging", "recording"}
      /\ adapter' = adapter /\ row' = row /\ settledBy' = settledBy /\ ~ overlapped
  <2>1. UNCHANGED <<remote, ghosts, manifest, bound>>
    BY DEF LocalStage, RunnerStage, StageFails, Record, Pause, Propose, Approve, runFiles, Create
  <2>2. pc[c] \in {"staging", "recording"}
    BY DEF LocalStage, RunnerStage, StageFails, Record, Pause, Propose, Approve, InStage, At
  <2> QED
    BY <2>1, <2>2 DEF remote, ghosts
<1>2. Booked /\ Situation(pc[c], job[c], manifest, files)
  BY <1>1, Alone
<1>3. CASE Record(c)
  <2>1. Ended(manifest, job[c].stage, job[c].outcome, files)
    BY <1>2, <1>3 DEF Record, At, Situation
  <2>2. job[c].outcome \in Outcomes
    BY <1>3, TInvIs DEF Record, At, JobFits
  <2>3. UNCHANGED files /\ RecordStage(c, job[c].outcome)
    BY <1>3 DEF Record, runFiles
  <2>4. Unobserved(c)
    BY <1>1, <1>2, <2>3, BookedSame DEF Unobserved
  <2> QED
    BY <1>1, <2>1, <2>2, <2>3, <2>4, SeqRecord
<1>4. ASSUME ~ Record(c) PROVE SeqInv'
  <2>1. pc[c] = "staging" /\ Turn(manifest, job[c].stage)
    BY <1>2, <1>4 DEF LocalStage, RunnerStage, StageFails, Pause, Propose, Approve, InStage, At, Situation
  <2>2. /\ manifest \in Good /\ manifest.status = "pending"
        /\ job[c].stage = 4 <=> StageOrder[job[c].stage] = "scan-redact-import"
        /\ job[c].stage = 8 <=> StageOrder[job[c].stage] = "executor"
    BY <2>1, TurnIs
  <2>3. ASSUME files' = files PROVE Unobserved(c)
    BY <1>1, <1>2, <2>1, <2>3, BookedSame DEF Unobserved
  <2>4. CASE Pause(c)
    BY <2>3, <2>4, SeqLeave DEF Pause, runFiles
  <2>5. CASE LocalStage(c)
    <3>1. PICK o \in {"passed", "failed"} : RecordStage(c, o)
      BY <2>5 DEF LocalStage
    <3>2. job[c].stage \notin {4, 8} /\ files' = files
      BY <2>2, <2>5 DEF LocalStage, LocalStages, InStage, runFiles
    <3>3. Ended(manifest, job[c].stage, o, files)
      BY <2>1, <2>2, <3>2, TurnEnds, OutcomesAre
    <3> QED
      BY <1>1, <2>3, <3>1, <3>2, <3>3, SeqRecord, OutcomesAre
  <2>6. CASE StageFails(c)
    <3>1. files' = files /\ RecordStage(c, "failed")
      BY <2>6 DEF StageFails, runFiles
    <3>2. Ended(manifest, job[c].stage, "failed", files)
      BY <2>1, <2>2, TurnEnds, OutcomesAre
    <3> QED
      BY <1>1, <2>3, <3>1, <3>2, SeqRecord, OutcomesAre
  <2>7. CASE RunnerStage(c)
    <3>1. PICK s \in RunnerStages, o \in Outcomes :
            /\ InStage(c, s)
            /\ files' \in {files, files \cup Output[s]}
            /\ Goto(c, "recording")
            /\ \E counted \in BOOLEAN : job' = [job EXCEPT ![c].outcome = o, ![c].findings = counted]
      BY <2>7 DEF RunnerStage
    <3>2. job[c].stage \notin {4, 8}
      BY <2>2, <3>1, RunnerStagesAre DEF InStage
    <3>3. Ended(manifest, job[c].stage, o, files')
      BY <2>1, <2>2, <3>2, TurnEnds
    <3>4. PICK X : X \subseteq Ordinary /\ files' = files \cup X
      <4>1. files' = files \cup {} \/ files' = files \cup Output[s]
        BY <3>1
      <4> QED
        BY <4>1, OrdinaryAre
    <3>5. Booked'
      BY <1>1, <1>2, <2>2, <3>4, BookedOrdinary
    <3>6. Unobserved(c)
      BY <1>1, <2>1, <3>5 DEF Unobserved
    <3>7. Ended(manifest', job[c].stage, o, files')
      BY <1>1, <3>3
    <3> QED
      BY <3>1, <3>6, <3>7, SeqConclude
  <2>8. CASE Propose(c) \/ Approve(c)
    <3>1. PICK name \in {"request-spec", "approval"}, o \in Outcomes : files' = files \cup {name} /\ Conclude(c, o)
      BY <2>8, OutcomesAre DEF Propose, Approve, Create
    <3>2. job[c].stage \notin {4, 8}
      BY <2>2, <2>8 DEF Propose, Approve, InStage
    <3>3. Ended(manifest, job[c].stage, o, files')
      BY <2>1, <2>2, <3>2, TurnEnds
    <3>4. Booked'
      BY <1>1, <1>2, <2>2, <3>1, BookedOrdinary, OrdinaryAre
    <3>5. Unobserved(c)
      BY <1>1, <2>1, <3>4 DEF Unobserved
    <3>6. Ended(manifest', job[c].stage, o, files')
      BY <1>1, <3>3
    <3> QED
      BY <3>1, <3>5, <3>6, SeqConclude
  <2> QED
    BY <1>4, <2>4, <2>5, <2>6, <2>7, <2>8
<1> QED
  BY <1>3, <1>4

\* The steps of the stage with the import, and of the analysis after it.
LEMMA SeqScan ==
  ASSUME Inv, TInv, SeqInv, NEW c \in Controllers, Scan(c) \/ Admit(c) \/ Intend(c) \/ Analyse(c) \/ LinkReport(c)
  PROVE  SeqInv'
<1> SUFFICES ASSUME ~ overlapped' PROVE SeqInv'
  BY DEF SeqInv
<1>1. UNCHANGED <<remote, ghosts, manifest, bound>>
  BY DEF Scan, Admit, Intend, Analyse, LinkReport, Create, CreateOnce, runFiles
<1>2. pc[c] \in {"staging", "scanned", "admitted", "normalized"}
  BY DEF Scan, Admit, Intend, Analyse, LinkReport, InStage, At
<1>3. adapter' = adapter /\ row' = row /\ settledBy' = settledBy /\ ~ overlapped
  BY <1>1 DEF remote, ghosts
<1>4. Booked /\ Situation(pc[c], job[c], manifest, files)
  BY <1>2, <1>3, Alone
<1>5. Turn(manifest, job[c].stage)
  BY <1>2, <1>4 DEF Situation
<1>6. /\ manifest \in Good /\ manifest.status = "pending"
      /\ job[c].stage = 4 <=> StageOrder[job[c].stage] = "scan-redact-import"
      /\ StageOrder[job[c].stage] = "analysis-report" => job[c].stage = Index("analysis-report")
  BY <1>5, TurnIs
<1>7. Index("analysis-report") = 5
  BY StageOrderIs, IndexIs
<1>8. \A f : Ended(manifest, job[c].stage, "failed", f)
  BY <1>5, <1>6, TurnEnds, OutcomesAre
<1>9. ASSUME files' = files \/ \E name \in Ordinary : files' = files \cup {name} PROVE Unobserved(c)
  BY <1>1, <1>2, <1>3, <1>4, <1>6, <1>9, BookedSame, BookedFile DEF Unobserved
<1>10. CASE Scan(c)
  <2>1. files' = files \cup {"nuclei.sanitized"} /\ Continue(c, "scanned") /\ job[c].stage = 4
    BY <1>6, <1>10 DEF Scan, Create, InStage
  <2>2. Situation("scanned", job[c], manifest', files')
    BY <1>1, <1>5, <2>1 DEF Situation
  <2> QED
    BY <1>9, <2>1, <2>2, SeqContinue, OrdinaryAre
<1>11. CASE Admit(c) \/ Intend(c)
  <2>1. job[c].stage = 4
    BY <1>4, <1>11 DEF Admit, Intend, At, Situation
  <2>2. CASE Conclude(c, "failed") /\ files' = files
    BY <1>1, <1>8, <1>9, <2>2, SeqConclude
  <2>3. CASE Admit(c) /\ Continue(c, "admitted") /\ files' = files \cup {"scan-admission"}
    <3>1. "nuclei.sanitized" \in files
      BY <1>4, <2>3 DEF Admit, At, Situation
    <3>2. Situation("admitted", job[c], manifest', files')
      BY <1>1, <1>5, <2>1, <2>3, <3>1 DEF Situation
    <3> QED
      BY <1>9, <2>3, <3>2, SeqContinue, OrdinaryAre
  <2>4. CASE Intend(c) /\ Continue(c, "announcing import") /\ files' = files \cup {"import-intent"}
    <3>1. "nuclei.sanitized" \in files /\ "scan-admission" \in files
      BY <1>4, <2>4 DEF Intend, At, Situation
    <3>2. Situation("announcing import", job[c], manifest', files')
      BY <1>1, <1>5, <2>1, <2>4, <3>1 DEF Situation
    <3> QED
      BY <1>9, <2>4, <3>2, SeqContinue, OrdinaryAre
  <2> QED
    BY <1>11, <2>2, <2>3, <2>4 DEF Admit, Intend, CreateOnce, Create, runFiles
<1>12. CASE Analyse(c)
  <2>1. files' = files \cup {"normalized"} /\ Continue(c, "normalized") /\ job[c].stage = 5
    BY <1>6, <1>7, <1>12 DEF Analyse, Create, InStage
  <2>2. Situation("normalized", job[c], manifest', files')
    BY <1>1, <1>5, <2>1 DEF Situation
  <2> QED
    BY <1>9, <2>1, <2>2, SeqContinue, OrdinaryAre
<1>13. CASE LinkReport(c)
  <2>1. job[c].stage = 5
    BY <1>4, <1>13 DEF LinkReport, At, Situation
  <2>2. \A f : Ended(manifest, job[c].stage, "passed", f)
    BY <1>5, <1>6, <2>1, TurnEnds, OutcomesAre
  <2>3. CASE Conclude(c, "failed") /\ files' = files
    BY <1>1, <1>8, <1>9, <2>3, SeqConclude
  <2>4. CASE /\ files' = files \cup {"report"} /\ Goto(c, "recording")
             /\ job' = [job EXCEPT ![c].outcome = "passed", ![c].findings = TRUE]
    <3>1. Unobserved(c)
      BY <1>9, <2>4, OrdinaryAre
    <3>2. \E g : job' = [job EXCEPT ![c].outcome = "passed", ![c].findings = g]
      BY <2>4
    <3> QED
      BY <1>1, <2>2, <2>4, <3>1, <3>2, SeqConclude
  <2> QED
    BY <1>13, <2>3, <2>4 DEF LinkReport, Create, runFiles
<1> QED
  BY <1>10, <1>11, <1>12, <1>13

LEMMA SeqImport ==
  ASSUME Inv, TInv, SeqInv, NEW c \in Controllers,
         AnnounceImport(c) \/ Import(c) \/ ObserveImport(c) \/ RecordImport(c)
  PROVE  SeqInv'
<1> SUFFICES ASSUME ~ overlapped' PROVE SeqInv'
  BY DEF SeqInv
<1>1. UNCHANGED <<remote, overlapped, manifest, bound>>
  BY DEF AnnounceImport, Import, ObserveImport, RecordImport, Create, Resolve, runFiles, ghosts
<1>2. pc[c] \in {"announcing import", "importing", "imported", "observing import", "import lost"}
  BY DEF AnnounceImport, Import, ObserveImport, RecordImport, At
<1>3. adapter' = adapter /\ row' = row /\ settledBy' = settledBy /\ ~ overlapped
  BY <1>1 DEF remote
<1>4. Booked /\ Situation(pc[c], job[c], manifest, files)
  BY <1>2, <1>3, Alone
<1>5. manifest.status = "pending"
  BY <1>2, <1>4 DEF Situation, Turn, Underway, Open
<1>6. ASSUME files' = files \/ \E name \in Ordinary : files' = files \cup {name} PROVE Unobserved(c)
  BY <1>1, <1>2, <1>3, <1>4, <1>5, <1>6, BookedSame, BookedFile DEF Unobserved
<1>7. CASE AnnounceImport(c)
  <2>1. /\ Turn(manifest, job[c].stage) /\ job[c].stage = 4
        /\ {"nuclei.sanitized", "scan-admission", "import-intent"} \subseteq files
    BY <1>4, <1>7 DEF AnnounceImport, At, Situation
  <2>2. files' = files /\ Announce(c, "import", "importing")
    BY <1>7 DEF AnnounceImport, runFiles
  <2>3. Unobserved(c)
    BY <1>6, <2>2
  <2> QED
    BY <1>1, <2>1, <2>2, <2>3, SeqAnnounce
<1>8. ASSUME ~ AnnounceImport(c)
      PROVE  /\ Underway(manifest, "import") /\ job[c].stage = 4
             /\ {"nuclei.sanitized", "scan-admission", "import-intent"} \subseteq files
  <2>1. pc[c] \in {"importing", "imported", "observing import", "import lost"}
    BY <1>8 DEF AnnounceImport, Import, ObserveImport, RecordImport, At
  <2> QED
    BY <1>4, <2>1 DEF Situation
<1>9. CASE ~ AnnounceImport(c) /\ Import(c)
  <2>1. files' = files
    BY <1>9 DEF Import, runFiles
  <2>2. PICK place \in {"import lost", "imported"} : Continue(c, place)
    BY <1>9 DEF Import
  <2>3. Situation(place, job[c], manifest', files')
    BY <1>1, <1>8, <1>9, <2>1 DEF Situation
  <2> QED
    BY <1>6, <2>1, <2>2, <2>3, SeqContinue
<1>10. CASE ~ AnnounceImport(c) /\ ObserveImport(c)
  <2>1. CASE Continue(c, "import lost") /\ files' = files
    <3>1. Situation("import lost", job[c], manifest', files')
      BY <1>1, <1>8, <1>10, <2>1 DEF Situation
    <3> QED
      BY <1>6, <2>1, <3>1, SeqContinue
  <2>2. CASE Continue(c, "observing import") /\ files' = files \cup {"import-observation"}
    <3>1. Situation("observing import", job[c], manifest', files')
      BY <1>1, <1>8, <1>10, <2>2 DEF Situation
    <3> QED
      BY <1>6, <2>2, <3>1, SeqContinue, OrdinaryAre
  <2> QED
    BY <1>10, <2>1, <2>2 DEF ObserveImport, Create, runFiles
<1>11. CASE ~ AnnounceImport(c) /\ RecordImport(c)
  <2>1. files' = files
    BY <1>11 DEF RecordImport, Resolve, runFiles
  <2>2. Unobserved(c)
    BY <1>6, <2>1
  <2>3. "import" \in Effects /\ job[c].stage = Index(EffectStage["import"]) /\ Underway(manifest, "import")
    BY <1>8, <1>11, EffectIndex DEF Effects
  <2>4. CASE pc[c] = "observing import" /\ Resolve(c, "import", "observed", "passed")
    <3>1. Output[EffectStage["import"]] \subseteq files
      BY <1>4, <1>8, <1>11, <2>4, OutputIs, EffectIndex DEF Situation
    <3> QED
      BY <1>1, <2>1, <2>2, <2>3, <2>4, <3>1, SeqResolve
  <2>5. CASE Resolve(c, "import", "unknown", "failed")
    BY <1>1, <2>1, <2>2, <2>3, <2>5, SeqResolve
  <2> QED
    BY <1>11, <2>4, <2>5 DEF RecordImport, At
<1> QED
  BY <1>7, <1>9, <1>10, <1>11

LEMMA SeqAny ==
  ASSUME TInv, NEW c \in Controllers, \A d \in Controllers \ {c} : pc[d] = "idle", NEW place, NEW j,
         pc' = [pc EXCEPT ![c] = place], job' = [job EXCEPT ![c] = j],
         Booked', Situation(place, j, manifest', files'),
         InFlight' => Underway(manifest', "request") /\ place \in {"idle", "awaiting"},
         place = "awaiting" => adapter'.by = c /\ adapter'.at # "none"
  PROVE  SeqInv'
<1>1. /\ pc'[c] = place /\ job'[c] = j
      /\ \A d \in Controllers \ {c} : pc'[d] = "idle"
  BY TInvIs
<1>2. ASSUME NEW d \in Controllers
      PROVE  /\ Situation(pc'[d], job'[d], manifest', files')
             /\ InFlight' => pc'[d] \in {"idle", "awaiting"}
             /\ pc'[d] = "awaiting" => adapter'.by = d /\ adapter'.at # "none"
  BY <1>1, IdleIs
<1> HIDE DEF InFlight
<1> QED
  BY <1>2 DEF SeqInv

\* While the request is under way its row may become what it likes.
LEMMA BookedRow ==
  ASSUME Booked, Underway(manifest, "request"), UNCHANGED <<manifest, bound>>,
         files' = files \/ files' = files \cup {"executor-state"}
  PROVE  Booked'
<1>1. manifest.status = "pending" /\ manifest.effect["request"] # "none"
  BY DEF Underway, Open
<1>2. files \cap (AuditArtifacts \cup Published) = {}
  BY <1>1 DEF Booked, Ledgered
<1>3. /\ files' \cap (AuditArtifacts \cup Published) = {}
      /\ "request-descriptor" \in files' => "receipt" \in files'
  BY <1>2 DEF AuditArtifacts, Published, Booked, Ledgered
<1>4. manifest.requests = 1 => StagePassed(manifest, "executor") \/ manifest.status = "recovered"
  BY DEF Booked, Ledgered
<1>5. /\ "request" \notin files' /\ "artifact-bindings" \notin files' /\ "charter-evaluation" \notin files'
      /\ files' \cap {"audit-recovery-report", "audit-evaluation"} = {}
  BY <1>3 DEF AuditArtifacts, Published
<1>6. Ledgered(manifest, files', row', Settler')
  BY <1>1, <1>3, <1>4, <1>5 DEF Ledgered
<1> QED
  BY <1>5, <1>6 DEF Booked

LEMMA SeqCall ==
  ASSUME Inv, TInv, SeqInv, NEW c \in Controllers, CallAdapter(c) \/ Receive(c)
  PROVE  SeqInv'
<1> SUFFICES ASSUME ~ overlapped' PROVE SeqInv'
  BY DEF SeqInv
<1>1. UNCHANGED <<manifest, bound>> /\ overlapped' = overlapped
  BY DEF CallAdapter, Receive, Create, runFiles, ghosts
<1>2. pc[c] \in {"calling", "awaiting"}
  BY DEF CallAdapter, Receive, At
<1>3. Booked /\ Situation(pc[c], job[c], manifest, files) /\ \A d \in Controllers \ {c} : pc[d] = "idle"
  BY <1>1, <1>2, Alone
<1>4. Underway(manifest, "request") /\ job[c].stage = 8
  BY <1>2, <1>3 DEF Situation
<1>5. files' = files \/ files' = files \cup {"executor-state"}
  BY DEF CallAdapter, Receive, Create, runFiles
<1>6. Booked'
  BY <1>1, <1>3, <1>4, <1>5, BookedRow
<1>7. PICK place \in {"request lost", "awaiting", "answered"} :
        /\ Continue(c, place)
        /\ InFlight' => place = "awaiting"
        /\ place = "awaiting" => adapter'.by = c /\ adapter'.at # "none"
  <2>1. CASE CallAdapter(c)
    <3>1. ~ InFlight
      <4>1. pc[c] = "calling"
        BY <2>1 DEF CallAdapter, At
      <4> QED
        BY <1>1, <4>1, Alone
    <3>2. CASE adapter' = adapter /\ Continue(c, "request lost")
      <4>1. ~ InFlight'
        BY <3>1, <3>2 DEF InFlight
      <4> QED
        BY <3>2, <4>1
    <3>3. CASE adapter' = [at |-> "prepared", by |-> c] /\ Continue(c, "awaiting")
      BY <3>3
    <3> QED
      BY <2>1, <3>2, <3>3 DEF CallAdapter, remote
  <2>2. CASE Receive(c)
    <3>1. ~ InFlight' /\ \E place \in {"request lost", "answered"} : Continue(c, place)
      BY <2>2 DEF Receive, InFlight, remote
    <3> QED
      BY <3>1
  <2> QED
    BY <2>1, <2>2
<1>8. job' = [job EXCEPT ![c] = job[c]] /\ pc' = [pc EXCEPT ![c] = place]
  BY <1>7, TInvIs DEF Continue, Goto
<1>9. Situation(place, job[c], manifest', files')
  BY <1>1, <1>4, <1>7 DEF Situation
<1>10. InFlight' => Underway(manifest', "request") /\ place \in {"idle", "awaiting"}
  BY <1>1, <1>4, <1>7
<1> QED
  BY <1>3, <1>6, <1>7, <1>8, <1>9, <1>10, SeqAny

LEMMA SeqKill == ASSUME Inv, TInv, SeqInv, NEW c \in Controllers, Kill(c) PROVE SeqInv'
<1> SUFFICES ASSUME ~ overlapped' PROVE SeqInv'
  BY DEF SeqInv
<1>1. UNCHANGED <<manifest, bound, files, row, settledBy, adapter>> /\ ~ overlapped
  BY DEF Kill, runFiles, remote
<1>2. Booked /\ \A d \in Controllers \ {c} : pc[d] = "idle"
  BY <1>1, Alone DEF Kill, At
<1>3. Booked'
  BY <1>1, <1>2, BookedSame
<1>4. job' = [job EXCEPT ![c] = NoJob] /\ pc' = [pc EXCEPT ![c] = "idle"]
  BY TInvIs DEF Kill, Leave, Goto
<1>5. InFlight' => Underway(manifest', "request")
  <2>1. InFlight' => InFlight
    BY <1>1 DEF InFlight
  <2>2. InFlight => Underway(manifest, "request")
    BY <1>1 DEF SeqInv
  <2> QED
    BY <1>1, <2>1, <2>2
<1> QED
  BY <1>2, <1>3, <1>4, <1>5, IdleIs, SeqAny

LEMMA SeqAdapter == ASSUME Inv, TInv, SeqInv, Adapter PROVE SeqInv'
<1> SUFFICES ASSUME ~ overlapped' PROVE SeqInv'
  BY DEF SeqInv
<1>1. UNCHANGED <<manifest, bound, files, pc, job, overlapped>>
  BY DEF Adapter, AdapterDispatches, AdapterMintFails, AdapterSends, AdapterSettles,
         AdapterHearsNothing, AdapterDies, runFiles, shells, ghosts
<1>2. InFlight
  BY DEF InFlight, Adapter, AdapterDispatches, AdapterMintFails, AdapterSends, AdapterSettles,
         AdapterHearsNothing, AdapterDies
<1>3. adapter'.by = adapter.by /\ adapter'.at # "none"
  <2>1. \A place : AdapterGoes(place) => adapter'.by = adapter.by /\ adapter'.at = place
    BY TInvIs DEF AdapterGoes, Rest
  <2>2. \E place \in {"dispatched", "refused", "sent", "answered"} : AdapterGoes(place)
    BY DEF Adapter, AdapterDispatches, AdapterMintFails, AdapterSends, AdapterSettles,
           AdapterHearsNothing, AdapterDies, Replies
  <2> QED
    BY <2>1, <2>2
<1>4. Underway(manifest, "request") /\ Booked
      /\ \A d \in Controllers : /\ Situation(pc[d], job[d], manifest, files)
                                /\ pc[d] \in {"idle", "awaiting"}
                                /\ pc[d] = "awaiting" => adapter.by = d
  BY <1>1, <1>2 DEF SeqInv
<1>5. Booked'
  BY <1>1, <1>4, BookedRow
<1>6. Underway(manifest', "request")
  BY <1>1, <1>4
<1>7. ASSUME NEW d \in Controllers
      PROVE  /\ Situation(pc'[d], job'[d], manifest', files') /\ pc'[d] \in {"idle", "awaiting"}
             /\ pc'[d] = "awaiting" => adapter'.by = d /\ adapter'.at # "none"
  BY <1>1, <1>3, <1>4
<1> HIDE DEF InFlight
<1> QED
  BY <1>5, <1>6, <1>7 DEF SeqInv

LEMMA SeqRequest ==
  ASSUME Inv, TInv, VerdictInv, SeqInv, NEW c \in Controllers,
         AnnounceRequest(c) \/ CheckResult(c) \/ Describe(c) \/ RecordRequest(c)
  PROVE  SeqInv'
<1> SUFFICES ASSUME ~ overlapped' PROVE SeqInv'
  BY DEF SeqInv
<1>1. UNCHANGED <<remote, ghosts, manifest, bound>>
  BY DEF AnnounceRequest, CheckResult, Describe, RecordRequest, Create, Resolve, runFiles
<1>2. pc[c] \in {"staging", "answered", "receipted", "observing request", "request lost"}
  BY DEF AnnounceRequest, CheckResult, Describe, RecordRequest, At, InStage
<1>3. adapter' = adapter /\ row' = row /\ settledBy' = settledBy /\ ~ overlapped
  BY <1>1 DEF remote, ghosts
<1>4. Booked /\ Situation(pc[c], job[c], manifest, files)
  BY <1>2, <1>3, Alone
<1>5. manifest.status = "pending"
  BY <1>2, <1>4 DEF Situation, Turn, Underway, Open
<1>6. ASSUME \/ files' = files \/ files' = files \cup {"receipt"}
             \/ files' = files \cup {"request-descriptor"} /\ "receipt" \in files
      PROVE  Unobserved(c)
  BY <1>1, <1>2, <1>3, <1>4, <1>5, <1>6, BookedSame, BookedFile DEF Unobserved
<1>7. CASE AnnounceRequest(c)
  <2>1. Turn(manifest, job[c].stage) /\ files' = files
    BY <1>4, <1>7 DEF AnnounceRequest, InStage, At, Situation, runFiles
  <2>2. job[c].stage = 8
    BY <1>7, <2>1, TurnIs DEF AnnounceRequest, InStage
  <2>3. Unobserved(c)
    BY <1>6, <2>1
  <2> QED
    BY <1>1, <1>7, <2>1, <2>2, <2>3, SeqAnnounce DEF AnnounceRequest
<1>8. ASSUME ~ AnnounceRequest(c) PROVE Underway(manifest, "request") /\ job[c].stage = 8
  <2>1. pc[c] \in {"answered", "receipted", "observing request", "request lost"}
    BY <1>8 DEF CheckResult, Describe, RecordRequest, At
  <2> QED
    BY <1>4, <2>1 DEF Situation
<1>9. CASE ~ AnnounceRequest(c) /\ (CheckResult(c) \/ Describe(c))
  <2>1. PICK place \in {"request lost", "receipted", "observing request"} : Continue(c, place)
    BY <1>9 DEF CheckResult, Describe
  <2>2. Situation(place, job[c], manifest', files')
    BY <1>1, <1>8, <1>9, <2>1 DEF Situation
  <2>3. pc[c] = "receipted" => "receipt" \in files
    BY DEF VerdictInv, Relies
  <2>4. Unobserved(c)
    BY <1>6, <1>9, <2>3 DEF CheckResult, Describe, At, Create, runFiles
  <2> QED
    BY <2>1, <2>2, <2>4, SeqContinue
<1>10. CASE ~ AnnounceRequest(c) /\ RecordRequest(c)
  <2>1. files' = files
    BY <1>10 DEF RecordRequest, Resolve, runFiles
  <2>2. Unobserved(c)
    BY <1>6, <2>1
  <2>3. "request" \in Effects /\ job[c].stage = Index(EffectStage["request"]) /\ Underway(manifest, "request")
    BY <1>8, <1>10, EffectIndex DEF Effects
  <2>4. CASE pc[c] = "observing request" /\ Resolve(c, "request", "observed", "passed")
    <3>1. {"receipt", "request-descriptor"} \subseteq files
      BY <2>4 DEF VerdictInv, Relies
    <3>2. Output[EffectStage["request"]] \subseteq files
      BY <3>1, OutputIs, EffectIndex
    <3> QED
      BY <1>1, <2>1, <2>2, <2>3, <2>4, <3>2, SeqResolve
  <2>5. CASE Resolve(c, "request", "unknown", "failed")
    BY <1>1, <2>1, <2>2, <2>3, <2>5, SeqResolve
  <2> QED
    BY <1>10, <2>4, <2>5 DEF RecordRequest, At
<1> QED
  BY <1>7, <1>9, <1>10

LEMMA FreshTurn == Turn(FreshManifest, 1)
<1>1. /\ FreshManifest.status = "pending" /\ FreshManifest.stages = << >>
      /\ FreshManifest.effect = [e \in Effects |-> "none"]
  BY FreshTypes
<1>2. Open(FreshManifest)
  BY <1>1 DEF Open
<1>3. Clear(FreshManifest)
  BY <1>1 DEF Clear, Done
<1>4. 1 = Len(FreshManifest.stages) + 1 /\ 1 <= 12
  BY <1>1
<1> QED
  BY <1>2, <1>3, <1>4 DEF Turn

\* Who may go on with a run is where it stopped.
LEMMA AuthorizedIs ==
  ASSUME TInv, Authorized(manifest)
  PROVE  /\ Open(manifest) /\ Clear(manifest)
         /\ ~ AllPassed(manifest) => Turn(manifest, Len(manifest.stages) + 1)
<1>1. manifest \in Manifests /\ Kept(manifest) /\ manifest.status = "pending" /\ ~ Skipped(manifest)
  BY TInvIs DEF Rest, Good, Authorized
<1>2. \A i \in 1..Len(manifest.stages) : manifest.stages[i] = "passed"
  BY <1>1, KeptIs, PassedIs DEF Skipped
<1>3. Open(manifest)
  BY <1>1, <1>2, OpenIs
<1>4. ASSUME NEW e \in Effects PROVE Done(manifest, e)
  <2>1. manifest.effect[e] # "none" => StagePassed(manifest, EffectStage[e])
    BY DEF Authorized, Incomplete
  <2>2. StagePassed(manifest, EffectStage[e]) => manifest.effect[e] = "observed"
    BY <1>1 DEF Kept
  <2> QED
    BY <2>1, <2>2 DEF Done
<1>5. Clear(manifest)
  BY <1>4 DEF Clear
<1>6. ASSUME ~ AllPassed(manifest) PROVE Len(manifest.stages) + 1 <= 12
  <2>1. Len(manifest.stages) \in Nat /\ Len(manifest.stages) <= 12
    BY <1>1, KeptIs, PassedIs
  <2>2. Len(manifest.stages) # 12
    <3>1. Len(StageOrder) = 12
      BY StageOrderIs
    <3> QED
      BY <1>1, <1>3, <1>6, <3>1, AllPassedIs
  <2>3. \A n \in Nat : n <= 12 /\ n # 12 => n + 1 <= 12
    OBVIOUS
  <2> QED
    BY <2>1, <2>2, <2>3
<1> QED
  BY <1>3, <1>5, <1>6 DEF Turn

LEMMA SeqEnter ==
  ASSUME Inv, TInv, SeqInv, ~ overlapped', NEW c \in Controllers, NEW place, place # "awaiting", NEW mode, NEW stage,
         Enter(c, place, mode, stage), Booked',
         ~ Underway(manifest, "request"),
         \A j : j.stage = stage => Situation(place, j, manifest', files')
  PROVE  SeqInv'
<1> DEFINE j == [job[c] EXCEPT !.mode = mode, !.stage = stage, !.then = "idle"]
<1>1. ~ overlapped /\ \A d \in Controllers : pc[d] = "idle"
  BY DEF Enter, At
<1>2. job' = [job EXCEPT ![c] = j] /\ pc' = [pc EXCEPT ![c] = place]
  BY TInvIs DEF Enter, Goto
<1>3. j.stage = stage
  BY TInvIs DEF Jobs
<1>4. ~ InFlight /\ adapter' = adapter
  BY <1>1 DEF SeqInv, Enter, remote
<1> HIDE DEF j
<1> QED
  BY <1>1, <1>2, <1>3, <1>4, SeqMove

LEMMA SeqEntering ==
  ASSUME Inv, TInv, SeqInv, NEW c \in Controllers, Run(c) \/ Resume(c) \/ RecoverAudit(c)
  PROVE  SeqInv'
<1> SUFFICES ASSUME ~ overlapped' PROVE SeqInv'
  BY DEF SeqInv
<1>1. UNCHANGED <<manifest, bound, row, settledBy>> /\ ~ overlapped
  BY DEF Run, Resume, RecoverAudit, Enter, Create, runFiles, remote
<1>2. Booked
  BY <1>1 DEF SeqInv
<1>3. CASE Run(c)
  <2>1. manifest.status = "none" /\ manifest = NoManifest /\ files \subseteq {"directory"} /\ row = "absent"
    BY <1>2, <1>3 DEF Run, Inv, DirInv, Booked, Ledgered
  <2>2. files' = {"directory"}
    BY <1>3, <2>1 DEF Run, Create
  <2>3. Booked'
    <3>1. Settler' = "none"
      BY <1>1, <2>1 DEF Settler
    <3>2. Ledgered(manifest', files', row', Settler')
      BY <1>1, <2>1, <2>2, <3>1, LedgeredFresh
    <3> QED
      BY <2>2, <3>2 DEF Booked
  <2>4. ~ Underway(manifest, "request")
    BY <2>1 DEF Underway, Open
  <2>5. \A j : j.stage = 1 => Situation("created", j, manifest', files')
    BY <1>1, <2>1 DEF Situation
  <2> QED
    BY <1>3, <2>3, <2>4, <2>5, SeqEnter DEF Run
<1>4. CASE Resume(c)
  <2>1. Booked'
    BY <1>1, <1>2, <1>4, BookedSame DEF Resume, runFiles
  <2>2. Open(manifest) /\ Clear(manifest) /\ (~ AllPassed(manifest) => Turn(manifest, Len(manifest.stages) + 1))
    BY <1>4, AuthorizedIs DEF Resume
  <2>3. ~ Underway(manifest, "request")
    BY <1>4 DEF Underway, Resume, Authorized, Unresolved, Effects
  <2>4. CASE AllPassed(manifest)
    <3>1. \A j : Situation("finalizing", j, manifest', files')
      BY <1>1, <2>2, <2>4 DEF Situation
    <3> QED
      BY <1>4, <2>1, <2>3, <2>4, <3>1, SeqEnter DEF Resume
  <2>5. CASE ~ AllPassed(manifest)
    <3>1. \A j : j.stage = Len(manifest.stages) + 1 => Situation("staging", j, manifest', files')
      BY <1>1, <2>2, <2>5 DEF Situation
    <3> QED
      BY <1>4, <2>1, <2>3, <2>5, <3>1, SeqEnter DEF Resume
  <2> QED
    BY <2>4, <2>5
<1>5. CASE RecoverAudit(c)
  <2>1. Booked' /\ files' = files
    BY <1>1, <1>2, <1>5, BookedSame DEF RecoverAudit, runFiles
  <2>2. AuditState # "refused"
    BY <1>5 DEF RecoverAudit
  <2>3. Stranded(manifest) /\ NormalArtifacts \cap files = {}
    BY <2>2 DEF AuditState
  <2>4. ~ Underway(manifest, "request")
    BY <2>3 DEF Underway, Open, Stranded
  <2>5. PICK place \in {"acquiring", "terminalizing", "reporting", "recovering"} : Enter(c, place, "recover", 0)
    BY <1>5 DEF RecoverAudit
  <2>6. \A j : Situation(place, j, manifest', files')
    BY <1>1, <2>1, <2>3 DEF Situation
  <2> QED
    BY <2>1, <2>4, <2>5, <2>6, SeqEnter
<1> QED
  BY <1>3, <1>4, <1>5

\* The end of the run, its publication, and the recovery.
LEMMA SeqEnd ==
  ASSUME Inv, TInv, SeqInv, NEW c \in Controllers,
         InitManifest(c) \/ Reread(c) \/ Finalize(c) \/ Evaluate(c) \/ Acquire(c) \/ BindRecovery(c)
  PROVE  SeqInv'
<1> SUFFICES ASSUME ~ overlapped' PROVE SeqInv'
  BY DEF SeqInv
<1>1. UNCHANGED <<remote, ghosts, bound>>
  BY DEF InitManifest, Reread, Finalize, Evaluate, Acquire, BindRecovery, runFiles
<1>2. pc[c] \in {"created", "recorded", "finalizing", "evaluating", "acquiring", "recovering"}
  BY DEF InitManifest, Reread, Finalize, Evaluate, Acquire, BindRecovery, At
<1>3. adapter' = adapter /\ row' = row /\ settledBy' = settledBy /\ ~ overlapped
  BY <1>1 DEF remote, ghosts
<1>4. Booked /\ Situation(pc[c], job[c], manifest, files)
  BY <1>2, <1>3, Alone
<1>5. ASSUME UNCHANGED <<manifest, files>> PROVE Unobserved(c)
  BY <1>1, <1>2, <1>3, <1>4, <1>5, BookedSame DEF Unobserved
<1>6. CASE InitManifest(c)
  <2>1. manifest.status = "none" /\ job[c].stage = 1
    BY <1>4, <1>6 DEF InitManifest, At, Situation
  <2>2. files \subseteq {"directory"} /\ row = "absent" /\ files' = files /\ manifest' = FreshManifest
    BY <1>4, <1>6, <2>1 DEF InitManifest, Booked, Ledgered
  <2>3. Booked'
    BY <1>3, <2>2, LedgeredFresh DEF Booked
  <2>4. Situation("staging", job[c], manifest', files')
    BY <2>1, <2>2, FreshTurn DEF Situation
  <2>5. Unobserved(c)
    BY <1>2, <1>3, <2>3 DEF Unobserved
  <2> QED
    BY <1>6, <2>4, <2>5, SeqContinue DEF InitManifest
<1>7. CASE Reread(c)
  <2>1. Open(manifest) /\ Clear(manifest) /\ manifest \in Manifests
    BY <1>4, <1>7, TInvIs DEF Reread, At, Situation, Rest, Good
  <2>2. UNCHANGED <<manifest, files>>
    BY <1>7 DEF Reread, runFiles
  <2>3. CASE Len(manifest.stages) = Len(StageOrder) /\ Continue(c, "finalizing")
    <3>1. AllPassed(manifest)
      BY <2>1, <2>3, AllPassedIs
    <3>2. Situation("finalizing", job[c], manifest', files')
      BY <2>1, <2>2, <3>1 DEF Situation
    <3> QED
      BY <1>5, <2>2, <2>3, <3>2, SeqContinue
  <2> QED
    BY <1>5, <1>7, <2>2, <2>3, SeqLeave DEF Reread
<1>8. CASE Finalize(c)
  <2>1. Open(manifest) /\ Clear(manifest) /\ AllPassed(manifest)
    BY <1>4, <1>8 DEF Finalize, At, Situation
  <2>2. UNCHANGED <<manifest, files>>
    BY <1>8 DEF Finalize, runFiles
  <2>3. ASSUME NEW j, j.draft = Final(manifest), j.then = "publishing" PROVE Follows(j, manifest', files')
    BY <2>1, <2>2, <2>3 DEF Follows
  <2>4. CASE Draft(c, Final(manifest), "publishing", "none")
    BY <1>5, <2>2, <2>3, <2>4, SeqDraft
  <2> QED
    BY <1>5, <1>8, <2>2, <2>4, SeqLeave DEF Finalize
<1>9. CASE Evaluate(c)
  <2>1. Leave(c) /\ manifest' = manifest
    BY <1>9 DEF Evaluate
  <2>2. CASE files' = files
    BY <1>5, <2>1, <2>2, SeqLeave
  <2>3. CASE Evaluable /\ files' = files \cup {"charter-evaluation"}
    <3>1. manifest.status # "none" /\ "artifact-bindings" \in files
      BY <2>3 DEF Evaluable
    <3>2. Booked'
      BY <1>1, <1>3, <1>4, <2>1, <2>3, <3>1, BookedFile
    <3>3. Unobserved(c)
      BY <1>2, <1>3, <3>2 DEF Unobserved
    <3> QED
      BY <2>1, <3>3, SeqLeave
  <2> QED
    BY <1>9, <2>2, <2>3 DEF Evaluate
<1>10. CASE Acquire(c)
  <2>1. UNCHANGED <<manifest, files>> /\ Stranded(manifest) /\ NormalArtifacts \cap files = {}
    BY <1>4, <1>10 DEF Acquire, runFiles, At, Situation
  <2>2. Situation("audited", job[c], manifest', files')
    BY <2>1 DEF Situation
  <2> QED
    BY <1>5, <1>10, <2>1, <2>2, SeqLeave, SeqContinue DEF Acquire
<1>11. CASE BindRecovery(c)
  <2>1. UNCHANGED <<manifest, files>> /\ Stranded(manifest) /\ NormalArtifacts \cap files = {}
    BY <1>4, <1>11 DEF BindRecovery, runFiles, At, Situation
  <2>2. CASE AuditState = "limited-artifacts-complete" /\ Draft(c, WithRecovery(manifest), "idle", "none")
    <3>1. AuditArtifacts \subseteq files
      BY <2>2 DEF AuditState
    <3>2. ASSUME NEW j, j.draft = WithRecovery(manifest), j.then = "idle" PROVE Follows(j, manifest', files')
      BY <2>1, <3>1, <3>2 DEF Follows
    <3> QED
      BY <1>5, <2>1, <2>2, <3>2, SeqDraft
  <2> QED
    BY <1>5, <1>11, <2>1, <2>2, SeqLeave DEF BindRecovery
<1> QED
  BY <1>6, <1>7, <1>8, <1>9, <1>10, <1>11

LEMMA SeqPublish ==
  ASSUME Inv, TInv, VerdictInv, SeqInv, NEW c \in Controllers,
         PublishRequest(c) \/ PublishBindings(c) \/ WriteAudit(c) \/ Terminalize(c) \/ Report(c) \/ Limit(c)
  PROVE  SeqInv'
<1> SUFFICES ASSUME ~ overlapped' PROVE SeqInv'
  BY DEF SeqInv
<1>1. UNCHANGED <<manifest, adapter, ghosts>>
  BY DEF PublishRequest, PublishBindings, PublishOnce, WriteAudit, Terminalize, Report, Limit, remote, runFiles
<1>2. pc[c] \in {"publishing", "binding", "audited", "terminalizing", "reporting", "limiting"}
  BY DEF PublishRequest, PublishBindings, WriteAudit, Terminalize, Report, Limit, At
<1>3. ~ overlapped
  BY <1>1 DEF ghosts
<1>4. Booked /\ Situation(pc[c], job[c], manifest, files)
  BY <1>2, <1>3, Alone
<1>5. ASSUME Booked' PROVE Unobserved(c)
  BY <1>1, <1>2, <1>3, <1>5 DEF Unobserved
<1>6. ASSUME UNCHANGED <<files, bound, remote>> PROVE Booked'
  BY <1>1, <1>4, <1>6, BookedSame DEF remote
<1>7. CASE PublishRequest(c)
  <2>1. CASE Publishable /\ Continue(c, "binding") /\ "request" \notin files
             /\ files' = files \cup {"request"} /\ UNCHANGED <<bound, remote>>
    <3>1. {"normalized", "report"} \subseteq files
      BY <2>1 DEF Publishable
    <3>2. manifest.status \in {"passed", "rejected"}
      <4>1. ASSUME Open(manifest), StagePassed(manifest, "executor") PROVE FALSE
        <5>1. manifest.effect["request"] = "observed"
          BY <4>1, TInvIs, EffectIndex DEF Rest, Good, Kept, Effects
        <5>2. "receipt" \in files
          BY <5>1 DEF VerdictInv, Covered
        <5>3. ~ ActionSent(manifest)
          BY <4>1 DEF Open, ActionSent
        <5> QED
          BY <2>1, <5>2, <5>3 DEF Publishable
      <4> QED
        BY <1>4, <1>7, <4>1 DEF PublishRequest, At, Situation
    <3>3. Booked'
      BY <1>1, <1>4, <2>1, <3>2, BookedFile DEF remote
    <3>4. "artifact-bindings" \notin files'
      BY <1>4, <2>1 DEF Booked, Ledgered
    <3>5. Situation("binding", job[c], manifest', files')
      BY <2>1, <3>1, <3>4 DEF Situation
    <3> QED
      BY <1>5, <2>1, <3>3, <3>5, SeqContinue
  <2>2. CASE Leave(c) /\ UNCHANGED <<files, bound, remote>>
    BY <1>5, <1>6, <2>2, SeqLeave
  <2> QED
    BY <1>7, <2>1, <2>2 DEF PublishRequest, PublishOnce
<1>8. CASE PublishBindings(c)
  <2>1. {"request", "normalized", "report"} \subseteq files /\ "artifact-bindings" \notin files
    BY <1>4, <1>8 DEF PublishBindings, At, Situation
  <2>2. /\ files' = files \cup {"artifact-bindings"} /\ bound' = manifest /\ UNCHANGED remote
        /\ Continue(c, "evaluating")
    BY <1>8, <2>1 DEF PublishBindings, PublishOnce
  <2>3. manifest.status # "none"
    BY <1>4, <2>1 DEF Booked, Ledgered
  <2>4. Booked'
    <3>1. Ledgered(manifest, files', row, Settler)
      BY <1>4, <2>1, <2>2, <2>3, LedgeredFile DEF Booked
    <3>2. row' = row /\ Settler' = Settler
      BY <2>2 DEF remote, Settler
    <3> QED
      BY <1>1, <2>2, <3>1, <3>2 DEF Booked
  <2>5. Situation("evaluating", job[c], manifest', files')
    BY <2>1, <2>2 DEF Situation
  <2> QED
    BY <1>5, <2>2, <2>4, <2>5, SeqContinue
<1>9. ASSUME pc[c] \in {"audited", "terminalizing", "reporting", "limiting"}
      PROVE  Stranded(manifest) /\ NormalArtifacts \cap files = {} /\ manifest.status = "failed"
             /\ manifest.effect["request"] # "none"
  BY <1>4, <1>9 DEF Situation, Stranded
<1>10. ASSUME NEW place \in {"terminalizing", "limiting", "recovering", "reporting"}, Continue(c, place), Booked',
              files' \subseteq files \cup AuditArtifacts, pc[c] \in {"audited", "terminalizing", "reporting", "limiting"},
              place = "limiting" => "audit-recovery-report" \in files'
       PROVE  SeqInv'
  <2>1. NormalArtifacts \cap files' = {}
    BY <1>9, <1>10 DEF NormalArtifacts, AuditArtifacts
  <2>2. Situation(place, job[c], manifest', files')
    BY <1>1, <1>9, <1>10, <2>1 DEF Situation
  <2> QED
    BY <1>5, <1>10, <2>2, SeqContinue
<1>11. ASSUME NEW name \in AuditArtifacts, NEW place \in {"terminalizing", "limiting", "recovering"},
              PublishOnce(c, name, place), UNCHANGED bound,
              pc[c] \in {"audited", "reporting", "limiting"},
              name = "audit-recovery" \/ Settler = "audit",
              place = "limiting" => name = "audit-recovery-report"
       PROVE  SeqInv'
  <2>1. CASE Leave(c) /\ UNCHANGED <<files, remote>>
    BY <1>5, <1>6, <1>11, <2>1, SeqLeave
  <2>2. CASE Continue(c, place) /\ files' = files \cup {name} /\ UNCHANGED remote
    <3>1. Booked'
      BY <1>1, <1>4, <1>9, <1>11, <2>2, BookedFile DEF remote, AuditArtifacts
    <3> QED
      BY <1>10, <1>11, <2>2, <3>1
  <2> QED
    BY <1>11, <2>1, <2>2 DEF PublishOnce
<1>12. CASE WriteAudit(c)
  BY <1>11, <1>12 DEF WriteAudit, At, AuditArtifacts
<1>13. CASE Report(c)
  <2>1. CASE AuditState = "sqlite-terminal" /\ PublishOnce(c, "audit-recovery-report", "limiting") /\ UNCHANGED bound
    <3>1. Settler = "audit"
      BY <2>1 DEF AuditState, Settler
    <3> QED
      BY <1>11, <1>13, <2>1, <3>1 DEF Report, At, AuditArtifacts
  <2>2. CASE Leave(c) /\ UNCHANGED <<files, bound, remote>>
    BY <1>5, <1>6, <2>2, SeqLeave
  <2> QED
    BY <1>13, <2>1, <2>2 DEF Report
<1>14. CASE Limit(c)
  <2>1. "audit-recovery-report" \in files
    BY <1>4, <1>14 DEF Limit, At, Situation
  <2>2. Settler = "audit"
    BY <1>4, <2>1 DEF Booked, Ledgered
  <2> QED
    BY <1>11, <1>14, <2>2 DEF Limit, At, AuditArtifacts
<1>15. CASE Terminalize(c)
  <2>1. CASE Leave(c) /\ UNCHANGED <<row, settledBy>>
    <3>1. Booked'
      BY <1>1, <1>4, <1>15, <2>1, BookedSame DEF Terminalize, runFiles
    <3> QED
      BY <1>5, <2>1, <3>1, SeqLeave
  <2>2. CASE Continue(c, "reporting") /\ row' = "terminal" /\ settledBy' = "audit"
    <3>1. files' = files /\ bound' = bound /\ Settler' = "audit"
      BY <1>15, <2>2 DEF Terminalize, runFiles, Settler
    <3>2. manifest.effect["request"] # "none" /\ manifest.status = "failed"
      BY <1>9, <1>15 DEF Terminalize, At
    <3>3. Ledgered(manifest, files, "terminal", "audit")
      BY <1>4, <3>2 DEF Booked, Ledgered
    <3>4. Booked'
      BY <1>1, <1>4, <2>2, <3>1, <3>3 DEF Booked
    <3> QED
      BY <1>10, <1>15, <2>2, <3>1, <3>4 DEF Terminalize, At
  <2> QED
    BY <1>15, <2>1, <2>2 DEF Terminalize
<1> QED
  BY <1>7, <1>8, <1>12, <1>13, <1>14, <1>15

\* Where a controller goes after its os.replace.
LEMMA WriteGoes ==
  ASSUME TInv, NEW c \in Controllers, Write(c)
  PROVE  \/ job[c].then = "idle" /\ Leave(c)
         \/ /\ job[c].then # "idle" /\ (job[c].then # "recorded" \/ job[c].mode = "resume")
            /\ \E j : /\ job' = [job EXCEPT ![c] = j] /\ pc' = [pc EXCEPT ![c] = job[c].then]
                      /\ j.stage = job[c].stage /\ j.outcome = job[c].outcome
         \/ /\ job[c].then = "recorded"
            /\ \E j : /\ job' = [job EXCEPT ![c] = j]
                      /\ IF job[c].stage = 12 THEN pc' = [pc EXCEPT ![c] = "finalizing"]
                         ELSE pc' = [pc EXCEPT ![c] = "staging"] /\ j.stage = job[c].stage + 1
<1> DEFINE j1 == [job[c] EXCEPT !.draft = NoManifest, !.then = "idle"]
           j2 == [NoJob EXCEPT !.mode = "run", !.stage = IF job[c].stage = 12 THEN @ ELSE job[c].stage + 1]
<1>1. j1.stage = job[c].stage /\ j1.outcome = job[c].outcome
  BY TInvIs DEF Jobs
<1>2. job[c].stage # 12 => j2.stage = job[c].stage + 1
  BY DEF NoJob
<1>3. \/ job[c].then = "idle" /\ Leave(c)
      \/ /\ job[c].then # "idle" /\ (job[c].then # "recorded" \/ job[c].mode = "resume")
         /\ pc' = [pc EXCEPT ![c] = job[c].then] /\ job' = [job EXCEPT ![c] = j1]
      \/ /\ job[c].then = "recorded" /\ job' = [job EXCEPT ![c] = j2]
         /\ pc' = [pc EXCEPT ![c] = IF job[c].stage = 12 THEN "finalizing" ELSE "staging"]
  BY StageOrderIs, TInvIs DEF Write, Goto
<1> HIDE DEF j1, j2
<1> QED
  BY <1>1, <1>2, <1>3

LEMMA SeqWrite == ASSUME Inv, TInv, SeqInv, NEW c \in Controllers, Write(c) PROVE SeqInv'
<1> SUFFICES ASSUME ~ overlapped' PROVE SeqInv'
  BY DEF SeqInv
<1> DEFINE m == manifest
           d == job[c].draft
           o == job[c].outcome
           i == job[c].stage
<1>1. manifest' = d /\ UNCHANGED <<files, bound, remote, ghosts>> /\ pc[c] = "writing"
  BY DEF Write, At
<1>2. adapter' = adapter /\ row' = row /\ settledBy' = settledBy /\ Settler' = Settler /\ ~ overlapped
  BY <1>1 DEF remote, ghosts, Settler
<1>3. Booked /\ Situation("writing", job[c], m, files) /\ ~ InFlight /\ \A e \in Controllers \ {c} : pc[e] = "idle"
  BY <1>1, <1>2, Alone
<1>4. Follows(job[c], m, files) /\ m \in Good /\ job[c].findings \in BOOLEAN
  BY <1>3, TInvIs DEF Situation, Rest, Jobs
<1>5. ASSUME m.status # "passed", m.status # "rejected", Ledgered(d, files, row, Settler) PROVE Booked'
  <2>1. "artifact-bindings" \notin files
    BY <1>3, <1>5 DEF Booked, Ledgered
  <2> QED
    BY <1>1, <1>2, <1>5, <2>1 DEF Booked
<1>6. ASSUME NEW place, place # "awaiting", NEW j, pc' = [pc EXCEPT ![c] = place], job' = [job EXCEPT ![c] = j],
             Booked', Situation(place, j, d, files)
      PROVE  SeqInv'
  BY <1>1, <1>2, <1>3, <1>6, SeqMove
<1>7. ASSUME Leave(c), Booked' PROVE SeqInv'
  <2>1. job' = [job EXCEPT ![c] = NoJob] /\ pc' = [pc EXCEPT ![c] = "idle"]
    BY <1>7, TInvIs DEF Leave, Goto
  <2> QED
    BY <1>6, <1>7, <2>1, IdleIs
<1>8. ASSUME job[c].then \in {"importing", "calling", "recording", "publishing"}, Booked',
             \A j : j.stage = i /\ j.outcome = o => Situation(job[c].then, j, d, files)
      PROVE  SeqInv'
  <2>1. PICK j : /\ job' = [job EXCEPT ![c] = j] /\ pc' = [pc EXCEPT ![c] = job[c].then]
                 /\ j.stage = i /\ j.outcome = o
    BY <1>8, WriteGoes
  <2>2. Situation(job[c].then, j, d, files)
    BY <1>8, <2>1
  <2> HIDE DEF d
  <2> QED
    BY <1>6, <1>8, <2>1, <2>2
<1>9. CASE /\ job[c].then = "importing" /\ d = WithEffect(m, "import", "prepared")
           /\ Turn(m, i) /\ i = 4 /\ {"nuclei.sanitized", "scan-admission", "import-intent"} \subseteq files
  <2>1. Underway(d, "import") /\ m.status = "pending"
    BY <1>4, <1>9, EffectTurn, EffectIndex DEF Effects, Turn, Open
  <2>2. Booked'
    BY <1>3, <1>4, <1>5, <1>9, <2>1, LedgeredEffect DEF Booked, Effects, States
  <2>3. \A j : j.stage = i => Situation("importing", j, d, files)
    BY <1>9, <2>1 DEF Situation
  <2> QED
    BY <1>8, <1>9, <2>2, <2>3
<1>10. CASE job[c].then = "calling" /\ d = WithEffect(m, "request", "prepared") /\ Turn(m, i) /\ i = 8
  <2>1. Underway(d, "request") /\ m.status = "pending"
    BY <1>4, <1>10, EffectTurn, EffectIndex DEF Effects, Turn, Open
  <2>2. Booked'
    BY <1>3, <1>4, <1>5, <1>10, <2>1, LedgeredEffect DEF Booked, Effects, States
  <2>3. \A j : j.stage = i => Situation("calling", j, d, files)
    BY <1>10, <2>1 DEF Situation
  <2> QED
    BY <1>8, <1>10, <2>2, <2>3
<1>11. ASSUME NEW e \in Effects, NEW s \in {"observed", "unknown"}, job[c].then = "recording",
              Underway(m, e), i = Index(EffectStage[e]), d = WithEffect(m, e, s),
              \/ s = "observed" /\ o = "passed" /\ Output[EffectStage[e]] \subseteq files
              \/ s = "unknown" /\ o = "failed"
       PROVE  SeqInv'
  <2>1. Ended(d, i, o, files) /\ m.status = "pending"
    <3>1. Ended(WithEffect(m, e, s), Index(EffectStage[e]), o, files)
      BY <1>4, <1>11, EffectEnds
    <3>2. m.status = "pending"
      BY <1>11 DEF Underway, Open
    <3> QED
      BY <1>11, <3>1, <3>2
  <2>2. Booked'
    BY <1>3, <1>4, <1>5, <1>11, <2>1, LedgeredEffect DEF Booked, States
  <2>3. \A j : j.stage = i /\ j.outcome = o => Situation("recording", j, d, files)
    BY <2>1 DEF Situation
  <2> QED
    BY <1>8, <1>11, <2>2, <2>3
<1>12. CASE /\ job[c].then = AfterRecord(o) /\ d = WithStage(m, o, job[c]) /\ o \in Outcomes
            /\ Ended(m, i, o, files) /\ (o = "rejected" => m.requests = 0)
  <2>1. m.status = "pending" /\ m \in Manifests
    BY <1>4, <1>12 DEF Ended, Open, Good
  <2>2. Booked'
    <3>1. Ledgered(d, files, row, Settler)
      BY <1>3, <1>4, <1>12, LedgeredStage DEF Booked
    <3> QED
      BY <1>5, <2>1, <3>1
  <2>3. /\ d \in Manifests /\ d.effect = m.effect /\ d.stages = Append(m.stages, o)
        /\ d.status = (IF o \in {"failed", "rejected"} THEN o ELSE m.status)
    BY <1>4, <1>12, <2>1, StageTypes
  <2>4. Advanced(m, i, o, d)
    BY <1>4, <1>12, <2>3, StageNext
  <2>5. CASE o \in {"failed", "skipped"}
    <3>1. job[c].then = "idle"
      BY <1>12, <2>5 DEF AfterRecord
    <3>2. Leave(c)
      BY <3>1, WriteGoes
    <3> QED
      BY <1>7, <2>2, <3>2
  <2>6. CASE o = "rejected"
    <3>1. job[c].then = "publishing"
      BY <1>12, <2>6 DEF AfterRecord
    <3>2. d.status = "rejected"
      BY <2>3, <2>6
    <3>3. "request" \notin files
      BY <1>3, <2>1 DEF Booked, Ledgered
    <3>4. \A j : Situation("publishing", j, d, files)
      BY <3>2, <3>3 DEF Situation
    <3> QED
      BY <1>8, <2>2, <3>1, <3>4
  <2>7. CASE o = "passed"
    <3>1. job[c].then = "recorded"
      BY <1>12, <2>7 DEF AfterRecord
    <3>2. Open(d) /\ Clear(d)
      BY <2>4, <2>7 DEF Advanced
    <3>3. \A j : Situation("recorded", j, d, files)
      BY <3>2 DEF Situation
    <3>4. i = 12 => \A j : Situation("finalizing", j, d, files)
      <4>1. i = 12 => AllPassed(d)
        BY <2>4, <2>7 DEF Advanced
      <4> QED
        BY <3>2, <4>1 DEF Situation
    <3>5. i # 12 => \A j : j.stage = i + 1 => Situation("staging", j, d, files)
      <4>1. i # 12 => Turn(d, i + 1)
        BY <2>4, <2>7 DEF Advanced
      <4> QED
        BY <4>1 DEF Situation
    <3> HIDE DEF d
    <3>6. CASE \E j : /\ job' = [job EXCEPT ![c] = j] /\ pc' = [pc EXCEPT ![c] = job[c].then]
      BY <1>6, <2>2, <3>1, <3>3, <3>6
    <3>7. CASE \E j : job' = [job EXCEPT ![c] = j] /\ i = 12 /\ pc' = [pc EXCEPT ![c] = "finalizing"]
      BY <1>6, <2>2, <3>4, <3>7
    <3>8. CASE \E j : /\ job' = [job EXCEPT ![c] = j] /\ i # 12 /\ pc' = [pc EXCEPT ![c] = "staging"]
                      /\ j.stage = i + 1
      <4>1. PICK j : /\ job' = [job EXCEPT ![c] = j] /\ i # 12 /\ pc' = [pc EXCEPT ![c] = "staging"]
                     /\ j.stage = i + 1
        BY <3>8
      <4>2. Situation("staging", j, d, files)
        BY <3>5, <4>1
      <4> QED
        BY <1>6, <2>2, <4>1, <4>2
    <3> QED
      BY <3>1, <3>6, <3>7, <3>8, WriteGoes
  <2> QED
    BY <1>12, <2>5, <2>6, <2>7 DEF Outcomes
<1>13. CASE job[c].then = "publishing" /\ d = Final(m) /\ Open(m)
  <2>1. m.status = "pending" /\ m \in Manifests
    BY <1>4, <1>13 DEF Open, Good
  <2>2. Booked'
    <3>1. Ledgered(d, files, row, Settler)
      BY <1>3, <1>4, <1>13, LedgeredFinal DEF Booked
    <3> QED
      BY <1>5, <2>1, <3>1
  <2>3. d.status = "passed" /\ "request" \notin files
    BY <1>3, <1>13, <2>1, FinalTypes DEF Booked, Ledgered
  <2>4. \A j : Situation("publishing", j, d, files)
    BY <2>3 DEF Situation
  <2> QED
    BY <1>8, <1>13, <2>2, <2>4
<1>14. CASE job[c].then = "idle" /\ d = WithRecovery(m) /\ Stranded(m) /\ NormalArtifacts \cap files = {}
  <2>1. m.status = "failed"
    BY <1>14 DEF Stranded
  <2>2. Booked'
    <3>1. Ledgered(d, files, row, Settler)
      BY <1>3, <1>4, <1>14, LedgeredRecovery DEF Booked
    <3> QED
      BY <1>5, <2>1, <3>1
  <2>3. Leave(c)
    BY <1>14, WriteGoes
  <2> QED
    BY <1>7, <2>2, <2>3
<1> QED
  BY <1>4, <1>9, <1>10, <1>11, <1>12, <1>13, <1>14 DEF Follows

LEMMA SeqInit == Init => SeqInv
<1> SUFFICES ASSUME Init PROVE SeqInv
  OBVIOUS
<1>1. Booked
  BY LedgeredFresh DEF Init, Booked, Settler
<1>2. ~ InFlight
  BY DEF Init, InFlight
<1>3. \A c \in Controllers : pc[c] = "idle"
  BY DEF Init
<1> QED
  BY <1>1, <1>2, <1>3, IdleIs DEF SeqInv

LEMMA SeqNext == ASSUME Inv, TInv, VerdictInv, SeqInv, [Next]_vars PROVE SeqInv'
<1>1. CASE UNCHANGED vars
  <2>1. UNCHANGED <<manifest, files, bound, pc, job, row, settledBy, adapter, overlapped>>
    BY <1>1 DEF vars, runFiles, shells, remote, ghosts
  <2>2. Settler' = Settler
    BY <2>1 DEF Settler
  <2> QED
    BY <2>1, <2>2 DEF SeqInv, Booked, InFlight
<1>2. CASE Adapter
  BY <1>2, SeqAdapter
<1>3. ASSUME NEW c \in Controllers, Controller(c) PROVE SeqInv'
  BY <1>3, SeqStages, SeqScan, SeqImport, SeqCall, SeqKill, SeqRequest, SeqEntering, SeqEnd, SeqPublish, SeqWrite
     DEF Controller, Executor, Recovery
<1> QED
  BY <1>1, <1>2, <1>3 DEF Next

AllInv == Inv /\ TInv /\ VerdictInv /\ SeqInv

LEMMA AllHold == Spec => []AllInv
<1>1. Init => AllInv
  BY InitInv, InitTypes, VerdictInit, SeqInit DEF AllInv
<1>2. AllInv /\ [Next]_vars => AllInv'
  BY NextInv, NextTypes, VerdictNext, SeqNext DEF AllInv
<1> QED
  BY <1>1, <1>2, PTL DEF Spec

\* What is published is the run's final word, and its bindings still fit the manifest (publish_terminal_artifacts).
THEOREM OutcomeFinal == Spec => []OutcomeIsFinal
<1>1. AllInv => OutcomeIsFinal
  BY DEF AllInv, SeqInv, Booked, Ledgered, OutcomeIsFinal
<1> QED
  BY <1>1, AllHold, PTL

\* Both good verdicts are earned, overlapping controllers or not: the receipt and the audit never vouch for the same
\* request (finalize, valid_effect_ledger, checkpoint_for_stage, recover_audit).
THEOREM VerdictEarned == Spec => []VerdictIsEarned
<1>1. ASSUME AllInv PROVE VerdictIsEarned
  <2>1. manifest \in Good /\ manifest \in Manifests /\ Kept(manifest) /\ Covered(manifest, files, count, Settler)
        /\ Vouched(files, count, Settler, kong)
    BY <1>1, TInvIs DEF AllInv, Rest, Good, VerdictInv
  <2>2. PassedIsComplete
    <3> SUFFICES ASSUME manifest.status = "passed" PROVE PassedIsComplete
      BY DEF PassedIsComplete
    <3>1. AllPassed(manifest) /\ \A s \in Stages : StagePassed(manifest, s)
      BY <2>1 DEF Kept, AllPassed
    <3>2. /\ \A e \in Effects : manifest.effect[e] = "observed"
          /\ manifest.requests = 1
      BY <2>1, <3>1, EffectIndex, StagesAre DEF Kept, StageNames
    <3>3. count["import"] = 1 /\ {"receipt", "request-descriptor"} \subseteq files
      BY <2>1, <3>2 DEF Covered, Effects
    <3>4. Settler = "response" /\ count["request"] = 1
      BY <2>1, <3>3 DEF Vouched
    <3>5. row = "terminal" /\ settledBy = "response"
      BY <3>4 DEF Settler
    <3>6. \A s \in Stages : Output[s] \subseteq files
      BY <2>1, <3>1, <3>3, OutputIs DEF Covered
    <3> QED
      BY <3>1, <3>2, <3>3, <3>4, <3>5, <3>6 DEF PassedIsComplete, Effects
  <2>3. RecoveredIsProven
    <3> SUFFICES ASSUME manifest.status = "recovered" PROVE RecoveredIsProven
      BY DEF RecoveredIsProven
    <3>1. Settler = "audit" /\ AuditArtifacts \subseteq files
      BY <2>1 DEF Covered
    <3>2. kong = "in policy" /\ count["request"] = 1
      BY <2>1, <3>1 DEF Vouched, AuditArtifacts
    <3>3. row = "terminal" /\ settledBy = "audit"
      BY <3>1 DEF Settler
    <3>4. overlapped \/ files \cap NormalArtifacts = {}
      BY <1>1 DEF AllInv, SeqInv, Booked, Ledgered
    <3> QED
      BY <3>1, <3>2, <3>3, <3>4 DEF RecoveredIsProven
  <2> QED
    BY <2>2, <2>3 DEF VerdictIsEarned
<1> QED
  BY <1>1, AllHold, PTL

-----------------------------------------------------------------------------
(* The refinement of RunLedger.                                            *)

PassedStages(m) == {s \in Stages : StagePassed(m, s)}

LEMMA FirstStages ==
  ASSUME NEW n \in 0..12
  PROVE  Cardinality({StageOrder[i] : i \in 1..n}) = n
<1> DEFINE T == {StageOrder[i] : i \in 1..n}
           f == [i \in 1..n |-> StageOrder[i]]
<1>1. n \in Nat /\ \A i \in 1..n : i \in 1..12
  OBVIOUS
<1>2. f \in Bijection(1..n, T)
  <2>1. f \in [1..n -> T] /\ \A t \in T : \E i \in 1..n : f[i] = t
    OBVIOUS
  <2>2. \A i, j \in 1..n : f[i] = f[j] => i = j
    BY <1>1, StageOrderInjective
  <2> QED
    BY <2>1, <2>2 DEF Bijection, Injection, Surjection, IsInjective
<1>3. ExistsBijection(1..n, T)
  BY <1>2 DEF ExistsBijection
<1>4. IsFiniteSet(1..n) /\ Cardinality(1..n) = n
  <2>1. 1 \in Int /\ n \in Int
    BY <1>1
  <2>2. IsFiniteSet(1..n) /\ Cardinality(1..n) = IF 1 > n THEN 0 ELSE n - 1 + 1
    BY <2>1, FS_Interval
  <2>3. (IF 1 > n THEN 0 ELSE n - 1 + 1) = n
    OBVIOUS
  <2> QED
    BY <2>2, <2>3
<1> HIDE DEF T
<1>5. Cardinality(T) = n
  BY <1>3, <1>4, FS_Bijection
<1> QED
  BY <1>5 DEF T

\* A manifest whose first n stages passed, and no other, has n stages passed.
LEMMA PassedCount ==
  ASSUME NEW m \in Manifests, NEW n \in 0..12,
         \A i \in 1..12 : i <= Len(m.stages) /\ m.stages[i] = "passed" <=> i <= n
  PROVE  Cardinality(PassedStages(m)) = n
<1>1. \A i \in 1..12 : StagePassed(m, StageOrder[i]) <=> i \in 1..n
  <2>1. \A i \in 1..12 : i <= n <=> i \in 1..n
    OBVIOUS
  <2>2. \A i \in 1..12 : StagePassed(m, StageOrder[i]) <=> i <= Len(m.stages) /\ m.stages[i] = "passed"
    BY PassedIs
  <2> QED
    BY <2>1, <2>2
<1>2. PassedStages(m) = {StageOrder[i] : i \in 1..n}
  <2>1. \A s \in Stages : \E i \in 1..12 : s = StageOrder[i]
    BY StageOrderIs DEF Stages
  <2>2. \A i \in 1..n : i \in 1..12
    OBVIOUS
  <2>3. ASSUME NEW s PROVE s \in PassedStages(m) <=> \E i \in 1..n : s = StageOrder[i]
    BY <1>1, <2>1, <2>2, IndexIs DEF PassedStages
  <2> QED
    BY <2>3
<1> QED
  BY <1>2, FirstStages

LEMMA OpenCount ==
  ASSUME NEW m \in Manifests, Open(m), Len(m.stages) <= 12
  PROVE  Cardinality(PassedStages(m)) = Len(m.stages)
<1> DEFINE n == Len(m.stages)
<1>1. n \in 0..12
  <2>1. n \in Nat /\ n <= 12
    BY PassedIs
  <2>2. \A k \in Nat : k <= 12 => k \in 0..12
    OBVIOUS
  <2> QED
    BY <2>1, <2>2
<1>2. \A i \in 1..12 : i <= Len(m.stages) /\ m.stages[i] = "passed" <=> i <= n
  BY <1>1, OpenIs
<1> HIDE DEF n
<1>3. Cardinality(PassedStages(m)) = n
  BY <1>1, <1>2, PassedCount
<1> QED
  BY <1>3 DEF n

\* What the ledger sees of a manifest.
LEMMA SameStages ==
  ASSUME NEW m, NEW d, d.stages = m.stages
  PROVE  PassedStages(d) = PassedStages(m)
BY DEF PassedStages, StagePassed

\* An appended outcome that is not a pass counts for nothing.
LEMMA AppendCount ==
  ASSUME NEW m \in Manifests, NEW d \in Manifests, NEW o \in Outcomes, d.stages = Append(m.stages, o), o # "passed"
  PROVE  PassedStages(d) = PassedStages(m)
<1>1. /\ Len(d.stages) = Len(m.stages) + 1 /\ Len(m.stages) \in Nat
      /\ \A i \in 1..Len(m.stages) : d.stages[i] = m.stages[i]
      /\ d.stages[Len(m.stages) + 1] = o
  BY AppendIs, PassedIs
<1>2. ASSUME NEW s \in Stages PROVE StagePassed(d, s) <=> StagePassed(m, s)
  <2>1. Index(s) \in 1..12
    BY IndexIs
  <2>2. Index(s) <= Len(d.stages) /\ d.stages[Index(s)] = "passed"
          <=> Index(s) <= Len(m.stages) /\ m.stages[Index(s)] = "passed"
    <3> DEFINE n == Len(m.stages)
    <3>1. n \in Nat /\ Len(d.stages) = n + 1 /\ (\A i \in 1..n : d.stages[i] = m.stages[i]) /\ d.stages[n + 1] # "passed"
      BY <1>1
    <3> HIDE DEF n
    <3>2. \A k \in 1..12 : (k <= n + 1 <=> k <= n \/ k = n + 1) /\ (k <= n <=> k \in 1..n)
      BY <3>1
    <3>3. Index(s) <= Len(d.stages) /\ d.stages[Index(s)] = "passed"
            <=> Index(s) <= n /\ m.stages[Index(s)] = "passed"
      BY <2>1, <3>1, <3>2
    <3> QED
      BY <3>3 DEF n
  <2> QED
    BY <2>2, StagePassedIs
<1> QED
  BY <1>2 DEF PassedStages

Verdict(m)   == IF m.status = "pending" THEN "open" ELSE m.status
Announces(m) == {e \in Effects : m.effect[e] # "none"}
Happened(n)  == {e \in Effects : n[e] > 0}

\* The ledger's state, and how its steps read here.
LedgerVars == <<Verdict(manifest), Cardinality(PassedStages(manifest)), Announces(manifest), Happened(count)>>

LEMMA LedgerSame == LedgerVars' = LedgerVars => Ledger!vars' = Ledger!vars
BY DEF LedgerVars, Ledger!vars, Verdict, PassedStages, Announces, Happened

LEMMA LedgerBegins ==
  ASSUME Verdict(manifest) = "none", Verdict(manifest') = "open", PassedStages(manifest') = PassedStages(manifest),
         Announces(manifest') = Announces(manifest), Happened(count') = Happened(count)
  PROVE  Ledger!Next
BY DEF Ledger!Next, Ledger!Begin, Verdict, PassedStages, Announces, Happened

LEMMA LedgerAnnounces ==
  ASSUME NEW e \in Effects, Verdict(manifest) = "open", Verdict(manifest') = "open",
         Index(EffectStage[e]) = Cardinality(PassedStages(manifest)) + 1, PassedStages(manifest') = PassedStages(manifest),
         Announces(manifest') = Announces(manifest) \cup {e}, Happened(count') = Happened(count)
  PROVE  Ledger!Next
<1>1. Ledger!Announce(e)
  BY DEF Ledger!Announce, Verdict, PassedStages, Announces, Happened
<1> QED
  BY <1>1 DEF Ledger!Next

LEMMA LedgerHappens ==
  ASSUME NEW e \in Effects, Verdict(manifest) = "open", manifest' = manifest,
         e \in Announces(manifest) \ Happened(count), Happened(count') = Happened(count) \cup {e}
  PROVE  Ledger!Next
<1>1. Ledger!Happen(e)
  BY DEF Ledger!Happen, Verdict, PassedStages, Announces, Happened
<1> QED
  BY <1>1 DEF Ledger!Next

LEMMA LedgerAdvances ==
  ASSUME Verdict(manifest) = "open", Verdict(manifest') = "open", NEW n \in 0..11,
         Cardinality(PassedStages(manifest)) = n, Cardinality(PassedStages(manifest')) = n + 1,
         \A e \in Effects : Index(EffectStage[e]) = n + 1 => e \in Happened(count),
         Announces(manifest') = Announces(manifest), Happened(count') = Happened(count)
  PROVE  Ledger!Next
<1>1. Len(StageOrder) = 12 /\ n < 12
  BY StageOrderIs
<1>2. Ledger!Advance
  BY <1>1 DEF Ledger!Advance, Verdict, PassedStages, Announces, Happened
<1> QED
  BY <1>2 DEF Ledger!Next

LEMMA LedgerEnds ==
  ASSUME Verdict(manifest) = "open", Verdict(manifest') \in {"passed", "rejected", "failed"},
         Verdict(manifest') = "passed" => Cardinality(PassedStages(manifest)) = 12,
         PassedStages(manifest') = PassedStages(manifest),
         Announces(manifest') = Announces(manifest), Happened(count') = Happened(count)
  PROVE  Ledger!Next
<1>1. Len(StageOrder) = 12
  BY StageOrderIs
<1>2. Ledger!End(Verdict(manifest'))
  BY <1>1 DEF Ledger!End, Verdict, PassedStages, Announces, Happened
<1>3. Verdict(manifest') \in Ledger!Verdicts
  BY DEF Ledger!Verdicts
<1> QED
  BY <1>2, <1>3 DEF Ledger!Next

LEMMA LedgerRecovers ==
  ASSUME Verdict(manifest) = "failed", Verdict(manifest') = "recovered", "request" \in Happened(count),
         Cardinality(PassedStages(manifest)) = 7, PassedStages(manifest') = PassedStages(manifest),
         Announces(manifest') = Announces(manifest), Happened(count') = Happened(count)
  PROVE  Ledger!Next
<1>1. Index(EffectStage["request"]) = Cardinality(PassedStages(manifest)) + 1 /\ "request" \in Effects
  BY EffectIndex DEF Effects
<1>2. Ledger!Recover
  BY <1>1 DEF Ledger!Recover, Verdict, PassedStages, Announces, Happened
<1> QED
  BY <1>2 DEF Ledger!Next

\* Every other step leaves the manifest and the effects alone.
LEMMA Untouched ==
  ASSUME NEW c \in Controllers, Controller(c)
  PROVE  InitManifest(c) \/ Write(c) \/ Import(c) \/ (manifest' = manifest /\ count' = count)
<1>1. CASE Run(c) \/ Resume(c) \/ Kill(c) \/ RecoverAudit(c)
  BY <1>1 DEF Run, Resume, Kill, RecoverAudit, Enter, Create, runFiles
<1>2. CASE LocalStage(c) \/ RunnerStage(c) \/ StageFails(c) \/ Record(c) \/ Reread(c) \/ Pause(c) \/ Finalize(c)
  BY <1>2 DEF LocalStage, RunnerStage, StageFails, Record, Reread, Pause, Finalize, runFiles, ghosts
<1>3. CASE Scan(c) \/ Admit(c) \/ Intend(c) \/ AnnounceImport(c) \/ ObserveImport(c) \/ RecordImport(c)
  BY <1>3 DEF Scan, Admit, Intend, CreateOnce, Create, AnnounceImport, ObserveImport, RecordImport, Resolve, runFiles, ghosts
<1>4. CASE Analyse(c) \/ LinkReport(c) \/ Propose(c) \/ Approve(c)
  BY <1>4 DEF Analyse, LinkReport, Propose, Approve, Create, runFiles, ghosts
<1>5. CASE Executor(c)
  BY <1>5 DEF Executor, AnnounceRequest, CallAdapter, Receive, CheckResult, Describe, RecordRequest, Resolve, Create,
              runFiles, ghosts
<1>6. CASE PublishRequest(c) \/ PublishBindings(c) \/ Evaluate(c)
  BY <1>6 DEF PublishRequest, PublishBindings, Evaluate, PublishOnce, runFiles, ghosts
<1>7. CASE Acquire(c) \/ WriteAudit(c) \/ Terminalize(c) \/ Report(c) \/ Limit(c) \/ BindRecovery(c)
  BY <1>7 DEF Acquire, WriteAudit, Terminalize, Report, Limit, BindRecovery, PublishOnce, runFiles, ghosts
<1> QED
  BY <1>1, <1>2, <1>3, <1>4, <1>5, <1>6, <1>7 DEF Controller, Recovery

\* Once controllers overlapped, that stays known.
LEMMA OverlapStays == ASSUME Next, ~ overlapped' PROVE ~ overlapped
<1>1. CASE Adapter
  BY <1>1 DEF Adapter, AdapterDispatches, AdapterMintFails, AdapterSends, AdapterSettles, AdapterHearsNothing,
              AdapterDies, ghosts
<1>2. ASSUME NEW c \in Controllers, Controller(c) PROVE ~ overlapped
  <2>1. CASE Run(c) \/ Resume(c) \/ RecoverAudit(c)
    BY <2>1 DEF Run, Resume, RecoverAudit, Enter
  <2>2. CASE Kill(c) \/ InitManifest(c) \/ Write(c) \/ Import(c)
    BY <2>2 DEF Kill, InitManifest, Write, Import, ghosts
  <2>3. CASE LocalStage(c) \/ RunnerStage(c) \/ StageFails(c) \/ Record(c) \/ Reread(c) \/ Pause(c) \/ Finalize(c)
    BY <2>3 DEF LocalStage, RunnerStage, StageFails, Record, Reread, Pause, Finalize, ghosts
  <2>4. CASE Scan(c) \/ Admit(c) \/ Intend(c) \/ AnnounceImport(c) \/ ObserveImport(c) \/ RecordImport(c)
    BY <2>4 DEF Scan, Admit, Intend, CreateOnce, AnnounceImport, ObserveImport, RecordImport, Resolve, ghosts
  <2>5. CASE Analyse(c) \/ LinkReport(c) \/ Propose(c) \/ Approve(c)
    BY <2>5 DEF Analyse, LinkReport, Propose, Approve, ghosts
  <2>6. CASE Executor(c)
    BY <2>6 DEF Executor, AnnounceRequest, CallAdapter, Receive, CheckResult, Describe, RecordRequest, Resolve, ghosts
  <2>7. CASE PublishRequest(c) \/ PublishBindings(c) \/ Evaluate(c)
    BY <2>7 DEF PublishRequest, PublishBindings, Evaluate, PublishOnce, ghosts
  <2>8. CASE Acquire(c) \/ WriteAudit(c) \/ Terminalize(c) \/ Report(c) \/ Limit(c) \/ BindRecovery(c)
    BY <2>8 DEF Acquire, WriteAudit, Terminalize, Report, Limit, BindRecovery, PublishOnce, ghosts
  <2> QED
    BY <1>2, <2>1, <2>2, <2>3, <2>4, <2>5, <2>6, <2>7, <2>8 DEF Controller, Recovery
<1> QED
  BY <1>1, <1>2 DEF Next

LEMMA OneHappens ==
  ASSUME TInv, NEW e \in Effects, count[e] = 0, count' = [count EXCEPT ![e] = Twice(@)]
  PROVE  Happened(count') = Happened(count) \cup {e} /\ e \notin Happened(count)
<1>1. count \in [Effects -> 0..2] /\ count' = [count EXCEPT ![e] = 1]
  BY TInvIs, CountIs DEF Rest
<1>2. \A d \in Effects : count'[d] = IF d = e THEN 1 ELSE count[d]
  BY <1>1
<1>3. 1 > 0 /\ ~ (0 > 0)
  OBVIOUS
<1> QED
  BY <1>2, <1>3 DEF Happened

LEMMA LedgerInit == Init => Ledger!Init
<1> SUFFICES ASSUME Init PROVE Ledger!Init
  OBVIOUS
<1>1. manifest.status = "none" /\ manifest.stages = << >> /\ manifest.effect = [e \in Effects |-> "none"]
  BY DEF Init, NoManifest
<1>2. {s \in Stages : StagePassed(manifest, s)} = {}
  BY <1>1 DEF StagePassed
<1>3. {e \in Effects : manifest.effect[e] # "none"} = {}
  BY <1>1
<1>4. {e \in Effects : count[e] > 0} = {}
  BY DEF Init
<1> QED
  BY <1>1, <1>2, <1>3, <1>4, FS_EmptySet DEF Ledger!Init

LEMMA LedgerAdapter ==
  ASSUME Inv, TInv, SeqInv, ~ overlapped, Adapter
  PROVE  Ledger!Next \/ Ledger!vars' = Ledger!vars
<1>1. manifest' = manifest
  BY DEF Adapter, AdapterDispatches, AdapterMintFails, AdapterSends, AdapterSettles, AdapterHearsNothing,
         AdapterDies, runFiles
<1>2. CASE AdapterSends
  <2>1. adapter.at = "dispatched" /\ count' = [count EXCEPT !["request"] = Twice(@)]
    BY <1>2 DEF AdapterSends
  <2>2. Underway(manifest, "request")
    BY <2>1 DEF SeqInv, InFlight
  <2>3. count["request"] = 0
    BY <2>1 DEF Inv, IInv, RequestInv
  <2>4. "request" \in Effects
    BY DEF Effects
  <2>5. Verdict(manifest) = "open" /\ "request" \in Announces(manifest)
    BY <2>2, <2>4 DEF Underway, Open, Verdict, Announces
  <2> QED
    BY <1>1, <2>1, <2>3, <2>4, <2>5, OneHappens, LedgerHappens
<1>3. CASE ~ AdapterSends
  <2>1. count' = count
    BY <1>3 DEF Adapter, AdapterDispatches, AdapterMintFails, AdapterSettles, AdapterHearsNothing,
                AdapterDies, ghosts
  <2> QED
    BY <1>1, <2>1, LedgerSame DEF LedgerVars
<1> QED
  BY <1>2, <1>3

LEMMA LedgerImport ==
  ASSUME Inv, TInv, SeqInv, ~ overlapped, NEW c \in Controllers, Import(c)
  PROVE  Ledger!Next \/ Ledger!vars' = Ledger!vars
<1>1. manifest' = manifest /\ pc[c] = "importing"
  BY DEF Import, runFiles, At
<1>2. CASE count' = count
  BY <1>1, <1>2, LedgerSame DEF LedgerVars
<1>3. CASE count' = [count EXCEPT !["import"] = Twice(@)]
  <2>1. Underway(manifest, "import") /\ "import" \in Effects
    BY <1>1 DEF SeqInv, Situation, Effects
  <2>2. count["import"] = 0
    BY <1>1 DEF Inv, IInv, ImportInv, Importing
  <2>3. Verdict(manifest) = "open" /\ "import" \in Announces(manifest)
    BY <2>1 DEF Underway, Open, Verdict, Announces
  <2> QED
    BY <1>1, <1>3, <2>1, <2>2, <2>3, OneHappens, LedgerHappens
<1> QED
  BY <1>2, <1>3 DEF Import

LEMMA LedgerInitManifest ==
  ASSUME SeqInv, ~ overlapped, NEW c \in Controllers, InitManifest(c)
  PROVE  Ledger!Next
<1>1. pc[c] = "created" /\ manifest' = FreshManifest /\ count' = count
  BY DEF InitManifest, At, ghosts
<1>2. manifest.status = "none"
  BY <1>1 DEF SeqInv, Situation
<1>3. manifest = NoManifest
  BY <1>2 DEF SeqInv, Booked, Ledgered
<1>4. /\ FreshManifest.status = "pending" /\ FreshManifest.stages = NoManifest.stages
      /\ FreshManifest.effect = NoManifest.effect
  BY DEF FreshManifest, NoManifest
<1>5. PassedStages(manifest') = PassedStages(manifest) /\ Announces(manifest') = Announces(manifest)
  BY <1>1, <1>3, <1>4 DEF PassedStages, StagePassed, Announces
<1>6. Verdict(manifest) = "none" /\ Verdict(manifest') = "open" /\ Happened(count') = Happened(count)
  BY <1>1, <1>2, <1>4 DEF Verdict
<1> QED
  BY <1>5, <1>6, LedgerBegins

\* The manifest on disk is replaced by a draft.
LEMMA LedgerWrite ==
  ASSUME Inv, TInv, VerdictInv, SeqInv, ~ overlapped, NEW c \in Controllers, Write(c)
  PROVE  Ledger!Next \/ Ledger!vars' = Ledger!vars
<1> DEFINE m == manifest
           d == manifest'
           o == job[c].outcome
           i == job[c].stage
<1>1. d = job[c].draft /\ count' = count /\ files' = files /\ pc[c] = "writing"
  BY DEF Write, At, ghosts
<1>2. Follows(job[c], m, files) /\ m \in Manifests /\ m \in Good /\ job[c].findings \in BOOLEAN /\ Kept(m)
  BY <1>1, TInvIs DEF Situation, Rest, Jobs, SeqInv, Good
<1>3. Covered(m, files, count, Settler) /\ Vouched(files, count, Settler, kong) /\ m.effect \in [Effects -> States]
  BY <1>2, ManifestIs DEF VerdictInv
<1>4. Happened(count') = Happened(count)
  BY <1>1
<1>5. Len(m.stages) \in Nat /\ Len(m.stages) <= 12
  BY <1>2, KeptIs, PassedIs
<1>6. ASSUME NEW e \in Effects, d = WithEffect(m, e, "prepared"), Turn(m, Index(EffectStage[e]))
      PROVE  Ledger!Next
  <2>1. d.status = m.status /\ d.stages = m.stages /\ d.effect = [m.effect EXCEPT ![e] = "prepared"]
    BY <1>2, <1>6, EffectTypes DEF States
  <2>2. Announces(d) = Announces(m) \cup {e}
    BY <1>3, <2>1 DEF Announces
  <2>3. Verdict(m) = "open" /\ Verdict(d) = "open"
    BY <1>6, <2>1 DEF Verdict, Turn, Open
  <2>4. Cardinality(PassedStages(m)) = Len(m.stages) /\ Index(EffectStage[e]) = Len(m.stages) + 1
    BY <1>2, <1>5, <1>6, OpenCount DEF Turn
  <2>5. Index(EffectStage[e]) = Cardinality(PassedStages(m)) + 1 /\ PassedStages(d) = PassedStages(m)
    BY <2>1, <2>4, SameStages
  <2> QED
    BY <1>4, <2>2, <2>3, <2>5, LedgerAnnounces
<1>7. ASSUME NEW e \in Effects, NEW s \in {"observed", "unknown"}, d = WithEffect(m, e, s), Underway(m, e)
      PROVE  LedgerVars' = LedgerVars
  <2>1. d.status = m.status /\ d.stages = m.stages /\ d.effect = [m.effect EXCEPT ![e] = s] /\ m.effect[e] = "prepared"
    <3>1. m.effect[e] = "prepared"
      BY <1>7 DEF Underway
    <3>2. s \in States
      BY DEF States
    <3> QED
      BY <1>2, <1>7, <3>1, <3>2, EffectTypes
  <2>2. Announces(d) = Announces(m)
    BY <1>3, <2>1 DEF Announces
  <2>3. PassedStages(d) = PassedStages(m) /\ Verdict(d) = Verdict(m)
    BY <2>1, SameStages DEF Verdict
  <2> QED
    BY <1>4, <2>2, <2>3 DEF LedgerVars
<1>8. ASSUME d = WithStage(m, o, job[c]), o \in Outcomes, Ended(m, i, o, files)
      PROVE  Ledger!Next \/ LedgerVars' = LedgerVars
  <2>1. /\ d \in Manifests /\ d.effect = m.effect /\ d.stages = Append(m.stages, o)
        /\ d.status = (IF o \in {"failed", "rejected"} THEN o ELSE m.status)
    BY <1>2, <1>8, StageTypes
  <2>2. Announces(d) = Announces(m) /\ Verdict(m) = "open" /\ Open(m)
    BY <1>8, <2>1 DEF Announces, Ended, Open, Verdict
  <2>3. CASE o = "skipped"
    <3>1. Verdict(d) = Verdict(m) /\ PassedStages(d) = PassedStages(m)
      BY <1>2, <1>8, <2>1, <2>3, AppendCount DEF Verdict
    <3> QED
      BY <1>4, <2>2, <3>1 DEF LedgerVars
  <2>4. CASE o \in {"failed", "rejected"}
    <3>1. Verdict(d) \in {"failed", "rejected"} /\ PassedStages(d) = PassedStages(m)
      BY <1>2, <1>8, <2>1, <2>4, AppendCount DEF Verdict
    <3> QED
      BY <1>4, <2>2, <3>1, LedgerEnds
  <2>5. CASE o = "passed"
    <3> DEFINE n == Len(m.stages)
    <3>1. i = n + 1 /\ i <= 12 /\ n \in 0..11
      <4>1. i = n + 1 /\ i <= 12
        BY <1>8 DEF Ended
      <4>2. \A k \in Nat : k + 1 <= 12 => k \in 0..11
        OBVIOUS
      <4> QED
        BY <1>5, <4>1, <4>2
    <3>2. Advanced(m, i, o, d)
      BY <1>2, <1>8, <2>1, StageNext
    <3>3. Open(d) /\ Len(d.stages) = i
      BY <2>5, <3>2 DEF Advanced
    <3>4. Cardinality(PassedStages(m)) = n /\ Cardinality(PassedStages(d)) = n + 1
      BY <1>2, <1>5, <2>1, <2>2, <3>1, <3>3, OpenCount
    <3>5. ASSUME NEW e \in Effects, Index(EffectStage[e]) = n + 1 PROVE e \in Happened(count)
      <4>1. m.effect[e] = "observed"
        <5>1. Index(EffectStage[e]) = i
          BY <3>1, <3>5
        <5> QED
          BY <1>8, <2>5, <5>1 DEF Ended
      <4>2. e = "import" => count[e] = 1
        BY <1>3, <4>1 DEF Covered
      <4>3. e = "request" => count[e] = 1
        BY <1>3, <4>1 DEF Covered, Vouched
      <4>4. 1 > 0
        OBVIOUS
      <4> QED
        BY <4>2, <4>3, <4>4 DEF Effects, Happened
    <3>6. Verdict(d) = "open"
      BY <3>3 DEF Verdict, Open
    <3> HIDE DEF n
    <3> QED
      BY <1>4, <2>2, <3>1, <3>4, <3>5, <3>6, LedgerAdvances
  <2> QED
    BY <1>8, <2>3, <2>4, <2>5 DEF Outcomes
<1>9. ASSUME d = Final(m), Open(m), AllPassed(m)
      PROVE  Ledger!Next
  <2>1. d.status = "passed" /\ d.stages = m.stages /\ d.effect = m.effect
    BY <1>2, <1>9, FinalTypes
  <2>2. Cardinality(PassedStages(m)) = 12
    <3>1. 12 <= Len(m.stages)
      BY <1>2, <1>9, PassedIs
    <3>2. \A k \in Nat : 12 <= k /\ k <= 12 => k = 12
      OBVIOUS
    <3>3. Len(m.stages) = 12
      BY <1>5, <3>1, <3>2
    <3> QED
      BY <1>2, <1>5, <1>9, <3>3, OpenCount
  <2>3. Verdict(m) = "open" /\ Verdict(d) = "passed" /\ PassedStages(d) = PassedStages(m) /\ Announces(d) = Announces(m)
    BY <1>9, <2>1, SameStages DEF Verdict, Open, Announces
  <2> QED
    BY <1>4, <2>2, <2>3, LedgerEnds
<1>10. ASSUME d = WithRecovery(m), Stranded(m), AuditArtifacts \subseteq files
       PROVE  Ledger!Next
  <2>1. /\ d.status = "recovered" /\ d.stages = [m.stages EXCEPT ![8] = "recovered"]
        /\ d.effect = [m.effect EXCEPT !["request"] = "recovered"]
    BY <1>2, <1>10, RecoveryTypes
  <2>2. /\ m.status = "failed" /\ Len(m.stages) = 8 /\ m.stages[8] = "failed" /\ \A k \in 1..7 : m.stages[k] = "passed"
        /\ m.effect["request"] \in {"prepared", "unknown"}
    BY <1>2, <1>10, StrandedIs
  <2>3. DOMAIN m.stages = 1..8
    BY <1>2, <2>2, PassedIs
  <2>4. PassedStages(d) = PassedStages(m)
    BY <2>1, <2>2, <2>3 DEF PassedStages, StagePassed
  <2>5. Cardinality(PassedStages(m)) = 7
    <3>1. \A k \in 1..12 : k <= Len(m.stages) /\ m.stages[k] = "passed" <=> k <= 7
      BY <2>2
    <3>2. 7 \in 0..12
      OBVIOUS
    <3> QED
      BY <1>2, <3>1, <3>2, PassedCount
  <2>6. Announces(d) = Announces(m)
    BY <1>3, <2>1, <2>2 DEF Announces, Effects
  <2>7. "request" \in Happened(count)
    <3>1. count["request"] = 1
      BY <1>3, <1>10 DEF Vouched, AuditArtifacts
    <3>2. 1 > 0
      OBVIOUS
    <3> QED
      BY <3>1, <3>2 DEF Happened, Effects
  <2>8. Verdict(m) = "failed" /\ Verdict(d) = "recovered"
    BY <2>1, <2>2 DEF Verdict
  <2> QED
    BY <1>4, <2>4, <2>5, <2>6, <2>7, <2>8, LedgerRecovers
<1> HIDE DEF d
<1>11. \/ \E e \in Effects : d = WithEffect(m, e, "prepared") /\ Turn(m, Index(EffectStage[e]))
       \/ \E e \in Effects : \E s \in {"observed", "unknown"} : d = WithEffect(m, e, s) /\ Underway(m, e)
       \/ d = WithStage(m, o, job[c]) /\ o \in Outcomes /\ Ended(m, i, o, files)
       \/ d = Final(m) /\ Open(m) /\ AllPassed(m)
       \/ d = WithRecovery(m) /\ Stranded(m) /\ AuditArtifacts \subseteq files
  BY <1>1, <1>2, EffectIndex DEF Follows, Effects
<1> QED
  BY <1>6, <1>7, <1>8, <1>9, <1>10, <1>11, LedgerSame

\* While no controllers overlap, whatever is killed where, the run's manifest keeps the promises of RunLedger: a
\* stage with a remote effect passes only after the effect was announced and took place (record_effect, record_stage,
\* finalize, recover_audit).
THEOREM LedgerIsKept == Spec => KeepsLedger
<1>1. Init => Ledger!Init
  BY LedgerInit
<1>2. ASSUME AllInv, [Next]_vars PROVE [Ledger!Next \/ overlapped']_(Ledger!vars)
  <2>1. CASE overlapped'
    BY <2>1
  <2>2. CASE UNCHANGED vars
    <3>1. manifest' = manifest /\ count' = count
      BY <2>2 DEF vars, runFiles, ghosts
    <3> QED
      BY <3>1, LedgerSame DEF LedgerVars
  <2>3. ASSUME Next, ~ overlapped' PROVE Ledger!Next \/ Ledger!vars' = Ledger!vars
    <3>1. ~ overlapped
      BY <2>3, OverlapStays
    <3>2. CASE Adapter
      BY <1>2, <3>1, <3>2, LedgerAdapter DEF AllInv
    <3>3. ASSUME NEW c \in Controllers, Controller(c) PROVE Ledger!Next \/ Ledger!vars' = Ledger!vars
      <4>1. CASE manifest' = manifest /\ count' = count
        BY <4>1, LedgerSame DEF LedgerVars
      <4> QED
        BY <1>2, <3>1, <3>3, <4>1, Untouched, LedgerInitManifest, LedgerWrite, LedgerImport DEF AllInv
    <3> QED
      BY <2>3, <3>2, <3>3 DEF Next
  <2> QED
    BY <1>2, <2>1, <2>2, <2>3
<1> QED
  BY <1>1, <1>2, AllHold, PTL DEF Spec, KeepsLedger

-----------------------------------------------------------------------------
(* Without a kill, no run is stranded.                                     *)

LEMMA OpenAuthorized == ASSUME NEW m \in Good, Open(m), Clear(m) PROVE Authorized(m)
<1>1. m.status = "pending" /\ m \in Manifests /\ \A i \in DOMAIN m.stages : m.stages[i] = "passed"
  BY DEF Open, Good
<1>2. ~ Skipped(m)
  BY <1>1 DEF Skipped
<1>3. ~ Unresolved(m) /\ ~ Incomplete(m)
  BY DEF Clear, Done, Unresolved, Incomplete
<1> QED
  BY <1>1, <1>2, <1>3 DEF Authorized

\* A failed run whose row has no outcome has left nothing but, perhaps, the audit.
LEMMA FailedIsStranded ==
  ASSUME AllInv, ~ overlapped, manifest.status = "failed", row = "unknown"
  PROVE  AuditState # "refused"
<1>1. /\ Ledgered(manifest, files, row, Settler) /\ manifest \in Manifests /\ Kept(manifest)
      /\ Covered(manifest, files, count, Settler) /\ Vouched(files, count, Settler, kong)
  BY TInvIs DEF AllInv, SeqInv, Booked, Rest, Good, VerdictInv
<1>2. Settler = "none"
  BY DEF Settler
<1>3. "receipt" \notin files
  BY <1>1, <1>2 DEF Vouched
<1>4. ~ StagePassed(manifest, "executor")
  <2>1. StagePassed(manifest, "executor") => manifest.effect["request"] = "observed"
    BY <1>1, EffectIndex DEF Kept, Effects
  <2> QED
    BY <1>1, <1>3, <2>1 DEF Covered
<1>5. Stranded(manifest)
  BY <1>1, <1>4 DEF Ledgered
<1>6. files \cap NormalArtifacts = {}
  BY <1>1, <1>3 DEF Ledgered, NormalArtifacts
<1>7. files \cap AuditArtifacts \in {{}, {"audit-recovery"}}
  <2>1. "audit-recovery-report" \notin files /\ "audit-evaluation" \notin files
    BY <1>1, <1>2 DEF Ledgered
  <2> QED
    BY <2>1 DEF AuditArtifacts
<1> QED
  BY <1>5, <1>6, <1>7 DEF AuditState

\* A passed run is evaluated before its controller leaves.
LEMMA PassedPublishes ==
  ASSUME AllInv, ~ overlapped, manifest.status = "passed"
  PROVE  Publishable /\ ~ Skipped(manifest)
<1>1. /\ manifest \in Manifests /\ Kept(manifest) /\ Covered(manifest, files, count, Settler)
  BY TInvIs DEF AllInv, Rest, Good, VerdictInv
<1>2. AllPassed(manifest) /\ \A s \in Stages : StagePassed(manifest, s)
  BY <1>1 DEF Kept, AllPassed
<1>3. {"analysis-report", "proposal", "executor", EffectStage["request"]} \subseteq Stages
  BY StagesAre, EffectIndex DEF StageNames, Effects
<1>4. manifest.requests = 1 /\ manifest.effect["request"] = "observed"
  BY <1>1, <1>2, <1>3 DEF Kept, Effects
<1>5. {"receipt", "request-descriptor"} \subseteq files
  BY <1>1, <1>4 DEF Covered
<1>6. {"normalized", "report"} \subseteq files /\ "request-spec" \in files
  <2>1. Output["analysis-report"] \subseteq files /\ Output["proposal"] \subseteq files
    BY <1>1, <1>2, <1>3 DEF Covered
  <2> QED
    BY <2>1, OutputIs
<1>7. Publishable
  BY <1>4, <1>5, <1>6 DEF Publishable, ActionSent
<1>8. ~ Skipped(manifest)
  <2>1. 12 <= Len(manifest.stages) /\ Len(manifest.stages) <= 12 /\ \A i \in 1..12 : manifest.stages[i] = "passed"
    BY <1>1, <1>2, PassedIs, KeptIs
  <2>2. Len(manifest.stages) \in Nat /\ DOMAIN manifest.stages = 1..Len(manifest.stages)
    BY <1>1, PassedIs
  <2>3. \A n \in Nat : n <= 12 => \A i \in 1..n : i \in 1..12
    OBVIOUS
  <2>4. \A i \in DOMAIN manifest.stages : manifest.stages[i] = "passed"
    BY <2>1, <2>2, <2>3
  <2> QED
    BY <2>4 DEF Skipped
<1> QED
  BY <1>7, <1>8

\* A kill is not forgotten, while controllers do not overlap.
LEMMA KillStays == ASSUME Next, ~ overlapped', ~ killed' PROVE ~ killed
<1>1. ~ overlapped
  BY OverlapStays
<1>2. CASE Adapter
  BY <1>1, <1>2 DEF Adapter, AdapterDispatches, AdapterMintFails, AdapterSends, AdapterSettles, AdapterHearsNothing,
              AdapterDies, ghosts
<1>3. ASSUME NEW c \in Controllers, Controller(c) PROVE ~ killed
  <2>1. CASE Run(c) \/ Resume(c) \/ RecoverAudit(c)
    BY <2>1 DEF Run, Resume, RecoverAudit, Enter
  <2>2. CASE Kill(c) \/ InitManifest(c) \/ Write(c) \/ Import(c)
    BY <1>1, <2>2 DEF Kill, InitManifest, Write, Import, ghosts
  <2>3. CASE LocalStage(c) \/ RunnerStage(c) \/ StageFails(c) \/ Record(c) \/ Reread(c) \/ Pause(c) \/ Finalize(c)
    BY <2>3 DEF LocalStage, RunnerStage, StageFails, Record, Reread, Pause, Finalize, ghosts
  <2>4. CASE Scan(c) \/ Admit(c) \/ Intend(c) \/ AnnounceImport(c) \/ ObserveImport(c) \/ RecordImport(c)
    BY <2>4 DEF Scan, Admit, Intend, CreateOnce, AnnounceImport, ObserveImport, RecordImport, Resolve, ghosts
  <2>5. CASE Analyse(c) \/ LinkReport(c) \/ Propose(c) \/ Approve(c)
    BY <2>5 DEF Analyse, LinkReport, Propose, Approve, ghosts
  <2>6. CASE Executor(c)
    BY <2>6 DEF Executor, AnnounceRequest, CallAdapter, Receive, CheckResult, Describe, RecordRequest, Resolve, ghosts
  <2>7. CASE PublishRequest(c) \/ PublishBindings(c) \/ Evaluate(c)
    BY <2>7 DEF PublishRequest, PublishBindings, Evaluate, PublishOnce, ghosts
  <2>8. CASE Acquire(c) \/ WriteAudit(c) \/ Terminalize(c) \/ Report(c) \/ Limit(c) \/ BindRecovery(c)
    BY <2>8 DEF Acquire, WriteAudit, Terminalize, Report, Limit, BindRecovery, PublishOnce, ghosts
  <2> QED
    BY <1>3, <2>1, <2>2, <2>3, <2>4, <2>5, <2>6, <2>7, <2>8 DEF Controller, Recovery
<1> QED
  BY <1>2, <1>3 DEF Next

\* A controller that records the end of its stage leaves only a run that may go on.
LEMMA RecordLeaves ==
  ASSUME AllInv, ~ overlapped, NEW c \in Controllers, NEW o \in Outcomes, RecordStage(c, o), pc'[c] = "idle",
         Turn(manifest, job[c].stage) \/ Ended(manifest, job[c].stage, o, files)
  PROVE  Authorized(manifest)
<1> DEFINE m == manifest
           i == job[c].stage
<1>1. m \in Good /\ m \in Manifests /\ pc \in [Controllers -> Places]
  BY TInvIs DEF AllInv, Rest, Good
<1>2. CASE Turn(m, i)
  BY <1>1, <1>2, OpenAuthorized DEF Turn
<1>3. CASE Ended(m, i, o, files)
  <2>1. ~ Recordable(m, i, o) /\ o # "rejected"
    BY <1>1 DEF RecordStage, Draft, Goto, Continue
  <2>2. Open(m) /\ m.status = "pending" /\ i = Len(m.stages) + 1 /\ i <= 12
    BY <1>3 DEF Ended, Open
  <2>3. o = "passed" /\ ~ (/\ Checkpoint(StageOrder[i]) \subseteq files
                           /\ \A e \in Effects : EffectStage[e] = StageOrder[i] => m.effect[e] = "observed")
    BY <2>1, <2>2 DEF Recordable
  <2>4. "audit-recovery" \notin files
    BY <2>2 DEF AllInv, SeqInv, Booked, Ledgered, AuditArtifacts
  <2>5. i \in 1..12
    <3>1. Len(m.stages) \in Nat
      BY <1>1, PassedIs
    <3>2. \A n \in Nat : n + 1 <= 12 => n + 1 \in 1..12
      OBVIOUS
    <3> QED
      BY <2>2, <3>1, <3>2
  <2>6. ASSUME NEW e \in Effects, Index(EffectStage[e]) = i PROVE FALSE
    <3>1. m.effect[e] = "observed" /\ Output[EffectStage[e]] \subseteq files
      BY <1>3, <2>3, <2>6 DEF Ended
    <3>2. EffectStage[e] = StageOrder[i]
      BY <2>5, <2>6, EffectIndex, IndexIs
    <3>3. Checkpoint(StageOrder[i]) \subseteq files
      BY <2>4, <3>1, <3>2 DEF Checkpoint
    <3>4. \A d \in Effects : EffectStage[d] = StageOrder[i] => d = e
      BY <3>2, EffectIndex
    <3> QED
      BY <2>3, <3>1, <3>3, <3>4
  <2>7. Clear(m)
    BY <1>3, <2>6 DEF Ended, Clear
  <2> QED
    BY <1>1, <2>2, <2>7, OpenAuthorized
<1> QED
  BY <1>2, <1>3

LEMMA WriteLeaves ==
  ASSUME AllInv, ~ overlapped, NEW c \in Controllers, Write(c), pc'[c] = "idle", manifest'.status = "pending"
  PROVE  Skipped(manifest')
<1> DEFINE m == manifest
           d == job[c].draft
           o == job[c].outcome
<1>1. /\ manifest' = d /\ pc[c] = "writing" /\ Follows(job[c], m, files) /\ m \in Good /\ m \in Manifests
      /\ job[c].findings \in BOOLEAN /\ pc \in [Controllers -> Places]
  BY TInvIs DEF AllInv, Write, At, Situation, Rest, Jobs, SeqInv, Good
<1>2. job[c].then = "idle"
  BY <1>1, WriteGoes DEF AllInv
<1>3. CASE d = WithStage(m, o, job[c]) /\ o \in Outcomes /\ job[c].then = AfterRecord(o)
  <2>1. d.stages = Append(m.stages, o) /\ d \in Manifests /\ d.status = (IF o \in {"failed", "rejected"} THEN o ELSE m.status)
    BY <1>1, <1>3, StageTypes
  <2>2. o = "skipped"
    BY <1>1, <1>2, <1>3, <2>1 DEF AfterRecord, Outcomes
  <2>3. Len(m.stages) + 1 \in DOMAIN d.stages /\ d.stages[Len(m.stages) + 1] = "skipped"
    <3>1. Len(d.stages) = Len(m.stages) + 1 /\ d.stages[Len(m.stages) + 1] = o /\ Len(m.stages) \in Nat
          /\ DOMAIN d.stages = 1..Len(d.stages)
      BY <1>1, <1>3, <2>1, AppendIs, PassedIs
    <3>2. \A n \in Nat : n + 1 \in 1..(n + 1)
      OBVIOUS
    <3> QED
      BY <2>2, <3>1, <3>2
  <2> QED
    BY <1>1, <2>3 DEF Skipped
<1>4. CASE d = WithRecovery(m)
  BY <1>1, <1>4, RecoveryTypes
<1> QED
  BY <1>1, <1>2, <1>3, <1>4 DEF Follows

LEMMA LeavesAuthorized ==
  ASSUME AllInv, ~ overlapped, ~ overlapped', ~ killed', NEW c \in Controllers, Controller(c), pc'[c] = "idle",
         manifest'.status = "pending"
  PROVE  Authorized(manifest') \/ Skipped(manifest')
<1>1. /\ pc \in [Controllers -> Places] /\ manifest \in Good
      /\ Situation(pc[c], job[c], manifest, files) /\ Booked
  BY TInvIs DEF AllInv, Rest, SeqInv
<1>2. ASSUME NEW p, p # "idle", Goto(c, p) PROVE FALSE
  BY <1>1, <1>2 DEF Goto
<1>3. CASE Run(c) \/ Resume(c) \/ RecoverAudit(c) \/ Kill(c) \/ InitManifest(c)
  BY <1>2, <1>3 DEF Run, Resume, RecoverAudit, Enter, Kill, InitManifest, Continue
<1>4. CASE \/ RunnerStage(c) \/ Scan(c) \/ Admit(c) \/ Intend(c) \/ AnnounceImport(c) \/ Import(c)
           \/ ObserveImport(c) \/ RecordImport(c)
  BY <1>2, <1>4 DEF RunnerStage, Scan, Admit, Intend, CreateOnce, AnnounceImport, Announce, Import, ObserveImport,
                    RecordImport, Resolve, Draft, Conclude, Continue
<1>5. CASE Analyse(c) \/ LinkReport(c) \/ Propose(c) \/ Approve(c) \/ Executor(c)
  BY <1>2, <1>5 DEF Analyse, LinkReport, Propose, Approve, Executor, AnnounceRequest, Announce, CallAdapter, Receive,
                    CheckResult, Describe, RecordRequest, Resolve, Draft, Conclude, Continue
<1>6. CASE LocalStage(c) \/ StageFails(c)
  <2>1. PICK o \in {"passed", "failed"} : RecordStage(c, o)
    BY <1>6 DEF LocalStage, StageFails
  <2>2. pc[c] = "staging" /\ manifest' = manifest /\ o \in Outcomes
    BY <1>6 DEF LocalStage, StageFails, InStage, At, runFiles, Outcomes
  <2>3. Turn(manifest, job[c].stage)
    BY <1>1, <2>2 DEF Situation
  <2> QED
    BY <2>1, <2>2, <2>3, RecordLeaves
<1>7. CASE Record(c)
  <2>1. pc[c] = "recording" /\ manifest' = manifest /\ RecordStage(c, job[c].outcome)
    BY <1>7 DEF Record, At, runFiles
  <2>2. job[c].outcome \in Outcomes
    BY <2>1, TInvIs DEF AllInv, JobFits
  <2>3. Ended(manifest, job[c].stage, job[c].outcome, files)
    BY <1>1, <2>1 DEF Situation
  <2> QED
    BY <2>1, <2>2, <2>3, RecordLeaves
<1>8. CASE Write(c)
  BY <1>8, WriteLeaves
<1>9. CASE Reread(c) \/ Pause(c) \/ Finalize(c)
  <2>1. manifest' = manifest /\ pc[c] \in {"recorded", "staging", "finalizing"}
    BY <1>9 DEF Reread, Pause, Finalize, InStage, At, runFiles
  <2>2. Open(manifest) /\ Clear(manifest)
    BY <1>1, <2>1 DEF Situation, Turn
  <2> QED
    BY <1>1, <2>1, <2>2, OpenAuthorized
<1>10. CASE PublishRequest(c)
  <2>1. manifest' = manifest /\ pc[c] = "publishing"
    BY <1>10 DEF PublishRequest, PublishOnce, At
  <2>2. Open(manifest) /\ Clear(manifest)
    BY <1>1, <2>1 DEF Situation
  <2> QED
    BY <1>1, <2>1, <2>2, OpenAuthorized
<1>11. CASE PublishBindings(c) \/ Evaluate(c)
  <2>1. manifest' = manifest /\ pc[c] \in {"binding", "evaluating"}
    BY <1>11 DEF PublishBindings, Evaluate, PublishOnce, At
  <2>2. "request" \in files
    BY <1>1, <2>1 DEF Situation
  <2> QED
    BY <1>1, <2>1, <2>2 DEF Booked, Ledgered
<1>12. CASE Acquire(c) \/ WriteAudit(c) \/ Terminalize(c) \/ Report(c) \/ Limit(c) \/ BindRecovery(c)
  <2>1. manifest' = manifest
        /\ pc[c] \in {"acquiring", "audited", "terminalizing", "reporting", "limiting", "recovering"}
    BY <1>12 DEF Acquire, WriteAudit, Terminalize, Report, Limit, BindRecovery, PublishOnce, At, runFiles
  <2>2. manifest.status = "failed"
    BY <1>1, <2>1 DEF Situation, Stranded
  <2> QED
    BY <2>1, <2>2
<1> QED
  BY <1>3, <1>4, <1>5, <1>6, <1>7, <1>8, <1>9, <1>10, <1>11, <1>12 DEF Controller, Recovery

Publishing == {"publishing", "binding", "evaluating"}

\* Only a controller's own publication moves it on.
LEMMA PublishingIs ==
  ASSUME NEW c \in Controllers, Controller(c), pc[c] \in Publishing
  PROVE  Kill(c) \/ (pc[c] = "publishing" /\ PublishRequest(c)) \/ (pc[c] = "binding" /\ PublishBindings(c))
         \/ (pc[c] = "evaluating" /\ Evaluate(c))
BY DEF Publishing, Controller, Run, Resume, RecoverAudit, Enter, InitManifest, Write, LocalStage, RunnerStage,
       StageFails, Scan, Admit, Intend, AnnounceImport, Import, ObserveImport, RecordImport, Analyse, LinkReport,
       Propose, Pause, Approve, Executor, AnnounceRequest, CallAdapter, Receive, CheckResult, Describe, RecordRequest,
       Record, Reread, Finalize, PublishRequest, PublishBindings, Evaluate, Recovery, Acquire, WriteAudit,
       Terminalize, Report, Limit, BindRecovery, InStage, At

\* Who is outside can only enter, and beside another that is an overlap.
LEMMA Entering ==
  ASSUME NEW c \in Controllers, Controller(c), pc[c] = "idle", NEW d \in Controllers, pc[d] # "idle"
  PROVE  overlapped'
<1>1. Run(c) \/ Resume(c) \/ RecoverAudit(c)
  BY DEF Controller, InitManifest, Write, LocalStage, RunnerStage,
         StageFails, Scan, Admit, Intend, AnnounceImport, Import, ObserveImport, RecordImport, Analyse, LinkReport,
         Propose, Pause, Approve, Executor, AnnounceRequest, CallAdapter, Receive, CheckResult, Describe, RecordRequest,
         Record, Reread, Finalize, PublishRequest, PublishBindings, Evaluate, Recovery, Acquire, WriteAudit,
         Terminalize, Report, Limit, BindRecovery, Kill, InStage, At
<1> QED
  BY <1>1 DEF Run, Resume, RecoverAudit, Enter, At

Evaluated(m, f, p) ==
  m.status = "passed" /\ ~ m.findings =>
    "charter-evaluation" \in f \/ \E c \in Controllers : p[c] \in Publishing

LEMMA PublishesOn ==
  ASSUME AllInv, ~ overlapped, ~ overlapped', ~ killed', NEW c \in Controllers, Controller(c), pc[c] \in Publishing,
         manifest.status = "passed", ~ manifest.findings, manifest' = manifest
  PROVE  Evaluated(manifest', files', pc')
<1>1. /\ pc \in [Controllers -> Places] /\ Situation(pc[c], job[c], manifest, files) /\ Booked
      /\ Publishable /\ ~ Skipped(manifest)
  BY TInvIs, PassedPublishes DEF AllInv, SeqInv
<1>2. ASSUME NEW p \in Publishing, Continue(c, p) PROVE Evaluated(manifest', files', pc')
  <2>1. pc'[c] = p
    BY <1>1, <1>2 DEF Continue, Goto
  <2> QED
    BY <2>1 DEF Evaluated
<1>3. ~ Kill(c)
  BY DEF Kill
<1>4. CASE pc[c] = "publishing" /\ PublishRequest(c)
  <2>1. "request" \notin files
    BY <1>1, <1>4 DEF Situation, Open
  <2> QED
    BY <1>1, <1>2, <1>4, <2>1 DEF PublishRequest, PublishOnce, Publishing
<1>5. CASE pc[c] = "binding" /\ PublishBindings(c)
  <2>1. "artifact-bindings" \notin files
    BY <1>1, <1>5 DEF Situation
  <2> QED
    BY <1>2, <1>5, <2>1 DEF PublishBindings, PublishOnce, Publishing
<1>6. CASE pc[c] = "evaluating" /\ Evaluate(c)
  <2>1. {"normalized", "report", "request", "artifact-bindings"} \subseteq files
    BY <1>1, <1>6 DEF Situation
  <2>2. Evaluable
    BY <1>1, <2>1 DEF Evaluable, Booked
  <2> QED
    BY <1>6, <2>2 DEF Evaluate, Evaluated
<1> QED
  BY <1>3, <1>4, <1>5, <1>6, PublishingIs

LEMMA WritePublishes ==
  ASSUME AllInv, ~ overlapped, NEW c \in Controllers, Write(c)
  PROVE  Evaluated(manifest', files', pc')
<1> SUFFICES ASSUME manifest'.status = "passed" PROVE pc'[c] \in Publishing
  BY DEF Evaluated
<1> DEFINE m == manifest
           d == job[c].draft
           o == job[c].outcome
<1>1. /\ manifest' = d /\ pc[c] = "writing" /\ Follows(job[c], m, files) /\ m \in Good /\ m \in Manifests
      /\ job[c].findings \in BOOLEAN /\ pc \in [Controllers -> Places]
  BY TInvIs DEF AllInv, Write, At, Situation, Rest, Jobs, SeqInv, Good
<1>2. ASSUME NEW e \in Effects, NEW s \in {"prepared", "observed", "unknown"}, d = WithEffect(m, e, s), m.status = "pending"
      PROVE  FALSE
  <2>1. s \in States
    BY DEF States
  <2>2. WithEffect(m, e, s).status = m.status
    BY <1>1, <2>1, EffectTypes
  <2>3. manifest' = WithEffect(m, e, s)
    BY <1>1, <1>2
  <2> QED
    BY <1>2, <2>2, <2>3
<1>3. ASSUME d = WithStage(m, o, job[c]), o \in Outcomes, m.status = "pending" PROVE FALSE
  <2>1. d.status = (IF o \in {"failed", "rejected"} THEN o ELSE m.status)
    BY <1>1, <1>3, StageTypes
  <2> QED
    BY <1>1, <1>3, <2>1
<1>4. d # WithRecovery(m)
  BY <1>1, RecoveryTypes
<1>5. job[c].then = "publishing"
  BY <1>1, <1>2, <1>3, <1>4 DEF Follows, Turn, Underway, Ended, Open, Effects
<1>6. pc' = [pc EXCEPT ![c] = "publishing"]
  BY <1>5, WriteGoes DEF AllInv
<1> QED
  BY <1>1, <1>6 DEF Publishing

QuietInv == AllInv /\ Quietly

LEMMA QuietInit == Init => Quietly
<1> SUFFICES ASSUME Init PROVE Quietly
  OBVIOUS
<1>1. manifest.status = "none"
  BY DEF Init, NoManifest
<1> QED
  BY <1>1 DEF Quietly

LEMMA QuietNext == ASSUME AllInv, Quietly, [Next]_vars PROVE Quietly'
<1> SUFFICES ASSUME ~ overlapped', ~ killed' PROVE Quietly'
  BY DEF Quietly
<1>1. CASE UNCHANGED vars
  BY <1>1 DEF Quietly, vars, runFiles, shells, ghosts, Resting, At, Authorized, Skipped, Unresolved, Incomplete, StagePassed
<1>2. CASE Next
  <2>1. ~ overlapped /\ ~ killed
    BY <1>2, OverlapStays, KillStays
  <2>2. Evaluated(manifest, files, pc)
    BY <2>1 DEF Quietly, Evaluated, Publishing
  <2>3. Resting /\ manifest.status = "pending" => Authorized(manifest) \/ Skipped(manifest)
    BY <2>1 DEF Quietly
  <2>4. Evaluated(manifest', files', pc') /\ (Resting' /\ manifest'.status = "pending" => Authorized(manifest') \/ Skipped(manifest'))
        => Quietly'
    BY DEF Quietly, Evaluated, Publishing
  <2>5. CASE Adapter
    <3>1. manifest' = manifest /\ files' = files /\ pc' = pc
      BY <2>5 DEF Adapter, AdapterDispatches, AdapterMintFails, AdapterSends, AdapterSettles, AdapterHearsNothing,
                  AdapterDies, runFiles, shells
    <3>2. Resting' = Resting
      BY <3>1 DEF Resting, At
    <3> QED
      BY <2>2, <2>3, <2>4, <3>1, <3>2
  <2>6. ASSUME NEW c \in Controllers, Controller(c) PROVE Quietly'
    <3>1. Resting' /\ manifest'.status = "pending" => Authorized(manifest') \/ Skipped(manifest')
      BY <2>1, <2>6, LeavesAuthorized DEF Resting, At
    <3>2. Evaluated(manifest', files', pc')
      <4>1. CASE Write(c)
        BY <2>1, <4>1, WritePublishes
      <4>2. CASE InitManifest(c)
        <5>1. manifest'.status = "pending"
          BY <4>2, FreshTypes DEF InitManifest
        <5> QED
          BY <5>1 DEF Evaluated
      <4>3. CASE manifest' = manifest
        <5>1. CASE manifest.status = "passed" /\ ~ manifest.findings
          <6>1. CASE "charter-evaluation" \in files
            BY <2>6, <6>1, FilesStay DEF Evaluated
          <6>2. CASE pc[c] \in Publishing
            BY <2>1, <2>6, <4>3, <5>1, <6>2, PublishesOn
          <6>3. CASE \E d \in Controllers : d # c /\ pc[d] \in Publishing
            <7>1. PICK d \in Controllers : d # c /\ pc[d] \in Publishing
              BY <6>3
            <7>2. pc[d] # "idle"
              BY <7>1 DEF Publishing
            <7>3. pc[c] = "idle"
              BY <2>1, <7>1, <7>2, Alone DEF AllInv
            <7> QED
              BY <2>6, <7>2, <7>3, Entering
          <6> QED
            BY <2>2, <5>1, <6>1, <6>2, <6>3 DEF Evaluated
        <5>2. CASE ~ (manifest.status = "passed" /\ ~ manifest.findings)
          BY <4>3, <5>2 DEF Evaluated
        <5> QED
          BY <5>1, <5>2
      <4>4. Import(c) => manifest' = manifest
        BY DEF Import, runFiles
      <4> QED
        BY <2>6, <4>1, <4>2, <4>3, <4>4, Untouched
    <3> QED
      BY <2>4, <3>1, <3>2
  <2> QED
    BY <1>2, <2>5, <2>6 DEF Next
<1> QED
  BY <1>1, <1>2

\* Without a kill no run is stranded: every error path of the shell leaves a run that may go on, a published verdict or
\* a failure that can be recovered from the log (advance_stage, production_stage, publish_terminal_artifacts).
THEOREM NobodyStranded == Spec => []NothingStranded
<1>1. Init => Quietly
  BY QuietInit
<1>2. AllInv /\ Quietly /\ [Next]_vars => Quietly'
  BY QuietNext
<1>3. AllInv /\ Quietly => NothingStranded
  <2> SUFFICES ASSUME AllInv, Quietly, Resting, ~ killed, ~ overlapped PROVE NothingStranded
    BY DEF NothingStranded
  <2>1. \A c \in Controllers : pc[c] = "idle"
    BY DEF Resting, At
  <2> QED
    BY <2>1, FailedIsStranded DEF Quietly, NothingStranded
<1> QED
  BY <1>1, <1>2, <1>3, AllHold, PTL DEF Spec
==============================================================================
