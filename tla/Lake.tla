-------------------------------- MODULE Lake --------------------------------
(***************************************************************************)
(* The findings lake: scripts/scan-and-import.sh runs the scanners of      *)
(* src/scanners over their targets, redacts each report and reimports it   *)
(* into one DefectDojo test per scanner.  An import may close what its     *)
(* report does not contain, which is right when the scanner looked and     *)
(* found nothing and wrong when it never looked.                           *)
(*                                                                         *)
(* All runs share OUT_DIR, so a raw report, a status sidecar or a          *)
(* sanitized report may be another run's.  A run may be killed while its   *)
(* wrapper, or its curl, goes on with the lock it inherited.  Contents of  *)
(* reports are sets of findings with the way their path is spelled;        *)
(* DefectDojo is external.                                                 *)
(***************************************************************************)
EXTENDS Naturals, Sequences, FiniteSets

CONSTANTS
  Runs,       \* invocations of scan-and-import.sh
  Order,      \* SCANNERS, the sequence of tools a run goes through
  Kind,       \* tool -> "semgrep", "trivy" or "nuclei" (zap is as nuclei)
  Findings,   \* what a scanner can report
  Page,       \* findings one query of verify-lake.sh --locator-scheme reads
  Changes     \* bound: how often a target changes, goes away or comes back

Tools == {Order[i] : i \in DOMAIN Order}
Spellings == {"relative", "absolute"}
Keys == Findings \X Spellings       \* what DefectDojo identifies a finding by

LakeAssumption ==
  /\ Order \in Seq(Tools) /\ Order # <<>>
  /\ \A t \in Tools : Kind[t] \in {"semgrep", "trivy", "nuclei"}
  /\ IsFiniteSet(Findings) /\ Page \in Nat \ {0} /\ Changes \in Nat

VARIABLES
  present,    \* tool -> the findings its target really has
  up,         \* does the scanned web application answer
  changes,    \* how often the targets changed so far
  lake,       \* tool -> key -> "none", "active" or "mitigated"
  tested,     \* the tools whose DefectDojo test exists
  raw,        \* OUT_DIR/<tool>.json: a Report
  sidecar,    \* OUT_DIR/<tool>.json.status.json
  san,        \* OUT_DIR/<tool>.san.json: a Report
  run         \* Runs -> what the shell holds, see Idle

files == <<raw, sidecar, san>>
targets == <<present, up, changes>>
lakeVars == <<targets, lake, tested, raw, sidecar, san, run>>

\* What a report says, and of what: by, the run whose scanner wrote it; truth, the
\* findings that were there all the time it looked; proof, whether the wrapper found
\* after all its checks that the scan is one to rely on.
Reports == [by : Runs \cup {"nobody"}, keys : SUBSET Keys, truth : SUBSET Findings, proof : BOOLEAN]
NoReport == [by |-> "nobody", keys |-> {}, truth |-> {}, proof |-> FALSE]

NoSidecar == [status |-> "missing", contact |-> FALSE, reported |-> 0]
Failed(n) == [status |-> "error", contact |-> FALSE, reported |-> n]

\* What a run holds.  good, for the properties: the tools whose own report it filed in full.
Idle == [pc |-> "idle", at |-> 1, orphan |-> FALSE, close |-> FALSE, whole |-> TRUE,
         payload |-> NoReport, base |-> [k \in Keys |-> "none"], answer |-> <<>>,
         failed |-> FALSE, good |-> {}]

\* Runs that hold the lock: the descriptor is inherited, so an orphaned wrapper or
\* curl keeps it.
Over == {"idle", "refused", "done", "killed"}
Holds(r) == run[r].pc \notin Over

Tool(r) == Order[run[r].at]
Active(t) == {k \in Keys : lake[t][k] = "active"}

LakeInit ==
  /\ present \in [Tools -> SUBSET Findings]
  /\ up = TRUE /\ changes = 0
  \* semgrep findings imported before the wrapper was made mode-independent may be absolute
  /\ \E old \in [Tools -> {{}} \cup {{k} : k \in Keys}] :
       /\ \A t \in Tools : \A k \in old[t] : k[2] = "absolute" => Kind[t] = "semgrep"
       /\ lake = [t \in Tools |-> [k \in Keys |-> IF k \in old[t] THEN "active" ELSE "none"]]
       /\ tested = {t \in Tools : old[t] # {}}
  /\ raw = [t \in Tools |-> NoReport] /\ san = [t \in Tools |-> NoReport]
  /\ sidecar = [t \in Tools |-> NoSidecar]
  /\ run = [r \in Runs |-> Idle]

-----------------------------------------------------------------------------
(* The targets.  A source tree is pinned while it is scanned; the web       *)
(* application may go away and come back at any time.                       *)

Scanning(t) == \E r \in Runs : run[r].pc = "scanning" /\ Tool(r) = t

Change(t, f) ==
  /\ ~Scanning(t)
  /\ changes < Changes /\ changes' = changes + 1
  /\ present' = [present EXCEPT ![t] = IF f \in @ THEN @ \ {f} ELSE @ \cup {f}]
  /\ UNCHANGED <<up, lake, tested, files, run>>

Restart ==
  /\ changes < Changes /\ changes' = changes + 1
  /\ up' = ~up
  /\ run' = [r \in Runs |-> [run[r] EXCEPT !.whole = @ /\ (run[r].pc = "scanning" => up')]]
  /\ UNCHANGED <<present, lake, tested, files>>

-----------------------------------------------------------------------------
(* scan-and-import.sh                                                       *)

\* flock -n: another run in OUT_DIR makes this one exit with 75.
Start(r) ==
  /\ run[r].pc = "idle"
  /\ run' = [run EXCEPT ![r].pc = IF \E q \in Runs : Holds(q) THEN "refused" ELSE "next"]
  /\ UNCHANGED <<targets, lake, tested, files>>

\* Seeded fault: the sidecar of an earlier run is left in place.
ClearedNot(t) == sidecar
Cleared(t) == [sidecar EXCEPT ![t] = NoSidecar]

\* On to the next tool, or to the exit; the variables of the shell's loop are set anew.
Onward(state) ==
  [Idle EXCEPT !.pc = IF state.at = Len(Order) THEN "done" ELSE "next",
               !.at = IF state.at = Len(Order) THEN 1 ELSE state.at + 1,
               !.failed = state.failed, !.good = state.good]

Dead == [Idle EXCEPT !.pc = "killed"]

Failing(state) == Onward([state EXCEPT !.failed = TRUE])
Fail(r) == run' = [run EXCEPT ![r] = Failing(@)]

Clear(r) ==
  /\ run[r].pc = "next"
  /\ sidecar' = Cleared(Tool(r))
  /\ run' = [run EXCEPT ![r].pc = "wrapper"]
  /\ UNCHANGED <<targets, lake, tested, raw, san>>

\* The end of the child the shell waits for: an orphan's shell is gone.
Back(r, state) == run' = [run EXCEPT ![r] = IF @.orphan THEN Dead ELSE state]

\* The wrapper gives up before it scans: before its trap is set there is no sidecar,
\* after it the sidecar counts whatever report lies in OUT_DIR.
Refuse(r) ==
  LET t == Tool(r) IN
  /\ run[r].pc = "wrapper"
  /\ sidecar' \in {sidecar, [sidecar EXCEPT ![t] = Failed(Cardinality(raw[t].keys))]}
  /\ run' = [run EXCEPT ![r].pc = "wrapped"]
  /\ UNCHANGED <<targets, lake, tested, raw, san>>

\* The redirection of the scanner's output truncates the report.
Launch(r) ==
  LET t == Tool(r) IN
  /\ run[r].pc = "wrapper"
  /\ raw' = [raw EXCEPT ![t] = [NoReport EXCEPT !.by = r]]
  /\ run' = [run EXCEPT ![r].pc = "scanning", ![r].whole = up]
  /\ UNCHANGED <<targets, lake, tested, sidecar, san>>

\* The wrapper sees an error: a bad exit, no report, parse errors, a path it cannot
\* make relative, a target that does not answer afterwards.
ScanFails(r) ==
  LET t == Tool(r) IN
  /\ run[r].pc = "scanning"
  /\ sidecar' = [sidecar EXCEPT ![t] = Failed(Cardinality(raw[t].keys))]
  /\ Back(r, [run[r] EXCEPT !.pc = "wrapped"])
  /\ UNCHANGED <<targets, lake, tested, raw, san>>

\* What the scanner may have found.  nuclei skips a host that does not answer and still
\* succeeds; trivy reports only the classes TRIVY_SCANNERS names; semgrep's wrapper
\* refuses a report with errors.
Found(t, r) == IF Kind[t] = "trivy" \/ (Kind[t] = "nuclei" /\ ~run[r].whole)
               THEN SUBSET present[t] ELSE {present[t]}

\* Proof of contact: nuclei's target answers after the scan; semgrep scanned files and
\* trivy saw files in the tree.
Contacted(t) == Kind[t] = "nuclei" => up

ScanEnds(r) ==
  LET t == Tool(r) IN
  /\ run[r].pc = "scanning"
  /\ \E found \in Found(t, r) :
       /\ Contacted(t)
       /\ raw' = [raw EXCEPT ![t] = [by |-> r, keys |-> found \X {"relative"},
                                     truth |-> present[t], proof |-> TRUE]]
       /\ sidecar' = [sidecar EXCEPT ![t] = [status |-> "ok", contact |-> TRUE,
                                             reported |-> Cardinality(found)]]
  /\ Back(r, [run[r] EXCEPT !.pc = "wrapped"])
  /\ UNCHANGED <<targets, lake, tested, san>>

\* No sidecar, or one that does not say ok: the source is counted as failed.
Skip(r) ==
  /\ run[r].pc = "wrapped"
  /\ sidecar[Tool(r)].status # "ok"
  /\ Fail(r)
  /\ UNCHANGED <<targets, lake, tested, files>>

MayClose(s) == s.status = "ok" /\ s.contact /\ s.reported > 0

\* redact-report.sh keeps every locator; then close_decision.
Redact(r) ==
  LET t == Tool(r) IN
  /\ run[r].pc = "wrapped"
  /\ sidecar[t].status = "ok"
  /\ san' = [san EXCEPT ![t] = raw[t]]
  /\ run' = [run EXCEPT ![r].pc = "decided", ![r].close = MayClose(sidecar[t])]
  /\ UNCHANGED <<targets, lake, tested, raw, sidecar>>

RedactFails(r) ==
  /\ run[r].pc = "wrapped"
  /\ sidecar[Tool(r)].status = "ok"
  /\ san' = [san EXCEPT ![Tool(r)] = NoReport]
  /\ Fail(r)
  /\ UNCHANGED <<targets, lake, tested, raw, sidecar>>

\* How a set of keys spells its paths.
Scheme(keys) == CASE \E k \in keys : k[2] = "absolute" -> "absolute"
                  [] keys = {} -> "empty"
                  [] OTHER -> "relative"

\* verify-lake.sh --locator-scheme: the first page of the active findings, or unknown.
LakeSchemes(t) ==
  {"unknown"} \cup {Scheme(page) : page \in {p \in SUBSET Active(t) :
                      Cardinality(p) = IF Cardinality(Active(t)) < Page
                                       THEN Cardinality(Active(t)) ELSE Page}}

\* A report only semgrep's has paths the shell can read.
Incoming(t) == IF Kind[t] = "semgrep" THEN Scheme(san[t].keys) ELSE "unknown"

Rekeys(incoming, stored) == incoming = "relative" /\ stored = "absolute"

Post(r) ==
  LET t == Tool(r) IN
  /\ run[r].pc = "decided"
  /\ \E stored \in (IF run[r].close THEN LakeSchemes(t) ELSE {"unknown"}) :
       run' = [run EXCEPT ![r].pc = "importing",
                          ![r].close = @ /\ ~Rekeys(Incoming(t), stored),
                          ![r].payload = san[t],
                          ![r].base = lake[t]]
  /\ UNCHANGED <<targets, lake, tested, files>>

\* import-report.sh refuses, cannot log in, or gets no usable answer.
ImportFails(r) ==
  /\ run[r].pc = "importing"
  /\ Back(r, Failing(run[r]))
  /\ UNCHANGED <<targets, lake, tested, files>>

\* DefectDojo files what it could parse, reactivates what it had mitigated, and closes
\* what it knew as active and did not find in the report.
Filed(r, kept) ==
  [k \in Keys |-> CASE k \in kept -> "active"
                    [] k \notin kept /\ run[r].close /\ run[r].base[k] = "active" -> "mitigated"
                    [] OTHER -> lake[Tool(r)][k]]

\* created + reactivated + untouched; on the first import into a test, statistics.after.
Count(r, kept, was) == Cardinality({k \in kept : run[r].base[k] = was})
Matched(r, kept) == Count(r, kept, "none") + Count(r, kept, "mitigated") + Count(r, kept, "active")

\* Its answer: the statistics, and whether deduplication had finished.
Import(r) ==
  LET t == Tool(r) IN
  /\ run[r].pc = "importing"
  /\ \E kept \in SUBSET run[r].payload.keys, complete \in BOOLEAN :
       /\ lake' = [lake EXCEPT ![t] = Filed(r, kept)]
       /\ Back(r, [run[r] EXCEPT
            !.pc = "imported",
            !.answer = [complete |-> complete,
                        matched |-> IF t \in tested
                                    THEN Matched(r, kept) ELSE Cardinality(kept)],
            !.good = IF run[r].payload.by = r /\ kept = run[r].payload.keys
                     THEN @ \cup {t} ELSE @])
  /\ tested' = tested \cup {t}
  /\ UNCHANGED <<targets, files>>

\* Seeded fault: a response with other counts is good enough.
PassesGateAlways(r) == run[r].answer.complete
PassesGate(r) == /\ run[r].answer.complete
                 /\ run[r].answer.matched = sidecar[Tool(r)].reported

Gate(r) ==
  /\ run[r].pc = "imported"
  /\ IF PassesGate(r) THEN run' = [run EXCEPT ![r] = Onward(@)] ELSE Fail(r)
  /\ UNCHANGED <<targets, lake, tested, files>>

\* The shell dies, and its child goes on; or both die.
KillShell(r) ==
  /\ run[r].pc \notin Over /\ ~run[r].orphan
  /\ run' = [run EXCEPT ![r] = IF @.pc \in {"scanning", "importing"}
                               THEN [@ EXCEPT !.orphan = TRUE] ELSE Dead]
  /\ UNCHANGED <<targets, lake, tested, files>>

Crash(r) ==
  /\ run[r].pc \in {"scanning", "importing"}
  /\ run' = [run EXCEPT ![r] = Dead]
  /\ UNCHANGED <<targets, lake, tested, files>>

-----------------------------------------------------------------------------
Wrapper(r) == Refuse(r) \/ Launch(r) \/ ScanFails(r) \/ ScanEnds(r)
Shell(r) ==
  \/ Start(r) \/ Clear(r) \/ Wrapper(r) \/ Skip(r) \/ Redact(r) \/ RedactFails(r)
  \/ Post(r) \/ ImportFails(r) \/ Import(r) \/ Gate(r)

LakeNext ==
  \/ \E t \in Tools, f \in Findings : Change(t, f)
  \/ Restart
  \/ \E r \in Runs : Shell(r) \/ KillShell(r) \/ Crash(r)

LakeSpec == LakeInit /\ [][LakeNext]_lakeVars

-----------------------------------------------------------------------------
LakeTypeOK ==
  /\ present \in [Tools -> SUBSET Findings] /\ up \in BOOLEAN
  /\ lake \in [Tools -> [Keys -> {"none", "active", "mitigated"}]]
  /\ tested \subseteq Tools
  /\ \A t \in Tools : raw[t] \in Reports /\ san[t] \in Reports

Closes(t, k) == lake[t][k] = "active" /\ lake'[t][k] = "mitigated"

\* Only the report of a scan of this run, which the wrapper found to have reached its
\* target and which contains something, closes findings: not what an earlier run, a run
\* that was killed, or another run at the same time left in OUT_DIR.
ClosedOnEvidence ==
  [][\A t \in Tools, k \in Keys : Closes(t, k) =>
       \E r \in Runs : /\ run[r].pc = "importing" /\ Tool(r) = t
                       /\ run[r].payload.by = r
                       /\ run[r].payload.proof
                       /\ run[r].payload.keys # {}]_lakeVars

\* A run that exits with 0 has filed everything its own scanners reported.
ZeroMeansLanded ==
  \A r \in Runs : run[r].pc = "done" /\ ~run[r].failed => run[r].good = Tools

\* A finding the scanner found in the tree is not closed because its path is spelled
\* another way: "no remediation that did not happen is recorded".
NoFalseRemediation ==
  [][\A t \in Tools, k \in Keys : Closes(t, k) =>
       \A r \in Runs : run[r].pc = "importing" /\ Tool(r) = t =>
         k \in run[r].payload.keys \/ k[1] \notin run[r].payload.truth]_lakeVars
=============================================================================
