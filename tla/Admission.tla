------------------------------ MODULE Admission ------------------------------
(***************************************************************************)
(* How the fixture scan (scripts/workbench-fixture-b0-scan.py) comes to    *)
(* the capability its runner scans with, and what is made of a report.     *)
(*                                                                         *)
(* The readiness is looked at first: the image pins, the frozen policy and *)
(* its files, the prepared dependencies (scanner_contracts,                *)
(* prepared_deps).  Then the pins and the policy are read again, the pins  *)
(* by another parser, and the database from whatever is prepared.  Nothing *)
(* is locked: anyone may edit a file in between.  A report is normalized   *)
(* record by record (normalize).                                           *)
(***************************************************************************)
EXTENDS Naturals, Sequences, FiniteSets

LOCAL INSTANCE SequencesExt

CONSTANTS
  Digests,    \* what the frozen files may contain, by their digests
  PinFiles,   \* the pin files: sequences of [engine, image, form |-> "quoted", "bare" or "indented"]
  Snapshots,  \* the databases that may be prepared: [digest, whole |-> what the readiness asks of it]
  Reports,    \* the reports: [complete, parts |-> sequence of [at |-> a place, raw |-> records]]
  MaxEdits    \* bound: the edits while a scan is set up

Engines == {"codeql", "semgrep", "trivy"}

\* _B0_POLICY_FILES, by the digest's key.
FilesOf(e) == CASE e = "codeql"  -> {"distribution", "query_suite", "database_creation_policy"}
                [] e = "semgrep" -> {"ruleset"}
                [] e = "trivy"   -> {"db_snapshot"}
PolicyFiles == UNION {FilesOf(e) : e \in Engines}

\* An image is [at, digest]: "none" for a tag that is not pinned, "malformed" for what follows
\* "@sha256:" without being a digest.
Marked(i) == i.digest # "none"
Pinned(i) == i.digest \notin {"none", "malformed"}
NoImage   == [at |-> "", digest |-> "none"]

AdmissionAssumption == IsFiniteSet(Digests) /\ MaxEdits \in Nat

VARIABLES
  pinned, policy, contents, prepared,   \* image-pins.env, policy.json, the files it names, prepared-deps
  step,                                 \* how far the scan is
  seen,                                 \* what the readiness said
  took,                                 \* the pins and the policy it read after that
  capability, findings,
  edits                                 \* bound and ghost: the edits since the readiness

files == <<pinned, policy, contents, prepared>>
vars  == <<files, step, seen, took, capability, findings, edits>>

NotSeen == [e \in Engines |-> NoImage]
None    == [e \in {} |-> NoImage]

\* Policies freeze the files, or one engine's are out of date.  A report may also be of a scan that was
\* admitted before.
Init ==
  /\ pinned \in PinFiles
  /\ \E d \in Digests : contents = [f \in PolicyFiles |-> d]
  /\ policy \in {[e \in Engines |-> [f \in FilesOf(e) |-> IF e = stale THEN d ELSE contents[f]]] :
                   stale \in Engines \cup {"none"}, d \in Digests}
  /\ prepared \in [codeql : BOOLEAN, semgrep : {"none", "acquisition", "legacy"}, trivy : SUBSET Snapshots]
  /\ step \in {"start", "report"}
  /\ seen = [overall |-> "unseen", images |-> NotSeen]
  /\ took = [pins |-> None, policy |-> policy]
  /\ capability = None
  /\ findings = <<>>
  /\ edits = 0

-----------------------------------------------------------------------------
(* Readiness.                                                              *)

\* The last line that a parser takes for a pin of the engine.
LastOf(taken, e) ==
  LET of == {i \in 1..Len(pinned) : pinned[i].engine = e /\ pinned[i].form \in taken} IN
  IF of = {} THEN NoImage ELSE pinned[CHOOSE i \in of : \A j \in of : j <= i].image

\* _read_pins: quoted values, whatever precedes "export".
ReadPins == [e \in Engines |-> LastOf({"quoted", "indented"}, e)]

\* default_engine_statuses, _load_b0_policy, _engine_policy_ready.
\* Seeded fault: one file of an engine stands for all.
PolicyReadyAny(e) == \E f \in FilesOf(e) : contents[f] = policy[e][f]
PolicyReady(e) == \A f \in FilesOf(e) : contents[f] = policy[e][f]
EngineReady(e) == Marked(ReadPins[e]) /\ PolicyReady(e)

\* prepared_deps_statuses: the query pack and the rules under the digest of what the policy acquires
\* or, the rules, under an older path (whether they are there when it is looked at is all that counts);
\* any database that is whole.
DepsReady ==
  /\ prepared.codeql
  /\ prepared.semgrep # "none"
  /\ \E s \in prepared.trivy : s.whole

\* b0_readiness.
Overall == IF \E e \in Engines : ~ EngineReady(e) THEN "not-ready"
           ELSE IF DepsReady THEN "prepared-deps-ready" ELSE "policy-ready"

Look ==
  /\ step = "start"
  /\ seen' = [overall |-> Overall, images |-> [e \in Engines |-> IF EngineReady(e) THEN ReadPins[e] ELSE NoImage]]
  /\ step' = IF Overall = "not-ready" THEN "refused" ELSE "ready"
  /\ UNCHANGED <<files, took, capability, findings, edits>>

-----------------------------------------------------------------------------
(* The capability.                                                         *)

\* _load_pins: every line that starts with "export", quoted or not.
LoadPins ==
  /\ step = "ready"
  /\ took' = [took EXCEPT !.pins = [e \in {pinned[i].engine : i \in {j \in 1..Len(pinned) :
                                             pinned[j].form \in {"quoted", "bare"}}} |->
                                      LastOf({"quoted", "bare"}, e)]]
  /\ step' = "pins"
  /\ UNCHANGED <<files, seen, capability, findings, edits>>

LoadPolicy ==
  /\ step = "pins"
  /\ took' = [took EXCEPT !.policy = policy]
  /\ step' = "policy"
  /\ UNCHANGED <<files, seen, capability, findings, edits>>

\* What ScannerEngineCapability.from_mapping can refuse of what is built: a pin that is missing, or
\* is no digest.
Acceptable(pins) == \A e \in Engines : e \in DOMAIN pins /\ Pinned(pins[e])

\* _build_capability, for a database: the policy's own digest of it is not looked at.
CapabilityOf(pins, frozen, snapshot) ==
  [e \in Engines |->
     [image |-> pins[e],
      acquisition |-> IF e = "trivy" THEN [f \in {"db_snapshot"} |-> snapshot.digest] ELSE frozen[e]]]

\* The database is any one that is prepared, whole or not.
Admit ==
  /\ step = "policy"
  /\ \/ /\ Acceptable(took.pins)
        /\ \E s \in prepared.trivy : capability' = CapabilityOf(took.pins, took.policy, s)
        /\ step' = "admitted"
     \/ /\ prepared.trivy = {} \/ ~ Acceptable(took.pins)
        /\ step' = "refused"
        /\ UNCHANGED capability
  /\ UNCHANGED <<files, seen, took, findings, edits>>

\* Someone edits the pins, a frozen file, the policy, or prepares another database.
Edit ==
  /\ step \in {"ready", "pins", "policy"} /\ edits < MaxEdits
  /\ edits' = edits + 1
  /\ \/ \E p \in PinFiles \ {pinned} : pinned' = p /\ UNCHANGED <<policy, contents, prepared>>
     \/ \E f \in PolicyFiles, d \in Digests :
          d # contents[f] /\ contents' = [contents EXCEPT ![f] = d] /\ UNCHANGED <<pinned, policy, prepared>>
     \/ \E e \in Engines : \E f \in FilesOf(e), d \in Digests :
          d # policy[e][f] /\ policy' = [policy EXCEPT ![e][f] = d] /\ UNCHANGED <<pinned, contents, prepared>>
     \/ \E s \in SUBSET Snapshots :
          s # prepared.trivy /\ prepared' = [prepared EXCEPT !.trivy = s] /\ UNCHANGED <<pinned, policy, contents>>
  /\ UNCHANGED <<step, seen, took, capability, findings>>

-----------------------------------------------------------------------------
(* Reports.                                                                *)

\* _relative_path: a place is [path, how]: relative, under the mount the scanner saw, absolute
\* elsewhere, or one that climbs.
Placed(p) == p.how \in {"relative", "mounted"}

\* What a record lacks and the engine's reader gives it: trivy the first line, trivy and semgrep the
\* rule's name for a title.
Completed(e, r) ==
  [r EXCEPT !.line  = IF e = "trivy" /\ @ = 0 THEN 1 ELSE @,
            !.title = IF e \in {"trivy", "semgrep"} /\ @ = "none" THEN r.rule ELSE @]

\* _finding: a locator is the path without its mount, and the line.
Faithful(r) == Placed(r.place) /\ r.line > 0 /\ r.rule # "none" /\ r.title # "none"
Finding(e, r) ==
  [engine |-> e, rule |-> r.rule, locator |-> <<r.place.path, r.line>>, title |-> r.title]

\* normalize_codeql, normalize_semgrep, normalize_trivy: all of a report or nothing.  A trivy record
\* is where its part is; a part without records needs a place too.
RawOf(e, part) ==
  [i \in 1..Len(part.raw) |-> Completed(e, IF e = "trivy" THEN [part.raw[i] EXCEPT !.place = part.at]
                                          ELSE part.raw[i])]
Raw(e, report) == FlattenSeq([k \in 1..Len(report.parts) |-> RawOf(e, report.parts[k])])

Normalizable(e, report) ==
  /\ report.complete
  /\ e = "trivy" => \A k \in 1..Len(report.parts) : Placed(report.parts[k].at)
  /\ e = "codeql" => report.parts # <<>>
  /\ \A i \in 1..Len(Raw(e, report)) : Faithful(Raw(e, report)[i])

Normalize ==
  /\ step = "report"
  /\ \E e \in Engines, report \in Reports :
       /\ e # "semgrep" \/ Len(report.parts) = 1
       /\ findings' = [engine |-> e, report |-> report, ok |-> Normalizable(e, report),
                       list |-> IF ~ Normalizable(e, report) THEN <<>>
                                ELSE [i \in 1..Len(Raw(e, report)) |-> Finding(e, Raw(e, report)[i])]]
  /\ step' = "normalized"
  /\ UNCHANGED <<files, seen, took, capability, edits>>

Next == Look \/ LoadPins \/ LoadPolicy \/ Admit \/ Edit \/ Normalize

Spec == Init /\ [][Next]_vars

-----------------------------------------------------------------------------
(* Properties.                                                             *)

\* An engine whose last pin has the form both parsers take.
PlainlyPinned(e) ==
  \E i \in 1..Len(pinned) :
    /\ pinned[i].engine = e /\ pinned[i].form = "quoted"
    /\ \A j \in 1..Len(pinned) : pinned[j].engine = e => j <= i

TypeOK ==
  /\ step \in {"start", "ready", "pins", "policy", "admitted", "refused", "report", "normalized"}
  /\ edits \in 0..MaxEdits
  /\ contents \in [PolicyFiles -> Digests]
  /\ DOMAIN capability \in {{}, Engines}

\* A scan runs with pinned images and, if nobody edited anything since the readiness was looked at,
\* with the images it reported (where the last pin is in quotes) and the rules and queries whose
\* files it compared - never with a policy that disagrees with its files (b0_readiness,
\* _build_capability).
AdmittedIsReady ==
  step = "admitted" =>
    /\ \A e \in Engines : Pinned(capability[e].image)
    /\ edits = 0 =>
         /\ \A e \in Engines : PlainlyPinned(e) => capability[e].image = seen.images[e]
         /\ \A e \in Engines \ {"trivy"}, f \in PolicyFiles :
              f \in FilesOf(e) => capability[e].acquisition[f] = contents[f]
         /\ capability["trivy"].acquisition["db_snapshot"] \in {s.digest : s \in prepared.trivy}

\* A report is normalized whole: a finding for every record of every part, in order, at a place within
\* the source, and two findings are the same exactly when their records name the same rule, place and
\* title, however the scanner wrote the path (_finding, normalize_codeql, normalize_semgrep,
\* normalize_trivy).
NormalizedIsWhole ==
  step = "normalized" /\ findings.ok =>
    LET raw == Raw(findings.engine, findings.report)
        count == FoldLeft(LAMBDA n, p : n + Len(p.raw), 0, findings.report.parts)
    IN /\ Len(findings.list) = count
       /\ \A i, j \in 1..count :
            (findings.list[i] = findings.list[j]) <=>
              /\ raw[i].rule = raw[j].rule /\ raw[i].title = raw[j].title
              /\ raw[i].place.path = raw[j].place.path /\ raw[i].line = raw[j].line
===============================================================================
