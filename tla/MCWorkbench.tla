---------------------------- MODULE MCWorkbench ----------------------------
(***************************************************************************)
(* The Workbench's evidence, and what is made of it, for TLC: the B3       *)
(* attempts and arm, sealed fixtures and scans and their admission, the    *)
(* records and the ledger of runs, the corpus, the comparison it is for,   *)
(* the import and analysis of week 1 and the demonstration pages.  They    *)
(* share no state and no process, so no step of one is ordered with a step *)
(* of another: each is checked on its own, beside the others in their      *)
(* initial states.                                                         *)
(***************************************************************************)
EXTENDS B3Arm, Corpus, Week1, WorkbenchCases, TLC

CONSTANTS
  Operators, Databases, Placeholder,
  Findings, Plays,
  Kinds, Lives, Lines

VARIABLES
  part,                                                               \* which one moves
  root, listed, packs, trees, staging, raw, at, job, receipts, killed, broken,
  fault, week3, walk, plays,
  asked, answer,
  pinned, policy, contents, prepared, step, seen, took, capability, findings, edits,
  dir, life, file, bundle, lines, host, task, dead, crowded

arms    == <<rows, hasUnits, revoked, pc, attempt, calls, answers, remigrated, arm, returned>>
scans   == <<root, listed, packs, trees, staging, raw, at, job, receipts, killed, broken>>
pages   == <<fault, week3, walk, plays>>
study   == <<asked, answer>>
gate    == <<pinned, policy, contents, prepared, step, seen, took, capability, findings, edits>>
store   == <<dir, life, file, bundle, lines, host, task, dead, crowded>>

\* One old row, given up in flight.
MCLegacyRows == {[id |-> 0, reading |-> 1, unit |-> Legacy, status |-> "dispatched"]}

\* A scan of one engine takes a part of the steps of a scan of all.
Scan == INSTANCE FixtureScan WITH pc <- at, Requests <- {<<"semgrep", "trivy", "codeql">>}

\* Two hosts with a repository of one name, so one cache; one entry that does not form a candidate.
MCEntry(r, p, q, s) == [cluster |-> r, pre |-> p, post |-> q, shape |-> s]
MCEntries == <<MCEntry("h1/a", 1, 2, "candidate"), MCEntry("h1/a", 2, 3, "candidate"),
               MCEntry("h2/a", 4, 5, "candidate"), MCEntry("h1/c", 8, 9, "invalid")>>
MCCacheOf == [r \in {"h1/a", "h2/a", "h1/c"} |-> IF r = "h1/c" THEN "c" ELSE "a"]

\* Two findings that differ in nothing, one that differs in its place, one the projection drops, one
\* with a line break, one that is refused.
MCDatum(f, l, k, o, a) == [facts |-> f, located |-> l, kept |-> k, oneLine |-> o, accepted |-> a]
MCData == [x |-> MCDatum("x", TRUE, TRUE, TRUE, TRUE), y |-> MCDatum("x", FALSE, TRUE, TRUE, TRUE),
           z |-> MCDatum("z", TRUE, TRUE, TRUE, TRUE), bad |-> MCDatum("b", TRUE, FALSE, TRUE, TRUE),
           wrap |-> MCDatum("w", TRUE, TRUE, FALSE, TRUE), odd |-> MCDatum("o", TRUE, TRUE, TRUE, FALSE)]
MCScans == [nuclei  |-> {<<"x", "x">>, <<"y", "x", "z">>, <<"y", "y">>},
            trivy   |-> {<<"x">>, <<>>, <<"bad">>},
            semgrep |-> {<<"z">>, <<"wrap">>, <<"odd">>}]
Pages == INSTANCE Demos WITH Scenes <- <<FALSE, TRUE, FALSE, TRUE>>

\* The frozen protocol's numbers, made small: two packets and two repositories.
Comparison == INSTANCE Study WITH
  Packets <- 2, Readings <- 3, MinPairs <- 2, MinPower <- 8, Effect <- 2, Units <- 1..5, Samples <- 2..3,
  Snapshots <- StSnapshots, Graphs <- StGraphs, Frames <- StFrames, Truths <- StTruths, Rows <- StRows,
  Catalogs <- StCatalogs, Censuses <- StCensuses, Studies <- StStudies, Edits <- StEdits

Admitting == INSTANCE Admission WITH
  Digests <- {"d1", "d2"}, PinFiles <- AdPinFiles, Snapshots <- AdSnapshots, Reports <- AdReports, MaxEdits <- 1

\* One run's records and the ledger have no file in common, and are looked at one at a time.
RunRecords == INSTANCE Evidence WITH
  Hosts <- Operators, Entries <- EvEntries, MaxLives <- Lives, MaxLines <- 0,
  pc <- host, job <- task, killed <- dead
Book == INSTANCE Evidence WITH
  Hosts <- Operators, Entries <- EvEntries, MaxLives <- 0, MaxLines <- Lines,
  pc <- host, job <- task, killed <- dead

ASSUME Comparison!StudyAssumption
ASSUME Admitting!AdmissionAssumption
ASSUME RunRecords!EvidenceAssumption /\ Book!EvidenceAssumption
ASSUME Scan!ScanAssumption
ASSUME CorpusAssumption
ASSUME Week1Assumption

-----------------------------------------------------------------------------

\* Of a part that does not move one initial state is enough.
MCInit ==
  /\ part \in {"arms", "scans", "seals", "corpora", "week1", "pages", "study", "gate", "records", "ledger"}
  /\ ArmInit
  /\ Scan!Init
  /\ CorpusInit
  /\ part = "week1" \/ submitted = [nuclei |-> <<"x", "x">>, trivy |-> <<>>, semgrep |-> <<"z">>]
  /\ Week1Init
  /\ part = "pages" \/ fault = [kind |-> "none", of |-> "meta", subtle |-> TRUE]
  /\ Pages!Init
  /\ Comparison!Init
  /\ \/ part = "gate" /\ step = "start"
     \/ /\ step = "report" /\ pinned = AdGood /\ prepared = [codeql |-> TRUE, semgrep |-> "none", trivy |-> {}]
        /\ policy = [e \in Admitting!Engines |-> [f \in Admitting!FilesOf(e) |-> "d1"]]
  /\ Admitting!Init
  /\ RunRecords!Init

Arms      == part = "arms" /\ ArmNext /\ UNCHANGED <<part, scans, corpusVars, week1Vars, pages, study, gate, store>>
\* Scans and preparations of the fixture; sealing of both sources up to what is sealed being used.
Scanning  ==
  /\ \/ part = "scans" /\ Scan!Next /\ \A o \in Operators : job'[o].store = "fixture"
     \/ part = "seals" /\ Scan!Next /\ \A o \in Operators : at'[o] \notin Scan!PreparationPlaces \cup {"discovering"}
  /\ UNCHANGED <<part, arms, corpusVars, week1Vars, pages, study, gate, store>>
Acquiring == part = "corpora" /\ CorpusNext /\ UNCHANGED <<part, arms, scans, week1Vars, pages, study, gate, store>>
Importing == part = "week1" /\ Week1Next /\ UNCHANGED <<part, arms, scans, corpusVars, pages, study, gate, store>>
Browsing  == part = "pages" /\ Pages!Next /\ UNCHANGED <<part, arms, scans, corpusVars, week1Vars, study, gate, store>>
Comparing == part = "study" /\ Comparison!Next /\ UNCHANGED <<part, arms, scans, corpusVars, week1Vars, pages, gate, store>>
Gating    == part = "gate" /\ Admitting!Next /\ UNCHANGED <<part, arms, scans, corpusVars, week1Vars, pages, study, store>>
Storing   ==
  /\ \/ part = "records" /\ RunRecords!Next
     \/ part = "ledger" /\ Book!Next
  /\ UNCHANGED <<part, arms, scans, corpusVars, week1Vars, pages, study, gate>>

MCNext == Arms \/ Scanning \/ Acquiring \/ Importing \/ Browsing \/ Comparing \/ Gating \/ Storing
MCSpec == MCInit /\ [][MCNext]_<<part, arms, scans, corpusVars, week1Vars, pages, study, gate, store>>

\* The processes of every part are the same two model values.
MCSymmetry == Permutations(Operators) \cup Permutations(Kinds)

-----------------------------------------------------------------------------
(* Of a part that does not move, the states are looked at where it moves.  *)

\* FixtureScan, Admission, Evidence: sealing processes never leave a source half sealed, a receipt's
\* report is on disk, a database scan is of the whole database it was admitted with, what is admitted is
\* what the readiness looked at, a report is normalized whole, and without an overlap or a kill a run
\* leaves nothing half done and its bundle is of one run (seal_fixture, capture_raw_artifact,
\* _verify_trivy_db_snapshot, b0_readiness, _build_capability, normalize_codeql, mark_terminal,
\* build_reproducibility_bundle).
EvidenceIsSound ==
  /\ part \in {"scans", "seals"} => Scan!TypeOK /\ Scan!NeverHalfSealed /\ Scan!ReceiptIsBacked /\ Scan!AdmittedIsUsed
  /\ part = "gate" => Admitting!TypeOK /\ Admitting!AdmittedIsReady /\ Admitting!NormalizedIsWhole
  /\ part = "records" => RunRecords!TypeOK
  /\ part = "ledger" => Book!TypeOK
  /\ part \in {"records", "ledger"} => RunRecords!NothingHalfDone /\ RunRecords!BundleIsOfOneRun
\* FixtureScan, B3Attempts, Evidence: sealed snapshots, whole raw reports, settled attempts, whole
\* records, bundles and ledger lines stay what they are, and so does a run's outcome unless two mark it
\* (sealed_store, capture_raw_artifact, _transition, write_record, mark_terminal, append).
EvidenceStays == Scan!EvidenceStays /\ SettledStays /\ RunRecords!RecordsStay /\ RunRecords!OutcomeStays
\* Study, Demos: pairs, closures, frames, matchings, contrasts, gates and publications are what the
\* protocol takes them for; the pages show verified fixtures only, and no interval outlives its handle
\* (comparison_pair, selection, analysis_population, truth_matcher, scoring, contracts, week3-demo.js,
\* charter-walkthrough.js).
ShownIsSound ==
  /\ part = "study" =>
       /\ Comparison!TypeOK
       /\ Comparison!PairIsExact /\ Comparison!ClosureIsConservative /\ Comparison!FrameIsCommon
       /\ Comparison!MatchIsFair /\ Comparison!LabelIsRendered /\ Comparison!GateIsTheMajority
       /\ Comparison!PublishedIsWhole
  /\ part = "pages" => Pages!ShownIsVerified /\ Pages!OneInterval
=============================================================================
