----------------------------- MODULE FixtureScan -----------------------------
(***************************************************************************)
(* The scanner evidence of the workbench: sources sealed into read-only    *)
(* snapshots (workbench/sealed_store.py, and workbench/intake.py for a     *)
(* repository), scanner dependencies prepared once for many scans          *)
(* (scripts/workbench-prepare-scanner-deps.py), scans of the sealed        *)
(* fixture (scripts/workbench-fixture-b0-scan.py) and their raw reports    *)
(* quarantined by digest (workbench/scanner_runner.py).                    *)
(*                                                                         *)
(* Everything is files below one private root: a directory is renamed into *)
(* place, then made read-only, then listed by a linked manifest; a report  *)
(* is created exclusively and then written.  No step is locked, and any    *)
(* process may be killed between two of them.                              *)
(***************************************************************************)
EXTENDS Naturals, Sequences, FiniteSets

CONSTANTS
  Operators,    \* the processes: scans, preparations, admissions
  Databases,    \* the vulnerability databases a download may bring
  Placeholder,  \* the policy's digest, for a download that brought nothing
  Requests      \* what --engine may ask for: one engine, or all of them

Stores  == {"fixture", "repository"}
Engines == {"semgrep", "trivy", "codeql"}
All     == <<"semgrep", "trivy", "codeql">>

ScanAssumption ==
  /\ IsFiniteSet(Operators) /\ IsFiniteSet(Databases) /\ Placeholder \notin Databases
  /\ Requests \subseteq {All} \cup {<<e>> : e \in Engines}

Trees   == Databases \cup {Placeholder}

VARIABLES
  root,       \* the snapshot's directory in each store
  listed,     \* whether the store's manifest lists it
  packs,      \* whether there are prepared rules and queries, whole or not
  trees,      \* prepared-deps/trivy: a directory per digest
  staging,    \* prepared-deps/trivy/.staging
  raw,        \* the raw reports, by digest
  pc, job,    \* where each process is, and what it holds in memory
  receipts,   \* the reports a receipt was issued for
  killed,     \* ghost: was anyone killed
  broken      \* ghost: was a writer killed, or refused after another took its report

sealed == <<root, listed>>
deps   == <<packs, trees, staging>>
local  == <<pc, job>>
vars   == <<sealed, deps, raw, local, receipts, killed, broken>>

\* The digest of a report stands for the scanner and what it scanned with.
Reports  == [engine: {"semgrep"}, tree: {Placeholder}] \cup [engine: {"trivy"}, tree: Databases]
NoTree   == [cache |-> "absent", metadata |-> FALSE]
Tree     == [cache: {"absent", "empty", "partial", "whole"}, metadata: BOOLEAN]

Places ==
  {"idle", "sealing", "renaming", "renamed", "listing", "linking", "resolving", "discovering", "scanning",
   "ready", "capturing", "writing", "reporting",
   "preparing", "querying", "clearing",
   "downloading", "replacing", "rehoming", "describing"}

\* store: what is sealed; todo: the engines still to run; tree: the database that was
\* discovered, or downloaded; used: what the database scan found in it; disturbed: a
\* preparation touched it since the command was admitted.
NoJob == [store |-> "fixture", todo |-> <<>>, tree |-> Placeholder, used |-> "none",
          disturbed |-> FALSE]


TypeOK ==
  /\ root \in [Stores -> {"absent", "writable", "sealed"}]
  /\ listed \in [Stores -> BOOLEAN]
  /\ packs \in [{"semgrep", "codeql"} -> BOOLEAN]
  /\ trees \in [Trees -> Tree]
  /\ staging \in {"absent", "empty"} \cup Databases
  /\ raw \in [Reports -> {"absent", "partial", "complete"}]
  /\ pc \in [Operators -> Places]
  /\ \A o \in Operators :
       /\ job[o].store \in Stores /\ job[o].tree \in Trees /\ job[o].disturbed \in BOOLEAN
       /\ job[o].used \in {"none", "partial", "whole"}
       /\ job[o].todo \in Seq(Engines) /\ Len(job[o].todo) <= 3
       /\ pc[o] = "idle" => job[o] = NoJob
  /\ receipts \subseteq Reports
  /\ killed \in BOOLEAN /\ broken \in BOOLEAN
  \* A directory under its digest holds nothing else.
  /\ trees[Placeholder].cache \in {"absent", "empty"}

Init ==
  /\ root = [s \in Stores |-> "absent"]
  /\ listed = [s \in Stores |-> FALSE]
  /\ packs = [e \in {"semgrep", "codeql"} |-> FALSE]
  /\ trees = [t \in Trees |-> NoTree]
  /\ staging = "absent"
  /\ raw = [r \in Reports |-> "absent"]
  /\ pc = [o \in Operators |-> "idle"]
  /\ job = [o \in Operators |-> NoJob]
  /\ receipts = {}
  /\ killed = FALSE
  /\ broken = FALSE

At(o, place)   == pc[o] = place
Goto(o, place) == pc' = [pc EXCEPT ![o] = place] /\ UNCHANGED job
Leave(o)       == pc' = [pc EXCEPT ![o] = "idle"] /\ job' = [job EXCEPT ![o] = NoJob]
evidence       == <<raw, receipts, killed, broken>>

-----------------------------------------------------------------------------
(* Sealing.  The copy of the source, its digest and the read-only tree are *)
(* made in a directory of the process's own.                               *)

Start(o, place, what) ==
  /\ At(o, "idle")
  /\ pc' = [pc EXCEPT ![o] = place]
  /\ job' = [job EXCEPT ![o] = what]
  /\ UNCHANGED <<sealed, deps, evidence>>

\* main of the fixture scan; an admission of a repository.
Scan(o)  == \E todo \in Requests : Start(o, "sealing", [NoJob EXCEPT !.todo = todo])
Admit(o) == Start(o, "sealing", [NoJob EXCEPT !.store = "repository"])

\* What a process does with a snapshot that is there: the fixture's is resolved, the
\* repository's is listed again.
WhenThere(o) == IF job[o].store = "fixture" THEN "resolving" ELSE "listing"

CheckRoot(o) ==
  /\ At(o, "sealing")
  /\ Goto(o, IF root[job[o].store] = "absent" THEN "renaming" ELSE WhenThere(o))
  /\ UNCHANGED <<sealed, deps, evidence>>

\* Seeded fault: the snapshot is put in the place of whatever is there.
FreeAlways(s) == TRUE
Free(s) == root[s] = "absent"

\* os.replace fails on a snapshot that appeared since the look at it.
Rename(o) ==
  /\ At(o, "renaming")
  /\ IF Free(job[o].store)
     THEN root' = [root EXCEPT ![job[o].store] = "writable"] /\ Goto(o, "renamed")
     ELSE Leave(o) /\ UNCHANGED root
  /\ UNCHANGED <<listed, deps, evidence>>

\* Seeded fault: the snapshot is listed as it was renamed.
HardenedNot(s) == root
Hardened(s) == [root EXCEPT ![s] = "sealed"]

Harden(o) ==
  /\ At(o, "renamed")
  /\ root' = Hardened(job[o].store)
  /\ Goto(o, "listing")
  /\ UNCHANGED <<listed, deps, evidence>>

\* A repository that is listed is not listed again; a manifest that appears before the
\* link is as good as one's own for the fixture, and an error for the repository.
CheckListed(o) ==
  /\ At(o, "listing")
  /\ Goto(o, IF job[o].store = "repository" /\ listed["repository"] THEN "resolving"
             ELSE "linking")
  /\ UNCHANGED <<sealed, deps, evidence>>

Link(o) ==
  /\ At(o, "linking")
  /\ IF job[o].store = "repository" /\ listed["repository"] THEN Leave(o)
                                                           ELSE Goto(o, "resolving")
  /\ listed' = [listed EXCEPT ![job[o].store] = TRUE]
  /\ UNCHANGED <<root, deps, evidence>>

\* resolve: a listed, private, read-only, unchanged copy - or a violation.
Intact(s) == root[s] = "sealed" /\ listed[s]

Resolve(o) ==
  /\ At(o, "resolving")
  /\ IF Intact(job[o].store) /\ job[o].store = "fixture"
     THEN Goto(o, "discovering")
     ELSE Leave(o)
  /\ UNCHANGED <<sealed, deps, evidence>>

-----------------------------------------------------------------------------
(* The scan.                                                               *)

\* The first metadata of a prepared database, in no particular order.
Discover(o) ==
  /\ At(o, "discovering")
  /\ \/ \E t \in Trees :
          /\ trees[t].metadata
          /\ pc' = [pc EXCEPT ![o] = "scanning"]
          /\ job' = [job EXCEPT ![o].tree = t]
     \/ (\A t \in Trees : ~ trees[t].metadata) /\ Leave(o)
  /\ UNCHANGED <<sealed, deps, evidence>>

Has(o, e) == IF e = "trivy" THEN trees[job[o].tree].metadata ELSE packs[e]
Verified(o, e) == e = "trivy" => trees[job[o].tree].cache = "whole"

\* Seeded fault: the database is not hashed before it is mounted.
CommandUnverified(o, e) == Has(o, e)
\* command_for, up to the docker arguments: only the database's bytes are verified.
Command(o, e) == Has(o, e) /\ Verified(o, e)

NextEngine(o) ==
  /\ pc' = [pc EXCEPT ![o] = IF Len(job[o].todo) = 1 THEN "reporting" ELSE "scanning"]
  /\ job' = [job EXCEPT ![o].todo = Tail(@), ![o].used = "none", ![o].disturbed = FALSE,
                        ![o].tree = IF Head(job[o].todo) = "trivy" THEN Placeholder ELSE @]

MakeCommand(o) ==
  /\ At(o, "scanning")
  /\ IF Intact("fixture") /\ Command(o, Head(job[o].todo)) THEN Goto(o, "ready")
                                                          ELSE NextEngine(o)
  /\ UNCHANGED <<sealed, deps, evidence>>

\* The container mounts what is there now.  It may fail or print nothing, and does so
\* without a database; CodeQL's report is captured by nobody.
Execute(o) ==
  /\ At(o, "ready")
  /\ LET e == Head(job[o].todo)
         cache == trees[job[o].tree].cache
     IN \/ NextEngine(o)
        \/ e = "semgrep" /\ Goto(o, "capturing")
        \/ /\ e = "trivy" /\ cache \in {"partial", "whole"}
           /\ pc' = [pc EXCEPT ![o] = "capturing"]
           /\ job' = [job EXCEPT ![o].used = cache]
  /\ UNCHANGED <<sealed, deps, evidence>>

ReportOf(o) ==
  IF Head(job[o].todo) = "semgrep" THEN [engine |-> "semgrep", tree |-> Placeholder]
                                   ELSE [engine |-> "trivy", tree |-> job[o].tree]

\* capture_raw_artifact: a report that does not parse is refused; one that is there
\* already, in whatever state, is not written again.
Capture(o) ==
  /\ At(o, "capturing")
  /\ \/ NextEngine(o) /\ UNCHANGED <<raw, receipts>>
     \/ /\ Intact("fixture") /\ raw[ReportOf(o)] # "absent"
        /\ receipts' = receipts \cup {ReportOf(o)}
        /\ NextEngine(o)
        /\ UNCHANGED raw
     \/ /\ Intact("fixture") /\ raw[ReportOf(o)] = "absent"
        /\ raw' = [raw EXCEPT ![ReportOf(o)] = "partial"]
        /\ Goto(o, "writing")
        /\ UNCHANGED receipts
  /\ UNCHANGED <<sealed, deps, killed, broken>>

\* Seeded fault: a failed write leaves its file behind.
AfterFailureKept(r) == raw
\* A write that fails takes its file away.
AfterFailure(r) == [raw EXCEPT ![r] = "absent"]

Write(o) ==
  /\ At(o, "writing")
  /\ \/ /\ raw' = [raw EXCEPT ![ReportOf(o)] = "complete"]
        /\ receipts' = receipts \cup {ReportOf(o)}
        /\ UNCHANGED broken
     \/ /\ raw' = AfterFailure(ReportOf(o))
        /\ broken' = (broken \/ ReportOf(o) \in receipts)
        /\ UNCHANGED receipts
  /\ NextEngine(o)
  /\ UNCHANGED <<sealed, deps, killed>>

Report(o) == At(o, "reporting") /\ Leave(o) /\ UNCHANGED <<sealed, deps, evidence>>

-----------------------------------------------------------------------------
(* The preparation.  It replaces what scans are using; the operator runs   *)
(* one at a time.                                                          *)

PreparationPlaces ==
  {"preparing", "querying", "clearing",
   "downloading", "replacing", "rehoming", "describing"}

Prepare(o) ==
  /\ \A p \in Operators : pc[p] \notin PreparationPlaces
  /\ Start(o, "preparing", NoJob)

\* A step of the preparation that changes what an admitted command will find.
Disturb(o, place, tree) ==
  /\ pc' = [pc EXCEPT ![o] = place]
  /\ job' = [p \in Operators |->
               IF p = o THEN IF place = "idle" THEN NoJob ELSE [job[p] EXCEPT !.tree = tree]
               ELSE IF At(p, "ready") /\ Head(job[p].todo) = "trivy"
                    THEN [job[p] EXCEPT !.disturbed = TRUE] ELSE job[p]]
  /\ UNCHANGED <<sealed, evidence>>

\* prepare_semgrep copies the rules in place; prepare_codeql empties the pack, and a
\* container fills it or stops halfway.
PrepareRules(o) ==
  /\ At(o, "preparing")
  /\ packs' = [packs EXCEPT !["semgrep"] = TRUE]
  /\ Goto(o, "querying")
  /\ UNCHANGED <<sealed, trees, staging, evidence>>

PrepareQueries(o) ==
  /\ At(o, "querying")
  /\ packs' = [packs EXCEPT !["codeql"] = TRUE]
  /\ Goto(o, "clearing") \/ Leave(o)
  /\ UNCHANGED <<sealed, trees, staging, evidence>>

\* prepare_trivy downloads into a staging directory; a failed download goes on as one
\* of nothing, under the policy's digest.
ClearStaging(o) ==
  /\ At(o, "clearing")
  /\ staging' = "empty"
  /\ Goto(o, "downloading")
  /\ UNCHANGED <<sealed, packs, trees, evidence>>

\* Seeded fault: every download goes under the policy's digest.
HomeOfPolicy(found) == Placeholder
Home(found) == IF found = "empty" THEN Placeholder ELSE found

Download(o) ==
  /\ At(o, "downloading")
  /\ staging' \in {"empty"} \cup Databases
  /\ pc' = [pc EXCEPT ![o] = "replacing"]
  /\ job' = [job EXCEPT ![o].tree = Home(staging')]
  /\ UNCHANGED <<sealed, packs, trees, evidence>>

\* shutil.rmtree of the directory under the same digest: some of it, then all of it.
Replace(o) ==
  /\ At(o, "replacing")
  /\ LET t == job[o].tree
     IN \/ /\ trees[t].cache = "whole"
           /\ \E left \in BOOLEAN :
                trees' = [trees EXCEPT ![t] = [cache |-> "partial", metadata |-> @.metadata /\ left]]
           /\ Disturb(o, "replacing", t)
        \/ /\ trees' = [trees EXCEPT ![t] = NoTree]
           /\ Disturb(o, "rehoming", t)
  /\ UNCHANGED <<packs, staging>>

Rehome(o) ==
  /\ At(o, "rehoming")
  /\ trees' = [trees EXCEPT ![job[o].tree].cache = IF staging = "empty" THEN staging ELSE "whole"]
  /\ staging' = "absent"
  /\ Disturb(o, "describing", job[o].tree)
  /\ UNCHANGED packs

Describe(o) ==
  /\ At(o, "describing")
  /\ trees' = [trees EXCEPT ![job[o].tree].metadata = TRUE]
  /\ Disturb(o, "idle", Placeholder)
  /\ UNCHANGED <<packs, staging>>

Preparation(o) ==
  \/ Prepare(o) \/ PrepareRules(o) \/ PrepareQueries(o)
  \/ ClearStaging(o) \/ Download(o) \/ Replace(o) \/ Rehome(o) \/ Describe(o)

Sealing(o) ==
  \/ Admit(o) \/ CheckRoot(o) \/ Rename(o) \/ Harden(o) \/ CheckListed(o) \/ Link(o)
  \/ Resolve(o)

Scanning(o) ==
  \/ Scan(o) \/ Discover(o) \/ MakeCommand(o) \/ Execute(o) \/ Capture(o) \/ Write(o)
  \/ Report(o)

Kill(o) ==
  /\ ~ At(o, "idle")
  /\ Leave(o)
  /\ killed' = TRUE
  /\ broken' = (broken \/ At(o, "writing"))
  /\ UNCHANGED <<sealed, deps, raw, receipts>>

Next == \E o \in Operators : Sealing(o) \/ Scanning(o) \/ Preparation(o) \/ Kill(o)

Spec == Init /\ [][Next]_vars

-----------------------------------------------------------------------------
(* Properties.                                                             *)

\* A snapshot that was resolved stays what it is, and a raw report that was written
\* whole stays whole, whoever seals, scans, fails or is killed beside it (the checks
\* for what is there already, the exclusive creation, the discarded copies).
EvidenceStays ==
  [][/\ \A s \in Stores : Intact(s) => Intact(s)'
     /\ \A r \in Reports : raw[r] = "complete" => raw'[r] = "complete"]_vars

\* Processes that seal one source at the same time never leave it half sealed: as long
\* as none is killed, what nobody is sealing is absent or intact (seal_fixture,
\* seal_registered_root).  A kill between the steps may leave it so for good.
NeverHalfSealed ==
  \A s \in Stores :
    ~ killed /\ (\A o \in Operators : At(o, "idle") \/ job[o].store # s) =>
      (root[s] = "absent" /\ ~ listed[s]) \/ Intact(s)

\* A receipt's report is on disk, whole, once nobody writes it any more - although a
\* second scan takes a report for written as soon as its file is there
\* (capture_raw_artifact) - unless its writer was killed, or could not write after that.
ReceiptIsBacked ==
  ~ broken /\ (\A o \in Operators : ~ At(o, "writing")) =>
    \A r \in receipts : raw[r] = "complete"

\* A database scan is of the whole database that its command was admitted with, whatever
\* preparations ran, failed or were killed before, unless one ran since (command_for,
\* _verify_trivy_db_snapshot).
AdmittedIsUsed ==
  \A o \in Operators : job[o].used # "none" /\ ~ job[o].disturbed => job[o].used = "whole"
==============================================================================
