------------------------------- MODULE Week1 -------------------------------
(***************************************************************************)
(* The submitted scans of week 1, from files to report:                     *)
(* agent/normalize_week1_artifacts.py reads the three canonical files,      *)
(* projects every datum to a finding and publishes the aggregate with its   *)
(* manifest; agent/week3_analysis.py loads the pair, merges what repeats    *)
(* and publishes a report. Importers race, fail half-way and are killed;    *)
(* the files may be rewritten while they are read. A scanner datum is what  *)
(* the two programs tell apart about it, see Data.                          *)
(***************************************************************************)
EXTENDS Naturals, Sequences, FiniteSets

CONSTANTS
  Importers,  \* runs of the importer, all with the same destinations
  Analysts,   \* runs of the analysis, all with the same report path
  Data,       \* datum -> [facts, located, kept, oneLine, accepted]
  Scans,      \* tool -> the files the tool may leave, sequences of data
  MaxRead,    \* how many findings an aggregate of _MAX_BYTES holds
  Changes     \* bound: how often a submitted file is rewritten

\* Of a datum: its facts (title, severity, evidence, and the path it names); whether that
\* path may be kept as its location; whether something is left of every text once it is
\* redacted; whether its texts are one line to str.splitlines, and whether
\* guard_http_response accepts them.
NoFile == <<>>
Tools  == <<"nuclei", "trivy", "semgrep">>

Week1Assumption ==
  /\ {MaxRead, Changes} \subseteq Nat
  /\ DOMAIN Scans = {"nuclei", "trivy", "semgrep"}
  /\ \A t \in DOMAIN Scans : Scans[t] \subseteq Seq(DOMAIN Data)

VARIABLES
  submitted,  \* tool -> its canonical file
  changes,    \* how often one was rewritten
  disk,       \* the aggregate and the manifest: at most one file each
  imp,        \* importer -> how far it is, what it read and what it linked
  ana,        \* analyst -> how far it is and what it read
  report      \* the lines of the published reports: at most one

week1Vars == <<submitted, changes, disk, imp, ana, report>>

Week1Init ==
  /\ submitted \in [{Tools[i] : i \in DOMAIN Tools} -> UNION {Scans[t] : t \in DOMAIN Scans}]
  /\ \A t \in DOMAIN submitted : submitted[t] \in Scans[t]
  /\ changes = 0
  /\ disk = [aggregate |-> {}, manifest |-> {}]
  /\ imp = [p \in Importers |-> [pc |-> "reading", read |-> <<>>, linked |-> {}]]
  /\ ana = [q \in Analysts |-> [pc |-> "idle", aggregate |-> {}, manifest |-> {}]]
  /\ report = {}

----------------------------------------------------------------------------
(* The importer.                                                            *)

\* What has no safe location gets an opaque one, which names the datum.
Location(tool, file, item) ==
  IF Data[file[item]].located THEN <<>> ELSE <<tool, file, item>>

\* A finding is named by its tool, the digest of the file and its place in it.
Finding(tool, file, item) ==
  LET d == Data[file[item]] IN
  [source |-> <<tool, file, item>>, facts |-> d.facts, location |-> Location(tool, file, item),
   oneLine |-> d.oneLine, accepted |-> d.accepted]

\* _nuclei_records, _trivy_records, _semgrep_records: one finding per datum.
Records(tool, file) == [item \in DOMAIN file |-> Finding(tool, file, item)]

Projected(read) == Records(Tools[1], read[1]) \o Records(Tools[2], read[2]) \o Records(Tools[3], read[3])

\* What each of the three refuses: a datum off its schema, or one with a text of which
\* nothing is left once it is redacted (_safe_retained_text).
Kept(file) == \A item \in DOMAIN file : Data[file[item]].kept

\* normalize_week1_submission: one datum that cannot be kept refuses the whole submission.
Normalizes(read) == \A i \in DOMAIN read : read[i] # NoFile /\ Kept(read[i])

\* Each file is read once, in canonical order, from a descriptor of its own.
Read(p) ==
  /\ imp[p].pc = "reading" /\ Len(imp[p].read) < Len(Tools)
  /\ imp' = [imp EXCEPT ![p].read = Append(@, submitted[Tools[Len(@) + 1]])]
  /\ UNCHANGED <<submitted, changes, disk, ana, report>>

\* _publish_pair_exclusive up to the staged files, which nobody else sees.
Absent == disk.aggregate = {} /\ disk.manifest = {}

Normalize(p) ==
  /\ imp[p].pc = "reading" /\ Len(imp[p].read) = Len(Tools)
  /\ imp' = [imp EXCEPT ![p].pc = IF Normalizes(imp[p].read) /\ Absent
                                  THEN "linking" ELSE "refused"]
  /\ UNCHANGED <<submitted, changes, disk, ana, report>>

LinkOrder == <<"aggregate", "manifest">>

File(p, name) ==
  IF name = "aggregate" THEN [by |-> p, records |-> Projected(imp[p].read)]
  ELSE [by |-> p, sha |-> Projected(imp[p].read), inputs |-> imp[p].read]

\* os.link fails on a name that is taken.
Link(p) ==
  LET name == LinkOrder[Cardinality(imp[p].linked) + 1] IN
  /\ imp[p].pc = "linking" /\ Cardinality(imp[p].linked) < Len(LinkOrder)
  /\ \/ /\ disk[name] = {}
        /\ disk' = [disk EXCEPT ![name] = {File(p, name)}]
        /\ imp' = [imp EXCEPT ![p].linked = @ \union {name}]
     \/ /\ imp' = [imp EXCEPT ![p].pc = "undoing"]   \* taken, or another OSError
        /\ UNCHANGED disk
  /\ UNCHANGED <<submitted, changes, ana, report>>

\* os.chmod of both, and the stages are unlinked.
Settle(p) ==
  /\ imp[p].pc = "linking" /\ Cardinality(imp[p].linked) = Len(LinkOrder)
  /\ \E end \in {"ok", "undoing"} : imp' = [imp EXCEPT ![p].pc = end]
  /\ UNCHANGED <<submitted, changes, disk, ana, report>>

\* _remove_if_ours
OursAnyway(p, name) == disk[name] # {}    \* seeded fault: whatever stands there
Ours(p, name) == name \in imp[p].linked /\ \A f \in disk[name] : f.by = p

Left(p) == {name \in DOMAIN disk : Ours(p, name) /\ disk[name] # {}}

Undo(p) ==
  /\ imp[p].pc = "undoing"
  /\ IF Left(p) = {}
     THEN /\ imp' = [imp EXCEPT ![p].pc = "refused", ![p].linked = {}]
          /\ UNCHANGED disk
     ELSE /\ \E name \in Left(p) : /\ name = "aggregate" \/ "aggregate" \notin Left(p)
                                   /\ disk' = [disk EXCEPT ![name] = {}]
          /\ UNCHANGED imp
  /\ UNCHANGED <<submitted, changes, ana, report>>

KillImporter(p) ==
  /\ imp[p].pc \in {"linking", "undoing"}
  /\ imp' = [imp EXCEPT ![p].pc = "killed"]
  /\ UNCHANGED <<submitted, changes, disk, ana, report>>

\* A scanner leaves another file, or the file is gone.
Rewrite(t) ==
  /\ changes < Changes /\ changes' = changes + 1
  /\ \E file \in Scans[t] \ {submitted[t]} : submitted' = [submitted EXCEPT ![t] = file]
  /\ UNCHANGED <<disk, imp, ana, report>>

----------------------------------------------------------------------------
(* The analysis.                                                            *)

\* load_aggregate: the aggregate is the one of the manifest, splits into one line per
\* finding, holds the data the manifest's inputs count, in their order, and every text
\* passes the guard of the responses.
Sources(inputs) ==
  LET Of(i) == [n \in DOMAIN inputs[i] |-> <<Tools[i], inputs[i], n>>]
  IN Of(1) \o Of(2) \o Of(3)

\* _safe_text, _safe_location: the importer did not ask the guard.
SafeText(record) == record.accepted

Loads(aggregate, manifest) ==
  LET records == aggregate.records IN
  /\ Len(records) <= MaxRead
  /\ manifest.sha = records
  /\ \A i \in DOMAIN records : records[i].oneLine /\ SafeText(records[i])
  /\ Sources(manifest.inputs) = [i \in DOMAIN records |-> records[i].source]

\* _groups: what differs in nothing but its source is one finding, under the first's id.
SameKeyAnywhere(a, b) ==    \* seeded fault: the location is not part of the key
  a.source[1] = b.source[1] /\ a.facts = b.facts
SameKey(a, b) ==
  a.source[1] = b.source[1] /\ a.facts = b.facts /\ a.location = b.location

Groups(records) ==
  {[finding |-> records[i],
    sources |-> {records[j].source : j \in {k \in DOMAIN records : SameKey(records[i], records[k])}}] :
      i \in {k \in DOMAIN records : \A j \in 1..(k - 1) : ~SameKey(records[j], records[k])}}

ReadAggregate(q) ==
  /\ ana[q].pc = "idle"
  /\ ana' = [ana EXCEPT ![q].pc = IF disk.aggregate = {} THEN "failed" ELSE "opened",
                        ![q].aggregate = disk.aggregate]
  /\ UNCHANGED <<submitted, changes, disk, imp, report>>

ReadManifest(q) ==
  /\ ana[q].pc = "opened"
  /\ ana' = [ana EXCEPT
       ![q].pc = IF /\ disk.manifest # {}
                    /\ \A a \in ana[q].aggregate, m \in disk.manifest : Loads(a, m)
                 THEN "loaded" ELSE "failed",
       ![q].manifest = disk.manifest]
  /\ UNCHANGED <<submitted, changes, disk, imp, report>>

\* _confidence: the model's answer must name exactly the findings it was given.
Named(lines) == {l.finding.source : l \in lines}

\* write_jsonl_atomic(exclusive): a report that is there already is not replaced.
Publish(q, lines) ==
  /\ report = {}
  /\ report' = {[lines |-> lines, inputs |-> m.inputs] : m \in ana[q].manifest}
  /\ ana' = [ana EXCEPT ![q].pc = "reported"]

\* analyze, once the pair is loaded. The retrieval may fail, or return what is not safe.
Analyze(q) ==
  LET lines == UNION {Groups(a.records) : a \in ana[q].aggregate} IN
  /\ ana[q].pc = "loaded"
  /\ \/ \E answered \in SUBSET Named(lines) : answered = Named(lines) /\ Publish(q, lines)
     \/ ana' = [ana EXCEPT ![q].pc = "failed"] /\ UNCHANGED report
  /\ UNCHANGED <<submitted, changes, disk, imp>>

Week1Next ==
  \/ \E p \in Importers : Read(p) \/ Normalize(p) \/ Link(p) \/ Settle(p) \/ Undo(p) \/ KillImporter(p)
  \/ \E t \in DOMAIN submitted : Rewrite(t)
  \/ \E q \in Analysts : ReadAggregate(q) \/ ReadManifest(q) \/ Analyze(q)

Week1Spec == Week1Init /\ [][Week1Next]_week1Vars

----------------------------------------------------------------------------
(* Properties.                                                              *)

\* A report accounts for the submission: every datum of the files its manifest names is a
\* source of exactly one line, and every line states what each of its sources states,
\* place included (week3_analysis.py: _groups, load_aggregate).
AccountsFor(r) ==
  LET all == Projected(r.inputs) IN
  /\ \A i \in DOMAIN all : Cardinality({l \in r.lines : all[i].source \in l.sources}) = 1
  /\ \A l \in r.lines : \A s \in l.sources : \E i \in DOMAIN all :
       /\ all[i].source = s
       /\ all[i].facts = l.finding.facts /\ all[i].location = l.finding.location
ReportAccounts == \A r \in report : AccountsFor(r)

\* An import that answered ok stays on disk, both files of it, whatever the importers that
\* lost against it undo (normalize_week1_artifacts.py: _publish_pair_exclusive).
ImportedStays ==
  \A p \in Importers : imp[p].pc = "ok" =>
    \A name \in {"aggregate", "manifest"} : disk[name] = {File(p, name)}

SubmissionIsKept == ReportAccounts /\ ImportedStays
=============================================================================
