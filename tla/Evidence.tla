------------------------------- MODULE Evidence -------------------------------
(***************************************************************************)
(* The private evidence of the workbench's runs: a directory per run with  *)
(* an ownership marker and records that are written once, a bundle of the  *)
(* records for reproduction, the expiry of finished runs                   *)
(* (workbench/artifacts.py), and the ledger the deterministic arms append  *)
(* to (workbench/run_ledger.py, workbench/runner.py, workbench/metrics.py).*)
(*                                                                         *)
(* The store has no lock: a file is created exclusively and then written,  *)
(* the marker is replaced by a renamed temporary file, an expired run is   *)
(* deleted file by file.  Any process may be killed between two steps.     *)
(* One run identifier is looked at; it is free again once its run expired. *)
(***************************************************************************)
EXTENDS Naturals, Sequences, FiniteSets

LOCAL INSTANCE SequencesExt

CONSTANTS
  Hosts,      \* the processes that hold a store on one evidence root
  Kinds,      \* the kinds of records of a run
  Entries,    \* the runs the arms record: [kind |-> "metric" or "incomplete", id |-> a class of
              \* repository or snapshot identifiers, twelve |-> whether twelve packets were reviewed]
  MaxLives,   \* bound: how often the identifier is used
  MaxLines    \* bound: the lines of the ledger

EvidenceAssumption ==
  /\ IsFiniteSet(Hosts) /\ IsFiniteSet(Kinds) /\ IsFiniteSet(Entries)
  /\ MaxLives \in Nat /\ MaxLines \in Nat

Outcomes == {"succeeded", "failed"}           \* bound: two of the four terminal states
Files    == {"marker", "tmp"} \cup Kinds

VARIABLES
  dir,        \* whether runs/<run> is there
  life,       \* how many runs had the identifier
  file,       \* what is in it
  bundle,     \* reproducibility/<run>.json
  lines,      \* the ledger, a line torn by a kill included
  pc, job,    \* where each process is, and what it holds in memory
  killed,     \* ghost: was anyone killed
  crowded     \* ghost: did an operation begin while another was under way

disk == <<dir, life, file, bundle, lines>>
vars == <<disk, pc, job, killed, crowded>>

Absent      == [state |-> "absent"]
Partial(h)  == [state |-> "partial", by |-> h]
Torn        == [state |-> "torn"]             \* its writer was killed
Whole(n, s) == [state |-> "whole", life |-> n, says |-> s]
Sealed(r)   == [state |-> "whole", of |-> r]  \* a bundle: what was read of the records
TornLine    == [kind |-> "torn"]
Half        == {Torn} \cup {Partial(h) : h \in Hosts}
States      == {Absent} \cup Half
                 \cup {Whole(n, s) : n \in 1..MaxLives, s \in {"open", "record"} \cup Outcomes}
There(f)    == file[f].state # "absent"

\* name: the file being written; says: what goes into it; todo: the files still to read or to
\* delete, in the directory of which life; read: what was read of them.
NoJob == [name |-> "marker", says |-> "open", todo |-> {}, life |-> 0, line |-> TornLine,
          read |-> [k \in Kinds |-> Absent]]

TypeOK ==
  /\ dir \in BOOLEAN /\ life \in 0..MaxLives
  /\ file \in [Files -> States]
  /\ bundle \in {Absent} \cup Half \cup {Sealed(r) : r \in [Kinds -> States]}
  /\ lines \in BoundedSeq(Entries \cup {TornLine}, MaxLines)
  /\ pc \in [Hosts -> {"idle", "making", "creating", "writing", "renaming", "cleaning",
                       "reading", "bundling", "filling", "deleting", "appending"}]
  /\ killed \in BOOLEAN /\ crowded \in BOOLEAN

Init ==
  /\ dir = FALSE
  /\ life = 0
  /\ file = [f \in Files |-> Absent]
  /\ bundle = Absent
  /\ lines = <<>>
  /\ pc = [h \in Hosts |-> "idle"]
  /\ job = [h \in Hosts |-> NoJob]
  /\ killed = FALSE
  /\ crowded = FALSE

At(h, place)   == pc[h] = place
Goto(h, place) == pc' = [pc EXCEPT ![h] = place] /\ UNCHANGED job
Leave(h)       == pc' = [pc EXCEPT ![h] = "idle"] /\ job' = [job EXCEPT ![h] = NoJob]
ghosts         == <<killed, crowded>>

\* An operation's first step: what it looks at, and what it takes along.
Begin(h, place, what) ==
  /\ At(h, "idle")
  /\ pc' = [pc EXCEPT ![h] = place]
  /\ job' = [job EXCEPT ![h] = what]
  /\ crowded' = (crowded \/ \E g \in Hosts \ {h} : ~ At(g, "idle"))
  /\ UNCHANGED <<disk, killed>>

\* _require_owned_run: the marker is looked for, not read.
Owned == dir /\ There("marker")
\* What a marker that is read says; a partial one does not parse.
Says(s) == file["marker"].state = "whole" /\ file["marker"].says = s

-----------------------------------------------------------------------------
(* Runs and records.                                                       *)

\* begin_run.
BeginRun(h) == life < MaxLives /\ ~ dir /\ Begin(h, "making", NoJob)

Make(h) ==
  /\ At(h, "making")
  /\ IF dir \/ life = MaxLives THEN Leave(h) /\ UNCHANGED disk
     ELSE /\ dir' = TRUE /\ life' = life + 1
          /\ Goto(h, "creating")
          /\ UNCHANGED <<file, bundle, lines>>
  /\ UNCHANGED ghosts

\* write_record: a record is there or is not, whatever is in it.
WriteRecord(h, k) ==
  Owned /\ ~ There(k) /\ Begin(h, "creating", [NoJob EXCEPT !.name = k, !.says = "record"])

\* mark_terminal.
MarkTerminal(h, s) ==
  Owned /\ Says("open") /\ Begin(h, "creating", [NoJob EXCEPT !.name = "tmp", !.says = s])

\* Seeded fault: the file is truncated if it is there.
VacantAlways(f) == dir
Vacant(f) == dir /\ ~ There(f)

\* O_CREAT | O_EXCL in a directory that is there; a failure raises before the temporary file's
\* removal is promised.
Create(h) ==
  /\ At(h, "creating")
  /\ IF Vacant(job[h].name)
     THEN file' = [file EXCEPT ![job[h].name] = Partial(h)] /\ Goto(h, "writing")
     ELSE Leave(h) /\ UNCHANGED file
  /\ UNCHANGED <<dir, life, bundle, lines, ghosts>>

\* The bytes go into the file that was opened, whatever its name is now.
Fill(h) ==
  /\ At(h, "writing")
  /\ file' = [f \in Files |-> IF file[f] = Partial(h) THEN Whole(life, job[h].says) ELSE file[f]]
  /\ IF job[h].name = "tmp" THEN Goto(h, "renaming") ELSE Leave(h)
  /\ UNCHANGED <<dir, life, bundle, lines, ghosts>>

\* os.replace, then the removal of whatever has the temporary file's name.
Rename(h) ==
  /\ At(h, "renaming")
  /\ IF There("tmp")
     THEN file' = [file EXCEPT !["marker"] = file["tmp"], !["tmp"] = Absent]
     ELSE UNCHANGED file
  /\ Goto(h, "cleaning")
  /\ UNCHANGED <<dir, life, bundle, lines, ghosts>>

Clean(h) ==
  /\ At(h, "cleaning")
  /\ file' = [file EXCEPT !["tmp"] = Absent]
  /\ Leave(h)
  /\ UNCHANGED <<dir, life, bundle, lines, ghosts>>

\* build_reproducibility_bundle: the records that are there now, one after the other.
Bundle(h) == Owned /\ Begin(h, "reading", [NoJob EXCEPT !.todo = {k \in Kinds : There(k)}])

Read(h) ==
  /\ At(h, "reading")
  /\ \/ /\ job[h].todo = {}
        /\ IF bundle = Absent THEN Goto(h, "bundling") ELSE Leave(h)
     \/ \E k \in job[h].todo :
          IF file[k].state = "whole"
          THEN job' = [job EXCEPT ![h].todo = @ \ {k}, ![h].read[k] = file[k]] /\ UNCHANGED pc
          ELSE Leave(h)
  /\ UNCHANGED <<disk, ghosts>>

CreateBundle(h) ==
  /\ At(h, "bundling")
  /\ IF bundle = Absent THEN bundle' = Partial(h) /\ Goto(h, "filling")
                        ELSE UNCHANGED bundle /\ Leave(h)
  /\ UNCHANGED <<dir, life, file, lines, ghosts>>

FillBundle(h) ==
  /\ At(h, "filling")
  /\ bundle' = Sealed(job[h].read)
  /\ Leave(h)
  /\ UNCHANGED <<dir, life, file, lines, ghosts>>

\* delete_expired, once the thirty days are over: what is listed first is removed file by file,
\* and then the directory, if nothing came into it meanwhile.
Delete(h) ==
  /\ Owned /\ \E s \in Outcomes : Says(s)
  /\ Begin(h, "deleting", [NoJob EXCEPT !.todo = {f \in Files : There(f)}, !.life = life])

\* Unlinking goes through the directory that was opened, the final rmdir through its name; a file
\* that is gone ends the removal, or is passed over in later versions of shutil.
RemoveFile(h) ==
  /\ At(h, "deleting")
  /\ \E f \in job[h].todo :
       \/ /\ job' = [job EXCEPT ![h].todo = @ \ {f}]
          /\ file' = [file EXCEPT ![f] = IF dir /\ life = job[h].life THEN Absent ELSE @]
          /\ UNCHANGED pc
       \/ /\ ~ (dir /\ life = job[h].life /\ There(f))
          /\ Leave(h) /\ UNCHANGED file
  /\ UNCHANGED <<dir, life, bundle, lines, ghosts>>

RemoveDir(h) ==
  /\ At(h, "deleting") /\ job[h].todo = {}
  /\ dir' = (\E f \in Files : There(f))
  /\ Leave(h)
  /\ UNCHANGED <<life, file, bundle, lines, ghosts>>

-----------------------------------------------------------------------------
(* The ledger.                                                             *)

\* _assert_metadata_only, for one leaf of a record: the class of its field (under one that names raw
\* material, one that ends in _digest or _id, a safe one, or a safe one that ends in _id) and of its
\* value.  A digest is no label: redaction reports it for its entropy.
Leaf(field, value) == [field |-> field, value |-> value]
MetadataOnly(x) ==
  /\ x.field # "raw"
  /\ \/ x.value = "number"
     \/ x.value = "digest" /\ x.field \in {"_digest", "_id", "safe _id"}
     \/ x.value = "label" /\ x.field \in {"safe", "safe _id"}

\* to_record and record_metric, record_incomplete: the leaves of a line.  Its identifier is put
\* together from the run, the arm and the repository.
LeavesOf(e) ==
  {Leaf("safe", "label"), Leaf("safe _id", e.id),
   Leaf("safe _id", IF e.kind = "metric" /\ e.id = "digest" THEN "composed" ELSE "label")}
  \cup (IF e.kind = "metric" THEN {Leaf("_digest", "digest"), Leaf("other", "number")} ELSE {})

Recordable(e) == (e.kind = "metric" => e.twelve) /\ \A x \in LeavesOf(e) : MetadataOnly(x)

New(e) == \A i \in 1..Len(lines) : lines[i] \notin {e, TornLine}

\* append, for record_metric and record_incomplete: a line that does not parse, or that has the
\* identifier, refuses the new one.
AppendLine(h, e) ==
  /\ Len(lines) < MaxLines
  /\ Recordable(e) /\ New(e)
  /\ Begin(h, "appending", [NoJob EXCEPT !.line = e])

\* A write that stops halfway leaves a torn line, and what is appended to it is torn with it.
Flush(h) ==
  /\ At(h, "appending")
  /\ IF lines # <<>> /\ Last(lines) = TornLine THEN UNCHANGED <<lines, killed>>
     ELSE /\ Len(lines) < MaxLines
          /\ \/ lines' = Append(lines, job[h].line) /\ UNCHANGED killed
             \/ lines' = Append(lines, TornLine) /\ killed' = TRUE
  /\ Leave(h)
  /\ UNCHANGED <<dir, life, file, bundle, crowded>>

\* What the process was writing stays as it is.
Left(h, c) == IF c = Partial(h) THEN Torn ELSE c

Kill(h) ==
  /\ ~ At(h, "idle")
  /\ file' = [f \in Files |-> Left(h, file[f])]
  /\ bundle' = Left(h, bundle)
  /\ Leave(h)
  /\ killed' = TRUE
  /\ UNCHANGED <<dir, life, lines, crowded>>

Next == \E h \in Hosts :
  \/ BeginRun(h) \/ Make(h) \/ Create(h) \/ Fill(h) \/ Rename(h) \/ Clean(h)
  \/ \E k \in Kinds : WriteRecord(h, k)
  \/ \E s \in Outcomes : MarkTerminal(h, s)
  \/ Bundle(h) \/ Read(h) \/ CreateBundle(h) \/ FillBundle(h)
  \/ Delete(h) \/ RemoveFile(h) \/ RemoveDir(h)
  \/ \E e \in Entries : AppendLine(h, e)
  \/ Flush(h) \/ Kill(h)

Spec == Init /\ [][Next]_vars

-----------------------------------------------------------------------------
(* Properties.                                                             *)

Idle == \A h \in Hosts : At(h, "idle")

\* A record that was written whole stays as it is until its run, which was marked terminal, is
\* deleted, whoever else writes, marks, bundles or is killed; so does the bundle, for good; and
\* the ledger only grows (write_record, build_reproducibility_bundle, delete_expired, append).
RecordsStay ==
  [][/\ \A k \in Kinds : file[k].state = "whole" /\ file'[k] # file[k] =>
          \E h \in Hosts : At(h, "deleting") /\ k \in job[h].todo /\ file[k].life = job[h].life
     /\ bundle.state = "whole" => bundle' = bundle
     /\ IsPrefix(lines, lines')]_vars

\* A run that is marked terminal keeps that outcome until it is deleted, and a run's operations
\* leave nothing half done, as long as no two overlap and none is killed (mark_terminal,
\* begin_run, write_record).
OutcomeStays ==
  [][~ crowded => \A s \in Outcomes : Says(s) => file'["marker"] \in {file["marker"], Absent}]_vars

NothingHalfDone ==
  Idle /\ ~ killed /\ ~ crowded =>
    /\ \A f \in Files : file[f] \notin Half
    /\ ~ There("tmp")
    /\ dir <=> There("marker")

\* A bundle is of one run, although the identifier may be used again while it is read; and the
\* ledger has one line of an identifier - unless operations overlapped.
BundleIsOfOneRun ==
  ~ crowded =>
    /\ bundle.state = "whole" =>
         \A k, l \in Kinds : {bundle.of[k], bundle.of[l]} \cap {Absent} = {} =>
            bundle.of[k].life = bundle.of[l].life
    /\ \A i, j \in 1..Len(lines) : i # j => lines[i] # lines[j]
===============================================================================
