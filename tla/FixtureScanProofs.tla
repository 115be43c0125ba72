------------------------- MODULE FixtureScanProofs -------------------------
(* Theorems about sealed sources, prepared databases and raw reports, for    *)
(* any number of processes and databases.                                    *)
EXTENDS FixtureScan, SequenceTheorems, TLAPS

(***************************************************************************)
(* The inductive invariant.  One preparation runs at a time, and puts a    *)
(* database under its own name; a file that is written has one writer; a   *)
(* source that is half sealed has a process that will finish it, or one    *)
(* was killed.                                                             *)
(***************************************************************************)
Todo == {s \in Seq(Engines) : Len(s) <= 3}
Jobs == [store: Stores, todo: Todo, tree: Trees, used: {"none", "partial", "whole"},
         disturbed: BOOLEAN]

Sealers  == {"sealing", "renaming", "renamed", "listing", "linking", "resolving"}
Scanners == {"discovering", "scanning", "ready", "capturing", "writing"}
Finishing == {"renamed", "listing", "linking"}
Listing   == {"listing", "linking"}
Placing   == {"replacing", "rehoming"}
Staged    == {"empty"} \cup Databases

Typed ==
  /\ root \in [Stores -> {"absent", "writable", "sealed"}]
  /\ listed \in [Stores -> BOOLEAN]
  /\ packs \in [{"semgrep", "codeql"} -> BOOLEAN]
  /\ trees \in [Trees -> Tree]
  /\ staging \in {"absent", "empty"} \cup Databases
  /\ raw \in [Reports -> {"absent", "partial", "complete"}]
  /\ pc \in [Operators -> Places]
  /\ job \in [Operators -> Jobs]
  /\ receipts \subseteq Reports
  /\ killed \in BOOLEAN /\ broken \in BOOLEAN

\* What a process holds, by its place.
JobInv(o) ==
  /\ pc[o] = "idle" => job[o] = NoJob
  /\ pc[o] \in Sealers /\ job[o].store = "fixture" => job[o].todo # <<>>
  /\ pc[o] \in Scanners => job[o].store = "fixture" /\ job[o].todo # <<>>
  /\ pc[o] \in {"capturing", "writing"} => ReportOf(o) \in Reports
  /\ pc[o] = "ready" /\ Head(job[o].todo) = "trivy" /\ ~ job[o].disturbed =>
       trees[job[o].tree].cache = "whole"
  /\ job[o].used # "none" /\ ~ job[o].disturbed => job[o].used = "whole"
  /\ pc[o] \in Finishing => root[job[o].store] # "absent"
  /\ pc[o] \in Placing => staging \in Staged /\ job[o].tree = Home(staging)
  /\ pc[o] = "writing" => raw[ReportOf(o)] = "partial"

Alone ==
  \A o, p \in Operators :
    \/ pc[o] \in PreparationPlaces /\ pc[p] \in PreparationPlaces
    \/ pc[o] = "writing" /\ pc[p] = "writing" /\ ReportOf(o) = ReportOf(p)
    => o = p

Writing(r) == \E o \in Operators : pc[o] = "writing" /\ ReportOf(o) = r

RawInv ==
  ~ broken =>
    /\ \A r \in Reports : raw[r] = "partial" => Writing(r)
    /\ \A r \in receipts : raw[r] # "absent"

SealInv ==
  ~ killed => \A s \in Stores :
    /\ root[s] = "absent" => ~ listed[s]
    /\ root[s] = "writable" => \E o \in Operators : pc[o] = "renamed" /\ job[o].store = s
    /\ root[s] = "sealed" /\ ~ listed[s] =>
         \E o \in Operators : pc[o] \in Listing /\ job[o].store = s

IInv ==
  /\ Typed
  /\ \A o \in Operators : JobInv(o)
  /\ trees[Placeholder].cache \in {"absent", "empty"}
  /\ Alone /\ RawInv /\ SealInv


-----------------------------------------------------------------------------
(* What a process holds.                                                   *)

LEMMA NoJobType == NoJob \in Jobs
<1>1. <<>> \in Seq(Engines) /\ Len(<<>>) <= 3
  OBVIOUS
<1> QED
  BY <1>1 DEF NoJob, Jobs, Todo, Stores, Trees

LEMMA HeadTail ==
  ASSUME NEW s \in Todo, s # <<>>
  PROVE  /\ Head(s) \in Engines
         /\ Tail(s) \in Todo
         /\ Len(s) # 1 => Tail(s) # <<>>
<1>1. s \in Seq(Engines) /\ Len(s) <= 3
  BY DEF Todo
<1>2. /\ Head(s) \in Engines /\ Tail(s) \in Seq(Engines) /\ Len(Tail(s)) = Len(s) - 1
      /\ Len(s) \in Nat
  BY <1>1, HeadTailProperties
<1>3. Len(<<>>) = 0
  OBVIOUS
<1>4. Tail(s) = <<>> => Len(Tail(s)) = 0
  BY <1>3
<1> QED
  BY <1>1, <1>2, <1>4 DEF Todo

LEMMA RequestType ==
  ASSUME ScanAssumption, NEW s \in Requests
  PROVE  s \in Todo /\ s # <<>>
<1>1. s = All \/ \E e \in Engines : s = <<e>>
  BY DEF ScanAssumption
<1>2. All \in Todo /\ All # <<>>
  <2>1. All \in Seq(Engines) /\ Len(All) = 3 /\ All # <<>>
    BY DEF All, Engines
  <2>2. ASSUME NEW t, t \in Seq(Engines), Len(t) = 3 PROVE t \in Todo
    <3>1. Len(t) <= 3
      BY <2>2
    <3> QED
      BY <2>2, <3>1, Zenon DEF Todo
  <2> QED
    BY <2>1, <2>2
<1>3. \A e \in Engines : <<e>> \in Seq(Engines) /\ Len(<<e>>) = 1 /\ <<e>> # <<>>
  OBVIOUS
<1>4. CASE s = All
  BY <1>2, <1>4
<1>5. CASE \E e \in Engines : s = <<e>>
  <2>1. PICK e \in Engines : s = <<e>>
    BY <1>5
  <2>2. s \in Seq(Engines) /\ Len(s) = 1 /\ s # <<>>
    BY <1>3, <2>1
  <2> QED
    BY <2>2 DEF Todo
<1> QED
  BY <1>1, <1>4, <1>5

\* The processes other than o, and what they find, are as they were.
Others(o) ==
  /\ \A p \in Operators \ {o} : pc'[p] = pc[p] /\ job'[p] = job[p]
  /\ UNCHANGED <<root, listed, trees, staging, raw>>

\* A step of o alone.
LEMMA Step ==
  ASSUME IInv, NEW o \in Operators, Others(o), receipts' = receipts,
         Typed', JobInv(o)',
         killed => killed', broken => broken',
         pc[o] = "writing" => broken',
         pc'[o] # "writing",
         pc'[o] \in PreparationPlaces =>
           pc[o] \in PreparationPlaces \/ \A p \in Operators : pc[p] \notin PreparationPlaces,
         pc[o] = "renamed" => killed',
         pc[o] \in Listing =>
           killed' \/ listed[job[o].store] \/ (pc'[o] \in Listing /\ job'[o].store = job[o].store)
  PROVE  IInv'
<1>1. \A p \in Operators \ {o} : JobInv(p)'
  BY DEF IInv, Others, JobInv, ReportOf
<1>2. Alone'
  <2>1. \A p, q \in Operators : pc'[p] = "writing" => p # o /\ ReportOf(p)' = ReportOf(p)
    BY DEF Others, ReportOf
  <2>2. \A p, q \in Operators : pc'[p] = "writing" /\ pc'[q] = "writing" /\ ReportOf(p)' = ReportOf(q)' => p = q
    BY <2>1 DEF IInv, Others, Alone
  <2>3. \A p, q \in Operators : pc'[p] \in PreparationPlaces /\ pc'[q] \in PreparationPlaces => p = q
    BY DEF IInv, Others, Alone
  <2> QED
    BY <2>2, <2>3 DEF Alone
<1>3. RawInv'
  BY DEF IInv, Typed, Others, RawInv, Writing, ReportOf
<1>4. SealInv'
  <2> SUFFICES ASSUME ~ killed', NEW s \in Stores
               PROVE  /\ root[s] = "absent" => ~ listed[s]
                      /\ root[s] = "writable" => \E p \in Operators : pc'[p] = "renamed" /\ job'[p].store = s
                      /\ root[s] = "sealed" /\ ~ listed[s] =>
                           \E p \in Operators : pc'[p] \in Listing /\ job'[p].store = s
    BY DEF SealInv, Others
  <2> QED
    BY DEF IInv, Typed, Others, SealInv
<1> QED
  BY <1>1, <1>2, <1>3, <1>4 DEF IInv, Others

-----------------------------------------------------------------------------
(* The invariant, one action after the other.                              *)

LEMMA StartInv ==
  ASSUME ScanAssumption, IInv, NEW o \in Operators, Scan(o) \/ Admit(o) \/ Prepare(o)
  PROVE  IInv'
<1>1. PICK place \in {"sealing", "preparing"}, what \in Jobs :
        /\ Start(o, place, what)
        /\ what.used = "none"
        /\ place = "sealing" /\ what.store = "fixture" => what.todo # <<>>
        /\ place = "preparing" => \A p \in Operators : pc[p] \notin PreparationPlaces
  <2>1. CASE Scan(o)
    <3>1. PICK todo \in Requests : Start(o, "sealing", [NoJob EXCEPT !.todo = todo])
      BY <2>1 DEF Scan
    <3>2. todo \in Todo /\ todo # <<>>
      BY RequestType
    <3>3. [NoJob EXCEPT !.todo = todo] \in Jobs
      BY <3>2, NoJobType DEF Jobs
    <3> QED
      BY <3>1, <3>2, <3>3 DEF NoJob
  <2>2. CASE Admit(o)
    <3>1. [NoJob EXCEPT !.store = "repository"] \in Jobs
      BY NoJobType DEF Jobs, Stores
    <3> QED
      BY <2>2, <3>1 DEF Admit, NoJob
  <2>3. CASE Prepare(o)
    BY <2>3, NoJobType DEF Prepare, NoJob
  <2> QED
    BY <2>1, <2>2, <2>3
<1>2. /\ pc[o] = "idle" /\ pc' = [pc EXCEPT ![o] = place] /\ job' = [job EXCEPT ![o] = what]
      /\ UNCHANGED <<root, listed, packs, trees, staging, raw, receipts, killed, broken>>
  BY <1>1 DEF Start, At, sealed, deps, evidence
<1>3. Typed' /\ Others(o) /\ pc'[o] = place /\ job'[o] = what
  BY <1>2 DEF IInv, Typed, Places, Others
<1>4. JobInv(o)'
  BY <1>1, <1>3 DEF JobInv, Sealers, Scanners, Finishing, Placing
<1> QED
  BY <1>1, <1>2, <1>3, <1>4, Step DEF PreparationPlaces, Listing

\* The process goes on with what it holds.
LEMMA GoInv ==
  ASSUME IInv, NEW o \in Operators, NEW place \in Places,
         Goto(o, place), UNCHANGED <<root, listed, trees, staging, raw, receipts, killed, broken>>,
         packs' \in [{"semgrep", "codeql"} -> BOOLEAN],
         pc[o] \notin {"idle", "renamed", "writing"},
         place \notin Placing \cup {"idle", "renamed", "writing", "capturing"},
         place \in PreparationPlaces => pc[o] \in PreparationPlaces,
         place \in Sealers => pc[o] \in Sealers,
         place \in Scanners \ {"ready"} => pc[o] \in Scanners \/ (pc[o] \in Sealers /\ job[o].store = "fixture"),
         place = "ready" => pc[o] \in Scanners /\
           (Head(job[o].todo) = "trivy" => trees[job[o].tree].cache = "whole"),
         place \in Listing => pc[o] \in Listing \/ root[job[o].store] # "absent",
         pc[o] \in Listing => listed[job[o].store] \/ place \in Listing
  PROVE  IInv'
<1>1. Typed' /\ Others(o) /\ pc'[o] = place /\ job' = job
  BY DEF IInv, Typed, Goto, Others
<1>2. JobInv(o)'
  BY <1>1 DEF IInv, JobInv, Sealers, Scanners, Finishing, Listing, Placing, Others
<1> QED
  BY <1>1, <1>2, Step DEF Listing

LEMMA SealerGoes ==
  ASSUME IInv, NEW o \in Operators, CheckRoot(o) \/ CheckListed(o)
  PROVE  IInv'
<1>1. UNCHANGED <<root, listed, packs, trees, staging, raw, receipts, killed, broken>>
      /\ packs \in [{"semgrep", "codeql"} -> BOOLEAN]
  BY DEF CheckRoot, CheckListed, sealed, deps, evidence, IInv, Typed
<1>2. CASE CheckRoot(o)
  <2>1. PICK place \in {"renaming", "resolving", "listing"} :
          Goto(o, place) /\ (place = "listing" => root[job[o].store] # "absent")
    BY <1>2 DEF CheckRoot, WhenThere
  <2> QED
    BY <1>1, <1>2, <2>1, GoInv DEF CheckRoot, At, Places, Sealers, Scanners, Listing, Placing, PreparationPlaces
<1>3. CASE CheckListed(o)
  <2>1. PICK place \in {"resolving", "linking"} : Goto(o, place) /\ (place = "linking" \/ listed[job[o].store])
    BY <1>3 DEF CheckListed
  <2> QED
    BY <1>1, <1>3, <2>1, GoInv
       DEF CheckListed, At, Places, Sealers, Scanners, Listing, Placing, PreparationPlaces
<1> QED
  BY <1>2, <1>3

\* A process ends its work, or is killed.
LEMMA LeaveInv ==
  ASSUME IInv, NEW o \in Operators, Leave(o),
         UNCHANGED <<root, listed, trees, staging, raw, receipts>>,
         packs' \in [{"semgrep", "codeql"} -> BOOLEAN],
         killed' \in BOOLEAN, broken' \in BOOLEAN, killed => killed', broken => broken',
         pc[o] = "writing" => broken',
         pc[o] \in Finishing => killed' \/ (pc[o] \in Listing /\ listed[job[o].store])
  PROVE  IInv'
<1>1. Typed' /\ Others(o) /\ pc'[o] = "idle" /\ job'[o] = NoJob
  BY NoJobType DEF IInv, Typed, Leave, Others, Places
<1>2. JobInv(o)'
  BY <1>1 DEF JobInv, Sealers, Scanners, Finishing, Placing, NoJob
<1> QED
  BY <1>1, <1>2, Step DEF Finishing, Listing, PreparationPlaces

LEMMA KillInv ==
  ASSUME IInv, NEW o \in Operators, Kill(o)
  PROVE  IInv'
BY LeaveInv DEF Kill, At, sealed, deps, IInv, Typed

LEMMA ReportInv ==
  ASSUME IInv, NEW o \in Operators, Report(o)
  PROVE  IInv'
BY LeaveInv DEF Report, At, sealed, deps, evidence, IInv, Typed, Finishing

LEMMA ResolveInv ==
  ASSUME IInv, NEW o \in Operators, Resolve(o)
  PROVE  IInv'
<1>1. /\ pc[o] = "resolving" /\ packs \in [{"semgrep", "codeql"} -> BOOLEAN]
      /\ UNCHANGED <<root, listed, packs, trees, staging, raw, receipts, killed, broken>>
  BY DEF Resolve, At, sealed, deps, evidence, IInv, Typed
<1>2. CASE Leave(o)
  BY <1>1, <1>2, LeaveInv DEF Finishing, IInv, Typed
<1>3. CASE job[o].store = "fixture" /\ Goto(o, "discovering")
  BY <1>1, <1>3, GoInv DEF Places, Sealers, Scanners, Listing, Placing, PreparationPlaces
<1> QED
  BY <1>2, <1>3 DEF Resolve

\* What is left to scan.
LEMMA NextJob ==
  ASSUME IInv, NEW o \in Operators, pc[o] \in Scanners, NextEngine(o)
  PROVE  /\ pc' \in [Operators -> Places] /\ job' \in [Operators -> Jobs]
         /\ pc'[o] \in {"reporting", "scanning"}
         /\ job'[o].store = "fixture" /\ job'[o].used = "none" /\ ~ job'[o].disturbed
         /\ pc'[o] = "scanning" => job'[o].todo # <<>>
         /\ \A p \in Operators \ {o} : pc'[p] = pc[p] /\ job'[p] = job[p]
<1>1. job[o] \in Jobs /\ job[o].store = "fixture" /\ job[o].todo \in Todo /\ job[o].todo # <<>>
  BY DEF IInv, Typed, JobInv, Jobs
<1>2. /\ Tail(job[o].todo) \in Todo
      /\ Len(job[o].todo) # 1 => Tail(job[o].todo) # <<>>
  BY <1>1, HeadTail
<1> DEFINE tree == IF Head(job[o].todo) = "trivy" THEN Placeholder ELSE job[o].tree
           next == [job[o] EXCEPT !.todo = Tail(@), !.used = "none", !.disturbed = FALSE, !.tree = tree]
<1>3. job' = [job EXCEPT ![o] = next]
  BY DEF NextEngine
<1>4. next \in Jobs /\ next.store = "fixture" /\ next.used = "none" /\ next.disturbed = FALSE
      /\ next.todo = Tail(job[o].todo)
  BY <1>1, <1>2 DEF Jobs, Trees
<1> HIDE DEF next
<1>5. job' \in [Operators -> Jobs] /\ job'[o] = next /\ \A p \in Operators \ {o} : job'[p] = job[p]
  BY <1>3, <1>4 DEF IInv, Typed
<1>6. /\ pc' \in [Operators -> Places] /\ \A p \in Operators \ {o} : pc'[p] = pc[p]
      /\ pc'[o] = IF Len(job[o].todo) = 1 THEN "reporting" ELSE "scanning"
  BY DEF IInv, Typed, NextEngine, Places
<1> QED
  BY <1>2, <1>4, <1>5, <1>6

\* An engine is done, or could not start.
LEMMA NextEngineInv ==
  ASSUME IInv, NEW o \in Operators, pc[o] \in Scanners \ {"writing"}, NextEngine(o),
         UNCHANGED <<root, listed, packs, trees, staging, raw, receipts, killed, broken>>
  PROVE  IInv'
<1>1. Typed' /\ Others(o)
  BY NextJob DEF IInv, Typed, Others
<1>2. JobInv(o)'
  BY NextJob DEF JobInv, Sealers, Scanners, Finishing, Placing
<1> QED
  BY <1>1, <1>2, NextJob, Step DEF Scanners, Listing, PreparationPlaces

LEMMA DiscoverInv ==
  ASSUME IInv, NEW o \in Operators, Discover(o)
  PROVE  IInv'
<1>1. /\ pc[o] = "discovering" /\ packs \in [{"semgrep", "codeql"} -> BOOLEAN]
      /\ UNCHANGED <<root, listed, packs, trees, staging, raw, receipts, killed, broken>>
  BY DEF Discover, At, sealed, deps, evidence, IInv, Typed
<1>2. CASE Leave(o)
  BY <1>1, <1>2, LeaveInv DEF Finishing, IInv, Typed
<1>3. ASSUME NEW t \in Trees, pc' = [pc EXCEPT ![o] = "scanning"], job' = [job EXCEPT ![o].tree = t]
      PROVE  IInv'
  <2>1. job[o] \in Jobs /\ [job[o] EXCEPT !.tree = t] \in Jobs
    BY <1>3 DEF IInv, Typed, Jobs
  <2>2. Typed' /\ Others(o) /\ pc'[o] = "scanning" /\ job'[o] = [job[o] EXCEPT !.tree = t]
    BY <1>1, <1>3, <2>1 DEF IInv, Typed, Others, Places
  <2>3. JobInv(o)'
    BY <1>1, <2>1, <2>2 DEF IInv, JobInv, Jobs, Sealers, Scanners, Finishing, Placing
  <2> QED
    BY <1>1, <2>2, <2>3, Step DEF Listing, PreparationPlaces
<1> QED
  BY <1>2, <1>3 DEF Discover

LEMMA MakeCommandInv ==
  ASSUME IInv, NEW o \in Operators, MakeCommand(o)
  PROVE  IInv'
<1>1. /\ pc[o] = "scanning" /\ packs \in [{"semgrep", "codeql"} -> BOOLEAN]
      /\ UNCHANGED <<root, listed, packs, trees, staging, raw, receipts, killed, broken>>
  BY DEF MakeCommand, At, sealed, deps, evidence, IInv, Typed
<1>2. CASE NextEngine(o)
  BY <1>1, <1>2, NextEngineInv DEF Scanners
<1>3. CASE Command(o, Head(job[o].todo)) /\ Goto(o, "ready")
  BY <1>1, <1>3, GoInv
     DEF Command, Verified, Places, Sealers, Scanners, Listing, Placing, PreparationPlaces
<1> QED
  BY <1>2, <1>3 DEF MakeCommand

LEMMA ExecuteInv ==
  ASSUME IInv, NEW o \in Operators, Execute(o)
  PROVE  IInv'
<1> DEFINE e == Head(job[o].todo)
           cache == trees[job[o].tree].cache
<1>1. /\ pc[o] = "ready" /\ job[o] \in Jobs
      /\ UNCHANGED <<root, listed, packs, trees, staging, raw, receipts, killed, broken>>
  BY DEF Execute, At, sealed, deps, evidence, IInv, Typed
<1>2. CASE NextEngine(o)
  BY <1>1, <1>2, NextEngineInv DEF Scanners
<1>3. ASSUME NEW used \in {"none", "partial", "whole"},
             pc' = [pc EXCEPT ![o] = "capturing"], job' = [job EXCEPT ![o].used = used],
             ReportOf(o) \in Reports, used # "none" /\ ~ job[o].disturbed => used = "whole"
      PROVE  IInv'
  <2>1. [job[o] EXCEPT !.used = used] \in Jobs
    BY <1>1, <1>3 DEF Jobs
  <2>2. Typed' /\ Others(o) /\ pc'[o] = "capturing" /\ job'[o] = [job[o] EXCEPT !.used = used]
    BY <1>1, <1>3, <2>1 DEF IInv, Typed, Others, Places
  <2>3. ReportOf(o)' = ReportOf(o)
    BY <1>1, <2>2 DEF ReportOf, Jobs
  <2>4. JobInv(o)'
    BY <1>1, <1>3, <2>2, <2>3 DEF IInv, JobInv, Jobs, Sealers, Scanners, Finishing, Placing
  <2> QED
    BY <1>1, <2>2, <2>4, Step DEF Listing, PreparationPlaces
<1>4. CASE e = "semgrep" /\ Goto(o, "capturing")
  <2>1. job' = [job EXCEPT ![o].used = job[o].used]
    <3>1. job[o] = [job[o] EXCEPT !.used = job[o].used]
      BY <1>1 DEF Jobs
    <3> QED
      BY <1>4, <3>1 DEF Goto, IInv, Typed
  <2>2. ReportOf(o) \in Reports
    BY <1>4 DEF ReportOf, Reports
  <2>3. job[o].used \in {"none", "partial", "whole"}
        /\ (job[o].used # "none" /\ ~ job[o].disturbed => job[o].used = "whole")
    BY <1>1 DEF Jobs, IInv, JobInv
  <2> QED
    BY <1>3, <1>4, <2>1, <2>2, <2>3 DEF Goto
<1>5. CASE /\ e = "trivy" /\ cache \in {"partial", "whole"} /\ pc' = [pc EXCEPT ![o] = "capturing"]
           /\ job' = [job EXCEPT ![o].used = cache]
  <2>1. job[o].tree \in Databases
    BY <1>1, <1>5 DEF IInv, Jobs, Trees
  <2>2. ReportOf(o) \in Reports
    BY <1>5, <2>1 DEF ReportOf, Reports
  <2>3. ~ job[o].disturbed => cache = "whole"
    BY <1>1, <1>5 DEF IInv, JobInv
  <2> QED
    BY <1>3, <1>5, <2>2, <2>3
<1> QED
  BY <1>2, <1>4, <1>5 DEF Execute

LEMMA PrepareFilesInv ==
  ASSUME IInv, NEW o \in Operators, PrepareRules(o) \/ PrepareQueries(o)
  PROVE  IInv'
<1>1. /\ UNCHANGED <<root, listed, trees, staging, raw, receipts, killed, broken>>
      /\ packs' \in [{"semgrep", "codeql"} -> BOOLEAN] /\ killed \in BOOLEAN /\ broken \in BOOLEAN
  BY DEF PrepareRules, PrepareQueries, sealed, evidence, IInv, Typed
<1>2. CASE PrepareRules(o)
  BY <1>1, <1>2, GoInv
     DEF PrepareRules, At, Places, Sealers, Scanners, Listing, Placing, PreparationPlaces
<1>3. CASE PrepareQueries(o) /\ Goto(o, "clearing")
  BY <1>1, <1>3, GoInv
     DEF PrepareQueries, At, Places, Sealers, Scanners, Listing, Placing, PreparationPlaces
<1>4. CASE PrepareQueries(o) /\ Leave(o)
  BY <1>1, <1>4, LeaveInv DEF PrepareQueries, At, Finishing
<1> QED
  BY <1>2, <1>3, <1>4 DEF PrepareQueries

-----------------------------------------------------------------------------
(* Sealing.                                                                *)

\* A step of o that changes the sources.
LEMMA SealStep ==
  ASSUME IInv, NEW o \in Operators, NEW place \in Places, Goto(o, place), Typed',
         UNCHANGED <<trees, staging, raw, receipts, killed, broken>>,
         \A s \in Stores : root[s] # "absent" => root'[s] # "absent",
         pc[o] \in Sealers, place \in Sealers,
         place \in Finishing => root'[job[o].store] # "absent",
         SealInv'
  PROVE  IInv'
<1>1. pc'[o] = place /\ job' = job /\ \A p \in Operators \ {o} : pc'[p] = pc[p]
  BY DEF IInv, Typed, Goto
<1>2. \A p \in Operators : job[p].store \in Stores /\ ReportOf(p)' = ReportOf(p)
  BY <1>1 DEF IInv, Typed, Jobs, ReportOf
<1>3. \A p \in Operators \ {o} : JobInv(p)'
  BY <1>1, <1>2 DEF IInv, JobInv
<1>4. JobInv(o)'
  BY <1>1, <1>2 DEF IInv, JobInv, Sealers, Scanners, Placing
<1>5. pc[o] # "writing" /\ pc'[o] # "writing" /\ pc'[o] \notin PreparationPlaces
  BY <1>1 DEF Sealers, PreparationPlaces
<1>6. Alone'
  BY <1>1, <1>2, <1>5 DEF IInv, Alone
<1>7. RawInv'
  <2>1. \A r \in Reports : Writing(r) => Writing(r)'
    BY <1>1, <1>2, <1>5 DEF Writing
  <2> QED
    BY <2>1 DEF IInv, RawInv
<1> QED
  BY <1>3, <1>4, <1>6, <1>7 DEF IInv

LEMMA RenameInv ==
  ASSUME IInv, NEW o \in Operators, Rename(o)
  PROVE  IInv'
<1> DEFINE s == job[o].store
<1>1. /\ pc[o] = "renaming" /\ s \in Stores
      /\ UNCHANGED <<listed, packs, trees, staging, raw, receipts, killed, broken>>
  BY DEF Rename, At, deps, evidence, IInv, Typed, Jobs
<1>2. CASE Free(s) /\ root' = [root EXCEPT ![s] = "writable"] /\ Goto(o, "renamed")
  <2>1. Typed' /\ root'[s] = "writable" /\ \A t \in Stores \ {s} : root'[t] = root[t]
    BY <1>1, <1>2 DEF IInv, Typed, Goto, Places
  <2>2. pc'[o] = "renamed" /\ job' = job /\ \A p \in Operators \ {o} : pc'[p] = pc[p]
    BY <1>2 DEF IInv, Typed, Goto
  <2>3. SealInv'
    BY <1>1, <2>1, <2>2 DEF IInv, SealInv, Listing
  <2> QED
    BY <1>1, <1>2, <2>1, <2>3, SealStep DEF Places, Sealers, Finishing
<1>3. CASE Leave(o) /\ UNCHANGED root
  BY <1>1, <1>3, LeaveInv DEF Finishing, IInv, Typed
<1> QED
  BY <1>2, <1>3 DEF Rename

LEMMA HardenInv ==
  ASSUME IInv, NEW o \in Operators, Harden(o)
  PROVE  IInv'
<1> DEFINE s == job[o].store
<1>1. /\ pc[o] = "renamed" /\ s \in Stores /\ root' = [root EXCEPT ![s] = "sealed"]
      /\ UNCHANGED <<listed, packs, trees, staging, raw, receipts, killed, broken>> /\ Goto(o, "listing")
  BY DEF Harden, Hardened, At, deps, evidence, IInv, Typed, Jobs
<1>2. Typed' /\ root'[s] = "sealed" /\ \A t \in Stores \ {s} : root'[t] = root[t]
  BY <1>1 DEF IInv, Typed, Goto, Places
<1>3. pc'[o] = "listing" /\ job' = job /\ \A p \in Operators \ {o} : pc'[p] = pc[p]
  BY <1>1 DEF IInv, Typed, Goto
<1>4. SealInv'
  BY <1>1, <1>2, <1>3 DEF IInv, SealInv, Listing
<1> QED
  BY <1>1, <1>2, <1>4, SealStep DEF Places, Sealers, Finishing

LEMMA LinkInv ==
  ASSUME IInv, NEW o \in Operators, Link(o)
  PROVE  IInv'
<1> DEFINE s == job[o].store
<1>1. /\ pc[o] = "linking" /\ s \in Stores /\ listed' = [listed EXCEPT ![s] = TRUE]
      /\ UNCHANGED <<root, packs, trees, staging, raw, receipts, killed, broken>>
  BY DEF Link, At, deps, evidence, IInv, Typed, Jobs
<1>2. root[s] # "absent"
  BY <1>1 DEF IInv, JobInv, Finishing
<1>3. CASE listed["repository"] /\ s = "repository" /\ Leave(o)
  <2>1. listed' = listed
    BY <1>1, <1>3 DEF IInv, Typed
  <2> QED
    BY <1>1, <1>3, <2>1, LeaveInv DEF Finishing, Listing, IInv, Typed
<1>4. CASE Goto(o, "resolving")
  <2>1. Typed' /\ listed'[s] = TRUE /\ \A t \in Stores \ {s} : listed'[t] = listed[t]
    BY <1>1, <1>4 DEF IInv, Typed, Goto, Places
  <2>2. pc'[o] = "resolving" /\ job' = job /\ \A p \in Operators \ {o} : pc'[p] = pc[p]
    BY <1>4 DEF IInv, Typed, Goto
  <2>3. SealInv'
    BY <1>1, <1>2, <2>1, <2>2 DEF IInv, SealInv, Listing
  <2> QED
    BY <1>1, <1>4, <2>1, <2>3, SealStep DEF Places, Sealers, Finishing
<1> QED
  BY <1>3, <1>4 DEF Link

LEMMA SealingInv ==
  ASSUME ScanAssumption, IInv, NEW o \in Operators, Sealing(o)
  PROVE  IInv'
BY StartInv, SealerGoes, RenameInv, HardenInv, LinkInv, ResolveInv DEF Sealing

-----------------------------------------------------------------------------
(* The raw reports.                                                        *)

\* A step of o at its report r, which nobody else writes if it changes.
LEMMA ReportStep ==
  ASSUME IInv, NEW o \in Operators, NEW r \in Reports, r = ReportOf(o), pc[o] \in {"capturing", "writing"},
         Typed', UNCHANGED <<root, listed, trees, staging, killed>>,
         \A p \in Operators \ {o} : pc'[p] = pc[p] /\ job'[p] = job[p],
         \A q \in Reports \ {r} : raw'[q] = raw[q],
         \/ raw' = raw /\ pc'[o] # "writing"
         \/ \A p \in Operators \ {o} : ~ (pc[p] = "writing" /\ ReportOf(p) = r),
         pc'[o] \in {"reporting", "scanning", "writing"}, JobInv(o)', pc'[o] = "writing" => job' = job,
         broken => broken', receipts' \subseteq receipts \cup {r},
         ~ broken' /\ raw'[r] = "partial" =>
           pc'[o] = "writing" \/ \E p \in Operators \ {o} : pc[p] = "writing" /\ ReportOf(p) = r,
         ~ broken' /\ r \in receipts' => raw'[r] # "absent"
  PROVE  IInv'
<1>1. \A p \in Operators \ {o} : ReportOf(p)' = ReportOf(p)
  BY DEF ReportOf
<1>2. pc'[o] = "writing" => ReportOf(o)' = r
  BY DEF ReportOf
<1>3. ASSUME NEW p \in Operators \ {o} PROVE JobInv(p)'
  <2>1. pc[p] = "writing" => raw'[ReportOf(p)] = "partial" /\ ReportOf(p) \in Reports
    BY DEF IInv, JobInv
  <2> QED
    BY <1>1, <2>1 DEF IInv, JobInv
<1>4. Alone'
  <2>1. ASSUME NEW p \in Operators, NEW q \in Operators, pc'[p] = "writing", pc'[q] = "writing",
               ReportOf(p)' = ReportOf(q)'
        PROVE  p = q
    BY <1>1, <1>2, <2>1 DEF IInv, Alone
  <2>2. \A p, q \in Operators : pc'[p] \in PreparationPlaces /\ pc'[q] \in PreparationPlaces => p = q
    <3>1. pc'[o] \notin PreparationPlaces
      BY DEF PreparationPlaces
    <3> QED
      BY <3>1 DEF IInv, Alone
  <2> QED
    BY <2>1, <2>2 DEF Alone
<1>5. RawInv'
  <2>1. ASSUME NEW q \in Reports \ {r}, Writing(q) PROVE Writing(q)'
    BY <1>1, <2>1 DEF Writing
  <2>2. ASSUME ~ broken', NEW q \in Reports, raw'[q] = "partial" PROVE Writing(q)'
    <3>1. CASE q = r /\ pc'[o] = "writing"
      BY <1>2, <3>1 DEF Writing
    <3>2. CASE q = r /\ pc'[o] # "writing"
      <4>1. PICK p \in Operators \ {o} : pc[p] = "writing" /\ ReportOf(p) = r
        BY <2>2, <3>2
      <4>2. pc'[p] = "writing" /\ ReportOf(p)' = q
        BY <1>1, <3>2, <4>1
      <4> QED
        BY <4>2 DEF Writing
    <3>3. CASE q # r
      <4>1. ~ broken /\ raw[q] = "partial" /\ q \in Reports \ {r}
        BY <2>2, <3>3
      <4>2. Writing(q)
        BY <4>1 DEF IInv, RawInv
      <4> QED
        BY <2>1, <4>1, <4>2
    <3> QED
      BY <3>1, <3>2, <3>3
  <2>3. ASSUME ~ broken', NEW q \in receipts' PROVE raw'[q] # "absent"
    BY <2>3 DEF IInv, Typed, RawInv
  <2> QED
    BY <2>2, <2>3 DEF RawInv
<1>6. SealInv'
  <2>1. pc[o] \notin Listing \cup {"renamed"}
    BY DEF Listing
  <2> QED
    BY <2>1 DEF IInv, SealInv
<1> QED
  BY <1>3, <1>4, <1>5, <1>6 DEF IInv

LEMMA CaptureInv ==
  ASSUME IInv, NEW o \in Operators, Capture(o)
  PROVE  IInv'
<1> DEFINE r == ReportOf(o)
<1>1. /\ pc[o] = "capturing" /\ r \in Reports
      /\ UNCHANGED <<root, listed, packs, trees, staging, killed, broken>>
  BY DEF Capture, At, sealed, deps, IInv, JobInv
<1>2. CASE NextEngine(o) /\ UNCHANGED <<raw, receipts>>
  BY <1>1, <1>2, NextEngineInv DEF Scanners
<1>3. CASE raw[r] # "absent" /\ receipts' = receipts \cup {r} /\ NextEngine(o) /\ UNCHANGED raw
  <2>1. pc[o] \in Scanners
    BY <1>1 DEF Scanners
  <2>2. /\ pc'[o] \in {"reporting", "scanning"} /\ Typed'
        /\ \A p \in Operators \ {o} : pc'[p] = pc[p] /\ job'[p] = job[p]
    BY <1>1, <1>3, <2>1, NextJob DEF IInv, Typed
  <2>3. JobInv(o)'
    BY <1>3, <2>1, NextJob DEF JobInv, Sealers, Scanners, Finishing, Placing
  <2>4. raw[r] = "partial" => broken \/ \E p \in Operators \ {o} : pc[p] = "writing" /\ ReportOf(p) = r
    BY <1>1 DEF IInv, RawInv, Writing
  <2> HIDE DEF r
  <2> QED
    BY <1>1, <1>3, <2>2, <2>3, <2>4, ReportStep DEF r
<1>4. CASE raw[r] = "absent" /\ raw' = [raw EXCEPT ![r] = "partial"] /\ Goto(o, "writing") /\ UNCHANGED receipts
  <2>1. /\ pc'[o] = "writing" /\ job' = job /\ raw'[r] = "partial" /\ Typed'
        /\ \A p \in Operators \ {o} : pc'[p] = pc[p] /\ job'[p] = job[p]
        /\ \A q \in Reports \ {r} : raw'[q] = raw[q]
    BY <1>1, <1>4 DEF IInv, Typed, Goto, Places
  <2>2. \A p \in Operators : ~ (pc[p] = "writing" /\ ReportOf(p) = r)
    BY <1>4 DEF IInv, JobInv
  <2>3. ReportOf(o)' = r
    BY <2>1 DEF ReportOf
  <2>4. JobInv(o)'
    BY <1>1, <2>1, <2>3 DEF IInv, JobInv, Sealers, Scanners, Finishing, Placing
  <2> HIDE DEF r
  <2> QED
    BY <1>1, <1>4, <2>1, <2>2, <2>4, ReportStep DEF r
<1> QED
  BY <1>2, <1>3, <1>4 DEF Capture

LEMMA WriteInv ==
  ASSUME IInv, NEW o \in Operators, Write(o)
  PROVE  IInv'
<1> DEFINE r == ReportOf(o)
<1>1. /\ pc[o] = "writing" /\ r \in Reports /\ raw[r] = "partial" /\ NextEngine(o)
      /\ UNCHANGED <<root, listed, packs, trees, staging, killed>>
      /\ \/ raw' = [raw EXCEPT ![r] = "complete"] /\ receipts' = receipts \cup {r} /\ broken' = broken
         \/ raw' = [raw EXCEPT ![r] = "absent"] /\ receipts' = receipts /\ broken' = (broken \/ r \in receipts)
  BY DEF Write, AfterFailure, At, sealed, deps, IInv, JobInv
<1>2. pc[o] \in Scanners
  BY <1>1 DEF Scanners
<1>3. /\ pc'[o] \in {"reporting", "scanning"} /\ Typed'
      /\ \A p \in Operators \ {o} : pc'[p] = pc[p] /\ job'[p] = job[p]
      /\ \A q \in Reports \ {r} : raw'[q] = raw[q]
      /\ raw'[r] # "partial" /\ (~ broken' /\ r \in receipts' => raw'[r] # "absent")
      /\ receipts' \subseteq receipts \cup {r} /\ (broken => broken')
  <2> HIDE DEF r
  <2>1. /\ pc' \in [Operators -> Places] /\ job' \in [Operators -> Jobs]
        /\ pc'[o] \in {"reporting", "scanning"}
        /\ \A p \in Operators \ {o} : pc'[p] = pc[p] /\ job'[p] = job[p]
    BY <1>1, <1>2, NextJob
  <2>2. CASE raw' = [raw EXCEPT ![r] = "complete"] /\ receipts' = receipts \cup {r} /\ broken' = broken
    <3>1. /\ raw' \in [Reports -> {"absent", "partial", "complete"}] /\ raw'[r] = "complete"
          /\ \A q \in Reports \ {r} : raw'[q] = raw[q]
      BY <1>1, <2>2 DEF IInv, Typed
    <3>2. receipts' \subseteq Reports /\ broken' \in BOOLEAN /\ (broken => broken')
      BY <1>1, <2>2 DEF IInv, Typed
    <3> QED
      BY <1>1, <2>1, <2>2, <3>1, <3>2 DEF IInv, Typed
  <2>3. CASE /\ raw' = [raw EXCEPT ![r] = "absent"] /\ receipts' = receipts
             /\ broken' = (broken \/ r \in receipts)
    <3>1. /\ raw' \in [Reports -> {"absent", "partial", "complete"}] /\ raw'[r] = "absent"
          /\ \A q \in Reports \ {r} : raw'[q] = raw[q]
      BY <1>1, <2>3 DEF IInv, Typed
    <3>2. broken' \in BOOLEAN /\ (broken => broken') /\ (r \in receipts => broken')
      BY <2>3, Zenon DEF IInv, Typed
    <3> QED
      BY <1>1, <2>1, <2>3, <3>1, <3>2 DEF IInv, Typed
  <2> QED
    BY <1>1, <2>2, <2>3
<1>4. JobInv(o)'
  BY <1>1, <1>2, NextJob DEF JobInv, Sealers, Scanners, Finishing, Placing
<1>5. \A p \in Operators \ {o} : ~ (pc[p] = "writing" /\ ReportOf(p) = r)
  BY <1>1 DEF IInv, Alone
<1> HIDE DEF r
<1> QED
  BY <1>1, <1>3, <1>4, <1>5, ReportStep DEF r

-----------------------------------------------------------------------------
(* The preparation.                                                        *)

\* What another process has from a step of the preparation: an admitted command finds
\* what it found, or is marked as disturbed.
Same(p) ==
  /\ pc'[p] = pc[p]
  /\ job'[p].store = job[p].store /\ job'[p].todo = job[p].todo /\ job'[p].tree = job[p].tree
  /\ job'[p].used = job[p].used /\ (job[p].disturbed => job'[p].disturbed)
  /\ pc[p] # "ready" => job'[p] = job[p]
Spared(p) ==
  pc[p] = "ready" /\ Head(job[p].todo) = "trivy" /\ ~ job'[p].disturbed =>
    trees'[job[p].tree].cache = "whole"

LEMMA PrepareStep ==
  ASSUME IInv, NEW o \in Operators, pc[o] \in PreparationPlaces, Typed',
         pc'[o] \in PreparationPlaces \cup {"idle"},
         UNCHANGED <<root, listed, raw, receipts, killed, broken>>,
         \A p \in Operators \ {o} : Same(p) /\ Spared(p),
         JobInv(o)', trees'[Placeholder].cache \in {"absent", "empty"}
  PROVE  IInv'
<1>1. \A p \in Operators \ {o} : /\ pc'[p] = pc[p] /\ job'[p].store = job[p].store
                                 /\ ReportOf(p)' = ReportOf(p)
  BY DEF Same, ReportOf
<1>2. \A p \in Operators \ {o} : pc[p] \notin PreparationPlaces /\ pc[p] \notin Placing
  BY DEF IInv, Alone, PreparationPlaces, Placing
<1>3. ASSUME NEW p \in Operators \ {o} PROVE JobInv(p)'
  <2>1. JobInv(p) /\ Same(p) /\ Spared(p) /\ pc'[p] \notin Placing
    BY <1>1, <1>2 DEF IInv
  <2> QED
    BY <1>1, <2>1 DEF JobInv, Same, Spared
<1>4. Alone'
  <2>1. pc[o] # "writing" /\ pc'[o] # "writing"
    BY DEF PreparationPlaces
  <2> QED
    BY <1>1, <1>2, <2>1 DEF IInv, Alone
<1>5. RawInv'
  <2>1. \A r \in Reports : Writing(r) => Writing(r)'
    BY <1>1 DEF Writing, PreparationPlaces
  <2> QED
    BY <2>1 DEF IInv, RawInv
<1>6. SealInv'
  <2>1. pc[o] \notin Listing \cup {"renamed"}
    BY DEF Listing, PreparationPlaces
  <2> QED
    BY <1>1, <2>1 DEF IInv, SealInv
<1> QED
  BY <1>3, <1>4, <1>5, <1>6 DEF IInv

LEMMA ClearStagingInv ==
  ASSUME IInv, NEW o \in Operators, ClearStaging(o)
  PROVE  IInv'
<1>1. /\ pc[o] = "clearing" /\ Goto(o, "downloading") /\ staging' = "empty"
      /\ UNCHANGED <<root, listed, packs, trees, raw, receipts, killed, broken>>
  BY DEF ClearStaging, At, sealed, evidence
<1>2. /\ Typed' /\ pc'[o] = "downloading" /\ job' = job
      /\ \A p \in Operators \ {o} : pc'[p] = pc[p]
  BY <1>1 DEF IInv, Typed, Goto, Places
<1>3. JobInv(o)'
  BY <1>1, <1>2 DEF IInv, JobInv, Sealers, Scanners, Finishing, Placing
<1>4. \A p \in Operators \ {o} : Same(p) /\ Spared(p)
  BY <1>1, <1>2 DEF IInv, JobInv, Same, Spared
<1> QED
  BY <1>1, <1>2, <1>3, <1>4, PrepareStep DEF PreparationPlaces, IInv

LEMMA DownloadInv ==
  ASSUME IInv, NEW o \in Operators, Download(o)
  PROVE  IInv'
<1> DEFINE tree == Home(staging')
<1>1. /\ pc[o] = "downloading" /\ staging' \in Staged /\ pc' = [pc EXCEPT ![o] = "replacing"]
      /\ job' = [job EXCEPT ![o].tree = tree]
      /\ UNCHANGED <<root, listed, packs, trees, raw, receipts, killed, broken>>
  BY DEF Download, Staged, At, sealed, evidence
<1>2. tree \in Trees
  BY <1>1 DEF Home, Staged, Trees
<1>3. job[o] \in Jobs /\ [job[o] EXCEPT !.tree = tree] \in Jobs
  BY <1>2 DEF IInv, Typed, Jobs
<1>4. /\ Typed' /\ pc'[o] = "replacing" /\ job'[o] = [job[o] EXCEPT !.tree = tree]
      /\ \A p \in Operators \ {o} : pc'[p] = pc[p] /\ job'[p] = job[p]
  BY <1>1, <1>3 DEF IInv, Typed, Staged, Places
<1>5. JobInv(o)'
  <2>1. /\ job'[o].tree = Home(staging)' /\ job'[o].used = job[o].used
        /\ job'[o].disturbed = job[o].disturbed
    BY <1>3, <1>4 DEF Jobs, Home
  <2> QED
    BY <1>1, <1>4, <2>1 DEF IInv, JobInv, Sealers, Scanners, Finishing, Placing, Staged
<1>6. \A p \in Operators \ {o} : Same(p) /\ Spared(p)
  BY <1>1, <1>4 DEF IInv, JobInv, Same, Spared
<1> QED
  BY <1>1, <1>4, <1>5, <1>6, PrepareStep DEF PreparationPlaces, IInv

\* Every admitted command of a database scan is disturbed.
LEMMA DisturbInv ==
  ASSUME IInv, NEW o \in Operators, pc[o] \in PreparationPlaces, NEW tree \in Trees,
         NEW place \in {"replacing", "rehoming", "describing", "idle"}, Disturb(o, place, tree),
         trees' \in [Trees -> Tree], staging' \in {"absent", "empty"} \cup Databases, packs' = packs,
         trees'[Placeholder].cache \in {"absent", "empty"},
         place \in Placing => staging' \in Staged /\ tree = Home(staging')
  PROVE  IInv'
<1> DEFINE next == IF place = "idle" THEN NoJob ELSE [job[o] EXCEPT !.tree = tree]
           hit(p) == At(p, "ready") /\ Head(job[p].todo) = "trivy"
<1>1. /\ pc' = [pc EXCEPT ![o] = place]
      /\ UNCHANGED <<root, listed, raw, receipts, killed, broken>>
      /\ job' = [p \in Operators |-> IF p = o THEN next
                                     ELSE IF hit(p) THEN [job[p] EXCEPT !.disturbed = TRUE] ELSE job[p]]
  BY DEF Disturb, sealed, evidence
<1>2. \A p \in Operators : job[p] \in Jobs /\ [job[p] EXCEPT !.disturbed = TRUE] \in Jobs
  BY DEF IInv, Typed, Jobs
<1>3. next \in Jobs
  BY <1>2, NoJobType DEF Jobs
<1>4. /\ pc'[o] = place /\ job'[o] = next
      /\ \A p \in Operators \ {o} :
           pc'[p] = pc[p] /\ job'[p] = IF hit(p) THEN [job[p] EXCEPT !.disturbed = TRUE] ELSE job[p]
  BY <1>1 DEF IInv, Typed
<1>5. Typed'
  <2>1. job' \in [Operators -> Jobs]
    BY <1>1, <1>2, <1>3
  <2>2. pc' \in [Operators -> Places]
    BY <1>1 DEF IInv, Typed, Places
  <2> QED
    BY <1>1, <2>1, <2>2 DEF IInv, Typed
<1>6. JobInv(o)'
  <2>1. CASE place = "idle"
    BY <1>4, <2>1 DEF JobInv, NoJob, Sealers, Scanners, Finishing, Placing
  <2>2. CASE place # "idle"
    <3>1. job'[o].tree = tree /\ job'[o].used = job[o].used /\ job'[o].disturbed = job[o].disturbed
      BY <1>2, <1>4, <2>2 DEF Jobs
    <3>2. place \in Placing => staging' \in Staged /\ job'[o].tree = Home(staging)'
      BY <3>1 DEF Home
    <3> QED
      BY <1>4, <2>2, <3>1, <3>2 DEF IInv, JobInv, Sealers, Scanners, Finishing, Placing, Staged
  <2> QED
    BY <2>1, <2>2
<1>7. ASSUME NEW p \in Operators \ {o} PROVE Same(p) /\ Spared(p)
  <2>1. CASE hit(p)
    BY <1>2, <1>4, <2>1 DEF Same, Spared, At, Jobs
  <2>2. CASE ~ hit(p)
    BY <1>4, <2>2 DEF Same, Spared, At
  <2> QED
    BY <2>1, <2>2
<1> HIDE DEF next
<1> QED
  BY <1>1, <1>4, <1>5, <1>6, <1>7, PrepareStep DEF PreparationPlaces

LEMMA ReplaceInv ==
  ASSUME IInv, NEW o \in Operators, Replace(o)
  PROVE  IInv'
<1> DEFINE t == job[o].tree
<1>1. /\ pc[o] = "replacing" /\ t \in Trees /\ UNCHANGED <<packs, staging>>
      /\ staging \in Staged /\ t = Home(staging)
      /\ trees \in [Trees -> Tree] /\ trees[Placeholder].cache \in {"absent", "empty"}
  BY DEF Replace, At, IInv, Typed, Jobs, JobInv, Placing
<1>2. ASSUME NEW tree \in Tree, tree.cache \in {"absent", "partial"},
             tree.cache = "partial" => trees[t].cache = "whole",
             trees' = [trees EXCEPT ![t] = tree],
             Disturb(o, "replacing", t) \/ Disturb(o, "rehoming", t)
      PROVE  IInv'
  <2>1. trees' \in [Trees -> Tree] /\ trees'[Placeholder].cache \in {"absent", "empty"}
    BY <1>1, <1>2 DEF Trees
  <2>2. staging' \in {"absent", "empty"} \cup Databases /\ staging' \in Staged /\ t = Home(staging')
    BY <1>1 DEF Staged, Home
  <2> QED
    BY <1>1, <1>2, <2>1, <2>2, DisturbInv DEF PreparationPlaces
<1>3. ASSUME trees[t].cache = "whole", NEW left \in BOOLEAN,
             trees' = [trees EXCEPT ![t] = [cache |-> "partial", metadata |-> @.metadata /\ left]],
             Disturb(o, "replacing", t)
      PROVE  IInv'
  <2>1. [cache |-> "partial", metadata |-> trees[t].metadata /\ left] \in Tree
    BY <1>1, <1>3 DEF Tree
  <2> QED
    BY <1>1, <1>2, <1>3, <2>1
<1>4. CASE trees' = [trees EXCEPT ![t] = NoTree] /\ Disturb(o, "rehoming", t)
  <2>1. NoTree \in Tree /\ NoTree.cache = "absent"
    BY DEF NoTree, Tree
  <2> QED
    BY <1>2, <1>4, <2>1
<1> QED
  BY <1>3, <1>4 DEF Replace

LEMMA RehomeInv ==
  ASSUME ScanAssumption, IInv, NEW o \in Operators, Rehome(o)
  PROVE  IInv'
<1> DEFINE t == job[o].tree
           cache == IF staging = "empty" THEN staging ELSE "whole"
<1>1. /\ pc[o] = "rehoming" /\ t \in Trees /\ packs' = packs /\ staging' = "absent"
      /\ staging \in Staged /\ t = Home(staging) /\ Disturb(o, "describing", t)
      /\ trees \in [Trees -> Tree] /\ trees[Placeholder].cache \in {"absent", "empty"}
      /\ trees' = [trees EXCEPT ![t].cache = cache]
  BY DEF Rehome, At, IInv, Typed, Jobs, JobInv, Placing
<1>2. t = Placeholder => cache = "empty"
  BY <1>1 DEF ScanAssumption, Home, Staged
<1>3. [trees[t] EXCEPT !.cache = cache] \in Tree
  BY <1>1 DEF Tree
<1>4. trees' \in [Trees -> Tree] /\ trees'[Placeholder].cache \in {"absent", "empty"}
  <2>1. trees' = [trees EXCEPT ![t] = [trees[t] EXCEPT !.cache = cache]]
    BY <1>1
  <2>2. [trees[t] EXCEPT !.cache = cache].cache = cache
    BY <1>1 DEF Tree
  <2> QED
    BY <1>1, <1>2, <1>3, <2>1, <2>2 DEF Trees
<1> QED
  BY <1>1, <1>4, DisturbInv DEF PreparationPlaces, Placing

LEMMA DescribeInv ==
  ASSUME IInv, NEW o \in Operators, Describe(o)
  PROVE  IInv'
<1> DEFINE t == job[o].tree
<1>1. /\ pc[o] = "describing" /\ t \in Trees /\ UNCHANGED <<packs, staging>>
      /\ Disturb(o, "idle", Placeholder) /\ staging \in {"absent", "empty"} \cup Databases
      /\ trees \in [Trees -> Tree] /\ trees[Placeholder].cache \in {"absent", "empty"}
      /\ trees' = [trees EXCEPT ![t].metadata = TRUE]
  BY DEF Describe, At, IInv, Typed, Jobs
<1>2. trees' \in [Trees -> Tree] /\ trees'[Placeholder].cache \in {"absent", "empty"}
  <2>1. [trees[t] EXCEPT !.metadata = TRUE] \in Tree
        /\ [trees[t] EXCEPT !.metadata = TRUE].cache = trees[t].cache
    BY <1>1 DEF Tree
  <2>2. trees' = [trees EXCEPT ![t] = [trees[t] EXCEPT !.metadata = TRUE]]
    BY <1>1
  <2> QED
    BY <1>1, <2>1, <2>2 DEF Trees
<1> QED
  BY <1>1, <1>2, DisturbInv DEF PreparationPlaces, Placing, Trees

LEMMA PreparationInv ==
  ASSUME ScanAssumption, IInv, NEW o \in Operators, Preparation(o)
  PROVE  IInv'
BY StartInv, PrepareFilesInv, ClearStagingInv, DownloadInv, ReplaceInv, RehomeInv, DescribeInv
   DEF Preparation

LEMMA ScanningInv ==
  ASSUME ScanAssumption, IInv, NEW o \in Operators, Scanning(o)
  PROVE  IInv'
BY StartInv, DiscoverInv, MakeCommandInv, ExecuteInv, CaptureInv, WriteInv, ReportInv DEF Scanning

-----------------------------------------------------------------------------
(* The theorems.                                                           *)

LEMMA InitInv ==
  ASSUME Init
  PROVE  IInv
<1>1. Typed
  BY NoJobType DEF Init, Typed, Tree, NoTree, Places
<1>2. ASSUME NEW o \in Operators PROVE JobInv(o)
  BY DEF Init, JobInv, NoJob, Sealers, Scanners, Finishing, Placing
<1>3. trees[Placeholder].cache \in {"absent", "empty"}
  BY DEF Init, NoTree, Trees
<1>4. Alone
  BY DEF Init, Alone, PreparationPlaces
<1>5. RawInv
  BY DEF Init, RawInv
<1>6. SealInv
  BY DEF Init, SealInv, Stores
<1> QED
  BY <1>1, <1>2, <1>3, <1>4, <1>5, <1>6 DEF IInv

LEMMA StutterInv ==
  ASSUME IInv, UNCHANGED vars
  PROVE  IInv'
BY DEF vars, sealed, deps, local, IInv, Typed, JobInv, ReportOf, Alone, RawInv, Writing, SealInv

LEMMA NextInv ==
  ASSUME ScanAssumption, IInv, [Next]_vars
  PROVE  IInv'
BY SealingInv, ScanningInv, PreparationInv, KillInv, StutterInv DEF Next

\* Whatever is sealed, prepared, scanned, fails or is killed: one preparation runs at a
\* time, a report that is written has one writer, and a source that is half sealed has a
\* process that will finish it, or one was killed (sealed_store.py, scanner_runner.py,
\* workbench-prepare-scanner-deps.py).
THEOREM Invariance ==
  ASSUME ScanAssumption
  PROVE  Spec => []IInv
<1>1. Init => IInv
  BY InitInv
<1>2. IInv /\ [Next]_vars => IInv'
  BY NextInv
<1> QED
  BY <1>1, <1>2, PTL DEF Spec

\* Every variable stays in its type, and the directory of the policy's digest never
\* holds a database (prepare_trivy).
THEOREM TypeCorrect ==
  ASSUME ScanAssumption
  PROVE  Spec => []TypeOK
<1>1. IInv => TypeOK
  BY DEF IInv, Typed, TypeOK, JobInv, Jobs, Todo
<1> QED
  BY <1>1, Invariance, PTL

\* As long as nobody is killed, a source that no process is sealing is absent or
\* intact, however many seal it at the same time (seal_fixture, seal_registered_root).
THEOREM SourcesAreWhole ==
  ASSUME ScanAssumption
  PROVE  Spec => []NeverHalfSealed
<1>1. IInv => NeverHalfSealed
  <2> SUFFICES ASSUME IInv, NEW s \in Stores, ~ killed,
                      \A o \in Operators : At(o, "idle") \/ job[o].store # s
               PROVE  (root[s] = "absent" /\ ~ listed[s]) \/ Intact(s)
    BY DEF NeverHalfSealed
  <2> QED
    BY DEF At, Intact, IInv, Typed, SealInv, Listing
<1> QED
  BY <1>1, Invariance, PTL

\* A receipt's report is whole once nobody writes, unless a writer was killed or could
\* not write after another scan took its report for written (capture_raw_artifact).
THEOREM ReceiptsAreBacked ==
  ASSUME ScanAssumption
  PROVE  Spec => []ReceiptIsBacked
<1>1. IInv => ReceiptIsBacked
  BY DEF IInv, Typed, RawInv, Writing, ReceiptIsBacked, At
<1> QED
  BY <1>1, Invariance, PTL

\* A database scan whose command no preparation disturbed used the whole database that
\* it was admitted with (command_for, _verify_trivy_db_snapshot).
THEOREM AdmittedScans ==
  ASSUME ScanAssumption
  PROVE  Spec => []AdmittedIsUsed
<1>1. IInv => AdmittedIsUsed
  BY DEF IInv, JobInv, AdmittedIsUsed
<1> QED
  BY <1>1, Invariance, PTL

\* A snapshot that was resolved stays intact, and a raw report that was written whole
\* stays whole, whoever seals, scans, fails or is killed beside it (Free, Hardened, the
\* exclusive creation of a report).
THEOREM EvidenceIsKept ==
  ASSUME ScanAssumption
  PROVE  Spec => EvidenceStays
<1> DEFINE Stays == /\ \A s \in Stores : Intact(s) => Intact(s)'
                    /\ \A r \in Reports : raw[r] = "complete" => raw'[r] = "complete"
<1>1. ASSUME NEW o \in Operators, IInv, Rename(o) \/ Harden(o) \/ Link(o) PROVE Stays
  <2>1. raw' = raw /\ job[o].store \in Stores
    BY <1>1 DEF Rename, Harden, Link, deps, evidence, IInv, Typed, Jobs
  <2>2. CASE Rename(o)
    BY <1>1, <2>1, <2>2 DEF Rename, Free, Intact, IInv, Typed
  <2>3. CASE Harden(o)
    BY <1>1, <2>1, <2>3 DEF Harden, Hardened, Intact, IInv, Typed
  <2>4. CASE Link(o)
    BY <1>1, <2>1, <2>4 DEF Link, Intact, IInv, Typed
  <2> QED
    BY <1>1, <2>2, <2>3, <2>4
<1>2. ASSUME NEW o \in Operators, IInv, Capture(o) \/ Write(o) PROVE Stays
  <2>1. UNCHANGED sealed /\ raw \in [Reports -> {"absent", "partial", "complete"}]
    BY <1>2 DEF Capture, Write, IInv, Typed
  <2>2. CASE Capture(o)
    BY <1>2, <2>1, <2>2 DEF Capture, sealed, Intact
  <2>3. CASE Write(o)
    <3>1. raw[ReportOf(o)] = "partial"
      BY <1>2, <2>3 DEF Write, At, IInv, JobInv
    <3> QED
      BY <1>2, <2>1, <2>3, <3>1 DEF Write, AfterFailure, sealed, Intact
  <2> QED
    BY <1>2, <2>2, <2>3
<1>3. ASSUME UNCHANGED <<sealed, raw>> PROVE Stays
  BY <1>3 DEF sealed, Intact
<1>4. ASSUME NEW o \in Operators, Sealing(o) \/ Scanning(o) \/ Preparation(o) \/ Kill(o)
      PROVE  \/ UNCHANGED <<sealed, raw>>
             \/ Rename(o) \/ Harden(o) \/ Link(o) \/ Capture(o) \/ Write(o)
  BY <1>4
     DEF Sealing, Scanning, Preparation, Kill, Admit, CheckRoot, CheckListed, Resolve, Scan, Discover,
         MakeCommand, Execute, Report, Prepare, PrepareRules, PrepareQueries, ClearStaging, Download,
         Replace, Rehome, Describe, Disturb, Start, sealed, evidence
<1>5. IInv /\ [Next]_vars => [Stays]_vars
  <2> SUFFICES ASSUME IInv, [Next]_vars PROVE Stays
    OBVIOUS
  <2>1. CASE UNCHANGED vars
    BY <1>3, <2>1 DEF vars
  <2>2. CASE Next
    BY <1>1, <1>2, <1>3, <1>4, <2>2 DEF Next
  <2> QED
    BY <2>1, <2>2
<1> QED
  BY <1>5, Invariance, PTL DEF Spec, EvidenceStays
=============================================================================
