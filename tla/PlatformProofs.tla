--------------------------- MODULE PlatformProofs ---------------------------
(***************************************************************************)
(* Theorems about what the agents lean on, for every value of the          *)
(* constants.  The findings lake: only the report of a run's own scan that *)
(* reached its target and is not empty closes findings, and a run that     *)
(* exits with 0 has filed everything its scanners reported.  The           *)
(* benchmark: a manifest that says complete is of readable results, and    *)
(* counts what earlier invocations spent, and a run whose provider is dead *)
(* stops within a bound.  The deployment: a VM is created behind the       *)
(* firewall rules of its access model.  The model gateway: what is         *)
(* forwarded carries no credential the redaction knows and marks what is a *)
(* target's, each call is counted once, and what is kept is scrubbed.      *)
(***************************************************************************)
EXTENDS Lake, Benchmark, Deploy, Gateway, SequenceTheorems, FiniteSetTheorems, TLAPS

(***************************************************************************)
(* The inductive invariant.  One run at a time holds the lock, so what its *)
(* wrapper left in OUT_DIR is its own until it has imported it; and a run  *)
(* that has not failed has filed the tools it went through.                *)
(***************************************************************************)
Stages   == {"next", "wrapper", "scanning", "wrapped", "decided", "importing", "imported"}
Standing == {"none", "active", "mitigated"}
Sidecars == [status : {"missing", "error", "ok"}, contact : BOOLEAN, reported : Nat]
Answers  == {<<>>} \cup [complete : BOOLEAN, matched : Nat]
Shells   == [pc : Stages \cup Over, at : DOMAIN Order, orphan : BOOLEAN, close : BOOLEAN,
             whole : BOOLEAN, payload : Reports, base : [Keys -> Standing], answer : Answers,
             failed : BOOLEAN, good : SUBSET Tools]

LakeTyped ==
  /\ present \in [Tools -> SUBSET Findings] /\ up \in BOOLEAN
  /\ lake \in [Tools -> [Keys -> Standing]]
  /\ tested \subseteq Tools
  /\ raw \in [Tools -> Reports] /\ san \in [Tools -> Reports]
  /\ sidecar \in [Tools -> Sidecars]
  /\ run \in [Runs -> Shells]

Sole == \A q, r \in Runs : Holds(q) /\ Holds(r) => q = r

\* A report of run r's own scan, of n findings.
Own(p, r, n) == p.by = r /\ p.proof /\ Cardinality(p.keys) = n

\* What the lock protects of run r's current tool t.
Kept(r, t) ==
  /\ run[r].pc \in {"wrapper", "scanning"} => sidecar[t].status # "ok"
  /\ run[r].pc = "wrapped" /\ sidecar[t].status = "ok" => Own(raw[t], r, sidecar[t].reported)
  /\ run[r].pc = "decided" =>
       Own(san[t], r, sidecar[t].reported) /\ (run[r].close => sidecar[t].reported > 0)
  /\ run[r].pc \in {"importing", "imported"} =>
       /\ Own(run[r].payload, r, sidecar[t].reported)
       /\ run[r].close => sidecar[t].reported > 0
  /\ run[r].pc = "imported" =>
       (PassesGate(r) => t \in run[r].good)

Progress(s) ==
  ~ s.failed => /\ s.pc \in Stages \cup {"idle"} => \A i \in 1..(s.at - 1) : Order[i] \in s.good
                /\ s.pc = "done" => s.good = Tools

LakeInv == LakeTyped /\ Sole /\ \A r \in Runs : Progress(run[r]) /\ Kept(r, Tool(r))

-----------------------------------------------------------------------------
LEMMA OrderIs ==
  ASSUME LakeAssumption
  PROVE  /\ Len(Order) \in Nat \ {0} /\ DOMAIN Order = 1..Len(Order)
         /\ Tools = {Order[i] : i \in 1..Len(Order)}
BY DEF LakeAssumption, Tools

LEMMA KeysAreFinite ==
  ASSUME LakeAssumption
  PROVE  /\ IsFiniteSet(Keys)
         /\ \A p \in Reports : IsFiniteSet(p.keys) /\ Cardinality(p.keys) \in Nat
<1>1. IsFiniteSet(Spellings)
  <2>1. Spellings = {"relative"} \cup {"absolute"}
    BY DEF Spellings
  <2> QED
    BY <2>1, FS_Singleton, FS_AddElement
<1>2. IsFiniteSet(Keys)
  BY <1>1, FS_Product DEF Keys, LakeAssumption
<1>3. \A p \in Reports : p.keys \in SUBSET Keys
  BY DEF Reports
<1> QED
  BY <1>2, <1>3, FS_Subset, FS_CardinalityType

LEMMA IdleIs ==
  ASSUME LakeAssumption
  PROVE  Idle \in Shells /\ Dead \in Shells /\ NoReport \in Reports /\ NoSidecar \in Sidecars
<1>1. NoReport \in Reports /\ NoSidecar \in Sidecars
  BY DEF NoReport, Reports, NoSidecar, Sidecars
<1>2. 1 \in DOMAIN Order
  BY OrderIs
<1>3. Idle \in Shells
  BY <1>1, <1>2 DEF Idle, Shells, Over, Standing, Answers
<1>4. Dead = [Idle EXCEPT !.pc = "killed"]
  BY DEF Dead
<1>5. Dead \in Shells
  BY <1>3, <1>4 DEF Shells, Over
<1> QED
  BY <1>1, <1>3, <1>5

\* On to the next tool: where the shell's loop stands, and what it keeps.
LEMMA OnwardIs ==
  ASSUME LakeAssumption, NEW s \in Shells
  PROVE  /\ Onward(s) \in Shells
         /\ Onward(s).pc \in {"next", "done"}
         /\ Onward(s).pc = "done" => s.at = Len(Order)
         /\ Onward(s).pc = "next" => Onward(s).at = s.at + 1
         /\ Onward(s).failed = s.failed /\ Onward(s).good = s.good
<1>1. s.at \in 1..Len(Order) /\ Len(Order) \in Nat
  BY OrderIs DEF Shells
<1>2. DEFINE at == IF s.at = Len(Order) THEN 1 ELSE s.at + 1
             pc == IF s.at = Len(Order) THEN "done" ELSE "next"
<1>3. at \in DOMAIN Order
  BY <1>1, OrderIs
<1>4. pc \in Stages \cup Over
  BY DEF Stages, Over
<1>5. Onward(s) = [Idle EXCEPT !.pc = pc, !.at = at, !.failed = s.failed, !.good = s.good]
  BY DEF Onward
<1>6. Onward(s) \in Shells
  BY <1>3, <1>4, <1>5, IdleIs DEF Shells
<1>7. /\ Onward(s).pc = pc /\ Onward(s).at = at
      /\ Onward(s).failed = s.failed /\ Onward(s).good = s.good
  BY <1>5 DEF Idle
<1> QED
  BY <1>6, <1>7

-----------------------------------------------------------------------------
\* A run that does not hold the lock is not affected by what others do in OUT_DIR.
LEMMA KeptOver ==
  ASSUME NEW r, NEW t, run[r].pc \in Over \cup {"next"}
  PROVE  Kept(r, t)
BY DEF Kept, Over

\* A step of the run that holds the lock: it goes on as s, or gives the lock back.
LEMMA HolderStep ==
  ASSUME LakeAssumption, LakeInv, NEW r \in Runs, Holds(r), LakeTyped',
         NEW s \in Shells, run' = [run EXCEPT ![r] = s],
         Progress(s), Kept(r, Tool(r))'
  PROVE  LakeInv'
<1>1. run'[r] = s /\ \A q \in Runs \ {r} : run'[q] = run[q] /\ run[q].pc \in Over
  BY DEF LakeInv, LakeTyped, Sole, Holds
<1>2. Sole'
  BY <1>1 DEF Sole, Holds
<1>3. \A q \in Runs : Progress(run'[q])
  BY <1>1 DEF LakeInv
<1>4. \A q \in Runs \ {r} : Kept(q, Tool(q))'
  BY <1>1 DEF Kept, Over
<1> QED
  BY <1>2, <1>3, <1>4 DEF LakeInv

\* The end of the child the shell waits for: an orphan's lock is free.
LEMMA BackStep ==
  ASSUME LakeAssumption, LakeInv, NEW r \in Runs, Holds(r), LakeTyped',
         NEW s \in Shells, Back(r, s), Progress(s), run'[r] = s => Kept(r, Tool(r))'
  PROVE  LakeInv'
<1>1. CASE run[r].orphan
  <2>1. run' = [run EXCEPT ![r] = Dead]
    BY <1>1 DEF Back
  <2>2. run'[r] = Dead /\ Dead.pc = "killed"
    BY <2>1 DEF LakeInv, LakeTyped, Dead, Idle
  <2>3. Progress(Dead) /\ Kept(r, Tool(r))'
    BY <2>2 DEF Progress, Kept, Stages
  <2> QED
    BY <2>1, <2>3, HolderStep, IdleIs
<1>2. CASE ~ run[r].orphan
  <2>1. run' = [run EXCEPT ![r] = s] /\ run'[r] = s
    BY <1>2 DEF Back, LakeInv, LakeTyped
  <2> QED
    BY <2>1, HolderStep
<1> QED
  BY <1>1, <1>2

\* The shell counts the tool as failed and goes on.
LEMMA FailingIs ==
  ASSUME LakeAssumption, NEW s \in Shells
  PROVE  /\ Failing(s) \in Shells /\ Failing(s).pc \in {"next", "done"} /\ Progress(Failing(s))
<1>1. [s EXCEPT !.failed = TRUE] \in Shells /\ [s EXCEPT !.failed = TRUE].failed
  BY DEF Shells
<1> QED
  BY <1>1, OnwardIs DEF Failing, Progress

-----------------------------------------------------------------------------
LEMMA ChangeStep ==
  ASSUME LakeAssumption, LakeInv, NEW t \in Tools, NEW f \in Findings, Change(t, f)
  PROVE  LakeInv'
<1>1. UNCHANGED <<up, lake, tested, raw, sidecar, san, run>>
  BY DEF Change, files
<1>2. LakeTyped'
  BY <1>1 DEF Change, LakeInv, LakeTyped
<1>3. Sole' /\ \A r \in Runs : Progress(run[r])' /\ Kept(r, Tool(r))'
  BY <1>1 DEF LakeInv, Sole, Holds, Progress, Kept, Tool, Own, PassesGate
<1> QED
  BY <1>2, <1>3 DEF LakeInv

LEMMA RestartStep == ASSUME LakeAssumption, LakeInv, Restart PROVE LakeInv'
<1>1. UNCHANGED <<present, lake, tested, raw, sidecar, san>> /\ up' \in BOOLEAN
  BY DEF Restart, files, LakeInv, LakeTyped
<1>2. PICK w \in [Runs -> BOOLEAN] : run' = [r \in Runs |-> [run[r] EXCEPT !.whole = w[r]]]
  <2>1. \A r \in Runs : (run[r].whole /\ (run[r].pc = "scanning" => up')) \in BOOLEAN
    OBVIOUS
  <2> WITNESS [r \in Runs |-> run[r].whole /\ (run[r].pc = "scanning" => up')] \in [Runs -> BOOLEAN]
  <2> QED
    BY DEF Restart
<1>3. \A r \in Runs : run'[r] = [run[r] EXCEPT !.whole = w[r]] /\ run[r] \in Shells
  BY <1>2 DEF LakeInv, LakeTyped
<1>4. \A r \in Runs : /\ run'[r] \in Shells /\ run'[r].pc = run[r].pc /\ run'[r].at = run[r].at
                       /\ run'[r].close = run[r].close /\ run'[r].payload = run[r].payload
                       /\ run'[r].answer = run[r].answer /\ run'[r].failed = run[r].failed
                       /\ run'[r].good = run[r].good
  <2>1. \A s \in Shells, b \in BOOLEAN : [s EXCEPT !.whole = b] \in Shells
    BY DEF Shells
  <2> QED
    BY <1>2, <1>3, <2>1 DEF Shells
<1>5. LakeTyped'
  BY <1>1, <1>2, <1>4 DEF LakeInv, LakeTyped
<1>6. Sole' /\ \A r \in Runs : Progress(run[r])' /\ Kept(r, Tool(r))'
  BY <1>1, <1>4 DEF LakeInv, Sole, Holds, Progress, Kept, Tool, Own, PassesGate
<1> QED
  BY <1>5, <1>6 DEF LakeInv

\* flock: a run starts when no other holds the lock.
LEMMA StartStep ==
  ASSUME LakeAssumption, LakeInv, NEW r \in Runs, Start(r)
  PROVE  LakeInv'
<1>1. UNCHANGED <<present, up, lake, tested, raw, sidecar, san>>
  BY DEF Start, files, targets
<1>2. PICK place \in {"refused", "next"} :
        /\ run' = [run EXCEPT ![r].pc = place]
        /\ place = "next" => \A q \in Runs : run[q].pc \in Over
  BY DEF Start, Holds
<1>3. /\ run'[r] = [run[r] EXCEPT !.pc = place] /\ run[r] \in Shells
      /\ \A q \in Runs \ {r} : run'[q] = run[q]
  BY <1>2 DEF LakeInv, LakeTyped
<1>4. /\ run'[r] \in Shells /\ run'[r].pc = place /\ run'[r].at = run[r].at
      /\ run'[r].failed = run[r].failed /\ run'[r].good = run[r].good
  BY <1>3 DEF Shells, Stages, Over
<1>5. LakeTyped'
  BY <1>1, <1>2, <1>4 DEF LakeInv, LakeTyped
<1>6. Progress(run'[r]) /\ Kept(r, Tool(r))'
  BY <1>4 DEF Start, LakeInv, Progress, Kept, Stages
<1>7. \A q \in Runs \ {r} : Progress(run'[q]) /\ Kept(q, Tool(q))'
  BY <1>1, <1>3 DEF LakeInv, Kept, Tool, Own, PassesGate
<1>8. Sole'
  <2>1. CASE place = "refused"
    BY <2>1, <1>3, <1>4 DEF LakeInv, Sole, Holds, Over
  <2>2. CASE place = "next"
    BY <2>2, <1>2, <1>3 DEF Sole, Holds
  <2> QED
    BY <2>1, <2>2
<1> QED
  BY <1>5, <1>6, <1>7, <1>8 DEF LakeInv

-----------------------------------------------------------------------------
(* The steps of the run that holds the lock.                               *)

LEMMA HolderIs ==
  ASSUME LakeAssumption, LakeInv, NEW r \in Runs, run[r].pc \in Stages
  PROVE  /\ Holds(r) /\ run[r] \in Shells /\ Tool(r) \in Tools
         /\ Progress(run[r]) /\ Kept(r, Tool(r))
         /\ sidecar[Tool(r)] \in Sidecars /\ raw[Tool(r)] \in Reports /\ san[Tool(r)] \in Reports
         /\ lake[Tool(r)] \in [Keys -> Standing]
<1>1. run[r] \in Shells
  BY DEF LakeInv, LakeTyped
<1>2. Tool(r) \in Tools
  BY <1>1 DEF Shells, Tool, Tools
<1> QED
  BY <1>1, <1>2 DEF LakeInv, LakeTyped, Holds, Stages, Over

LEMMA ClearStep == ASSUME LakeAssumption, LakeInv, NEW r \in Runs, Clear(r) PROVE LakeInv'
<1> DEFINE t == Tool(r)
           s == [run[r] EXCEPT !.pc = "wrapper"]
<1>1. run[r].pc = "next" /\ run' = [run EXCEPT ![r] = s]
      /\ sidecar' = [sidecar EXCEPT ![t] = NoSidecar]
      /\ UNCHANGED <<present, up, lake, tested, raw, san>>
  BY DEF Clear, Cleared, targets
<1>2. Holds(r) /\ run[r] \in Shells /\ t \in Tools /\ Progress(run[r])
  BY <1>1, HolderIs DEF Stages
<1>3. /\ s \in Shells /\ s.pc = "wrapper" /\ s.at = run[r].at
      /\ s.failed = run[r].failed /\ s.good = run[r].good
  BY <1>2 DEF Shells, Stages
<1>4. LakeTyped'
  BY <1>1, <1>2, <1>3, IdleIs DEF LakeInv, LakeTyped
<1>5. Progress(s)
  BY <1>1, <1>2, <1>3 DEF Progress, Stages
<1>6. run'[r] = s /\ Tool(r)' = t /\ sidecar'[t] = NoSidecar
  BY <1>1, <1>2, <1>3 DEF LakeInv, LakeTyped, Tool
<1>7. Kept(r, Tool(r))'
  BY <1>3, <1>6 DEF Kept, NoSidecar
<1> QED
  BY <1>1, <1>2, <1>3, <1>4, <1>5, <1>7, HolderStep

\* The wrapper's exit: what its trap writes never says ok.
LEMMA FailedIs ==
  ASSUME LakeAssumption, NEW p \in Reports
  PROVE  Failed(Cardinality(p.keys)) \in Sidecars /\ Failed(Cardinality(p.keys)).status = "error"
BY KeysAreFinite DEF Failed, Sidecars

LEMMA RefuseStep == ASSUME LakeAssumption, LakeInv, NEW r \in Runs, Refuse(r) PROVE LakeInv'
<1> DEFINE t == Tool(r)
           s == [run[r] EXCEPT !.pc = "wrapped"]
<1>1. run[r].pc = "wrapper" /\ run' = [run EXCEPT ![r] = s]
      /\ sidecar' \in {sidecar, [sidecar EXCEPT ![t] = Failed(Cardinality(raw[t].keys))]}
      /\ UNCHANGED <<present, up, lake, tested, raw, san>>
  BY DEF Refuse, targets
<1>2. Holds(r) /\ run[r] \in Shells /\ t \in Tools /\ Progress(run[r]) /\ raw[t] \in Reports
      /\ sidecar[t].status # "ok"
  BY <1>1, HolderIs DEF Stages, Kept
<1>3. /\ s \in Shells /\ s.pc = "wrapped" /\ s.at = run[r].at
      /\ s.failed = run[r].failed /\ s.good = run[r].good
  BY <1>2 DEF Shells, Stages
<1>4. LakeTyped'
  BY <1>1, <1>2, <1>3, FailedIs DEF LakeInv, LakeTyped
<1>5. Progress(s)
  BY <1>1, <1>2, <1>3 DEF Progress, Stages
<1>6. run'[r] = s /\ Tool(r)' = t /\ sidecar'[t].status # "ok"
  BY <1>1, <1>2, <1>3, FailedIs DEF LakeInv, LakeTyped, Tool
<1>7. Kept(r, Tool(r))'
  BY <1>3, <1>6 DEF Kept
<1> QED
  BY <1>1, <1>2, <1>3, <1>4, <1>5, <1>7, HolderStep

LEMMA LaunchStep == ASSUME LakeAssumption, LakeInv, NEW r \in Runs, Launch(r) PROVE LakeInv'
<1> DEFINE t == Tool(r)
           s == [run[r] EXCEPT !.pc = "scanning", !.whole = up]
           p == [NoReport EXCEPT !.by = r]
<1>1. run[r].pc = "wrapper" /\ run' = [run EXCEPT ![r] = s] /\ raw' = [raw EXCEPT ![t] = p]
      /\ UNCHANGED <<present, up, lake, tested, sidecar, san>>
  BY DEF Launch, targets
<1>2. Holds(r) /\ run[r] \in Shells /\ t \in Tools /\ Progress(run[r]) /\ sidecar[t].status # "ok"
  BY <1>1, HolderIs DEF Stages, Kept
<1>3. /\ s \in Shells /\ s.pc = "scanning" /\ s.at = run[r].at
      /\ s.failed = run[r].failed /\ s.good = run[r].good
  BY <1>2 DEF Shells, Stages, LakeInv, LakeTyped
<1>4. p \in Reports
  BY IdleIs DEF Reports
<1>5. LakeTyped'
  BY <1>1, <1>2, <1>3, <1>4 DEF LakeInv, LakeTyped
<1>6. Progress(s)
  BY <1>1, <1>2, <1>3 DEF Progress, Stages
<1>7. run'[r] = s /\ Tool(r)' = t
  BY <1>1, <1>3 DEF LakeInv, LakeTyped, Tool
<1>8. Kept(r, Tool(r))'
  BY <1>1, <1>2, <1>3, <1>7 DEF Kept
<1> QED
  BY <1>1, <1>2, <1>3, <1>5, <1>6, <1>8, HolderStep

LEMMA ScanFailsStep == ASSUME LakeAssumption, LakeInv, NEW r \in Runs, ScanFails(r) PROVE LakeInv'
<1> DEFINE t == Tool(r)
           s == [run[r] EXCEPT !.pc = "wrapped"]
           x == Failed(Cardinality(raw[t].keys))
<1>1. run[r].pc = "scanning" /\ Back(r, s) /\ sidecar' = [sidecar EXCEPT ![t] = x]
      /\ UNCHANGED <<present, up, lake, tested, raw, san>>
  BY DEF ScanFails, targets
<1>2. Holds(r) /\ run[r] \in Shells /\ t \in Tools /\ Progress(run[r]) /\ raw[t] \in Reports
  BY <1>1, HolderIs DEF Stages
<1>3. /\ s \in Shells /\ s.pc = "wrapped" /\ s.at = run[r].at
      /\ s.failed = run[r].failed /\ s.good = run[r].good
  BY <1>2 DEF Shells, Stages
<1>4. LakeTyped'
  BY <1>1, <1>2, <1>3, FailedIs, IdleIs DEF LakeInv, LakeTyped, Back
<1>5. Progress(s)
  BY <1>1, <1>2, <1>3 DEF Progress, Stages
<1>6. ASSUME run'[r] = s PROVE Kept(r, Tool(r))'
  <2>1. Tool(r)' = t /\ sidecar'[t].status # "ok"
    BY <1>1, <1>2, <1>3, <1>6, FailedIs DEF LakeInv, LakeTyped, Tool
  <2> QED
    BY <1>3, <1>6, <2>1 DEF Kept
<1> QED
  BY <1>1, <1>2, <1>3, <1>4, <1>5, <1>6, BackStep

LEMMA ScanEndsStep == ASSUME LakeAssumption, LakeInv, NEW r \in Runs, ScanEnds(r) PROVE LakeInv'
<1> DEFINE t == Tool(r)
           s == [run[r] EXCEPT !.pc = "wrapped"]
<1>1. PICK found \in Found(t, r) :
        /\ raw' = [raw EXCEPT ![t] = [by |-> r, keys |-> found \X {"relative"},
                                      truth |-> present[t], proof |-> TRUE]]
        /\ sidecar' = [sidecar EXCEPT ![t] = [status |-> "ok", contact |-> TRUE,
                                              reported |-> Cardinality(found)]]
  BY DEF ScanEnds
<1> DEFINE p == [by |-> r, keys |-> found \X {"relative"}, truth |-> present[t], proof |-> TRUE]
           x == [status |-> "ok", contact |-> TRUE, reported |-> Cardinality(found)]
<1>2. run[r].pc = "scanning" /\ Back(r, s) /\ UNCHANGED <<present, up, lake, tested, san>>
  BY DEF ScanEnds, targets
<1>3. Holds(r) /\ run[r] \in Shells /\ t \in Tools /\ Progress(run[r])
  BY <1>2, HolderIs DEF Stages
<1>4. /\ s \in Shells /\ s.pc = "wrapped" /\ s.at = run[r].at
      /\ s.failed = run[r].failed /\ s.good = run[r].good
  BY <1>3 DEF Shells, Stages
<1>5. found \in SUBSET Findings /\ present[t] \in SUBSET Findings
  BY <1>3 DEF Found, LakeInv, LakeTyped
<1>6. p \in Reports
  <2>1. found \X {"relative"} \in SUBSET Keys
    BY <1>5 DEF Keys, Spellings
  <2> QED
    BY <1>5, <2>1 DEF Reports
<1>7. Cardinality(found) \in Nat /\ Cardinality(p.keys) = Cardinality(found)
  <2>1. IsFiniteSet(found) /\ Cardinality(found) \in Nat
    BY <1>5, FS_Subset, FS_CardinalityType DEF LakeAssumption
  <2>2. Cardinality(found \X {"relative"}) = Cardinality(found) * Cardinality({"relative"})
    BY <2>1, FS_Product, FS_Singleton
  <2>3. Cardinality({"relative"}) = 1
    BY FS_Singleton
  <2> QED
    BY <2>1, <2>2, <2>3
<1>8. x \in Sidecars
  BY <1>7 DEF Sidecars
<1> HIDE DEF p, x
<1>9. raw' = [raw EXCEPT ![t] = p] /\ sidecar' = [sidecar EXCEPT ![t] = x]
  BY <1>1 DEF p, x
<1>10. LakeTyped'
  BY <1>2, <1>3, <1>4, <1>6, <1>8, <1>9, IdleIs DEF LakeInv, LakeTyped, Back
<1>11. Progress(s)
  BY <1>2, <1>3, <1>4 DEF Progress, Stages
<1>12. ASSUME run'[r] = s PROVE Kept(r, Tool(r))'
  <2>1. Tool(r)' = t /\ raw'[t] = p /\ sidecar'[t] = x
    BY <1>3, <1>4, <1>9, <1>12 DEF LakeInv, LakeTyped, Tool
  <2>2. Own(p, r, x.reported)
    BY <1>7 DEF Own, p, x
  <2> QED
    BY <1>4, <1>12, <2>1, <2>2 DEF Kept
<1> QED
  BY <1>2, <1>3, <1>4, <1>10, <1>11, <1>12, BackStep

\* A step that counts the tool as failed.
LEMMA FailStep ==
  ASSUME LakeAssumption, LakeInv, NEW r \in Runs, run[r].pc \in Stages,
         UNCHANGED <<present, up, lake, tested, raw, sidecar>>, san' \in [Tools -> Reports],
         \/ run' = [run EXCEPT ![r] = Failing(@)]
         \/ Back(r, Failing(run[r]))
  PROVE  LakeInv'
<1> DEFINE s == Failing(run[r])
<1>1. Holds(r) /\ run[r] \in Shells
  BY HolderIs
<1>2. s \in Shells /\ s.pc \in {"next", "done"} /\ Progress(s)
  BY <1>1, FailingIs
<1> HIDE DEF s
<1>3. LakeTyped'
  BY <1>1, <1>2, IdleIs DEF LakeInv, LakeTyped, Back, s
<1>4. ASSUME run'[r] = s PROVE Kept(r, Tool(r))'
  BY <1>2, <1>4, KeptOver DEF Kept
<1>5. CASE run' = [run EXCEPT ![r] = s]
  <2>1. run'[r] = s
    BY <1>5 DEF LakeInv, LakeTyped
  <2> QED
    BY <1>1, <1>2, <1>3, <1>4, <1>5, <2>1, HolderStep
<1>6. CASE Back(r, s)
  BY <1>1, <1>2, <1>3, <1>4, <1>6, BackStep
<1> QED
  BY <1>5, <1>6 DEF s

LEMMA FailSteps ==
  ASSUME LakeAssumption, LakeInv, NEW r \in Runs, Skip(r) \/ RedactFails(r) \/ ImportFails(r)
  PROVE  LakeInv'
<1>1. san' \in [Tools -> Reports]
  BY IdleIs DEF Skip, RedactFails, ImportFails, LakeInv, LakeTyped, files
<1>2. run[r].pc \in Stages
  BY DEF Skip, RedactFails, ImportFails, Stages
<1>3. UNCHANGED <<present, up, lake, tested, raw, sidecar>>
  BY DEF Skip, RedactFails, ImportFails, files, targets
<1>4. run' = [run EXCEPT ![r] = Failing(@)] \/ Back(r, Failing(run[r]))
  BY DEF Skip, RedactFails, ImportFails, Fail
<1> QED
  BY <1>1, <1>2, <1>3, <1>4, FailStep

LEMMA RedactStep == ASSUME LakeAssumption, LakeInv, NEW r \in Runs, Redact(r) PROVE LakeInv'
<1> DEFINE t == Tool(r)
           s == [run[r] EXCEPT !.pc = "decided", !.close = MayClose(sidecar[t])]
<1>1. /\ run[r].pc = "wrapped" /\ sidecar[t].status = "ok" /\ run' = [run EXCEPT ![r] = s]
      /\ san' = [san EXCEPT ![t] = raw[t]]
      /\ UNCHANGED <<present, up, lake, tested, raw, sidecar>>
  BY DEF Redact, targets
<1>2. /\ Holds(r) /\ run[r] \in Shells /\ t \in Tools /\ Progress(run[r]) /\ raw[t] \in Reports
      /\ sidecar[t] \in Sidecars /\ Own(raw[t], r, sidecar[t].reported)
  BY <1>1, HolderIs DEF Stages, Kept
<1>3. /\ s \in Shells /\ s.pc = "decided" /\ s.at = run[r].at
      /\ s.failed = run[r].failed /\ s.good = run[r].good
      /\ s.close => sidecar[t].reported > 0
  BY <1>2 DEF Shells, Stages, MayClose
<1>4. LakeTyped'
  BY <1>1, <1>2, <1>3 DEF LakeInv, LakeTyped
<1>5. Progress(s)
  BY <1>1, <1>2, <1>3 DEF Progress, Stages
<1>6. run'[r] = s /\ Tool(r)' = t /\ san'[t] = raw[t]
  BY <1>1, <1>2, <1>3 DEF LakeInv, LakeTyped, Tool
<1>7. Kept(r, Tool(r))'
  BY <1>1, <1>2, <1>3, <1>6 DEF Kept, Own
<1> QED
  BY <1>1, <1>2, <1>3, <1>4, <1>5, <1>7, HolderStep

LEMMA PostStep == ASSUME LakeAssumption, LakeInv, NEW r \in Runs, Post(r) PROVE LakeInv'
<1> DEFINE t == Tool(r)
<1>1. PICK stored :
        run' = [run EXCEPT ![r].pc = "importing",
                           ![r].close = @ /\ ~Rekeys(Incoming(t), stored),
                           ![r].payload = san[t],
                           ![r].base = lake[t]]
  BY DEF Post
<1> DEFINE s == [run[r] EXCEPT !.pc = "importing",
                               !.close = @ /\ ~Rekeys(Incoming(t), stored),
                               !.payload = san[t],
                               !.base = lake[t]]
<1>2. /\ run[r].pc = "decided" /\ run' = [run EXCEPT ![r] = s]
      /\ UNCHANGED <<present, up, lake, tested, raw, sidecar, san>>
  BY <1>1 DEF Post, targets, files
<1>3. /\ Holds(r) /\ run[r] \in Shells /\ t \in Tools /\ Progress(run[r]) /\ san[t] \in Reports
      /\ lake[t] \in [Keys -> Standing] /\ Own(san[t], r, sidecar[t].reported)
      /\ run[r].close => sidecar[t].reported > 0
  BY <1>2, HolderIs DEF Stages, Kept
<1>4. /\ s \in Shells /\ s.pc = "importing" /\ s.at = run[r].at
      /\ s.failed = run[r].failed /\ s.good = run[r].good /\ s.payload = san[t]
      /\ s.close => sidecar[t].reported > 0
  BY <1>3 DEF Shells, Stages, Rekeys
<1> HIDE DEF s
<1>5. LakeTyped'
  BY <1>2, <1>3, <1>4 DEF LakeInv, LakeTyped
<1>6. Progress(s)
  BY <1>2, <1>3, <1>4 DEF Progress, Stages
<1>7. run'[r] = s /\ Tool(r)' = t
  BY <1>2, <1>3, <1>4 DEF LakeInv, LakeTyped, Tool
<1>8. Kept(r, Tool(r))'
  BY <1>2, <1>3, <1>4, <1>7 DEF Kept
<1> QED
  BY <1>2, <1>3, <1>4, <1>5, <1>6, <1>8, HolderStep

LEMMA ThreeParts ==
  ASSUME NEW A, NEW B, NEW C, IsFiniteSet(A), IsFiniteSet(B), IsFiniteSet(C),
         A \cap B = {}, (A \cup B) \cap C = {}
  PROVE  Cardinality((A \cup B) \cup C) = Cardinality(A) + Cardinality(B) + Cardinality(C)
<1>1. Cardinality(A) \in Nat /\ Cardinality(B) \in Nat /\ Cardinality(C) \in Nat
  BY FS_CardinalityType
<1>2. IsFiniteSet(A \cup B) /\ Cardinality(A \cup B) = Cardinality(A) + Cardinality(B) - Cardinality({})
  BY FS_Union
<1>3. Cardinality((A \cup B) \cup C) = Cardinality(A \cup B) + Cardinality(C) - Cardinality({})
  BY <1>2, FS_Union
<1> QED
  BY <1>1, <1>2, <1>3, FS_EmptySet

\* The counts of DefectDojo's answer add up to what it filed.
LEMMA MatchedIs ==
  ASSUME LakeAssumption, NEW r \in Runs, run[r] \in Shells,
         NEW rest \in SUBSET run[r].payload.keys
  PROVE  /\ Cardinality(rest) \in Nat /\ Matched(r, rest) = Cardinality(rest)
         /\ Cardinality(rest) = Cardinality(run[r].payload.keys) => rest = run[r].payload.keys
<1>1. /\ run[r].payload.keys \in SUBSET Keys /\ IsFiniteSet(run[r].payload.keys)
      /\ run[r].base \in [Keys -> Standing]
  BY KeysAreFinite DEF Shells, Reports
<1>2. IsFiniteSet(rest) /\ Cardinality(rest) \in Nat
  BY <1>1, FS_Subset, FS_CardinalityType
<1> DEFINE Of(was) == {k \in rest : run[r].base[k] = was}
<1>3. \A was : IsFiniteSet(Of(was)) /\ Cardinality(Of(was)) \in Nat
  <2> TAKE was
  <2>1. Of(was) \in SUBSET rest
    OBVIOUS
  <2> QED
    BY <1>2, <2>1, FS_Subset, FS_CardinalityType
<1>4. /\ rest = (Of("none") \cup Of("mitigated")) \cup Of("active")
      /\ Of("none") \cap Of("mitigated") = {}
      /\ (Of("none") \cup Of("mitigated")) \cap Of("active") = {}
  BY <1>1 DEF Standing
<1>5. Cardinality((Of("none") \cup Of("mitigated")) \cup Of("active"))
        = Cardinality(Of("none")) + Cardinality(Of("mitigated")) + Cardinality(Of("active"))
  <2> HIDE DEF Of
  <2> QED
    BY <1>3, <1>4, ThreeParts
<1>6. Matched(r, rest) = Cardinality(rest)
  BY <1>3, <1>4, <1>5 DEF Matched, Count
<1> QED
  BY <1>1, <1>2, <1>6, FS_Subset

LEMMA FiledIs ==
  ASSUME NEW r, NEW rest, lake[Tool(r)] \in [Keys -> Standing]
  PROVE  Filed(r, rest) \in [Keys -> Standing]
BY DEF Filed, Standing

LEMMA ImportStep == ASSUME LakeAssumption, LakeInv, NEW r \in Runs, Import(r) PROVE LakeInv'
<1> DEFINE t == Tool(r)
<1>1. run[r].pc = "importing" /\ UNCHANGED <<present, up, raw, sidecar, san>>
      /\ tested' = tested \cup {t}
  BY DEF Import, targets, files
<1>2. PICK rest \in SUBSET run[r].payload.keys, complete \in BOOLEAN :
        /\ lake' = [lake EXCEPT ![t] = Filed(r, rest)]
        /\ Back(r, [run[r] EXCEPT
             !.pc = "imported",
             !.answer = [complete |-> complete,
                         matched |-> IF t \in tested
                                     THEN Matched(r, rest) ELSE Cardinality(rest)],
             !.good = IF run[r].payload.by = r /\ rest = run[r].payload.keys
                      THEN @ \cup {t} ELSE @])
  BY DEF Import
<1>3. /\ Holds(r) /\ run[r] \in Shells /\ t \in Tools /\ Progress(run[r])
      /\ lake[t] \in [Keys -> Standing] /\ Own(run[r].payload, r, sidecar[t].reported)
      /\ run[r].close => sidecar[t].reported > 0
  BY <1>1, HolderIs DEF Stages, Kept
<1> DEFINE a == [complete |-> complete, matched |-> Cardinality(rest)]
           g == IF rest = run[r].payload.keys THEN run[r].good \cup {t} ELSE run[r].good
           s == [run[r] EXCEPT !.pc = "imported", !.answer = a, !.good = g]
<1>4. Back(r, s)
  BY <1>2, <1>3, MatchedIs DEF Own
<1>5. a \in Answers /\ g \in SUBSET Tools /\ run[r].good \subseteq g
  BY <1>3, MatchedIs DEF Answers, Shells
<1>6. a.matched = sidecar[t].reported => t \in g
  BY <1>3, MatchedIs DEF Own
<1> HIDE DEF a, g
<1>7. /\ s \in Shells /\ s.pc = "imported" /\ s.at = run[r].at /\ s.failed = run[r].failed
      /\ s.good = g /\ s.answer = a /\ s.close = run[r].close /\ s.payload = run[r].payload
  BY <1>3, <1>5 DEF Shells, Stages
<1> HIDE DEF s
<1>8. LakeTyped'
  <2>1. lake' \in [Tools -> [Keys -> Standing]]
    BY <1>2, <1>3, FiledIs DEF LakeInv, LakeTyped
  <2> QED
    BY <1>1, <1>3, <1>4, <1>7, <2>1, IdleIs DEF LakeInv, LakeTyped, Back
<1>9. Progress(s)
  BY <1>1, <1>3, <1>5, <1>7 DEF Progress, Stages
<1>10. ASSUME run'[r] = s PROVE Kept(r, Tool(r))'
  <2>1. Tool(r)' = t /\ sidecar'[t] = sidecar[t]
    BY <1>1, <1>7, <1>10 DEF Tool
  <2> QED
    BY <1>3, <1>6, <1>7, <1>10, <2>1 DEF Kept, PassesGate
<1> QED
  BY <1>3, <1>4, <1>7, <1>8, <1>9, <1>10, BackStep

LEMMA GateStep == ASSUME LakeAssumption, LakeInv, NEW r \in Runs, Gate(r) PROVE LakeInv'
<1>1. run[r].pc = "imported" /\ UNCHANGED <<present, up, lake, tested, raw, sidecar, san>>
  BY DEF Gate, targets, files
<1>2. Holds(r) /\ run[r] \in Shells /\ Progress(run[r]) /\ Kept(r, Tool(r))
  BY <1>1, HolderIs DEF Stages
<1>3. CASE PassesGate(r)
  <2> DEFINE s == Onward(run[r])
  <2>1. run' = [run EXCEPT ![r] = s]
    BY <1>3 DEF Gate
  <2>2. /\ s \in Shells /\ s.pc \in {"next", "done"} /\ (s.pc = "done" => run[r].at = Len(Order))
        /\ (s.pc = "next" => s.at = run[r].at + 1)
        /\ s.failed = run[r].failed /\ s.good = run[r].good
    BY <1>2, OnwardIs
  <2> HIDE DEF s
  <2>3. Tool(r) \in run[r].good
    BY <1>1, <1>2, <1>3 DEF Kept
  <2>4. ~ run[r].failed => \A i \in 1..run[r].at : Order[i] \in run[r].good
    <3>1. run[r].at \in Nat
      BY <1>2, OrderIs DEF Shells
    <3>2. ~ run[r].failed => \A i \in 1..(run[r].at - 1) : Order[i] \in run[r].good
      BY <1>1, <1>2 DEF Progress, Stages
    <3> QED
      BY <2>3, <3>1, <3>2 DEF Tool
  <2>5. run[r].good \subseteq Tools
    BY <1>2 DEF Shells
  <2>6. Progress(s)
    <3>1. run[r].at \in Nat
      BY <1>2, OrderIs DEF Shells
    <3>2. CASE s.pc = "next"
      <4>1. s.at - 1 = run[r].at
        BY <2>2, <3>1, <3>2
      <4> QED
        BY <2>2, <2>4, <3>2, <4>1 DEF Progress
    <3>3. CASE s.pc = "done"
      <4>1. ~ s.failed => s.good = Tools
        BY <2>2, <2>4, <2>5, <3>3, OrderIs
      <4> QED
        BY <3>3, <4>1 DEF Progress, Stages
    <3> QED
      BY <2>2, <3>2, <3>3
  <2>7. LakeTyped'
    BY <1>1, <2>1, <2>2 DEF LakeInv, LakeTyped
  <2>8. run'[r] = s
    BY <2>1 DEF LakeInv, LakeTyped
  <2>9. Kept(r, Tool(r))'
    BY <2>2, <2>8 DEF Kept
  <2> QED
    BY <1>2, <2>1, <2>2, <2>6, <2>7, <2>9, HolderStep
<1>4. CASE ~ PassesGate(r)
  <2>1. run' = [run EXCEPT ![r] = Failing(@)]
    BY <1>4 DEF Gate, Fail
  <2>2. run[r].pc \in Stages /\ san' \in [Tools -> Reports]
    BY <1>1 DEF Stages, LakeInv, LakeTyped
  <2> QED
    BY <1>1, <2>1, <2>2, FailStep
<1> QED
  BY <1>3, <1>4

\* The shell dies, and its child goes on with the lock; or both die.
LEMMA KillStep ==
  ASSUME LakeAssumption, LakeInv, NEW r \in Runs, KillShell(r) \/ Crash(r)
  PROVE  LakeInv'
<1>1. UNCHANGED <<present, up, lake, tested, raw, sidecar, san>>
  BY DEF KillShell, Crash, targets, files
<1>2. run[r] \in Shells /\ run[r].pc \in Stages
  BY DEF KillShell, Crash, LakeInv, LakeTyped, Shells, Over, Stages
<1>3. Holds(r) /\ Progress(run[r]) /\ Kept(r, Tool(r))
  BY <1>2, HolderIs
<1>4. CASE run' = [run EXCEPT ![r] = Dead]
  <2>1. run'[r] = Dead /\ Dead.pc = "killed"
    BY <1>4 DEF LakeInv, LakeTyped, Dead, Idle
  <2>2. Progress(Dead) /\ Kept(r, Tool(r))' /\ LakeTyped'
    BY <1>1, <1>4, <2>1, IdleIs DEF Progress, Kept, Stages, LakeInv, LakeTyped
  <2> QED
    BY <1>3, <1>4, <2>2, IdleIs, HolderStep
<1>5. CASE run' = [run EXCEPT ![r] = [@ EXCEPT !.orphan = TRUE]]
  <2> DEFINE s == [run[r] EXCEPT !.orphan = TRUE]
  <2>1. /\ s \in Shells /\ s.pc = run[r].pc /\ s.at = run[r].at /\ s.failed = run[r].failed
        /\ s.good = run[r].good /\ s.close = run[r].close /\ s.payload = run[r].payload
        /\ s.answer = run[r].answer
    BY <1>2 DEF Shells
  <2> HIDE DEF s
  <2>2. run' = [run EXCEPT ![r] = s] /\ run'[r] = s
    BY <1>5 DEF LakeInv, LakeTyped, s
  <2>3. Progress(s) /\ LakeTyped'
    BY <1>1, <1>3, <2>1, <2>2 DEF Progress, LakeInv, LakeTyped
  <2>4. Kept(r, Tool(r))'
    BY <1>1, <1>3, <2>1, <2>2 DEF Kept, Tool, PassesGate
  <2> QED
    BY <1>3, <2>1, <2>2, <2>3, <2>4, HolderStep
<1> QED
  BY <1>4, <1>5 DEF KillShell, Crash

-----------------------------------------------------------------------------
LEMMA InitStep == ASSUME LakeAssumption, LakeInit PROVE LakeInv
<1>1. PICK old :
        /\ lake = [t \in Tools |-> [k \in Keys |-> IF k \in old[t] THEN "active" ELSE "none"]]
        /\ tested = {t \in Tools : old[t] # {}}
  BY DEF LakeInit
<1>2. LakeTyped
  BY <1>1, IdleIs DEF LakeInit, LakeTyped, Standing
<1>3. \A r \in Runs : run[r] = Idle /\ run[r].pc = "idle" /\ run[r].at = 1
  BY DEF LakeInit, Idle
<1>4. Sole /\ \A r \in Runs : Progress(run[r]) /\ Kept(r, Tool(r))
  BY <1>3 DEF Sole, Holds, Over, Progress, Kept, Stages
<1> QED
  BY <1>2, <1>4 DEF LakeInv

LEMMA LakeInductive == ASSUME LakeAssumption, LakeInv, [LakeNext]_lakeVars PROVE LakeInv'
<1>1. CASE \E t \in Tools, f \in Findings : Change(t, f)
  BY <1>1, ChangeStep
<1>2. CASE Restart
  BY <1>2, RestartStep
<1>3. CASE \E r \in Runs : Shell(r) \/ KillShell(r) \/ Crash(r)
  <2>1. PICK r \in Runs : Shell(r) \/ KillShell(r) \/ Crash(r)
    BY <1>3
  <2> QED
    BY <2>1, StartStep, ClearStep, RefuseStep, LaunchStep, ScanFailsStep, ScanEndsStep, FailSteps,
       RedactStep, PostStep, ImportStep, GateStep, KillStep DEF Shell, Wrapper
<1>4. CASE UNCHANGED lakeVars
  <2>1. UNCHANGED <<present, up, lake, tested, raw, sidecar, san, run>>
    BY <1>4 DEF lakeVars, targets
  <2> QED
    BY <2>1 DEF LakeInv, LakeTyped, Sole, Holds, Progress, Kept, Tool, Own, PassesGate
<1> QED
  BY <1>1, <1>2, <1>3, <1>4 DEF LakeNext

\* Only an import changes what the lake says, and of the run's current tool.
LEMMA ClosesByImport ==
  ASSUME LakeAssumption, LakeInv, [LakeNext]_lakeVars, NEW t \in Tools, NEW k \in Keys, Closes(t, k)
  PROVE  \E r \in Runs : /\ run[r].pc = "importing" /\ Tool(r) = t
                         /\ run[r].payload.by = r
                         /\ run[r].payload.proof
                         /\ run[r].payload.keys # {}
<1>1. lake'[t][k] # lake[t][k]
  BY DEF Closes
<1>2. PICK r \in Runs : Import(r)
  BY <1>1 DEF LakeNext, Shell, Wrapper, Change, Restart, Start, Clear, Refuse, Launch, ScanFails,
     ScanEnds, Skip, Redact, RedactFails, Post, ImportFails, Gate, KillShell, Crash, lakeVars, targets
<1>3. PICK rest \in SUBSET run[r].payload.keys :
        lake' = [lake EXCEPT ![Tool(r)] = Filed(r, rest)]
  BY <1>2 DEF Import
<1>4. /\ run[r].pc = "importing" /\ run[r] \in Shells
      /\ Own(run[r].payload, r, sidecar[Tool(r)].reported)
      /\ run[r].close => sidecar[Tool(r)].reported > 0
  BY <1>2, HolderIs DEF Import, Stages, Kept
<1>5. Tool(r) = t
  BY <1>1, <1>3 DEF LakeInv, LakeTyped
<1>6. lake'[t][k] = Filed(r, rest)[k]
  BY <1>3, <1>5 DEF LakeInv, LakeTyped
<1>7. run[r].close
  BY <1>1, <1>5, <1>6 DEF Filed, Closes
<1>8. run[r].payload.keys # {}
  BY <1>4, <1>7, FS_EmptySet DEF Own
<1> QED
  BY <1>4, <1>5, <1>8 DEF Own

\* The inductive invariant holds of every run of scan-and-import.sh.
LEMMA LakeInvariance == ASSUME LakeAssumption PROVE LakeSpec => []LakeInv
<1>1. LakeInit => LakeInv
  BY InitStep
<1>2. LakeInv /\ [LakeNext]_lakeVars => LakeInv'
  BY LakeInductive
<1> QED
  BY <1>1, <1>2, PTL DEF LakeSpec

\* Every state of the targets, of OUT_DIR, of the runs and of the lake has its type.
THEOREM LakeTypes == ASSUME LakeAssumption PROVE LakeSpec => []LakeTypeOK
<1>1. LakeInv => LakeTypeOK
  BY DEF LakeInv, LakeTyped, LakeTypeOK, Standing
<1> QED
  BY <1>1, LakeInvariance, PTL

\* Whatever other runs leave in OUT_DIR, and wherever a run is killed, only the report of a scan
\* of the importing run, which reached its target and is not empty, closes findings
\* (close_decision, import-report.sh).
THEOREM OnlyEvidenceCloses == ASSUME LakeAssumption PROVE LakeSpec => ClosedOnEvidence
<1>1. LakeInv /\ [LakeNext]_lakeVars =>
        [\A t \in Tools, k \in Keys : Closes(t, k) =>
           \E r \in Runs : /\ run[r].pc = "importing" /\ Tool(r) = t
                           /\ run[r].payload.by = r
                           /\ run[r].payload.proof
                           /\ run[r].payload.keys # {}]_lakeVars
  BY ClosesByImport
<1> QED
  BY <1>1, LakeInvariance, PTL DEF LakeSpec, ClosedOnEvidence

\* However many runs share OUT_DIR, a run that exits with 0 has filed, for every tool, all that
\* its own scanner reported (scan-and-import.sh).
THEOREM ZeroIsLanded == ASSUME LakeAssumption PROVE LakeSpec => []ZeroMeansLanded
<1>1. LakeInv => ZeroMeansLanded
  BY DEF LakeInv, Progress, ZeroMeansLanded
<1> QED
  BY <1>1, LakeInvariance, PTL

-----------------------------------------------------------------------------
(***************************************************************************)
(* The benchmark.  The invariant says where each case is: as long as an    *)
(* invocation was not told to stop, a case it has no readable result of is *)
(* ahead of it, in its pool or among the failed; and cases are ahead only  *)
(* while there is a future to wait for, so an empty pool means it is done. *)
(***************************************************************************)
Files == {"none", "empty", "findings", "corrupt"}
Ends  == [ok : BOOLEAN, tokens : Nat]
Invocation ==
  [pc : {"off", "scanning"}, limit : BOOLEAN, proven : SUBSET Names, todo : SUBSET Names,
   queued : SUBSET Names, running : UNION {[S -> Nat] : S \in SUBSET Names},
   ended : UNION {[S -> Ends] : S \in SUBSET Names}, recent : Seq(Nat), failed : SUBSET Names,
   abort : BOOLEAN, dry : SUBSET Names]

BenchTyped ==
  /\ provider \in BOOLEAN /\ outages \in Nat /\ started \in Nat
  /\ sarif \in [Names -> Files] /\ usage \in [Names -> Nat]
  /\ inv \in Invocation /\ orphans \in SUBSET Names
  /\ manifest \in [complete : BOOLEAN, tokens : [Names -> Nat]]

\* What an invocation took as done, it need not scan.
Vouched(i) ==
  \A c \in i.proven : /\ Readable(sarif[c]) /\ usage[c] > 0
                      /\ c \notin i.todo \cup i.queued \cup DOMAIN i.running

\* Unless it was told to stop, a case it has no result of is ahead of it or has failed; and as
\* long as cases are ahead of it there is a future to wait for.
Pending(i, c) ==
  \/ c \in i.todo \cup i.queued \cup DOMAIN i.running \cup i.failed
  \/ c \in DOMAIN i.ended /\ ~ i.ended[c].ok
Accounted(i) ==
  ~ i.abort /\ ~ i.limit =>
    /\ \A c \in Names : Pending(i, c) \/ Readable(sarif[c])
    /\ i.todo # {} => Flying(i) # {}

BenchInv ==
  /\ BenchTyped
  /\ inv.pc = "scanning" => Vouched(inv) /\ Accounted(inv)
  /\ \A c \in Names : manifest.tokens[c] <= usage[c]

LEMMA PlaceIs ==
  ASSUME BenchmarkAssumption, NEW c \in Names
  PROVE  Place(c) \in Nat
<1>1. PICK k \in DOMAIN Cases : Cases[k] = c  BY DEF Names, Range
<1>2. DOMAIN Cases = 1..Len(Cases) /\ Len(Cases) \in Nat  BY DEF BenchmarkAssumption
<1> QED  BY <1>1, <1>2 DEF Place

\* Of cases that are left the first one is among the first n.
LEMMA FirstSome ==
  ASSUME BenchmarkAssumption, NEW S \in SUBSET Names, S # {}, NEW n \in Nat \ {0}
  PROVE  First(S, n) # {}
<1> DEFINE T == {Place(c) : c \in S}
           R == OpToRel(<, Nat)
<1>1. T \subseteq Nat /\ T # {}  BY PlaceIs
<1>2. PICK x \in T : \A y \in T : <<y, x>> \notin R
  BY <1>1, WFMin, NatLessThanWellFounded
<1>3. \A y \in T : ~ (y < x)  BY <1>1, <1>2 DEF OpToRel
<1>4. PICK c \in S : Place(c) = x  OBVIOUS
<1>5. {d \in S : Place(d) < Place(c)} = {}  BY <1>3, <1>4
<1>6. Cardinality({d \in S : Place(d) < Place(c)}) = 0  BY <1>5, FS_EmptySet
<1> QED  BY <1>4, <1>6 DEF First

LEMMA FirstOf == ASSUME NEW S, NEW n PROVE First(S, n) \subseteq S
BY DEF First

LEMMA Futures == ASSUME BenchmarkAssumption PROVE Workers * InFlight \in Nat \ {0}
<1>1. Workers \in Nat /\ InFlight \in Nat /\ Workers >= 1 /\ InFlight >= 1  BY DEF BenchmarkAssumption
<1> QED  BY <1>1, Z3

LEMMA FiniteNames == ASSUME BenchmarkAssumption, NEW S \in SUBSET Names PROVE IsFiniteSet(S) /\ Cardinality(S) \in Nat
<1>1. DOMAIN Cases = 1..Len(Cases) /\ Len(Cases) \in Nat  BY DEF BenchmarkAssumption
<1>2. IsFiniteSet(DOMAIN Cases)  BY <1>1, FS_Interval
<1> DEFINE f == [k \in DOMAIN Cases |-> Cases[k]]
<1>3. f \in Surjection(DOMAIN Cases, Names)  BY DEF Surjection, Names, Range
<1>4. IsFiniteSet(Names)  BY <1>2, <1>3, FS_Surjection
<1> QED  BY <1>4, FS_Subset, FS_CardinalityType

\* The result of a case, once it is readable, is only lost while the case is running.
LEMMA ReviewIs ==
  ASSUME BenchTyped, NEW c \in Names, NEW review \in Reviews(c)
  PROVE  /\ review = [ok |-> review.ok, file |-> review.file, tokens |-> review.tokens]
         /\ review.ok \in BOOLEAN /\ review.file \in Files /\ review.tokens \in Nat
         /\ review.ok => Readable(review.file)
         /\ review.file # "corrupt" /\ Readable(sarif[c]) => Readable(review.file)
<1> DEFINE found == IF c \in Flawed THEN "findings" ELSE "empty"
<1>1. sarif[c] \in Files  BY DEF BenchTyped
<1>2. \E ok \in BOOLEAN, file \in Files, tokens \in Nat :
        /\ review = [ok |-> ok, file |-> file, tokens |-> tokens]
        /\ ok => file \in {found, "empty"}
        /\ ok \/ file \in {sarif[c], "corrupt"}
  <2>1. CASE provider
    <3>1. review \in {[ok |-> TRUE,  file |-> found, tokens |-> 1],
                      [ok |-> FALSE, file |-> sarif[c], tokens |-> 1],
                      [ok |-> FALSE, file |-> "corrupt", tokens |-> 1]}
      BY <2>1 DEF Reviews
    <3>2. found \in Files /\ "corrupt" \in Files  BY DEF Files
    <3> QED  BY <1>1, <3>1, <3>2
  <2>2. CASE ~ provider
    <3>1. review \in {[ok |-> TRUE,  file |-> "empty", tokens |-> 0],
                      [ok |-> FALSE, file |-> sarif[c], tokens |-> 0]}
      BY <2>2 DEF Reviews
    <3>2. "empty" \in Files  BY DEF Files
    <3> QED  BY <1>1, <3>1, <3>2
  <2> QED  BY <2>1, <2>2
<1>3. PICK ok \in BOOLEAN, file \in Files, tokens \in Nat :
        /\ review = [ok |-> ok, file |-> file, tokens |-> tokens]
        /\ ok => file \in {found, "empty"}
        /\ ok \/ file \in {sarif[c], "corrupt"}
  BY <1>2
<1>4. review.ok = ok /\ review.file = file /\ review.tokens = tokens  BY <1>3
<1> QED  BY <1>3, <1>4 DEF Readable

LEMMA LeavesIs ==
  ASSUME BenchTyped, NEW c \in Names, NEW review \in Reviews(c), Leaves(c, review)
  PROVE  /\ sarif' \in [Names -> Files] /\ usage' \in [Names -> Nat]
         /\ sarif'[c] = review.file /\ usage'[c] >= usage[c]
         /\ \A d \in Names \ {c} : sarif'[d] = sarif[d] /\ usage'[d] = usage[d]
BY ReviewIs DEF Leaves, BenchTyped

LEMMA LatestIs ==
  ASSUME NEW s \in Seq(Nat), NEW n \in Nat \ {0}
  PROVE  Latest(s, n) \in Seq(Nat)
<1>1. CASE Len(s) > n
  <2>1. \A i \in (Len(s) - n + 1)..Len(s) : s[i] \in Nat
    <3> SUFFICES ASSUME NEW i \in (Len(s) - n + 1)..Len(s) PROVE s[i] \in Nat  OBVIOUS
    <3>1. i \in 1..Len(s)  BY <1>1
    <3> QED  BY <3>1, ElementOfSeq
  <2> QED  BY <1>1, <2>1, SubSeqProperties DEF Latest
<1>2. CASE ~ (Len(s) > n)  BY <1>2 DEF Latest
<1> QED  BY <1>1, <1>2

LEMMA OrderTaken ==
  ASSUME BenchmarkAssumption, BenchTyped, NEW order \in SetToSeqs(DOMAIN inv.ended)
  PROVE  Latest(inv.recent \o [k \in DOMAIN order |-> inv.ended[order[k]].tokens], Window) \in Seq(Nat)
<1> DEFINE E == DOMAIN inv.ended
           n == Cardinality(E)
           tokens == [k \in DOMAIN order |-> inv.ended[order[k]].tokens]
<1>1. inv.recent \in Seq(Nat) /\ E \in SUBSET Names /\ \A c \in E : inv.ended[c] \in Ends
  BY DEF BenchTyped, Invocation
<1>2. n \in Nat  BY <1>1, FiniteNames
<1>3. order \in [1..n -> E]  BY DEF SetToSeqs
<1>4. \A k \in 1..n : inv.ended[order[k]].tokens \in Nat  BY <1>1, <1>3 DEF Ends
<1>5. tokens \in [1..n -> Nat]  BY <1>3, <1>4
<1>6. tokens \in Seq(Nat)  BY <1>2, <1>5, IsASeq
<1>7. inv.recent \o tokens \in Seq(Nat)  BY <1>1, <1>6, ConcatProperties
<1>8. Window \in Nat \ {0}  BY DEF BenchmarkAssumption
<1> QED  BY <1>7, <1>8, LatestIs

\* Topping up moves cases from what is ahead to the pool, at least one of them when it is empty.
LEMMA ToppedUp ==
  ASSUME BenchmarkAssumption, NEW i \in Invocation, NEW r, r = TopUp(i)
  PROVE  /\ r \in Invocation
         /\ r.pc = i.pc /\ r.limit = i.limit /\ r.proven = i.proven /\ r.running = i.running
         /\ r.ended = i.ended /\ r.failed = i.failed /\ r.abort = i.abort
         /\ r.todo \cup r.queued = i.todo \cup i.queued
         /\ r.todo # {} => Flying(r) # {}
<1> DEFINE n == Workers * InFlight - Cardinality(Flying(i))
           more == First(i.todo, n)
<1>0. r = [i EXCEPT !.queued = @ \cup more, !.todo = @ \ more]  BY DEF TopUp
<1>1. more \subseteq i.todo  BY FirstOf
<1>2. i.todo \in SUBSET Names /\ i.queued \in SUBSET Names  BY DEF Invocation
<1>3. r \in Invocation  BY <1>0, <1>1, <1>2 DEF Invocation
<1>4. r.queued = i.queued \cup more /\ r.todo = i.todo \ more /\ r.running = i.running /\ r.ended = i.ended
  BY <1>0 DEF Invocation
<1>5. r.todo # {} => Flying(r) # {}
  <2>1. CASE Flying(i) # {}  BY <2>1, <1>4 DEF Flying
  <2>2. CASE Flying(i) = {} /\ i.todo # {}
    <3>1. n \in Nat \ {0}  BY <2>2, Futures, FS_EmptySet
    <3>2. more # {}  BY <3>1, <2>2, <1>2, FirstSome
    <3> QED  BY <3>2, <1>4 DEF Flying
  <2> QED  BY <2>1, <2>2, <1>4
<1>6. r.todo \cup r.queued = i.todo \cup i.queued  BY <1>1, <1>4
<1> QED  BY <1>0, <1>3, <1>4, <1>5, <1>6 DEF Invocation

LEMMA BenchInitOk == ASSUME BenchInit PROVE BenchInv
<1>1. NotRunning \in Invocation
  <2>1. <<>> \in [{} -> Nat] /\ <<>> \in [{} -> Ends] /\ <<>> \in Seq(Nat)  OBVIOUS
  <2> QED  BY <2>1 DEF NotRunning, Invocation
<1> QED  BY <1>1 DEF BenchInit, BenchInv, BenchTyped, Files, NoManifest, NotRunning

LEMMA OutageKeeps == ASSUME BenchInv, Outage PROVE BenchInv'
<1>1. inv \in Invocation /\ inv' = [inv EXCEPT !.dry = {}]  BY DEF BenchInv, BenchTyped, Outage
<1>2. /\ inv' \in Invocation /\ inv'.pc = inv.pc /\ inv'.limit = inv.limit /\ inv'.abort = inv.abort
      /\ inv'.proven = inv.proven /\ inv'.todo = inv.todo /\ inv'.queued = inv.queued
      /\ inv'.running = inv.running /\ inv'.ended = inv.ended /\ inv'.failed = inv.failed
  BY <1>1 DEF Invocation
<1>3. BenchTyped'  BY <1>2 DEF BenchInv, BenchTyped, Outage, results
<1>4. sarif' = sarif /\ usage' = usage /\ manifest' = manifest  BY DEF Outage, results
<1> QED  BY <1>2, <1>3, <1>4 DEF BenchInv, Vouched, Accounted, Pending, Flying, Readable

\* An orphan only touches one result, and never spoils it.
LEMMA OrphanKeeps == ASSUME BenchInv, NEW c \in Names, OrphanEnds(c) PROVE BenchInv'
<1>1. PICK review \in Reviews(c) : review.file # "corrupt" /\ Leaves(c, review)  BY DEF OrphanEnds
<1>2. BenchTyped  BY DEF BenchInv
<1>3. /\ sarif' \in [Names -> Files] /\ usage' \in [Names -> Nat]
      /\ \A d \in Names : (Readable(sarif[d]) => Readable(sarif'[d])) /\ usage'[d] >= usage[d]
  BY <1>1, <1>2, LeavesIs, ReviewIs DEF BenchTyped
<1>4. inv' = inv /\ manifest' = manifest /\ provider' = provider /\ outages' = outages /\ started' = started
      /\ orphans' = orphans \ {c}
  BY DEF OrphanEnds
<1>5. BenchTyped'  BY <1>2, <1>3, <1>4 DEF BenchTyped
<1>6. usage \in [Names -> Nat] /\ inv.proven \in SUBSET Names /\ manifest.tokens \in [Names -> Nat]
  BY <1>2 DEF BenchTyped, Invocation
<1>7. Vouched(inv) => Vouched(inv)'  BY <1>3, <1>4, <1>6 DEF Vouched
<1>8. Accounted(inv) => Accounted(inv)'  BY <1>3, <1>4 DEF Accounted, Pending, Flying
<1>9. \A d \in Names : manifest'.tokens[d] <= usage'[d]  BY <1>3, <1>4, <1>6 DEF BenchInv
<1> QED  BY <1>4, <1>5, <1>7, <1>8, <1>9 DEF BenchInv

LEMMA StartKeeps ==
  ASSUME BenchmarkAssumption, BenchInv, NEW limit \in BOOLEAN, StartInvocation(limit)
  PROVE  BenchInv'
<1>0. BenchTyped /\ sarif' = sarif /\ usage' = usage /\ manifest' = manifest /\ orphans' = orphans
      /\ provider' = provider /\ outages' = outages /\ started' = started + 1
  BY DEF BenchInv, StartInvocation, results
<1>1. CASE provider
  <2> DEFINE proven == Trustworthy(sarif, usage)
             todo == Names \ proven
             i == [NotRunning EXCEPT !.pc = "scanning", !.limit = limit, !.proven = proven,
                             !.todo = IF limit THEN First(todo, 1) ELSE todo]
  <2>1. inv' = TopUp(i)  BY <1>1 DEF StartInvocation
  <2>2. proven \in SUBSET Names /\ \A c \in proven : Readable(sarif[c]) /\ usage[c] > 0
    BY DEF Trustworthy
  <2>3. First(todo, 1) \subseteq todo  BY FirstOf
  <2>4. <<>> \in [{} -> Nat] /\ <<>> \in [{} -> Ends] /\ <<>> \in Seq(Nat) /\ DOMAIN <<>> = {}  OBVIOUS
  <2>5. /\ i \in Invocation /\ i.pc = "scanning" /\ i.proven = proven /\ i.todo \subseteq todo
        /\ i.queued = {} /\ i.running = <<>> /\ i.ended = <<>> /\ i.limit = limit
        /\ ~ limit => i.todo = todo
    BY <2>2, <2>3, <2>4 DEF NotRunning, Invocation
  <2> HIDE DEF i, proven, todo
  <2>6. /\ inv' \in Invocation /\ inv'.pc = "scanning" /\ inv'.proven = proven /\ inv'.running = <<>>
        /\ inv'.limit = limit /\ inv'.todo \cup inv'.queued = i.todo
        /\ inv'.todo # {} => Flying(inv') # {}
    BY <2>1, <2>5, ToppedUp
  <2>7. BenchTyped'  BY <1>0, <2>6 DEF BenchTyped
  <2>8. Vouched(inv)'  BY <1>0, <2>2, <2>4, <2>5, <2>6 DEF Vouched, todo
  <2>9. Accounted(inv)'  BY <1>0, <2>2, <2>5, <2>6 DEF Accounted, Pending, todo
  <2> QED  BY <1>0, <2>7, <2>8, <2>9 DEF BenchInv
<1>2. CASE ~ provider
  <2>1. inv' = inv  BY <1>2 DEF StartInvocation
  <2>2. BenchTyped'  BY <1>0, <2>1 DEF BenchTyped
  <2> QED  BY <1>0, <2>1, <2>2 DEF BenchInv, Vouched, Accounted, Pending, Flying
<1> QED  BY <1>1, <1>2

LEMMA BeginKeeps == ASSUME BenchInv, BeginScan PROVE BenchInv'
<1>1. PICK c \in First(inv.queued, 1) :
        inv' = [inv EXCEPT !.queued = @ \ {c},
                           !.running = [d \in DOMAIN @ \cup {c} |-> IF d = c THEN 1 ELSE @[d]],
                           !.dry = IF provider THEN @ ELSE @ \cup {c}]
  BY DEF BeginScan
<1>2. c \in inv.queued  BY FirstOf
<1>3. BenchTyped /\ inv \in Invocation  BY DEF BenchInv, BenchTyped
<1>4. c \in Names /\ inv.queued \in SUBSET Names  BY <1>2, <1>3 DEF Invocation
<1> DEFINE running == [d \in DOMAIN inv.running \cup {c} |-> IF d = c THEN 1 ELSE inv.running[d]]
<1>5. running \in UNION {[S -> Nat] : S \in SUBSET Names}
  <2>1. PICK S \in SUBSET Names : inv.running \in [S -> Nat]  BY <1>3 DEF Invocation
  <2>2. running \in [S \cup {c} -> Nat] /\ S \cup {c} \in SUBSET Names  BY <2>1, <1>4
  <2> QED  BY <2>2
<1>6. /\ inv' \in Invocation /\ inv'.pc = inv.pc /\ inv'.limit = inv.limit /\ inv'.abort = inv.abort
      /\ inv'.proven = inv.proven /\ inv'.todo = inv.todo /\ inv'.queued = inv.queued \ {c}
      /\ DOMAIN inv'.running = DOMAIN inv.running \cup {c}
      /\ inv'.ended = inv.ended /\ inv'.failed = inv.failed
  BY <1>1, <1>3, <1>4, <1>5 DEF Invocation
<1>7. sarif' = sarif /\ usage' = usage /\ manifest' = manifest /\ provider' = provider
      /\ outages' = outages /\ started' = started /\ orphans' = orphans
  BY DEF BeginScan, results
<1>8. BenchTyped'  BY <1>3, <1>6, <1>7 DEF BenchTyped
<1>9. Vouched(inv) => Vouched(inv)'  BY <1>2, <1>6, <1>7 DEF Vouched
<1>10. Accounted(inv) => Accounted(inv)'  BY <1>2, <1>6, <1>7 DEF Accounted, Pending, Flying
<1> QED  BY <1>6, <1>7, <1>8, <1>9, <1>10 DEF BenchInv

LEMMA StallKeeps == ASSUME BenchInv, Stall PROVE BenchInv'
<1>1. inv \in Invocation /\ inv' = Cancel(inv)  BY DEF BenchInv, BenchTyped, Stall
<1>2. /\ inv' \in Invocation /\ inv'.pc = inv.pc /\ inv'.abort /\ inv'.proven = inv.proven
      /\ inv'.todo = inv.todo /\ inv'.queued = {} /\ inv'.running = inv.running
  BY <1>1 DEF Invocation, Cancel
<1>3. sarif' = sarif /\ usage' = usage /\ manifest' = manifest /\ provider' = provider
      /\ outages' = outages /\ started' = started /\ orphans' = orphans
  BY DEF Stall, results
<1>4. BenchTyped'  BY <1>2, <1>3 DEF BenchInv, BenchTyped
<1> QED  BY <1>2, <1>3, <1>4 DEF BenchInv, Vouched, Accounted

LEMMA KillKeeps == ASSUME BenchInv, KillInvocation PROVE BenchInv'
<1>1. inv \in Invocation /\ inv' = NotRunning  BY DEF BenchInv, BenchTyped, KillInvocation
<1>2. NotRunning \in Invocation /\ NotRunning.pc = "off"
  <2>1. <<>> \in [{} -> Nat] /\ <<>> \in [{} -> Ends] /\ <<>> \in Seq(Nat)  OBVIOUS
  <2> QED  BY <2>1 DEF NotRunning, Invocation
<1>3. sarif' = sarif /\ usage' = usage /\ manifest' = manifest /\ provider' = provider
      /\ outages' = outages /\ started' = started
  BY DEF KillInvocation, results
<1>4. orphans' \in SUBSET Names  BY <1>1 DEF KillInvocation, BenchInv, BenchTyped, Invocation
<1>5. BenchTyped'  BY <1>1, <1>2, <1>3, <1>4 DEF BenchInv, BenchTyped
<1> QED  BY <1>1, <1>2, <1>3, <1>5 DEF BenchInv

LEMMA FinishKeeps == ASSUME BenchInv, Finish PROVE BenchInv'
<1>1. BenchTyped /\ inv' = NotRunning  BY DEF BenchInv, Finish
<1>2. NotRunning \in Invocation /\ NotRunning.pc = "off"
  <2>1. <<>> \in [{} -> Nat] /\ <<>> \in [{} -> Ends] /\ <<>> \in Seq(Nat)  OBVIOUS
  <2> QED  BY <2>1 DEF NotRunning, Invocation
<1>3. sarif' = sarif /\ usage' = usage /\ provider' = provider
      /\ outages' = outages /\ started' = started /\ orphans' = orphans
  BY DEF Finish, results
<1>4. manifest' = [complete |-> Complete(inv, sarif), tokens |-> usage]  BY DEF Finish, RunTokens
<1>5. Complete(inv, sarif) \in BOOLEAN  BY DEF Complete
<1>6. usage \in [Names -> Nat]  BY <1>1 DEF BenchTyped
<1>7. manifest' \in [complete : BOOLEAN, tokens : [Names -> Nat]]  BY <1>4, <1>5, <1>6
<1>8. BenchTyped'  BY <1>1, <1>2, <1>3, <1>7 DEF BenchTyped
<1>9. \A c \in Names : manifest'.tokens[c] <= usage'[c]  BY <1>3, <1>4, <1>6
<1> QED  BY <1>1, <1>2, <1>8, <1>9 DEF BenchInv

\* A scan that ends is pending no more unless it failed, and then its result is readable.
LEMMA AttemptKeeps == ASSUME BenchInv, NEW c \in Names, Attempt(c) PROVE BenchInv'
<1>1. PICK review \in Reviews(c) :
        /\ Leaves(c, review)
        /\ CASE review.ok -> Ended(c, TRUE, usage'[c])
             [] ~review.ok /\ inv.running[c] = Attempts -> Ended(c, FALSE, usage'[c])
             [] OTHER -> inv' = [inv EXCEPT !.running[c] = @ + 1]
  BY DEF Attempt
<1>2. BenchTyped /\ inv \in Invocation /\ c \in DOMAIN inv.running  BY DEF BenchInv, BenchTyped, Attempt
<1>3. /\ sarif' \in [Names -> Files] /\ usage' \in [Names -> Nat]
      /\ review.ok \in BOOLEAN /\ (review.ok => Readable(sarif'[c])) /\ usage'[c] >= usage[c]
      /\ \A d \in Names \ {c} : sarif'[d] = sarif[d] /\ usage'[d] = usage[d]
  BY <1>1, <1>2, LeavesIs, ReviewIs
<1>4. manifest' = manifest /\ provider' = provider /\ outages' = outages /\ started' = started
      /\ orphans' = orphans
  BY DEF Attempt
<1>5. inv.ended \in UNION {[S -> Ends] : S \in SUBSET Names} /\ inv.running \in UNION {[S -> Nat] : S \in SUBSET Names}
      /\ inv.proven \in SUBSET Names
  BY <1>2 DEF Invocation
<1>6. \/ \E ok \in BOOLEAN : Ended(c, ok, usage'[c]) /\ (ok => review.ok)
      \/ inv' = [inv EXCEPT !.running[c] = @ + 1]
  BY <1>1, <1>3
<1>7. \A d \in Names : usage'[d] >= usage[d] /\ manifest'.tokens[d] <= usage'[d]
  <2>1. usage \in [Names -> Nat] /\ manifest.tokens \in [Names -> Nat]  BY <1>2 DEF BenchTyped
  <2> QED  BY <1>3, <1>4, <2>1 DEF BenchInv
<1>8. ASSUME NEW ok \in BOOLEAN, Ended(c, ok, usage'[c]), ok => review.ok
      PROVE  BenchInv'
  <2> DEFINE end == [ok |-> ok, tokens |-> usage'[c]]
             running == [d \in DOMAIN inv.running \ {c} |-> inv.running[d]]
             ended == [d \in DOMAIN inv.ended \cup {c} |-> IF d = c THEN end ELSE inv.ended[d]]
  <2>1. end \in Ends  BY <1>3 DEF Ends
  <2>2. ended \in UNION {[S -> Ends] : S \in SUBSET Names}
    <3>1. PICK S \in SUBSET Names : inv.ended \in [S -> Ends]  BY <1>5
    <3>2. ended \in [S \cup {c} -> Ends] /\ S \cup {c} \in SUBSET Names  BY <2>1, <3>1
    <3> QED  BY <3>2
  <2>3. running \in UNION {[S -> Nat] : S \in SUBSET Names}
    <3>1. PICK S \in SUBSET Names : inv.running \in [S -> Nat]  BY <1>5
    <3>2. running \in [S \ {c} -> Nat] /\ S \ {c} \in SUBSET Names  BY <3>1
    <3> QED  BY <3>2
  <2>4. inv' = [inv EXCEPT !.running = running, !.ended = ended]  BY <1>8 DEF Ended
  <2>5. DOMAIN running = DOMAIN inv.running \ {c} /\ DOMAIN ended = DOMAIN inv.ended \cup {c}
        /\ ended[c].ok = ok /\ \A d \in DOMAIN inv.ended \ {c} : ended[d] = inv.ended[d]
    OBVIOUS
  <2> HIDE DEF running, ended
  <2>6. /\ inv' \in Invocation /\ inv'.pc = inv.pc /\ inv'.limit = inv.limit /\ inv'.abort = inv.abort
        /\ inv'.proven = inv.proven /\ inv'.todo = inv.todo /\ inv'.queued = inv.queued
        /\ inv'.running = running /\ inv'.ended = ended /\ inv'.failed = inv.failed
    BY <1>2, <2>2, <2>3, <2>4 DEF Invocation
  <2>7. BenchTyped'  BY <1>2, <1>3, <1>4, <2>6 DEF BenchTyped
  <2>8. Vouched(inv) => Vouched(inv)'
    BY <1>2, <1>3, <1>5, <2>5, <2>6 DEF Vouched
  <2>9. Accounted(inv) => Accounted(inv)'
    <3> SUFFICES ASSUME Accounted(inv), ~ inv.abort, ~ inv.limit
                 PROVE  /\ \A d \in Names : Pending(inv, d)' \/ Readable(sarif'[d])
                        /\ Flying(inv)' # {}
      BY <2>6 DEF Accounted
    <3>1. ASSUME NEW d \in Names \ {c} PROVE Pending(inv, d)' \/ Readable(sarif'[d])
      BY <1>3, <2>5, <2>6 DEF Accounted, Pending
    <3>2. Pending(inv, c)' \/ Readable(sarif'[c])
      BY <1>3, <1>8, <2>5, <2>6 DEF Pending
    <3>3. Flying(inv)' # {}  BY <2>5, <2>6 DEF Flying
    <3> QED  BY <3>1, <3>2, <3>3
  <2> QED  BY <1>7, <2>6, <2>7, <2>8, <2>9 DEF BenchInv
<1>9. CASE inv' = [inv EXCEPT !.running[c] = @ + 1]
  <2> DEFINE running == [inv.running EXCEPT ![c] = @ + 1]
  <2>1. running \in UNION {[S -> Nat] : S \in SUBSET Names}
    <3>1. PICK S \in SUBSET Names : inv.running \in [S -> Nat]  BY <1>5
    <3>2. running \in [S -> Nat]  BY <1>2, <3>1
    <3> QED  BY <3>2
  <2>2. DOMAIN running = DOMAIN inv.running  OBVIOUS
  <2>3. inv' = [inv EXCEPT !.running = running]  BY <1>9
  <2> HIDE DEF running
  <2>4. /\ inv' \in Invocation /\ inv'.pc = inv.pc /\ inv'.limit = inv.limit /\ inv'.abort = inv.abort
        /\ inv'.proven = inv.proven /\ inv'.todo = inv.todo /\ inv'.queued = inv.queued
        /\ inv'.running = running /\ inv'.ended = inv.ended /\ inv'.failed = inv.failed
    BY <1>2, <2>1, <2>3 DEF Invocation
  <2>5. BenchTyped'  BY <1>2, <1>3, <1>4, <2>4 DEF BenchTyped
  <2>6. Vouched(inv) => Vouched(inv)'
    BY <1>2, <1>3, <1>5, <2>2, <2>4 DEF Vouched
  <2>7. Accounted(inv) => Accounted(inv)'
    BY <1>2, <1>3, <2>2, <2>4 DEF Accounted, Pending, Flying
  <2> QED  BY <1>7, <2>4, <2>5, <2>6, <2>7 DEF BenchInv
<1> QED  BY <1>6, <1>8, <1>9

\* What failed is remembered, and the pool is topped up unless the run is aborted.
LEMMA CollectKeeps == ASSUME BenchmarkAssumption, BenchInv, Collect PROVE BenchInv'
<1>1. PICK order \in SetToSeqs(DOMAIN inv.ended) :
        LET recent == Latest(inv.recent \o [k \in DOMAIN order |-> inv.ended[order[k]].tokens], Window)
            i == [inv EXCEPT !.ended = <<>>, !.recent = recent,
                             !.failed = @ \cup {c \in DOMAIN inv.ended : ~inv.ended[c].ok}]
        IN inv' = IF inv.abort \/ GuardTrips(recent) THEN Cancel(i) ELSE TopUp(i)
  BY DEF Collect
<1> DEFINE recent == Latest(inv.recent \o [k \in DOMAIN order |-> inv.ended[order[k]].tokens], Window)
           lost == {c \in DOMAIN inv.ended : ~inv.ended[c].ok}
           i == [inv EXCEPT !.ended = <<>>, !.recent = recent, !.failed = @ \cup lost]
<1>2. inv' = IF inv.abort \/ GuardTrips(recent) THEN Cancel(i) ELSE TopUp(i)  BY <1>1
<1>3. BenchTyped /\ inv \in Invocation  BY DEF BenchInv, BenchTyped
<1>4. recent \in Seq(Nat)  BY <1>3, OrderTaken
<1>5. lost \in SUBSET Names  BY <1>3 DEF Invocation
<1>6. <<>> \in UNION {[S -> Ends] : S \in SUBSET Names} /\ DOMAIN <<>> = {}
  <2>1. <<>> \in [{} -> Ends]  OBVIOUS
  <2> QED  BY <2>1
<1>7. i = [inv EXCEPT !.ended = <<>>, !.recent = recent, !.failed = @ \cup lost]  OBVIOUS
<1>8. \A c \in Names : c \in DOMAIN inv.ended /\ ~ inv.ended[c].ok => c \in lost  OBVIOUS
<1> HIDE DEF recent, lost, i
<1>9. /\ i \in Invocation /\ i.pc = inv.pc /\ i.limit = inv.limit /\ i.abort = inv.abort
      /\ i.proven = inv.proven /\ i.todo = inv.todo /\ i.queued = inv.queued
      /\ i.running = inv.running /\ i.ended = <<>> /\ i.failed = inv.failed \cup lost
  BY <1>3, <1>4, <1>5, <1>6, <1>7 DEF Invocation
<1>10. sarif' = sarif /\ usage' = usage /\ manifest' = manifest /\ provider' = provider
       /\ outages' = outages /\ started' = started /\ orphans' = orphans
  BY DEF Collect, results
<1>11. CASE inv' = Cancel(i)
  <2>1. /\ inv' \in Invocation /\ inv'.pc = inv.pc /\ inv'.abort /\ inv'.proven = inv.proven
        /\ inv'.todo = inv.todo /\ inv'.queued = {} /\ inv'.running = inv.running
    BY <1>9, <1>11 DEF Invocation, Cancel
  <2>2. BenchTyped'  BY <1>3, <1>10, <2>1 DEF BenchTyped
  <2> QED  BY <1>10, <2>1, <2>2 DEF BenchInv, Vouched, Accounted
<1>12. CASE inv' = TopUp(i)
  <2>1. /\ inv' \in Invocation
        /\ inv'.pc = inv.pc /\ inv'.limit = inv.limit /\ inv'.proven = inv.proven
        /\ inv'.running = inv.running /\ inv'.ended = <<>> /\ inv'.failed = inv.failed \cup lost
        /\ inv'.abort = inv.abort /\ inv'.todo \cup inv'.queued = inv.todo \cup inv.queued
        /\ inv'.todo # {} => Flying(inv') # {}
    BY <1>9, <1>12, ToppedUp
  <2>2. BenchTyped'  BY <1>3, <1>10, <2>1 DEF BenchTyped
  <2>3. Vouched(inv) => Vouched(inv)'  BY <1>10, <2>1 DEF Vouched
  <2>4. Accounted(inv) => Accounted(inv)'  BY <1>6, <1>8, <1>10, <2>1 DEF Accounted, Pending
  <2> QED  BY <1>10, <2>1, <2>2, <2>3, <2>4 DEF BenchInv
<1> QED  BY <1>2, <1>11, <1>12

LEMMA BenchKeeps == ASSUME BenchmarkAssumption, BenchInv, [BenchNext]_benchVars PROVE BenchInv'
<1>1. CASE UNCHANGED benchVars
  BY <1>1 DEF BenchInv, BenchTyped, Vouched, Accounted, Pending, Flying, Readable, benchVars, results
<1>2. CASE BenchNext
  BY <1>2, OutageKeeps, StartKeeps, OrphanKeeps, AttemptKeeps, BeginKeeps, CollectKeeps, StallKeeps,
     FinishKeeps, KillKeeps DEF BenchNext
<1> QED  BY <1>1, <1>2

\* The variables keep their types: what Metis leaves behind is a file of one of four kinds, and the
\* futures of an invocation are of its cases (run_scans, scan_one).
THEOREM BenchTypes == ASSUME BenchmarkAssumption PROVE BenchSpec => []BenchTyped
<1>1. BenchInit => BenchInv  BY BenchInitOk
<1>2. BenchInv /\ [BenchNext]_benchVars => BenchInv'  BY BenchKeeps
<1>3. BenchInv => BenchTyped  BY DEF BenchInv
<1> QED  BY <1>1, <1>2, <1>3, PTL DEF BenchSpec

\* A manifest that says complete has a readable result of every case, of this invocation or with a
\* token record, and no manifest counts less than the one before it (main, read_run_tokens).
THEOREM Completeness == ASSUME BenchmarkAssumption PROVE BenchSpec => CompleteIsWhole
<1> DEFINE A == /\ Finish /\ manifest'.complete =>
                     \A c \in Names : Readable(sarif[c]) /\ (usage[c] > 0 \/ c \notin inv.proven)
                /\ \A c \in Names : manifest'.tokens[c] >= manifest.tokens[c]
<1>1. BenchInit => BenchInv  BY BenchInitOk
<1>2. BenchInv /\ [BenchNext]_benchVars => BenchInv'  BY BenchKeeps
<1>3. BenchInv /\ [BenchNext]_benchVars => [A]_benchVars
  <2> SUFFICES ASSUME BenchInv, BenchNext PROVE A  OBVIOUS
  <2>1. ASSUME Finish, manifest'.complete
        PROVE  \A c \in Names : Readable(sarif[c]) /\ (usage[c] > 0 \/ c \notin inv.proven)
    <3>1. inv.pc = "scanning" /\ Flying(inv) = {} /\ Complete(inv, sarif)  BY <2>1 DEF Finish
    <3>2. ~ inv.abort /\ ~ inv.limit /\ inv.failed = {}  BY <3>1 DEF Complete
    <3>3. Vouched(inv) /\ Accounted(inv)  BY <3>1 DEF BenchInv
    <3>4. \A c \in Names : ~ Pending(inv, c)  BY <3>1, <3>2, <3>3 DEF Accounted, Pending, Flying
    <3> QED  BY <3>2, <3>3, <3>4 DEF Accounted, Vouched
  <2>2. \A c \in Names : manifest'.tokens[c] >= manifest.tokens[c]
    <3>1. manifest.tokens \in [Names -> Nat] /\ usage \in [Names -> Nat]  BY DEF BenchInv, BenchTyped
    <3>2. CASE Finish  BY <3>1, <3>2 DEF Finish, RunTokens, BenchInv
    <3>3. CASE ~ Finish
      <4>1. manifest' = manifest
        BY <3>3 DEF BenchNext, Outage, StartInvocation, OrphanEnds, Attempt, BeginScan, Collect, Stall,
           KillInvocation
      <4> QED  BY <3>1, <4>1
    <3> QED  BY <3>2, <3>3
  <2> QED  BY <2>1, <2>2
<1> QED  BY <1>1, <1>2, <1>3, PTL DEF BenchSpec, CompleteIsWhole

-----------------------------------------------------------------------------
(***************************************************************************)
(* The guard against a dead provider, in a run that was started once.  A   *)
(* case begun since the outage reports no token when it ends.  Only a scan *)
(* begun before can hide such cases: the batch it is collected with, and   *)
(* as many after it as the guard may see in a row, less one.  So what was  *)
(* collected, what the guard will still let pass, and what the scans begun *)
(* before can still hide stay within one share for each worker.            *)
(***************************************************************************)
Bygone(i) == DOMAIN i.running \ i.dry
Hides(i) == DOMAIN i.ended \ i.dry # {}
Gone(i) == i.dry \ Flying(i)
Share == (Window - 1) + (Workers * InFlight - 1)
Silent(s, z) == z <= Len(s) /\ \A k \in (Len(s) - z + 1)..Len(s) : s[k] = 0
Within(i, n, b) == Cardinality(Gone(i)) + n + b * Share <= Workers * Share
Bounded(i) ==
  \/ i.dry = {}
  \/ Hides(i) /\ Within(i, 0, Cardinality(Bygone(i)) + 1)
  \/ /\ ~ Hides(i)
     /\ \E z \in 0..(Window - 1) : Silent(i.recent, z) /\ Within(i, Window - 1 - z, Cardinality(Bygone(i)))

\* A case is in one place; what is ahead of the run, and what was begun in the outage, was never billed.
Lined(i) ==
  /\ i.todo \cap Flying(i) = {}
  /\ i.queued \cap (DOMAIN i.running \cup DOMAIN i.ended) = {}
  /\ DOMAIN i.running \cap DOMAIN i.ended = {}
  /\ i.dry \cap (i.todo \cup i.queued) = {}
Roomy(i) ==
  /\ Cardinality(Flying(i)) <= Workers * InFlight
  /\ Cardinality(DOMAIN i.running) <= Workers
  /\ Len(i.recent) <= Window
Unbilled(i) ==
  /\ \A c \in i.todo \cup i.queued \cup i.dry : usage[c] = 0
  /\ \A c \in i.dry \cap DOMAIN i.ended : i.ended[c].tokens = 0
Stopping(i) ==
  /\ provider => i.dry = {}
  /\ i.abort => i.queued = {} /\ Cardinality(i.dry) <= Workers * Share + Workers * InFlight
  /\ ~ i.abort => Bounded(i)

Untouched == inv.pc = "off" /\ orphans = {} /\ \A c \in Names : usage[c] = 0
FirstRun == orphans = {} /\ Lined(inv) /\ Roomy(inv) /\ Unbilled(inv) /\ Stopping(inv)
OutageInv ==
  /\ started = 0 => Untouched
  /\ inv.pc = "off" => inv = NotRunning
  /\ inv.pc = "scanning" /\ started = 1 => FirstRun

LEMMA Times ==
  ASSUME NEW a \in Nat, NEW b \in Nat, NEW k \in Nat
  PROVE  /\ a * k \in Nat /\ (a + 1) * k = a * k + k
         /\ a <= b => a * k <= b * k
<1>1. a * k \in Nat /\ b * k \in Nat  BY Z3
<1>2. (a + 1) * k = a * k + k  BY Z3
<1>3. ASSUME a <= b PROVE a * k <= b * k
  <2>1. PICK d \in Nat : b = a + d  BY <1>3
  <2>2. b * k = a * k + d * k  BY <2>1, Z3
  <2>3. d * k >= 0  BY Z3
  <2> QED  BY <1>1, <2>2, <2>3, Z3
<1> QED  BY <1>1, <1>2, <1>3

LEMMA ShareIs ==
  ASSUME BenchmarkAssumption
  PROVE  /\ Share \in Nat /\ Window - 1 \in Nat /\ Workers \in Nat \ {0} /\ Workers * InFlight \in Nat \ {0}
         /\ Share = (Window - 1) + (Workers * InFlight - 1)
<1>1. Workers \in Nat \ {0} /\ Window \in Nat \ {0}  BY DEF BenchmarkAssumption
<1> QED  BY <1>1, Futures DEF Share

\* The first n cases are n at most.
LEMMA FirstFew ==
  ASSUME BenchmarkAssumption, NEW S \in SUBSET Names, NEW n \in Nat
  PROVE  Cardinality(First(S, n)) <= n
<1> DEFINE Ahead(c) == {d \in S : Place(d) < Place(c)}
           F == First(S, n)
           f == [c \in F |-> Cardinality(Ahead(c))]
<1>1. \A c \in Names : Place(c) \in Nat /\ Cases[Place(c)] = c
  <2>1. \A c \in Names : \E k \in DOMAIN Cases : Cases[k] = c  BY DEF Names, Range
  <2>2. \A c \in Names : Cases[Place(c)] = c  BY <2>1 DEF Place
  <2> QED  BY <2>2, PlaceIs
<1>2. \A c \in S : IsFiniteSet(Ahead(c)) /\ Cardinality(Ahead(c)) \in Nat  BY FiniteNames
<1>3. \A c, d \in S : Place(c) < Place(d) => Cardinality(Ahead(c)) < Cardinality(Ahead(d))
  <2> SUFFICES ASSUME NEW c \in S, NEW d \in S, Place(c) < Place(d)
               PROVE  Cardinality(Ahead(c)) < Cardinality(Ahead(d))
    OBVIOUS
  <2>1. c \notin Ahead(c)  BY <1>1
  <2>2. Ahead(c) \cup {c} \subseteq Ahead(d)  BY <1>1
  <2>3. Cardinality(Ahead(c) \cup {c}) = Cardinality(Ahead(c)) + 1  BY <1>2, <2>1, FS_AddElement
  <2>4. Cardinality(Ahead(c) \cup {c}) <= Cardinality(Ahead(d))  BY <1>2, <2>2, FS_Subset
  <2> QED  BY <1>2, <2>3, <2>4
<1>4. F \subseteq S /\ \A c \in F : f[c] \in 0..(n - 1)  BY <1>2 DEF First
<1>5. \A c, d \in F : f[c] = f[d] => c = d
  <2> SUFFICES ASSUME NEW c \in F, NEW d \in F, f[c] = f[d] PROVE c = d  OBVIOUS
  <2>1. Place(c) = Place(d)  BY <1>1, <1>2, <1>3, <1>4
  <2> QED  BY <1>1, <1>4, <2>1
<1>6. f \in Injection(F, 0..(n - 1))  BY <1>4, <1>5 DEF Injection, IsInjective
<1>7. IsFiniteSet(0..(n - 1)) /\ Cardinality(0..(n - 1)) = n  BY FS_Interval
<1> QED  BY <1>6, <1>7, FS_Injection

\* Topping up takes no more than there is room for, from what is ahead, and touches nothing else.
LEMMA ToppedUpTo ==
  ASSUME BenchmarkAssumption, NEW i \in Invocation, NEW r, r = TopUp(i),
         Cardinality(Flying(i)) <= Workers * InFlight
  PROVE  /\ r.dry = i.dry /\ r.recent = i.recent
         /\ \E more \in SUBSET i.todo : r.queued = i.queued \cup more /\ r.todo = i.todo \ more
         /\ Cardinality(Flying(r)) <= Workers * InFlight
<1> DEFINE n == Workers * InFlight - Cardinality(Flying(i))
           more == First(i.todo, n)
<1>1. r = [i EXCEPT !.queued = @ \cup more, !.todo = @ \ more]  BY DEF TopUp
<1>2. more \subseteq i.todo /\ i.todo \in SUBSET Names /\ Flying(i) \in SUBSET Names
  BY FirstOf DEF Invocation, Flying
<1>3. /\ r.dry = i.dry /\ r.recent = i.recent /\ r.queued = i.queued \cup more /\ r.todo = i.todo \ more
      /\ r.running = i.running /\ r.ended = i.ended
  BY <1>1 DEF Invocation
<1>4. n \in Nat  BY <1>2, Futures, FiniteNames
<1>5. Cardinality(more) <= n  BY <1>2, <1>4, FirstFew
<1>6. Flying(r) = Flying(i) \cup more  BY <1>3 DEF Flying
<1>7. IsFiniteSet(Flying(i)) /\ IsFiniteSet(more) /\ Cardinality(Flying(i)) \in Nat /\ Cardinality(more) \in Nat
      /\ Cardinality(Flying(i) \cap more) \in Nat
  BY <1>2, FiniteNames
<1>8. Cardinality(Flying(r)) = Cardinality(Flying(i)) + Cardinality(more) - Cardinality(Flying(i) \cap more)
  BY <1>6, <1>7, FS_Union
<1>9. Cardinality(Flying(r)) <= Workers * InFlight  BY <1>5, <1>7, <1>8, Futures
<1> QED  BY <1>2, <1>3, <1>9

\* A batch without tokens that does not trip the guard: it and the silence before it are short.
LEMMA QuietBatch ==
  ASSUME NEW s \in Seq(Nat), NEW t \in Seq(Nat), \A k \in 1..Len(t) : t[k] = 0,
         NEW z \in Nat, Silent(s, z), Window \in Nat \ {0},
         NEW r, r = Latest(s \o t, Window), ~ GuardTrips(r)
  PROVE  z + Len(t) <= Window - 1 /\ Silent(r, z + Len(t))
<1> DEFINE u == s \o t
           m == z + Len(t)
           l == Len(s) + Len(t)
<1>1. u \in Seq(Nat) /\ Len(u) = l /\ l \in Nat /\ m \in Nat /\ m <= l
      /\ \A k \in 1..l : u[k] = IF k <= Len(s) THEN s[k] ELSE t[k - Len(s)]
  BY ConcatProperties DEF Silent
<1>2. \A k \in (l - m + 1)..l : u[k] = 0
  <2> SUFFICES ASSUME NEW k \in (l - m + 1)..l PROVE u[k] = 0  OBVIOUS
  <2>1. k \in 1..l  BY <1>1
  <2>2. CASE k <= Len(s)
    <3>1. k \in (Len(s) - z + 1)..Len(s)  BY <2>1, <2>2
    <3> QED  BY <1>1, <2>1, <2>2, <3>1 DEF Silent
  <2>3. CASE ~ (k <= Len(s))
    <3>1. k - Len(s) \in 1..Len(t)  BY <2>1, <2>3
    <3> QED  BY <1>1, <2>1, <2>3, <3>1
  <2> QED  BY <2>2, <2>3
<1> HIDE DEF u, m, l
<1>3. CASE l > Window
  <2>1. r = SubSeq(u, l - Window + 1, l)  BY <1>1, <1>3 DEF Latest, u
  <2>2. \A k \in (l - Window + 1)..l : u[k] \in Nat
    <3> SUFFICES ASSUME NEW k \in (l - Window + 1)..l PROVE u[k] \in Nat  OBVIOUS
    <3>1. k \in 1..l  BY <1>1, <1>3
    <3> QED  BY <1>1, <3>1, ElementOfSeq
  <2>3. Len(r) = Window /\ \A k \in 1..Window : r[k] = u[l - Window + k]
    BY <1>1, <1>3, <2>1, <2>2, SubSeqProperties
  <2>4. m <= Window - 1
    <3> SUFFICES ASSUME m >= Window PROVE FALSE  BY <1>1
    <3>1. \A k \in 1..Window : l - Window + k \in (l - m + 1)..l  BY <1>1, <1>3
    <3>2. \A k \in 1..Window : r[k] = 0  BY <1>2, <2>3, <3>1
    <3> QED  BY <2>3, <3>2 DEF GuardTrips
  <2>5. \A k \in (Window - m + 1)..Window : r[k] = 0
    <3>1. \A k \in (Window - m + 1)..Window : k \in 1..Window /\ l - Window + k \in (l - m + 1)..l
      BY <1>1, <1>3, <2>4
    <3> QED  BY <1>2, <2>3, <3>1
  <2> QED  BY <1>1, <2>3, <2>4, <2>5 DEF Silent, m
<1>4. CASE ~ (l > Window)
  <2>1. r = u  BY <1>1, <1>4 DEF Latest, u
  <2>2. m <= Window - 1
    <3> SUFFICES ASSUME m >= Window PROVE FALSE  BY <1>1
    <3>1. l = Window /\ m = l  BY <1>1, <1>4
    <3>2. \A k \in 1..Window : r[k] = 0  BY <1>2, <2>1, <3>1
    <3> QED  BY <1>1, <2>1, <3>1, <3>2 DEF GuardTrips
  <2> QED  BY <1>1, <1>2, <2>1, <2>2 DEF Silent, m
<1> QED  BY <1>3, <1>4

LEMMA LatestLen ==
  ASSUME NEW s \in Seq(Nat), NEW n \in Nat \ {0}
  PROVE  Len(Latest(s, n)) <= n
<1>1. CASE Len(s) > n
  <2>1. \A i \in (Len(s) - n + 1)..Len(s) : s[i] \in Nat
    <3> SUFFICES ASSUME NEW i \in (Len(s) - n + 1)..Len(s) PROVE s[i] \in Nat  OBVIOUS
    <3>1. i \in 1..Len(s)  BY <1>1
    <3> QED  BY <3>1, ElementOfSeq
  <2> QED  BY <1>1, <2>1, SubSeqProperties DEF Latest
<1>2. CASE ~ (Len(s) > n)  BY <1>2 DEF Latest
<1> QED  BY <1>1, <1>2

\* What was collected and what is in flight is all that was begun.
LEMMA BoundedIs ==
  ASSUME BenchmarkAssumption, NEW i \in Invocation, Roomy(i), Bounded(i)
  PROVE  Cardinality(i.dry) <= Workers * Share + Workers * InFlight
<1>1. i.dry \in SUBSET Names /\ Flying(i) \in SUBSET Names  BY DEF Invocation, Flying
<1>2. Share \in Nat /\ Workers * Share \in Nat /\ Workers * InFlight \in Nat  BY ShareIs, Times
<1>3. CASE i.dry = {}  BY <1>2, <1>3, FS_EmptySet
<1>4. CASE i.dry # {}
  <2> DEFINE fly == i.dry \cap Flying(i)
             b == Cardinality(Bygone(i))
  <2>1. Gone(i) \in SUBSET Names /\ fly \in SUBSET Flying(i) /\ Bygone(i) \in SUBSET Names
        /\ i.dry = Gone(i) \cup fly /\ Gone(i) \cap fly = {}
    BY <1>1 DEF Gone, Bygone, Invocation
  <2>2. /\ IsFiniteSet(Gone(i)) /\ IsFiniteSet(fly) /\ IsFiniteSet(Flying(i))
        /\ Cardinality(Gone(i)) \in Nat /\ Cardinality(fly) \in Nat /\ Cardinality(Flying(i)) \in Nat /\ b \in Nat
    BY <1>1, <2>1, FiniteNames
  <2>3. Cardinality(fly) <= Cardinality(Flying(i))  BY <2>1, <2>2, FS_Subset
  <2>4. Cardinality(i.dry) = Cardinality(Gone(i)) + Cardinality(fly)
    BY <2>1, <2>2, FS_Union, FS_EmptySet
  <2>5. Cardinality(Gone(i)) <= Workers * Share
    <3>1. b * Share \in Nat /\ (b + 1) * Share \in Nat  BY <1>2, <2>2, Times
    <3>2. \A z \in 0..(Window - 1) : Window - 1 - z \in Nat  BY ShareIs
    <3>3. \E n \in Nat, m \in Nat : Cardinality(Gone(i)) + n + m <= Workers * Share
      BY <1>4, <3>1, <3>2 DEF Bounded, Within
    <3> QED  BY <1>2, <2>2, <3>3
  <2>6. Cardinality(Flying(i)) <= Workers * InFlight  BY DEF Roomy
  <2> QED  BY <1>2, <2>2, <2>3, <2>4, <2>5, <2>6
<1> QED  BY <1>3, <1>4

LEMMA DryIsBounded ==
  ASSUME BenchmarkAssumption, BenchTyped, FirstRun
  PROVE  Cardinality(inv.dry) <= Workers * Share + Workers * InFlight
BY BoundedIs DEF FirstRun, Stopping, BenchTyped

LEMMA Dryless ==
  ASSUME BenchmarkAssumption, NEW i, i.dry = {}
  PROVE  Bounded(i) /\ Cardinality(i.dry) <= Workers * Share + Workers * InFlight
<1>1. Workers * Share \in Nat /\ Workers * InFlight \in Nat  BY ShareIs, Times
<1> QED  BY <1>1, FS_EmptySet DEF Bounded

LEMMA BeginBounded ==
  ASSUME BenchmarkAssumption, BenchTyped, FirstRun, BeginScan
  PROVE  FirstRun'
<1>1. PICK c \in First(inv.queued, 1) :
        inv' = [inv EXCEPT !.queued = @ \ {c},
                           !.running = [d \in DOMAIN @ \cup {c} |-> IF d = c THEN 1 ELSE @[d]],
                           !.dry = IF provider THEN @ ELSE @ \cup {c}]
  BY DEF BeginScan
<1>2. c \in inv.queued  BY FirstOf
<1> DEFINE running == [d \in DOMAIN inv.running \cup {c} |-> IF d = c THEN 1 ELSE inv.running[d]]
<1>3. inv \in Invocation /\ DOMAIN running = DOMAIN inv.running \cup {c}  BY DEF BenchTyped
<1>4. /\ inv'.todo = inv.todo /\ inv'.queued = inv.queued \ {c} /\ inv'.running = running
      /\ inv'.ended = inv.ended /\ inv'.recent = inv.recent /\ inv'.abort = inv.abort
      /\ inv'.dry = IF provider THEN inv.dry ELSE inv.dry \cup {c}
  BY <1>1, <1>3 DEF Invocation
<1> HIDE DEF running
<1>5. /\ usage' = usage /\ provider' = provider /\ orphans' = orphans
      /\ Cardinality(DOMAIN inv.running) < Workers
  BY DEF BeginScan, results
<1>6. /\ Lined(inv) /\ Roomy(inv) /\ Unbilled(inv) /\ Stopping(inv) /\ ~ inv.abort /\ Bounded(inv)
  BY <1>2 DEF FirstRun, Stopping
<1>7. /\ c \notin inv.todo /\ c \notin DOMAIN inv.running /\ c \notin DOMAIN inv.ended /\ c \notin inv.dry
      /\ c \in Flying(inv) /\ Flying(inv') = Flying(inv)
  BY <1>2, <1>3, <1>4, <1>6 DEF Lined, Flying
<1>8. Lined(inv)'  BY <1>2, <1>3, <1>4, <1>6, <1>7 DEF Lined
<1>9. DOMAIN inv.running \in SUBSET Names  BY <1>3 DEF Invocation
<1>10. IsFiniteSet(DOMAIN inv.running) /\ Cardinality(DOMAIN inv.running) \in Nat  BY <1>9, FiniteNames
<1>11. Cardinality(DOMAIN inv'.running) = Cardinality(DOMAIN inv.running) + 1
  BY <1>3, <1>4, <1>7, <1>10, FS_AddElement
<1>12. Roomy(inv)'  BY <1>4, <1>5, <1>6, <1>7, <1>10, <1>11, ShareIs DEF Roomy
<1>13. Unbilled(inv)'  BY <1>2, <1>4, <1>5, <1>6, <1>7 DEF Unbilled
<1>14. Bounded(inv)'
  <2>1. CASE inv'.dry = {}  BY <2>1 DEF Bounded
  <2>2. CASE ~ provider
    <3>1. /\ Gone(inv)' = Gone(inv) /\ Hides(inv)' = Hides(inv)
          /\ Bygone(inv)' = Bygone(inv)
      BY <1>3, <1>4, <1>7, <2>2 DEF Gone, Hides, Bygone
    <3>2. CASE inv.dry # {}
      <4>1. CASE Hides(inv)  BY <1>6, <3>1, <3>2, <4>1 DEF Bounded, Within
      <4>2. CASE ~ Hides(inv)
        <5>1. PICK z \in 0..(Window - 1) :
                 Silent(inv.recent, z) /\ Within(inv, Window - 1 - z, Cardinality(Bygone(inv)))
          BY <1>6, <3>2, <4>2 DEF Bounded
        <5> QED  BY <1>4, <3>1, <4>2, <5>1 DEF Bounded, Within
      <4> QED  BY <4>1, <4>2
    <3>3. CASE inv.dry = {}
      <4> DEFINE b == Cardinality(DOMAIN inv.running)
      <4>1. Gone(inv) = {} /\ Bygone(inv) = DOMAIN inv.running  BY <3>3 DEF Gone, Bygone
      <4>2. Cardinality(Gone(inv)) = 0  BY <4>1, FS_EmptySet
      <4>3. /\ b \in Nat /\ b + 1 \in Nat /\ b + 1 <= Workers /\ Share \in Nat /\ Workers \in Nat
        BY <1>5, <1>10, ShareIs
      <4>4. (b + 1) * Share <= Workers * Share /\ (b + 1) * Share = b * Share + Share /\ b * Share \in Nat
            /\ Workers * Share \in Nat
        BY <4>3, Times
      <4>5. CASE Hides(inv)
        <5>1. Within(inv', 0, b + 1)  BY <3>1, <4>2, <4>3, <4>4 DEF Within
        <5> QED  BY <3>1, <4>1, <4>5, <5>1 DEF Bounded
      <4>6. CASE ~ Hides(inv)
        <5>1. Silent(inv'.recent, 0) /\ 0 \in 0..(Window - 1)
          <6>1. Len(inv'.recent) \in Nat  BY <1>3, <1>4 DEF Invocation
          <6> QED  BY <6>1, ShareIs DEF Silent
        <5>2. Window - 1 <= Share /\ Window - 1 - 0 = Window - 1 /\ Window - 1 \in Nat  BY ShareIs
        <5>3. Within(inv', Window - 1 - 0, b)  BY <3>1, <4>2, <4>3, <4>4, <5>2 DEF Within
        <5> QED  BY <3>1, <4>1, <4>6, <5>1, <5>3 DEF Bounded
      <4> QED  BY <4>5, <4>6
    <3> QED  BY <3>2, <3>3
  <2> QED  BY <1>4, <1>6, <2>1, <2>2 DEF Stopping, FirstRun
<1>15. Stopping(inv)'  BY <1>4, <1>5, <1>6, <1>14 DEF Stopping
<1> QED  BY <1>5, <1>8, <1>12, <1>13, <1>15 DEF FirstRun

\* In an outage a scan is billed nothing.
LEMMA UnbilledIs ==
  ASSUME BenchTyped, NEW c \in Names, NEW review \in Reviews(c), Leaves(c, review), ~ provider
  PROVE  usage' = usage
<1>1. review.tokens = 0  BY DEF Reviews
<1>2. usage \in [Names -> Nat]  BY DEF BenchTyped
<1>3. usage' = [usage EXCEPT ![c] = @ + review.tokens]  BY DEF Leaves
<1> QED  BY <1>1, <1>2, <1>3

LEMMA AttemptBounded ==
  ASSUME BenchmarkAssumption, BenchTyped, FirstRun, NEW c \in Names, Attempt(c)
  PROVE  FirstRun'
<1>1. PICK review \in Reviews(c) :
        /\ Leaves(c, review)
        /\ CASE review.ok -> Ended(c, TRUE, usage'[c])
             [] ~review.ok /\ inv.running[c] = Attempts -> Ended(c, FALSE, usage'[c])
             [] OTHER -> inv' = [inv EXCEPT !.running[c] = @ + 1]
  BY DEF Attempt
<1>2. /\ inv \in Invocation /\ c \in DOMAIN inv.running /\ provider' = provider /\ orphans' = orphans
  BY DEF BenchTyped, Attempt
<1>3. /\ review.ok \in BOOLEAN /\ \A d \in Names \ {c} : usage'[d] = usage[d]
  BY <1>1, LeavesIs, ReviewIs
<1>4. Lined(inv) /\ Roomy(inv) /\ Unbilled(inv) /\ Stopping(inv)  BY DEF FirstRun
<1>5. c \notin inv.todo /\ c \notin inv.queued /\ c \notin DOMAIN inv.ended  BY <1>2, <1>4 DEF Lined, Flying
<1>6. c \in inv.dry => usage'[c] = 0
  BY <1>1, <1>4, UnbilledIs DEF Stopping, Unbilled
<1>7. inv.todo \in SUBSET Names /\ inv.queued \in SUBSET Names /\ inv.dry \in SUBSET Names
      /\ DOMAIN inv.running \in SUBSET Names
  BY <1>2 DEF Invocation
<1>8. \A d \in inv.todo \cup inv.queued \cup inv.dry : usage'[d] = 0
  BY <1>3, <1>4, <1>5, <1>6, <1>7 DEF Unbilled
<1>9. \/ \E ok \in BOOLEAN : Ended(c, ok, usage'[c])
      \/ inv' = [inv EXCEPT !.running[c] = @ + 1]
  BY <1>1, <1>3
<1>10. ASSUME NEW ok \in BOOLEAN, Ended(c, ok, usage'[c]) PROVE FirstRun'
  <2> DEFINE running == [d \in DOMAIN inv.running \ {c} |-> inv.running[d]]
             ended == [d \in DOMAIN inv.ended \cup {c} |->
                         IF d = c THEN [ok |-> ok, tokens |-> usage'[c]] ELSE inv.ended[d]]
  <2>1. inv' = [inv EXCEPT !.running = running, !.ended = ended]  BY <1>10 DEF Ended
  <2>2. /\ DOMAIN running = DOMAIN inv.running \ {c} /\ DOMAIN ended = DOMAIN inv.ended \cup {c}
        /\ ended[c].tokens = usage'[c] /\ \A d \in DOMAIN inv.ended \ {c} : ended[d] = inv.ended[d]
    OBVIOUS
  <2> HIDE DEF running, ended
  <2>3. /\ inv'.todo = inv.todo /\ inv'.queued = inv.queued /\ inv'.running = running
        /\ inv'.ended = ended /\ inv'.recent = inv.recent /\ inv'.abort = inv.abort /\ inv'.dry = inv.dry
    BY <1>2, <2>1 DEF Invocation
  <2>4. Flying(inv') = Flying(inv)  BY <1>2, <2>2, <2>3 DEF Flying
  <2>5. Lined(inv)'  BY <1>4, <1>5, <2>2, <2>3, <2>4 DEF Lined
  <2>6. Cardinality(DOMAIN inv'.running) <= Cardinality(DOMAIN inv.running)
        /\ Cardinality(DOMAIN inv'.running) \in Nat /\ Cardinality(DOMAIN inv.running) \in Nat
    <3>1. DOMAIN inv'.running \in SUBSET DOMAIN inv.running  BY <2>2, <2>3
    <3> QED  BY <1>7, <3>1, FiniteNames, FS_Subset
  <2>7. Roomy(inv)'  BY <1>4, <2>3, <2>4, <2>6, ShareIs DEF Roomy
  <2>8. Unbilled(inv)'  BY <1>4, <1>6, <1>8, <2>2, <2>3 DEF Unbilled
  <2>9. Gone(inv)' = Gone(inv)  BY <2>3, <2>4 DEF Gone
  <2>10. ASSUME Bounded(inv) PROVE Bounded(inv)'
    <3>1. CASE inv.dry = {}  BY <2>3, <3>1 DEF Bounded
    <3>2. CASE inv.dry # {} /\ c \in inv.dry
      <4>1. Bygone(inv)' = Bygone(inv) /\ (Hides(inv)' <=> Hides(inv))
        BY <2>2, <2>3, <3>2 DEF Bygone, Hides
      <4> QED  BY <2>3, <2>9, <2>10, <3>2, <4>1 DEF Bounded, Within
    <3>3. CASE inv.dry # {} /\ c \notin inv.dry
      <4> DEFINE b == Cardinality(Bygone(inv))
                 g == Cardinality(Gone(inv))
      <4>1. Hides(inv)' /\ Bygone(inv)' = Bygone(inv) \ {c} /\ c \in Bygone(inv)
        BY <1>2, <2>2, <2>3, <3>3 DEF Bygone, Hides
      <4>2. Bygone(inv) \in SUBSET Names /\ Gone(inv) \in SUBSET Names  BY <1>7 DEF Bygone, Gone
      <4>3. IsFiniteSet(Bygone(inv)) /\ b \in Nat /\ g \in Nat  BY <4>2, FiniteNames
      <4>4. Cardinality(Bygone(inv)') = b - 1  BY <4>1, <4>3, FS_RemoveElement
      <4>5. b - 1 + 1 = b  BY <4>3
      <4>6. Share \in Nat /\ b * Share \in Nat /\ (b + 1) * Share = b * Share + Share /\ Workers * Share \in Nat
        BY <4>3, ShareIs, Times
      <4>7. g + 0 + b * Share <= Workers * Share
        <5>1. CASE Hides(inv)
          <6>1. g + 0 + (b + 1) * Share <= Workers * Share  BY <2>10, <3>3, <5>1 DEF Bounded, Within
          <6> QED  BY <4>3, <4>6, <6>1
        <5>2. CASE ~ Hides(inv)
          <6>1. PICK z \in 0..(Window - 1) : g + (Window - 1 - z) + b * Share <= Workers * Share
            BY <2>10, <3>3, <5>2 DEF Bounded, Within
          <6>2. Window - 1 - z \in Nat  BY ShareIs
          <6> QED  BY <4>3, <4>6, <6>1, <6>2
        <5> QED  BY <5>1, <5>2
      <4>8. Within(inv, 0, Cardinality(Bygone(inv)) + 1)'  BY <2>9, <4>4, <4>5, <4>7 DEF Within
      <4> QED  BY <4>1, <4>8 DEF Bounded
    <3> QED  BY <3>1, <3>2, <3>3
  <2>11. Stopping(inv)'  BY <1>2, <1>4, <2>3, <2>10 DEF Stopping
  <2> QED  BY <1>2, <2>5, <2>7, <2>8, <2>11 DEF FirstRun
<1>11. CASE inv' = [inv EXCEPT !.running[c] = @ + 1]
  <2> DEFINE running == [inv.running EXCEPT ![c] = @ + 1]
  <2>1. inv' = [inv EXCEPT !.running = running] /\ DOMAIN running = DOMAIN inv.running  BY <1>11
  <2> HIDE DEF running
  <2>2. /\ inv'.todo = inv.todo /\ inv'.queued = inv.queued /\ inv'.running = running
        /\ inv'.ended = inv.ended /\ inv'.recent = inv.recent /\ inv'.abort = inv.abort /\ inv'.dry = inv.dry
    BY <1>2, <2>1 DEF Invocation
  <2>3. Flying(inv') = Flying(inv)  BY <2>1, <2>2 DEF Flying
  <2>4. Lined(inv)' /\ Roomy(inv)'  BY <1>4, <2>1, <2>2, <2>3 DEF Lined, Roomy
  <2>5. Unbilled(inv)'  BY <1>4, <1>8, <2>2 DEF Unbilled
  <2>6. Gone(inv)' = Gone(inv) /\ Bygone(inv)' = Bygone(inv) /\ (Hides(inv)' <=> Hides(inv))
    BY <2>1, <2>2, <2>3 DEF Gone, Bygone, Hides
  <2>7. Bounded(inv) => Bounded(inv)'  BY <2>2, <2>6 DEF Bounded, Within
  <2>8. Stopping(inv)'  BY <1>2, <1>4, <2>2, <2>7 DEF Stopping
  <2> QED  BY <1>2, <2>4, <2>5, <2>8 DEF FirstRun
<1> QED  BY <1>9, <1>10, <1>11

\* What is cancelled is queued; nothing else moves.
LEMMA CancelBounded ==
  ASSUME BenchmarkAssumption, BenchTyped, FirstRun, NEW i \in Invocation,
         i.todo = inv.todo, i.queued = inv.queued, i.running = inv.running, i.dry = inv.dry,
         DOMAIN i.ended \subseteq DOMAIN inv.ended,
         \A c \in DOMAIN i.ended : i.ended[c].tokens = inv.ended[c].tokens,
         Len(i.recent) <= Window,
         inv' = Cancel(i), usage' = usage, provider' = provider, orphans' = orphans
  PROVE  FirstRun'
<1>1. Lined(inv) /\ Roomy(inv) /\ Unbilled(inv) /\ Stopping(inv) /\ orphans = {}  BY DEF FirstRun
<1>2. /\ inv'.todo = inv.todo /\ inv'.queued = {} /\ inv'.running = inv.running /\ inv'.ended = i.ended
      /\ inv'.recent = i.recent /\ inv'.abort /\ inv'.dry = inv.dry
  BY DEF Cancel, Invocation
<1>3. Flying(inv') \subseteq Flying(inv)  BY <1>2 DEF Flying
<1>4. Flying(inv) \in SUBSET Names  BY DEF Flying, BenchTyped, Invocation
<1>5. Flying(inv') \in SUBSET Flying(inv)  BY <1>3
<1>6. /\ Cardinality(Flying(inv')) <= Cardinality(Flying(inv))
      /\ Cardinality(Flying(inv')) \in Nat /\ Cardinality(Flying(inv)) \in Nat
  BY <1>4, <1>5, FiniteNames, FS_Subset
<1>7. Lined(inv)'  BY <1>1, <1>2, <1>3 DEF Lined
<1>8. Roomy(inv)'  BY <1>1, <1>2, <1>6, ShareIs DEF Roomy
<1>9. Unbilled(inv)'  BY <1>1, <1>2 DEF Unbilled
<1>10. Stopping(inv)'  BY <1>1, <1>2, DryIsBounded DEF Stopping
<1> QED  BY <1>1, <1>7, <1>8, <1>9, <1>10 DEF FirstRun

\* A batch that a bygone scan is in pays for itself; one without trips the guard or is short.
LEMMA CollectBounded ==
  ASSUME BenchmarkAssumption, BenchTyped, FirstRun, Collect
  PROVE  FirstRun'
<1>1. PICK order \in SetToSeqs(DOMAIN inv.ended) :
        LET recent == Latest(inv.recent \o [k \in DOMAIN order |-> inv.ended[order[k]].tokens], Window)
            i == [inv EXCEPT !.ended = <<>>, !.recent = recent,
                             !.failed = @ \cup {c \in DOMAIN inv.ended : ~inv.ended[c].ok}]
        IN inv' = IF inv.abort \/ GuardTrips(recent) THEN Cancel(i) ELSE TopUp(i)
  BY DEF Collect
<1> DEFINE E == DOMAIN inv.ended
           tokens == [k \in DOMAIN order |-> inv.ended[order[k]].tokens]
           recent == Latest(inv.recent \o tokens, Window)
           lost == {c \in DOMAIN inv.ended : ~inv.ended[c].ok}
           i == [inv EXCEPT !.ended = <<>>, !.recent = recent, !.failed = @ \cup lost]
<1>2. inv' = IF inv.abort \/ GuardTrips(recent) THEN Cancel(i) ELSE TopUp(i)  BY <1>1
<1>3. inv \in Invocation /\ Window \in Nat \ {0}  BY DEF BenchTyped, BenchmarkAssumption
<1>4. recent \in Seq(Nat)  BY OrderTaken
<1>5. E \in SUBSET Names /\ inv.recent \in Seq(Nat) /\ \A c \in E : inv.ended[c] \in Ends
  BY <1>3 DEF Invocation
<1>6. IsFiniteSet(E) /\ Cardinality(E) \in Nat  BY <1>5, FiniteNames
<1>7. order \in [1..Cardinality(E) -> E]  BY DEF SetToSeqs
<1>8. tokens \in [1..Cardinality(E) -> Nat] /\ \A k \in 1..Cardinality(E) : tokens[k] = inv.ended[order[k]].tokens
  <2>1. \A k \in 1..Cardinality(E) : inv.ended[order[k]].tokens \in Nat  BY <1>5, <1>7 DEF Ends
  <2> QED  BY <1>7, <2>1
<1>9. tokens \in Seq(Nat) /\ Len(tokens) = Cardinality(E)  BY <1>6, <1>8
<1>10. Len(recent) <= Window  BY <1>3, <1>5, <1>9, ConcatProperties, LatestLen
<1>11. lost \in SUBSET Names  BY <1>5
<1>12. <<>> \in UNION {[S -> Ends] : S \in SUBSET Names} /\ DOMAIN <<>> = {}
  <2>1. <<>> \in [{} -> Ends]  OBVIOUS
  <2> QED  BY <2>1
<1>13. i = [inv EXCEPT !.ended = <<>>, !.recent = recent, !.failed = @ \cup lost]  OBVIOUS
<1>r. recent = Latest(inv.recent \o tokens, Window)  OBVIOUS
<1> HIDE DEF lost, i, recent, tokens, E
<1>14. /\ i \in Invocation /\ i.abort = inv.abort /\ i.todo = inv.todo /\ i.queued = inv.queued
       /\ i.running = inv.running /\ i.ended = <<>> /\ i.dry = inv.dry /\ i.recent = recent
  BY <1>3, <1>4, <1>11, <1>12, <1>13 DEF Invocation
<1>15. usage' = usage /\ provider' = provider /\ orphans' = orphans  BY DEF Collect, results
<1>16. CASE inv' = Cancel(i)
  BY <1>10, <1>12, <1>14, <1>15, <1>16, CancelBounded
<1>17. CASE inv' = TopUp(i) /\ ~ inv.abort /\ ~ GuardTrips(recent)
  <2>1. Lined(inv) /\ Roomy(inv) /\ Unbilled(inv) /\ Stopping(inv) /\ orphans = {}  BY DEF FirstRun
  <2>2. Flying(inv) \in SUBSET Names /\ Flying(i) \in SUBSET Flying(inv) /\ E \in SUBSET Flying(inv)
        /\ Flying(inv) = Flying(i) \cup E
    BY <1>3, <1>12, <1>14 DEF Flying, Invocation, E
  <2>3. IsFiniteSet(Flying(inv)) /\ Cardinality(Flying(inv)) \in Nat /\ Cardinality(Flying(i)) \in Nat
    <3>1. Flying(i) \in SUBSET Names  BY <2>2
    <3> QED  BY <2>2, <3>1, FiniteNames
  <2>4. Cardinality(Flying(i)) <= Workers * InFlight /\ Cardinality(E) <= Workers * InFlight
    <3>1. Cardinality(Flying(i)) <= Cardinality(Flying(inv)) /\ Cardinality(E) <= Cardinality(Flying(inv))
      BY <2>2, <2>3, FS_Subset
    <3> QED  BY <1>6, <2>1, <2>3, <3>1, ShareIs DEF Roomy
  <2>5. /\ inv' \in Invocation /\ inv'.running = inv.running /\ inv'.ended = <<>> /\ inv'.abort = inv.abort
    BY <1>14, <1>17, ToppedUp
  <2>6. /\ inv'.dry = inv.dry /\ inv'.recent = recent /\ Cardinality(Flying(inv')) <= Workers * InFlight
        /\ \E more \in SUBSET i.todo : inv'.queued = i.queued \cup more /\ inv'.todo = i.todo \ more
    BY <1>14, <1>17, <2>4, ToppedUpTo
  <2>7. PICK more \in SUBSET inv.todo : inv'.queued = inv.queued \cup more /\ inv'.todo = inv.todo \ more
    BY <1>14, <2>6
  <2>8. Flying(inv') = Flying(i) \cup more  BY <1>12, <1>14, <2>5, <2>7 DEF Flying
  <2>9. Lined(inv)'
    <3>1. DOMAIN inv.running \subseteq Flying(inv) /\ DOMAIN inv'.ended = {}
      BY <1>12, <2>5 DEF Flying
    <3>2. inv'.todo \cap Flying(inv') = {}  BY <2>1, <2>2, <2>7, <2>8 DEF Lined
    <3>3. inv'.queued \cap DOMAIN inv'.running = {}  BY <2>1, <2>5, <2>7, <3>1 DEF Lined
    <3>4. inv'.dry \cap (inv'.todo \cup inv'.queued) = {}  BY <2>1, <2>6, <2>7 DEF Lined
    <3> QED  BY <3>1, <3>2, <3>3, <3>4 DEF Lined
  <2>10. Roomy(inv)'  BY <1>10, <2>1, <2>5, <2>6 DEF Roomy
  <2>11. Unbilled(inv)'  BY <1>12, <1>15, <2>1, <2>5, <2>6, <2>7 DEF Unbilled
  <2>12. Bounded(inv)'
    <3> DEFINE g == Cardinality(Gone(inv))
               b == Cardinality(Bygone(inv))
               took == inv.dry \cap E
    <3>1. CASE inv.dry = {}  BY <2>6, <3>1 DEF Bounded
    <3>2. CASE inv.dry # {}
      <4>1. Bygone(inv)' = Bygone(inv) /\ ~ Hides(inv)'
        BY <1>12, <2>5, <2>6 DEF Bygone, Hides
      <4>2. inv.dry \cap more = {}  BY <2>1, <2>7 DEF Lined
      <4>3. Gone(inv') \subseteq Gone(inv) \cup took
        BY <2>2, <2>6, <2>8 DEF Gone
      <4>4. Gone(inv) \in SUBSET Names /\ Bygone(inv) \in SUBSET Names /\ took \in SUBSET E /\ took \in SUBSET Names
            /\ Gone(inv') \in SUBSET Names
        BY <1>3, <1>5, <2>5 DEF Gone, Bygone, Invocation
      <4>5. IsFiniteSet(Gone(inv)) /\ g \in Nat /\ b \in Nat /\ IsFiniteSet(took) /\ Cardinality(took) \in Nat
            /\ Cardinality(Gone(inv')) \in Nat
        BY <4>4, FiniteNames
      <4>6. Cardinality(Gone(inv')) <= g + Cardinality(took)
        <5> DEFINE both == Gone(inv) \cup took
        <5>1. both \in SUBSET Names /\ Gone(inv) \cap took \in SUBSET Names /\ Gone(inv') \in SUBSET both
          BY <4>3, <4>4
        <5>2. IsFiniteSet(both) /\ Cardinality(both) \in Nat /\ Cardinality(Gone(inv) \cap took) \in Nat
          BY <5>1, FiniteNames
        <5>3. Cardinality(both) = g + Cardinality(took) - Cardinality(Gone(inv) \cap took)
          BY <4>5, FS_Union
        <5>4. Cardinality(Gone(inv')) <= Cardinality(both)  BY <5>1, <5>2, FS_Subset
        <5> QED  BY <4>5, <5>2, <5>3, <5>4
      <4>7. /\ Share \in Nat /\ Workers * Share \in Nat /\ b * Share \in Nat
            /\ (b + 1) * Share = b * Share + Share
            /\ Window - 1 \in Nat /\ Workers * InFlight \in Nat \ {0}
            /\ Share = (Window - 1) + (Workers * InFlight - 1)
        BY <4>5, ShareIs, Times
      <4>8. Bounded(inv)  BY <1>17, <2>1 DEF Stopping
      <4>9. CASE Hides(inv)
        <5>1. PICK c \in E : c \notin inv.dry  BY <4>9 DEF Hides, E
        <5>2. took \in SUBSET (E \ {c})  BY <5>1
        <5>3. IsFiniteSet(E \ {c}) /\ Cardinality(E \ {c}) = Cardinality(E) - 1  BY <1>6, <5>1, FS_RemoveElement
        <5>4. Cardinality(took) <= Cardinality(E) - 1  BY <5>2, <5>3, FS_Subset
        <5>5. g + 0 + (b + 1) * Share <= Workers * Share  BY <3>2, <4>8, <4>9 DEF Bounded, Within
        <5>6. Cardinality(Gone(inv')) + (Window - 1 - 0) + b * Share <= Workers * Share
          BY <1>6, <2>4, <4>5, <4>6, <4>7, <5>4, <5>5
        <5>7. Silent(recent, 0)
          <6>1. Len(recent) \in Nat  BY <1>4
          <6> QED  BY <6>1 DEF Silent
        <5>8. 0 \in 0..(Window - 1)  BY <4>7
        <5>9. Silent(inv'.recent, 0) /\ Within(inv', Window - 1 - 0, Cardinality(Bygone(inv')))
          BY <2>6, <4>1, <5>6, <5>7 DEF Within
        <5> QED  BY <4>1, <5>8, <5>9 DEF Bounded
      <4>10. CASE ~ Hides(inv)
        <5>1. PICK z \in 0..(Window - 1) :
                 Silent(inv.recent, z) /\ Within(inv, Window - 1 - z, b)
          BY <3>2, <4>8, <4>10 DEF Bounded
        <5>2. \A c \in E : c \in inv.dry /\ inv.ended[c].tokens = 0
          BY <2>1, <4>10 DEF Hides, Unbilled, E
        <5>3. \A k \in 1..Len(tokens) : tokens[k] = 0  BY <1>7, <1>8, <1>9, <5>2
        <5> DEFINE y == z + Cardinality(E)
        <5>4. y <= Window - 1 /\ Silent(recent, y)
          <6>1. z \in Nat  OBVIOUS
          <6> QED  BY <1>3, <1>5, <1>9, <1>17, <1>r, <5>1, <5>3, <6>1, QuietBatch
        <5>5. y \in 0..(Window - 1)  BY <1>6, <4>7, <5>4
        <5>6. Cardinality(took) <= Cardinality(E)  BY <1>6, <4>4, FS_Subset
        <5>7. Cardinality(Gone(inv')) + (Window - 1 - y) + b * Share <= Workers * Share
          BY <1>6, <4>5, <4>6, <4>7, <5>1, <5>6 DEF Within
        <5>8. Silent(inv'.recent, y) /\ Within(inv', Window - 1 - y, Cardinality(Bygone(inv')))
          BY <2>6, <4>1, <5>4, <5>7 DEF Within
        <5> QED  BY <4>1, <5>5, <5>8 DEF Bounded
      <4> QED  BY <4>9, <4>10
    <3> QED  BY <3>1, <3>2
  <2>13. Stopping(inv)'  BY <1>15, <1>17, <2>1, <2>5, <2>6, <2>12 DEF Stopping
  <2> QED  BY <1>15, <2>1, <2>9, <2>10, <2>11, <2>13 DEF FirstRun
<1> QED  BY <1>2, <1>16, <1>17

LEMMA StallBounded ==
  ASSUME BenchmarkAssumption, BenchTyped, FirstRun, Stall
  PROVE  FirstRun'
<1>1. inv \in Invocation /\ inv' = Cancel(inv) /\ usage' = usage /\ provider' = provider /\ orphans' = orphans
  BY DEF BenchTyped, Stall, results
<1>2. Len(inv.recent) <= Window  BY DEF FirstRun, Roomy
<1> QED  BY <1>1, <1>2, CancelBounded

LEMMA OutageBounded ==
  ASSUME BenchmarkAssumption, BenchTyped, FirstRun, Outage
  PROVE  FirstRun'
<1>1. /\ inv \in Invocation /\ inv' = [inv EXCEPT !.dry = {}] /\ usage' = usage /\ orphans' = orphans
  BY DEF BenchTyped, Outage, results
<1>2. /\ inv'.todo = inv.todo /\ inv'.queued = inv.queued /\ inv'.running = inv.running
      /\ inv'.ended = inv.ended /\ inv'.recent = inv.recent /\ inv'.abort = inv.abort /\ inv'.dry = {}
  BY <1>1 DEF Invocation
<1>3. Flying(inv') = Flying(inv)  BY <1>2 DEF Flying
<1>4. Lined(inv)' /\ Roomy(inv)' /\ Unbilled(inv)'
  BY <1>1, <1>2, <1>3 DEF FirstRun, Lined, Roomy, Unbilled
<1>5. Stopping(inv)'  BY <1>2, Dryless DEF FirstRun, Stopping
<1> QED  BY <1>1, <1>4, <1>5 DEF FirstRun

\* The first invocation of all: nothing was billed before it.
LEMMA StartBounded ==
  ASSUME BenchmarkAssumption, BenchTyped, Untouched, NEW limit \in BOOLEAN, StartInvocation(limit), provider
  PROVE  FirstRun'
<1> DEFINE todo == IF limit THEN First(Names \ Trustworthy(sarif, usage), 1) ELSE Names \ Trustworthy(sarif, usage)
           i == [NotRunning EXCEPT !.pc = "scanning", !.limit = limit, !.proven = Trustworthy(sarif, usage),
                                   !.todo = todo]
<1>1. inv' = TopUp(i) /\ usage' = usage /\ provider' = provider /\ orphans' = orphans
  BY DEF StartInvocation, results
<1>2. todo \in SUBSET Names  BY FirstOf
<1>3. Trustworthy(sarif, usage) \in SUBSET Names  BY DEF Trustworthy
<1>4. <<>> \in [{} -> Nat] /\ <<>> \in [{} -> Ends] /\ <<>> \in Seq(Nat) /\ DOMAIN <<>> = {} /\ Len(<<>>) = 0
  OBVIOUS
<1>5. /\ i \in Invocation /\ i.todo = todo /\ i.queued = {} /\ i.running = <<>> /\ i.ended = <<>>
      /\ i.recent = <<>> /\ i.dry = {} /\ ~ i.abort
  BY <1>2, <1>3, <1>4 DEF NotRunning, Invocation
<1> HIDE DEF i, todo
<1>6. Flying(i) = {}  BY <1>4, <1>5 DEF Flying
<1>7. Cardinality(Flying(i)) <= Workers * InFlight  BY <1>6, FS_EmptySet, ShareIs
<1>8. inv'.running = <<>> /\ inv'.ended = <<>> /\ ~ inv'.abort  BY <1>1, <1>5, ToppedUp
<1>9. /\ inv'.dry = {} /\ inv'.recent = <<>> /\ Cardinality(Flying(inv')) <= Workers * InFlight
      /\ \E more \in SUBSET i.todo : inv'.queued = i.queued \cup more /\ inv'.todo = i.todo \ more
  BY <1>1, <1>5, <1>7, ToppedUpTo
<1>10. PICK more \in SUBSET todo : inv'.queued = more /\ inv'.todo = todo \ more  BY <1>5, <1>9
<1>11. Flying(inv') = more  BY <1>4, <1>8, <1>10 DEF Flying
<1>12. Lined(inv)'  BY <1>4, <1>8, <1>9, <1>10, <1>11 DEF Lined
<1>13. Roomy(inv)'
  <2>1. Cardinality(DOMAIN inv'.running) = 0 /\ Len(inv'.recent) = 0  BY <1>4, <1>8, <1>9, FS_EmptySet
  <2>2. 0 <= Workers /\ 0 <= Window  BY DEF BenchmarkAssumption
  <2> QED  BY <1>9, <2>1, <2>2 DEF Roomy
<1>14. Unbilled(inv)'  BY <1>1, <1>2, <1>4, <1>9, <1>10 DEF Unbilled, Untouched
<1>15. Stopping(inv)'  BY <1>8, <1>9, Dryless DEF Stopping
<1> QED  BY <1>1, <1>12, <1>13, <1>14, <1>15 DEF FirstRun, Untouched

LEMMA OutageInitOk == ASSUME BenchInit PROVE OutageInv
BY DEF BenchInit, OutageInv, Untouched, NotRunning

\* An invocation that is off has nothing to scan.
LEMMA OffIsIdle ==
  ASSUME inv = NotRunning
  PROVE  ~ BeginScan /\ (\A c \in Names : ~ Attempt(c)) /\ ~ Collect /\ ~ Stall /\ ~ Finish /\ ~ KillInvocation
<1>1. inv.queued = {} /\ DOMAIN inv.running = {} /\ inv.ended = <<>> /\ inv.pc = "off"
  BY DEF NotRunning
<1>2. First({}, 1) = {}  BY FirstOf
<1> QED  BY <1>1, <1>2 DEF BeginScan, Attempt, Collect, Stall, Finish, KillInvocation

LEMMA ScanSteps ==
  ASSUME BenchmarkAssumption, BenchInv, OutageInv,
         BeginScan \/ (\E c \in Names : Attempt(c)) \/ Collect \/ Stall
  PROVE  OutageInv'
<1>1. BenchTyped /\ inv.pc \in {"off", "scanning"} /\ started \in Nat  BY DEF BenchInv, BenchTyped, Invocation
<1>2. inv.pc = "scanning" /\ started # 0  BY <1>1, OffIsIdle DEF OutageInv, Untouched
<1>3. started' = started  BY DEF BeginScan, Attempt, Collect, Stall
<1>4. inv'.pc = "scanning"
  <2>1. inv \in Invocation  BY <1>1 DEF BenchTyped
  <2>2. CASE BeginScan  BY <1>2, <2>1, <2>2 DEF BeginScan, Invocation
  <2>3. ASSUME NEW c \in Names, Attempt(c) PROVE inv'.pc = inv.pc
    <3>1. /\ [inv EXCEPT !.running[c] = @ + 1].pc = inv.pc
          /\ \A ok \in BOOLEAN : Ended(c, ok, usage'[c]) => inv'.pc = inv.pc
      BY <2>1 DEF Ended, Invocation
    <3>2. PICK review \in Reviews(c) :
            /\ Leaves(c, review)
            /\ CASE review.ok -> Ended(c, TRUE, usage'[c])
                 [] ~review.ok /\ inv.running[c] = Attempts -> Ended(c, FALSE, usage'[c])
                 [] OTHER -> inv' = [inv EXCEPT !.running[c] = @ + 1]
      BY <2>3 DEF Attempt
    <3>3. review.ok \in BOOLEAN  BY <1>1, <3>2, ReviewIs
    <3> QED  BY <3>1, <3>2, <3>3
  <2>4. CASE Collect \/ Stall
    BY <1>2, <2>1, <2>4 DEF Collect, Stall, Cancel, TopUp, Invocation
  <2> QED  BY <1>2, <2>2, <2>3, <2>4
<1>5. started = 1 => FirstRun'
  BY <1>1, <1>2, BeginBounded, AttemptBounded, CollectBounded, StallBounded DEF OutageInv
<1> QED  BY <1>2, <1>3, <1>4, <1>5 DEF OutageInv

LEMMA OutageSteps ==
  ASSUME BenchmarkAssumption, BenchInv, OutageInv, [BenchNext]_benchVars
  PROVE  OutageInv'
<1>1. BenchTyped /\ inv.pc \in {"off", "scanning"} /\ started \in Nat  BY DEF BenchInv, BenchTyped, Invocation
<1>2. CASE UNCHANGED benchVars
  BY <1>2 DEF benchVars, results, OutageInv, Untouched, FirstRun, Lined, Roomy, Unbilled, Stopping, Bounded, Within,
              Gone, Hides, Bygone, Flying
<1>3. CASE Outage
  <2>1. started' = started /\ usage' = usage /\ orphans' = orphans /\ inv' = [inv EXCEPT !.dry = {}]
    BY <1>3 DEF Outage, results
  <2>2. inv'.pc = inv.pc  BY <1>1, <2>1 DEF BenchTyped, Invocation
  <2>3. inv = NotRunning => inv' = NotRunning
    <3>1. [NotRunning EXCEPT !.dry = {}] = NotRunning  BY DEF NotRunning
    <3> QED  BY <2>1, <3>1
  <2>4. inv.pc = "scanning" /\ started = 1 => FirstRun'  BY <1>1, <1>3, OutageBounded DEF OutageInv
  <2> QED  BY <2>1, <2>2, <2>3, <2>4 DEF OutageInv, Untouched
<1>4. ASSUME NEW limit \in BOOLEAN, StartInvocation(limit) PROVE OutageInv'
  <2>1. started' = started + 1 /\ inv.pc = "off"  BY <1>4 DEF StartInvocation
  <2>2. CASE provider
    <3>1. started = 0 => FirstRun'  BY <1>1, <1>4, <2>2, StartBounded DEF OutageInv
    <3>2. inv'.pc = "scanning"  BY <1>4, <2>2 DEF StartInvocation, TopUp, NotRunning
    <3> QED  BY <1>1, <2>1, <3>1, <3>2 DEF OutageInv
  <2>3. CASE ~ provider
    <3>1. inv' = inv  BY <1>4, <2>3 DEF StartInvocation
    <3> QED  BY <1>1, <2>1, <3>1 DEF OutageInv
  <2> QED  BY <2>2, <2>3
<1>5. ASSUME NEW c \in Names, OrphanEnds(c) PROVE OutageInv'
  <2>1. inv' = inv /\ started' = started /\ c \in orphans  BY <1>5 DEF OrphanEnds
  <2> QED  BY <2>1 DEF OutageInv, Untouched, FirstRun
<1>6. CASE Finish \/ KillInvocation
  <2>1. inv.pc = "scanning" /\ inv' = NotRunning /\ started' = started  BY <1>6 DEF Finish, KillInvocation
  <2>2. NotRunning.pc = "off"  BY DEF NotRunning
  <2> QED  BY <2>1, <2>2 DEF OutageInv, Untouched
<1>7. CASE BenchNext
  BY <1>3, <1>4, <1>5, <1>6, <1>7, ScanSteps DEF BenchNext
<1> QED  BY <1>2, <1>7

\* With any number of workers, retries and cases: an invocation that is the first of its run begins no
\* more cases in an outage than one share for each worker, and those in flight (zero_token_guard).
THEOREM DeadProvider == ASSUME BenchmarkAssumption PROVE BenchSpec => []DeadProviderStops
<1>1. BenchInit => BenchInv /\ OutageInv  BY BenchInitOk, OutageInitOk
<1>2. BenchInv /\ OutageInv /\ [BenchNext]_benchVars => (BenchInv /\ OutageInv)'  BY BenchKeeps, OutageSteps
<1>3. BenchInv /\ OutageInv => DeadProviderStops
  <2> SUFFICES ASSUME BenchInv, OutageInv, started = 1
               PROVE  Cardinality(inv.dry) <= Workers * Share + Workers * InFlight
    BY DEF DeadProviderStops, Share
  <2>1. BenchTyped /\ inv.pc \in {"off", "scanning"}  BY DEF BenchInv, BenchTyped, Invocation
  <2>2. CASE inv.pc = "scanning"  BY <2>1, <2>2, DryIsBounded DEF OutageInv
  <2>3. CASE inv.pc = "off"
    <3>1. inv.dry = {}  BY <2>3 DEF OutageInv, NotRunning
    <3> QED  BY <3>1, Dryless
  <2> QED  BY <2>1, <2>2, <2>3
<1> QED  BY <1>1, <1>2, <1>3, PTL DEF BenchSpec

-----------------------------------------------------------------------------
(***************************************************************************)
(* The inductive invariant.  A plan with the creation of the VM before it  *)
(* is what is left of a provision, and the rules that are no longer before *)
(* it are there: nothing that deletes a rule is in such a plan.            *)
(***************************************************************************)
\* The steps that create no VM.
Calm == {"allow-iap", "deny-public", "allow-operator", "repo", "docker", "plugin", "venv", "group",
         "unit", "enabled", "net", "bootstrapped", "fresh", "langfuse", "litellm", "target", "kong",
         "database", "defectdojo", "running", "delete", "rules", "dedup", "type", "product",
         "engagement", "user", "grant", "token"}

\* A plan that creates no VM; the unit file is never its last step.
Harmless(s) == s \in Seq(Calm) /\ \A i \in 1..Len(s) : s[i] = "unit" => i < Len(s)

Provisioning ==
  \/ access = "iap" /\ plan = <<"allow-iap", "deny-public", "vm">>
  \/ access = "iap" /\ plan = <<"deny-public", "vm">> /\ "allow-iap" \in rules
  \/ access = "iap" /\ plan = <<"vm">> /\ {"allow-iap", "deny-public"} \subseteq rules
  \/ access = "operator-cidr" /\ plan = <<"allow-operator", "vm">>
  \/ access = "operator-cidr" /\ plan = <<"vm">> /\ "allow-operator" \in rules

PlanInv == access \in {"iap", "operator-cidr"} /\ (Provisioning \/ Harmless(plan))

Behind ==
  ("vm" \notin have /\ "vm" \in have') =>
    IF access = "iap" THEN {"allow-iap", "deny-public"} \subseteq rules ELSE "allow-operator" \in rules

LEMMA TailHarmless ==
  ASSUME NEW s, Harmless(s), s # <<>>
  PROVE  Harmless(Tail(s))
<1>1. /\ s \in Seq(Calm) /\ Len(s) \in Nat \ {0}
      /\ Tail(s) \in Seq(Calm) /\ Len(Tail(s)) = Len(s) - 1
      /\ \A i \in 1..Len(Tail(s)) : Tail(s)[i] = s[i + 1]
  BY DEF Harmless
<1> QED
  BY <1>1 DEF Harmless

LEMMA CommandsHarmless ==
  /\ Harmless(<<>>) /\ Harmless(Sync) /\ Harmless(Bootstrap) /\ Harmless(Up)
  /\ Harmless(Teardown) /\ Harmless(TeardownAll) /\ Harmless(SeedLake)
<1>1. Harmless(<<>>)
  BY DEF Harmless
<1>2. Harmless(Sync) /\ Harmless(Teardown) /\ Harmless(TeardownAll)
  BY DEF Harmless, Calm, Sync, Teardown, TeardownAll
<1>3. Harmless(Bootstrap)
  <2>1. Bootstrap \in Seq(Calm) /\ Len(Bootstrap) = 8
    BY DEF Bootstrap, Calm
  <2>2. /\ Bootstrap[1] = "docker" /\ Bootstrap[2] = "plugin" /\ Bootstrap[3] = "venv"
        /\ Bootstrap[4] = "group" /\ Bootstrap[5] = "unit" /\ Bootstrap[6] = "enabled"
        /\ Bootstrap[7] = "net" /\ Bootstrap[8] = "bootstrapped"
    BY DEF Bootstrap
  <2>3. 1..8 = {1, 2, 3, 4, 5, 6, 7, 8}
    OBVIOUS
  <2> QED
    BY <2>1, <2>2, <2>3 DEF Harmless
<1>4. Harmless(SeedLake)
  <2>1. SeedLake \in Seq(Calm) /\ Len(SeedLake) = 7
    BY DEF SeedLake, Calm
  <2>2. /\ SeedLake[1] = "dedup" /\ SeedLake[2] = "type" /\ SeedLake[3] = "product"
        /\ SeedLake[4] = "engagement" /\ SeedLake[5] = "user" /\ SeedLake[6] = "grant"
        /\ SeedLake[7] = "token"
    BY DEF SeedLake
  <2>3. 1..7 = {1, 2, 3, 4, 5, 6, 7}
    OBVIOUS
  <2> QED
    BY <2>1, <2>2, <2>3 DEF Harmless
<1>5. Harmless(Up)
  <2> DEFINE Rest == Calm \ {"unit"}
  <2>1. /\ {"fresh", "langfuse", "litellm", "target"} \subseteq Rest
        /\ {"kong", "database", "defectdojo", "running"} \subseteq Rest
    BY DEF Calm
  <2>2. Rest \subseteq Calm /\ "unit" \notin Rest
    OBVIOUS
  <2> HIDE DEF Rest
  <2>3. Services \in Seq(Rest)
    BY <2>1 DEF Services
  <2>4. <<"fresh">> \in Seq(Rest) /\ <<"running">> \in Seq(Rest)
    BY <2>1
  <2>5. Up \in Seq(Rest)
    BY <2>3, <2>4, ConcatProperties DEF Up
  <2> QED
    BY <2>2, <2>5 DEF Harmless
<1> QED
  BY <1>1, <1>2, <1>3, <1>4, <1>5

-----------------------------------------------------------------------------
LEMMA RunStep == ASSUME PlanInv, Run PROVE PlanInv'
<1>1. PICK model \in {"iap", "operator-cidr"} : access' = model /\
        \E command \in {Provision(model), Sync, Bootstrap, Up, Teardown, TeardownAll, SeedLake} :
          plan' = IF Needed(command) /\ "vm" \notin have THEN <<>> ELSE command
  BY DEF Run
<1>2. PICK command \in {Provision(model), Sync, Bootstrap, Up, Teardown, TeardownAll, SeedLake} :
        plan' = IF Needed(command) /\ "vm" \notin have THEN <<>> ELSE command
  BY <1>1
<1>3. CASE Harmless(plan')
  BY <1>1, <1>3 DEF PlanInv
<1>4. CASE plan' = Provision(model)
  BY <1>1, <1>4 DEF PlanInv, Provisioning, Provision
<1> QED
  BY <1>2, <1>3, <1>4, CommandsHarmless

\* A step that is not one of a provision leaves a harmless plan harmless.
LEMMA HarmlessStep ==
  ASSUME PlanInv, plan # <<>>, plan[1] \notin {"allow-iap", "deny-public", "allow-operator", "vm"},
         access' = access, plan' \in {<<>>, Tail(plan)}
  PROVE  PlanInv'
<1>1. Harmless(plan)
  BY DEF PlanInv, Provisioning
<1>2. Harmless(plan')
  BY <1>1, TailHarmless, CommandsHarmless
<1> QED
  BY <1>2 DEF PlanInv

LEMMA RuleStep == ASSUME PlanInv, Rule PROVE PlanInv'
<1>1. /\ plan # <<>> /\ plan' = Tail(plan) /\ rules' = rules \cup {plan[1]} /\ access' = access
  BY DEF Rule
<1>2. CASE Harmless(plan)
  BY <1>1, <1>2, TailHarmless DEF PlanInv
<1>3. CASE plan = <<"vm">>
  BY <1>3 DEF Rule
<1>4. CASE Provisioning /\ plan # <<"vm">>
  <2>1. CASE access = "iap" /\ plan = <<"allow-iap", "deny-public", "vm">>
    <3>1. plan' = <<"deny-public", "vm">> /\ plan[1] = "allow-iap"
      BY <1>1, <2>1
    <3> QED
      BY <1>1, <2>1, <3>1 DEF PlanInv, Provisioning
  <2>2. CASE access = "iap" /\ plan = <<"deny-public", "vm">> /\ "allow-iap" \in rules
    <3>1. plan' = <<"vm">> /\ plan[1] = "deny-public"
      BY <1>1, <2>2
    <3> QED
      BY <1>1, <2>2, <3>1 DEF PlanInv, Provisioning
  <2>3. CASE access = "operator-cidr" /\ plan = <<"allow-operator", "vm">>
    <3>1. plan' = <<"vm">> /\ plan[1] = "allow-operator"
      BY <1>1, <2>3
    <3> QED
      BY <1>1, <2>3, <3>1 DEF PlanInv, Provisioning
  <2> QED
    BY <1>4, <2>1, <2>2, <2>3 DEF Provisioning
<1> QED
  BY <1>2, <1>3, <1>4 DEF PlanInv

LEMMA MakeStep == ASSUME PlanInv, Make PROVE PlanInv'
<1>1. plan # <<>> /\ plan' = Tail(plan) /\ access' = access
  BY DEF Make
<1>2. CASE Harmless(plan)
  BY <1>1, <1>2, TailHarmless DEF PlanInv
<1>3. CASE Provisioning
  <2>1. plan[1] \notin {"allow-iap", "deny-public", "allow-operator"}
    BY DEF Make, Bootstrap, Range
  <2>2. plan = <<"vm">>
    BY <1>3, <2>1 DEF Provisioning
  <2>3. Tail(<<"vm">>) = <<>>
    OBVIOUS
  <2> QED
    BY <1>1, <2>2, <2>3, CommandsHarmless DEF PlanInv
<1> QED
  BY <1>2, <1>3 DEF PlanInv

LEMMA UnitStep == ASSUME PlanInv, Unit PROVE PlanInv'
<1>1. Harmless(plan) /\ plan # <<>> /\ plan[1] = "unit" /\ access' = access
  BY DEF PlanInv, Provisioning, Unit
<1>2. Harmless(Tail(plan)) /\ Tail(plan) # <<>>
  <2>1. Len(plan) > 1 /\ Len(Tail(plan)) = Len(plan) - 1
    BY <1>1 DEF Harmless
  <2> QED
    BY <1>1, <2>1, TailHarmless
<1>3. Harmless(Tail(Tail(plan)))
  BY <1>2, TailHarmless
<1> QED
  BY <1>1, <1>2, <1>3 DEF PlanInv, Unit

LEMMA DeploySteps == PlanInv /\ [DeployNext]_deployVars => PlanInv' /\ Behind
<1> SUFFICES ASSUME PlanInv, [DeployNext]_deployVars PROVE PlanInv' /\ Behind
  OBVIOUS
<1>1. CASE Run
  BY <1>1, RunStep DEF Run, Behind
<1>2. CASE Abort
  BY <1>2, CommandsHarmless DEF Abort, PlanInv, Behind
<1>3. CASE Rule
  BY <1>3, RuleStep DEF Rule, Behind
<1>4. CASE Make
  <2>1. CASE plan[1] = "vm"
    <3>1. ~ Harmless(plan)
      <4>1. plan \in Seq(Calm) => plan[1] \in Calm
        BY <1>4 DEF Make
      <4> QED
        BY <2>1, <4>1 DEF Harmless, Calm
    <3>2. plan = <<"vm">> /\ Provisioning
      BY <2>1, <3>1 DEF PlanInv, Provisioning
    <3> QED
      BY <1>4, <3>2, MakeStep DEF Provisioning, Behind
  <2>2. CASE plan[1] # "vm"
    BY <1>4, <2>2, MakeStep DEF Make, Behind
  <2> QED
    BY <2>1, <2>2
<1>5. CASE Unit
  BY <1>5, UnitStep DEF Unit, Behind
<1>6. CASE Enable
  BY <1>6, HarmlessStep DEF Enable, Behind
<1>7. CASE Fresh
  BY <1>7, HarmlessStep DEF Fresh, Behind
<1>8. CASE ComposeUp
  <2>1. plan[1] \in {"langfuse", "litellm", "target", "kong", "database", "defectdojo", "running"}
    BY <1>8 DEF ComposeUp, Services, Range
  <2> QED
    BY <1>8, <2>1, HarmlessStep DEF ComposeUp, Behind
<1>9. CASE Delete
  BY <1>9, HarmlessStep DEF Delete, Behind
<1>10. CASE DeleteRules
  BY <1>10, HarmlessStep DEF DeleteRules, Behind
<1>11. CASE Seed
  <2>1. plan[1] \in {"dedup", "type", "product", "engagement", "user", "grant", "token"}
    BY <1>11 DEF Seed, SeedLake, Range
  <2> QED
    BY <1>11, <2>1, HarmlessStep DEF Seed, Behind
<1>12. CASE UNCHANGED deployVars
  BY <1>12 DEF deployVars, PlanInv, Provisioning, Behind
<1> QED
  BY <1>1, <1>2, <1>3, <1>4, <1>5, <1>6, <1>7, <1>8, <1>9, <1>10, <1>11, <1>12 DEF DeployNext

\* Whatever was killed, failed or torn down before, and for any number of commands, a VM is
\* created only behind the rules of its access model (cmd_provision, cmd_teardown).
THEOREM VmBehindRules == DeploySpec => CreatedBehindRules
<1>1. DeployInit => PlanInv
  BY CommandsHarmless DEF DeployInit, PlanInv
<1>2. Behind => [("vm" \notin have /\ "vm" \in have') =>
         IF access = "iap" THEN {"allow-iap", "deny-public"} \subseteq rules
                           ELSE "allow-operator" \in rules]_deployVars
  BY DEF Behind
<1> QED
  BY <1>1, <1>2, DeploySteps, PTL DEF DeploySpec, CreatedBehindRules

-----------------------------------------------------------------------------
(***************************************************************************)
(* The gateway.  What was forwarded is what the guardrail makes of the     *)
(* request that is still there, the meter lags the calls by the one that   *)
(* is waited for, and each counted call gave a content or is an error.     *)
(***************************************************************************)
WordSeq  == Seq(Words)
PlainText == [words : WordSeq, mark : {"none"}]
Contents == PlainText \cup {None}
Messages == [content : Contents, arguments : Contents]
Declared == Declarations \cup {<<>>, Spans(<<"operator", "target-derived">>)}
Requests == [messages : Seq(Messages), input : Contents, spans : Declared, stream : BOOLEAN]

CallTyped ==
  /\ phase \in {"idle", "gateway", "upstream", "answered"}
  /\ request \in Requests /\ waiting \in BOOLEAN
  /\ phase = "answered" => answer.text.words \in WordSeq
  /\ meter \in [calls : Nat, errors : Nat] /\ made \in [calls : Nat, contents : Nat]
  /\ narrative \in WordSeq /\ span \in WordSeq \cup {NoSpan}

ForwardedAsGuarded ==
  phase \in {"upstream", "answered"} =>
    /\ Acceptable(request)
    /\ upstream = [messages |-> Guarded(request).messages, preamble |-> Derived(request) # {}]

MeterLags ==
  /\ waiting => phase # "idle" /\ made.calls = meter.calls + 1
  /\ ~waiting => made.calls = meter.calls
  /\ made.contents + meter.errors = meter.calls

CallInv == CallTyped /\ ForwardedAsGuarded /\ MeterLags /\ KeptIsScrubbed

-----------------------------------------------------------------------------
LEMMA ARecordIsSome == ASSUME NEW w, NEW m PROVE [words |-> w, mark |-> m] # None
<1> SUFFICES ASSUME [words |-> w, mark |-> m] = None PROVE FALSE
  OBVIOUS
<1>1. DOMAIN [words |-> w, mark |-> m] = {"words", "mark"}
  OBVIOUS
<1>2. DOMAIN None = {}
  BY DEF None
<1> QED BY <1>1, <1>2

\* Covering keeps a text a sequence, of the same words elsewhere.
LEMMA CoveredIs ==
  ASSUME NEW words \in WordSeq, NEW which
  PROVE  /\ Covered(words, which) \in WordSeq
         /\ DOMAIN Covered(words, which) = DOMAIN words
         /\ \A i \in DOMAIN words : Covered(words, which)[i] = IF i \in which THEN "placeholder" ELSE words[i]
<1>1. Len(words) \in Nat /\ DOMAIN words = 1..Len(words) /\ \A i \in DOMAIN words : words[i] \in Words
  BY DEF WordSeq
<1>p. \A i \in 1..Len(words) : (IF i \in which THEN "placeholder" ELSE words[i]) \in Words
  BY <1>1 DEF Words
<1>2. Covered(words, which) \in [1..Len(words) -> Words]
  BY <1>1, <1>p, Zenon DEF Covered
<1>3. Covered(words, which) \in WordSeq
  BY <1>1, <1>2, SeqDef DEF WordSeq
<1> QED BY <1>1, <1>3 DEF Covered

LEMMA ScrubPersonIs == ASSUME NEW words \in WordSeq PROVE ScrubPerson(words) \in WordSeq
BY CoveredIs DEF ScrubPerson

\* What is kept of a text has no word of its own that must not be, and of a credential's line nothing.
LEMMA ScrubIs ==
  ASSUME NEW words \in WordSeq
  PROVE  /\ Scrub(words) \in WordSeq
         /\ Range(Scrub(words)) \cap {"bare", "person", "payload"} = {}
         /\ \A i, j \in DOMAIN Scrub(words) :
              i < j /\ Scrub(words)[i] = "key" /\ (\A k \in i..j : Scrub(words)[k] # "newline")
                => Scrub(words)[j] = "placeholder"
<1> DEFINE a == Covered(words, Bare(words) \cup RestOfLine(words))
           b == Covered(a, {i \in DOMAIN words : words[i] = "payload"})
           c == Covered(b, {i \in DOMAIN b : b[i] \in {"person", "bare"}})
<1>1. /\ a \in WordSeq /\ DOMAIN a = DOMAIN words
      /\ \A i \in DOMAIN words : a[i] = IF i \in Bare(words) \cup RestOfLine(words) THEN "placeholder" ELSE words[i]
  BY CoveredIs
<1> HIDE DEF a
<1>2. /\ b \in WordSeq /\ DOMAIN b = DOMAIN words
      /\ \A i \in DOMAIN words : b[i] = IF words[i] = "payload" THEN "placeholder" ELSE a[i]
  BY <1>1, CoveredIs
<1> HIDE DEF b
<1>3. /\ c \in WordSeq /\ DOMAIN c = DOMAIN words
      /\ \A i \in DOMAIN words : c[i] = IF b[i] \in {"person", "bare"} THEN "placeholder" ELSE b[i]
  BY <1>2, CoveredIs
<1>4. Scrub(words) = c
  BY DEF Scrub, ScrubPerson, a, b, c
<1> HIDE DEF c
<1>5. \A i \in DOMAIN c : c[i] \notin {"bare", "person", "payload"}
  BY <1>1, <1>2, <1>3
<1>6. Range(c) \cap {"bare", "person", "payload"} = {}
  BY <1>5 DEF Range
<1>7. ASSUME NEW i \in DOMAIN c, NEW j \in DOMAIN c, i < j, c[i] = "key",
             \A k \in i..j : c[k] # "newline"
      PROVE  c[j] = "placeholder"
  <2>1. DOMAIN words = 1..Len(words) /\ Len(words) \in Nat
    BY DEF WordSeq
  <2>2. i \in Nat /\ j \in Nat /\ i..j \subseteq DOMAIN words
    BY <1>3, <2>1
  <2>3. words[i] = "key"
    BY <1>1, <1>2, <1>3, <1>7
  <2>4. ASSUME NEW k \in i..j PROVE words[k] # "newline"
    <3> SUFFICES ASSUME words[k] = "newline" PROVE FALSE
      OBVIOUS
    <3>1. k \notin Bare(words) \cup RestOfLine(words)
      BY DEF Bare, RestOfLine
    <3>2. c[k] = "newline"
      BY <2>2, <3>1, <1>1, <1>2, <1>3
    <3> QED BY <1>7, <3>2
  <2>5. i \in 1..(j - 1) /\ j \in i..j
    BY <2>1, <2>2, <1>3, <1>7
  <2>6. j \in RestOfLine(words)
    BY <2>2, <2>3, <2>4, <2>5, <1>3 DEF RestOfLine
  <2> QED BY <2>6, <1>1, <1>2, <1>3
<1> QED BY <1>3, <1>4, <1>6, <1>7

LEMMA InValue == ASSUME NEW words \in WordSeq PROVE Value(words) \subseteq DOMAIN words
BY DEF Value

\* What the guardrail makes of one text: unmarked, without its credentials, its evidence untouched.
LEMMA RedactIs ==
  ASSUME NEW text \in PlainText
  PROVE  /\ RedactText(text) \in PlainText /\ RedactText(text) # None
         /\ KeptWhole(text, RedactText(text))
<1>1. /\ text.words \in WordSeq /\ text.mark = "none"
      /\ text = [words |-> text.words, mark |-> text.mark]
  BY DEF PlainText
<1> DEFINE new == Covered(text.words, Credential(text.words))
<1>2. RedactText(text) = [words |-> new, mark |-> "none"]
  BY <1>1 DEF RedactText, Credential
<1>3. new \in WordSeq /\ \A i \in DOMAIN text.words :
        new[i] = IF i \in Credential(text.words) THEN "placeholder" ELSE text.words[i]
  BY <1>1, CoveredIs
<1> HIDE DEF new
<1>4. RedactText(text) \in PlainText /\ RedactText(text) # None
  BY <1>2, <1>3, ARecordIsSome DEF PlainText
<1>5. Credential(text.words) \subseteq DOMAIN text.words
  BY <1>1, InValue DEF Credential, Bare
<1>6. /\ \A i \in Credential(text.words) : new[i] = "placeholder"
      /\ \A i \in Evidence(text.words) : new[i] = text.words[i]
  BY <1>3, <1>5 DEF Evidence
<1>7. RedactText(text).words = new
  BY <1>2
<1> QED BY <1>4, <1>6, <1>7 DEF KeptWhole

LEMMA SpotlightIs ==
  ASSUME NEW text \in PlainText
  PROVE  /\ Spotlight(text).words = text.words /\ Spotlight(text).mark # "none"
         /\ Spotlight(text) # None
<1>1. text = [words |-> text.words, mark |-> text.mark]
  BY DEF PlainText
<1>2. Spotlight(text) =
        [words |-> text.words, mark |-> IF "newline" \in Range(text.words) THEN "delimit" ELSE "datamark"]
  BY <1>1 DEF Spotlight
<1> QED BY <1>2, ARecordIsSome

\* One message of an acceptable request, guarded.
LEMMA GuardedMessage ==
  ASSUME NEW r \in Requests, NEW i \in DOMAIN r.messages,
         i \in Derived(r) => r.messages[i].content # None
  PROVE  LET old == r.messages[i]
             new == Guarded(r).messages[i]
         IN /\ KeptWhole(old.content, new.content) /\ KeptWhole(old.arguments, new.arguments)
            /\ i \in Derived(r) <=> new.content # None /\ new.content.mark # "none"
<1> DEFINE old == r.messages[i]
           red == RedactMessage(old)
           new == Guarded(r).messages[i]
<1>1. old \in Messages
  BY ElementOfSeq, LenProperties DEF Requests
<1>2. old.content \in Contents /\ old.arguments \in Contents
  BY <1>1 DEF Messages
<1>3. red = [content |-> IF old.content = None THEN None ELSE RedactText(old.content),
             arguments |-> IF old.arguments = None THEN None ELSE RedactText(old.arguments)]
  <2>1. old = [content |-> old.content, arguments |-> old.arguments]
    BY <1>1 DEF Messages
  <2> HIDE DEF old
  <2>2. red = [old EXCEPT !.content = IF old.content = None THEN None ELSE RedactText(old.content),
                          !.arguments = IF old.arguments = None THEN None ELSE RedactText(old.arguments)]
    BY DEF RedactMessage
  <2> QED BY <2>1, <2>2
<1>4. DOMAIN r = {"messages", "input", "spans", "stream"}
  BY DEF Requests
<1>5. /\ RedactRequest(r).messages = [j \in DOMAIN r.messages |-> RedactMessage(r.messages[j])]
      /\ RedactRequest(r).spans = r.spans
      /\ DOMAIN RedactRequest(r) = {"messages", "input", "spans", "stream"}
  BY <1>4 DEF RedactRequest
<1>6. Derived(RedactRequest(r)) = Derived(r)
  BY <1>5 DEF Derived
<1>7. new = IF i \in Derived(r) THEN SpotlightMessage(red) ELSE red
  BY <1>5, <1>6 DEF Guarded, Apply
<1> HIDE DEF old, new, red
<1>8. KeptWhole(None, None)
  BY DEF KeptWhole
<1>9. KeptWhole(old.content, red.content) /\ KeptWhole(old.arguments, red.arguments)
  BY <1>2, <1>3, <1>8, RedactIs DEF Contents
<1>10. CASE i \in Derived(r)
  <2>1. old.content \in PlainText /\ old.content # None
    BY <1>2, <1>10 DEF Contents, old
  <2>2. red.content = RedactText(old.content) /\ red.content \in PlainText
    BY <1>3, <2>1, RedactIs
  <2>3. new.content = Spotlight(red.content) /\ new.arguments = red.arguments
    BY <1>3, <1>7, <1>10 DEF SpotlightMessage
  <2>4. new.content # None /\ new.content.mark # "none" /\ new.content.words = red.content.words
    BY <2>2, <2>3, SpotlightIs
  <2>5. KeptWhole(old.content, new.content)
    BY <1>9, <2>1, <2>4 DEF KeptWhole
  <2> QED BY <1>9, <1>10, <2>3, <2>4, <2>5 DEF old, new
<1>11. CASE i \notin Derived(r)
  <2>1. new = red
    BY <1>7, <1>11
  <2>2. new.content = None \/ new.content.mark = "none"
    BY <1>2, <1>3, <2>1, RedactIs DEF Contents, PlainText
  <2> QED BY <1>9, <1>11, <2>1, <2>2 DEF old, new
<1> QED BY <1>10, <1>11

\* A request of the type, as it is guarded, is forwarded as the property says.
LEMMA ForwardedIs ==
  ASSUME request \in Requests, ForwardedAsGuarded
  PROVE  ForwardedIsAccounted
<1> SUFFICES ASSUME phase \in {"upstream", "answered"} PROVE ForwardedIsAccounted
  BY DEF ForwardedIsAccounted
<1> DEFINE m == upstream.messages
<1>1. Acceptable(request) /\ m = Guarded(request).messages /\ (upstream.preamble <=> Derived(request) # {})
  <2>1. Acceptable(request) /\ upstream = [messages |-> Guarded(request).messages,
                                           preamble |-> Derived(request) # {}]
    BY DEF ForwardedAsGuarded
  <2>2. upstream.preamble = (Derived(request) # {})
    BY <2>1
  <2> QED BY <2>1, <2>2, Zenon
<1>2. Valid(request.spans, Len(request.messages)) /\ \A i \in Derived(request) : request.messages[i].content # None
  BY <1>1 DEF Acceptable
<1>3. /\ Len(request.messages) \in Nat /\ DOMAIN request.messages = 1..Len(request.messages)
  BY DEF Requests
<1>4. DOMAIN m = 1..Len(request.messages)
  <2>1. DOMAIN RedactRequest(request).messages = DOMAIN request.messages /\ "messages" \in DOMAIN RedactRequest(request)
    BY DEF RedactRequest, Requests
  <2> QED BY <1>1, <1>3, <2>1 DEF Guarded, Apply
<1>5. Len(m) = Len(request.messages)
  BY <1>3, <1>4
<1>6. {s.index : s \in {t \in Range(request.spans) : t.trust # "operator"}} = Derived(request)
  <2>1. \A t \in Range(request.spans) : t.trust \in Trust
    BY <1>2 DEF Valid, Range
  <2> QED BY <2>1 DEF Derived, Trust
<1>7. Derived(request) \subseteq DOMAIN m
  BY <1>2, <1>4 DEF Derived, Valid, Range
<1>8. \A i \in DOMAIN m :
        LET old == request.messages[i]
            new == m[i]
        IN /\ KeptWhole(old.content, new.content) /\ KeptWhole(old.arguments, new.arguments)
           /\ i \in Derived(request) <=> new.content # None /\ new.content.mark # "none"
  BY <1>1, <1>2, <1>3, <1>4, GuardedMessage
<1>9. upstream.preamble <=> \E i \in DOMAIN m : m[i].content # None /\ m[i].content.mark # "none"
  BY <1>1, <1>7, <1>8
<1> QED BY <1>5, <1>6, <1>8, <1>9 DEF ForwardedIsAccounted
-----------------------------------------------------------------------------
LEMMA CallInitOk == ASSUME GatewayInit PROVE CallInv
<1> USE DEF GatewayInit, NoRequest, NotSent, NoAnswer
<1>1. None \in WordSeq /\ DOMAIN None = {} /\ None \in Seq(Messages)
  BY DEF None, WordSeq
<1>2. request \in Requests
  BY <1>1 DEF Requests, Contents, Declared, None
<1>3. CallTyped
  BY <1>1, <1>2 DEF CallTyped
<1>4. ForwardedAsGuarded /\ MeterLags
  BY DEF ForwardedAsGuarded, MeterLags
<1>5. KeptIsScrubbed
  BY <1>1 DEF KeptIsScrubbed, Range
<1> QED BY <1>3, <1>4, <1>5 DEF CallInv

\* The composition of a request that has the types of one.
LEMMA AgentCallsStep == ASSUME GatewayAssumption, CallInv, AgentCalls PROVE CallInv'
<1>1. PICK facts \in Texts :
        request' = [messages |-> <<Message(Plain(<<"prose">>), None), Message(Plain(ScrubPerson(facts)), None)>>,
                    input |-> None, spans |-> Spans(<<"operator", "target-derived">>), stream |-> FALSE]
  BY DEF AgentCalls
<1>2. facts \in WordSeq /\ ScrubPerson(facts) \in WordSeq /\ <<"prose">> \in WordSeq
  BY ScrubPersonIs DEF GatewayAssumption, WordSeq, Words
<1>3. Message(Plain(<<"prose">>), None) \in Messages /\ Message(Plain(ScrubPerson(facts)), None) \in Messages
  BY <1>2 DEF Message, Plain, Messages, Contents, PlainText
<1>4. request' \in Requests
  BY <1>1, <1>3 DEF Requests, Declared, Contents
<1>5. None \in WordSeq
  BY DEF None, WordSeq
<1>6. CallTyped'
  BY <1>4, <1>5 DEF CallInv, CallTyped, AgentCalls
<1>7. ForwardedAsGuarded'
  BY DEF AgentCalls, ForwardedAsGuarded
<1>8. MeterLags'
  BY DEF AgentCalls, CallInv, CallTyped, MeterLags
<1>9. KeptIsScrubbed'
  BY DEF AgentCalls, CallInv, KeptIsScrubbed
<1> QED BY <1>6, <1>7, <1>8, <1>9 DEF CallInv

LEMMA OtherCallsStep == ASSUME GatewayAssumption, CallInv, OtherCalls PROVE CallInv'
<1> DEFINE Opt(t) == IF t = None THEN None ELSE Plain(t)
<1>1. PICK one \in Texts \cup {None}, two \in Texts \cup {None}, spans \in Declarations,
           stream \in BOOLEAN, chat \in BOOLEAN :
        request' = [messages |-> IF chat THEN <<Message(Opt(one), None), Message(None, Opt(two))>> ELSE <<>>,
                    input |-> IF chat THEN None ELSE Opt(one), spans |-> spans, stream |-> stream]
  BY DEF OtherCalls
<1>2. Opt(one) \in Contents /\ Opt(two) \in Contents /\ None \in Contents
  BY DEF GatewayAssumption, Contents, PlainText, Plain, WordSeq
<1> HIDE DEF Opt
<1>3. Message(Opt(one), None) \in Messages /\ Message(None, Opt(two)) \in Messages
  BY <1>2 DEF Message, Messages
<1>4. (IF chat THEN <<Message(Opt(one), None), Message(None, Opt(two))>> ELSE <<>>) \in Seq(Messages)
  BY <1>3
<1>5. request' \in Requests
  BY <1>1, <1>2, <1>4 DEF Requests, Declared
<1>6. CallTyped'
  BY <1>5 DEF CallInv, CallTyped, OtherCalls
<1>7. ForwardedAsGuarded'
  BY DEF OtherCalls, ForwardedAsGuarded
<1>8. MeterLags'
  BY DEF OtherCalls, CallInv, CallTyped, MeterLags
<1>9. KeptIsScrubbed'
  BY DEF OtherCalls, CallInv, KeptIsScrubbed
<1> QED BY <1>6, <1>7, <1>8, <1>9 DEF CallInv

LEMMA ForwardStep == ASSUME CallInv, Forward PROVE CallInv'
<1>1. CallTyped'
  BY DEF CallInv, CallTyped, Forward
<1>2. ForwardedAsGuarded'
  BY DEF Forward, ForwardedAsGuarded, Acceptable, Guarded, Derived, Apply, RedactRequest
<1>3. MeterLags'
  BY DEF Forward, CallInv, MeterLags
<1>4. KeptIsScrubbed'
  BY DEF Forward, CallInv, KeptIsScrubbed
<1> QED BY <1>1, <1>2, <1>3, <1>4 DEF CallInv

\* A call that returns is counted once, and as an error unless it gave a content.
LEMMA ReturnsIs ==
  ASSUME CallInv, NEW outcome, Returns(outcome)
  PROVE  /\ waiting' = FALSE
         /\ meter' \in [calls : Nat, errors : Nat] /\ made' \in [calls : Nat, contents : Nat]
         /\ meter'.calls = made'.calls /\ made'.contents + meter'.errors = meter'.calls
<1>1. CASE waiting /\ outcome = "content"
  BY <1>1 DEF CallInv, CallTyped, MeterLags, Returns, Counted, Metered
<1>2. CASE waiting /\ outcome # "content"
  BY <1>2 DEF CallInv, CallTyped, MeterLags, Returns, Counted, Metered
<1>3. CASE ~ waiting
  BY <1>3 DEF CallInv, CallTyped, MeterLags, Returns
<1> QED BY <1>1, <1>2, <1>3

LEMMA RefuseCallStep == ASSUME CallInv, RefuseCall PROVE CallInv'
<1>1. Returns("refused") /\ phase' = "idle" /\ UNCHANGED <<request, upstream, answer, narrative, span, kept>>
  BY DEF RefuseCall
<1>2. CallTyped'
  BY <1>1, ReturnsIs DEF CallInv, CallTyped
<1>3. ForwardedAsGuarded'
  BY <1>1 DEF ForwardedAsGuarded
<1>4. MeterLags'
  BY <1>1, ReturnsIs DEF MeterLags
<1>5. KeptIsScrubbed'
  BY <1>1 DEF CallInv, KeptIsScrubbed
<1> QED BY <1>2, <1>3, <1>4, <1>5 DEF CallInv

LEMMA AnswerStep == ASSUME GatewayAssumption, CallInv, Answer PROVE CallInv'
<1>1. PICK text \in Texts, outcome \in {"content", "malformed", "error"}, whole \in BOOLEAN :
        answer' = [text |-> IF outcome # "content" THEN Plain(None)
                            ELSE IF whole THEN Plain(text) ELSE RedactText(Plain(text)),
                   raw |-> whole, outcome |-> outcome]
  <2>1. PICK text \in Texts, outcome \in {"content", "malformed", "error"}, fails \in BOOLEAN :
          LET late == outcome = "content" /\ (fails \/ request.stream)
          IN answer' = [text |-> IF outcome # "content" THEN Plain(None)
                                 ELSE IF late THEN Plain(text) ELSE RedactText(Plain(text)),
                        raw |-> late, outcome |-> outcome]
    BY DEF Answer
  <2> QED BY <2>1
<1>2. Plain(text) \in PlainText /\ Plain(None) \in PlainText
  BY DEF GatewayAssumption, Plain, PlainText, WordSeq, None
<1>3. answer'.text \in PlainText
  BY <1>1, <1>2, RedactIs
<1>4. answer'.text.words \in WordSeq
  BY <1>3 DEF PlainText
<1>5. CallTyped'
  BY <1>4 DEF Answer, CallInv, CallTyped
<1>6. ForwardedAsGuarded'
  BY DEF Answer, CallInv, ForwardedAsGuarded, Acceptable, Guarded, Derived, Apply, RedactRequest
<1>7. MeterLags'
  BY DEF Answer, CallInv, MeterLags
<1>8. KeptIsScrubbed'
  BY DEF Answer, CallInv, KeptIsScrubbed
<1> QED BY <1>5, <1>6, <1>7, <1>8 DEF CallInv

LEMMA DeliverStep == ASSUME CallInv, Deliver PROVE CallInv'
<1>1. /\ Returns(answer.outcome) /\ phase = "answered" /\ phase' = "idle"
      /\ narrative' = IF waiting THEN answer.text.words ELSE narrative
      /\ UNCHANGED <<request, upstream, answer, span, kept>>
  BY DEF Deliver
<1>2. CallTyped'
  BY <1>1, ReturnsIs DEF CallInv, CallTyped
<1>3. ForwardedAsGuarded'
  BY <1>1 DEF ForwardedAsGuarded
<1>4. MeterLags'
  BY <1>1, ReturnsIs DEF MeterLags
<1>5. KeptIsScrubbed'
  BY <1>1 DEF CallInv, KeptIsScrubbed
<1> QED BY <1>2, <1>3, <1>4, <1>5 DEF CallInv

LEMMA TimeOutStep == ASSUME CallInv, TimeOut PROVE CallInv'
<1>1. Returns("timeout") /\ UNCHANGED <<phase, request, upstream, answer, narrative, span, kept>>
  BY DEF TimeOut
<1>2. CallTyped'
  BY <1>1, ReturnsIs DEF CallInv, CallTyped
<1>3. ForwardedAsGuarded'
  BY <1>1 DEF CallInv, ForwardedAsGuarded, Acceptable, Guarded, Derived, Apply, RedactRequest
<1>4. MeterLags'
  BY <1>1, ReturnsIs DEF MeterLags
<1>5. KeptIsScrubbed'
  BY <1>1 DEF CallInv, KeptIsScrubbed
<1> QED BY <1>2, <1>3, <1>4, <1>5 DEF CallInv

\* Nothing is kept but what Scrub leaves.
LEMMA KeepingSteps ==
  ASSUME GatewayAssumption, CallInv, Persist \/ NodeBegins \/ NodeSets \/ NodeEnds
  PROVE  CallInv'
<1>1. /\ UNCHANGED <<phase, request, upstream, answer, waiting, meter, made, narrative>>
      /\ span' \in WordSeq \cup {NoSpan}
  <2>1. \A t \in Texts : t \in WordSeq /\ Scrub(t) \in WordSeq
    BY ScrubIs DEF GatewayAssumption, WordSeq
  <2> QED BY <2>1 DEF Persist, NodeBegins, NodeSets, NodeEnds, CallInv, CallTyped
<1>2. CallTyped'
  BY <1>1 DEF CallInv, CallTyped
<1>3. ForwardedAsGuarded'
  BY <1>1 DEF CallInv, ForwardedAsGuarded, Acceptable, Guarded, Derived, Apply, RedactRequest
<1>4. MeterLags'
  BY <1>1 DEF CallInv, MeterLags
<1>5. KeptIsScrubbed'
  <2>1. kept' = kept \/ \E words \in WordSeq : kept' = Scrub(words)
    BY DEF Persist, NodeBegins, NodeSets, NodeEnds, CallInv, CallTyped
  <2>2. CASE kept' = kept
    BY <2>2 DEF CallInv, KeptIsScrubbed
  <2>3. ASSUME NEW words \in WordSeq, kept' = Scrub(words) PROVE KeptIsScrubbed'
    BY <2>3, ScrubIs DEF KeptIsScrubbed
  <2> QED BY <2>1, <2>2, <2>3
<1> QED BY <1>2, <1>3, <1>4, <1>5 DEF CallInv

LEMMA CallsInductive == ASSUME GatewayAssumption, CallInv, [GatewayNext]_callVars PROVE CallInv'
<1>1. CASE UNCHANGED callVars
  <2>1. UNCHANGED <<phase, request, upstream, answer, waiting, meter, made, narrative, span, kept>>
    BY <1>1 DEF callVars
  <2>2. CallTyped' /\ MeterLags'
    BY <2>1 DEF CallInv, CallTyped, MeterLags
  <2>3. ForwardedAsGuarded'
    BY <2>1 DEF CallInv, ForwardedAsGuarded, Acceptable, Guarded, Derived, Apply, RedactRequest
  <2>4. KeptIsScrubbed'
    BY <2>1 DEF CallInv, KeptIsScrubbed
  <2> QED BY <2>2, <2>3, <2>4 DEF CallInv
<1>2. CASE GatewayNext
  BY <1>2, AgentCallsStep, OtherCallsStep, ForwardStep, RefuseCallStep, AnswerStep, DeliverStep, TimeOutStep,
     KeepingSteps DEF GatewayNext
<1> QED BY <1>1, <1>2

LEMMA AccountsFollow == ASSUME CallInv PROVE CallsAreAccounted
<1>1. ForwardedIsAccounted
  BY ForwardedIs DEF CallInv, CallTyped
<1>2. EveryCallIsCounted
  BY DEF CallInv, CallTyped, MeterLags, EveryCallIsCounted
<1> QED BY <1>1, <1>2 DEF CallInv, CallsAreAccounted

\* Whatever clients send and models answer (recon.py, guardrails, finops.py, trace.py): no credential
\* the redaction knows goes upstream, what was declared a target's is marked, each call the agent made
\* is counted once, as an error exactly when it gave no content, and nothing that is kept shows a
\* credential's line, a payload or a person.
THEOREM CallsAccounted == ASSUME GatewayAssumption PROVE GatewaySpec => []CallsAreAccounted
<1>1. GatewayInit => CallInv
  BY CallInitOk
<1>2. CallInv /\ [GatewayNext]_callVars => CallInv'
  BY CallsInductive
<1>3. CallInv => CallsAreAccounted
  BY AccountsFollow
<1> QED BY <1>1, <1>2, <1>3, PTL DEF GatewaySpec
=============================================================================
