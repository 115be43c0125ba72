------------------------------- MODULE Corpus -------------------------------
(***************************************************************************)
(* The candidate corpus of the workbench: corpus_acquisition.py materializes *)
(* git evidence in a cache, corpus_inventory.py classifies the entries of    *)
(* the pinned benchmark against that cache without fetching anything, and    *)
(* corpus_gates.py decides from the inventory and the evidence of the gates. *)
(* Acquisitions are killed and repeated while inventories are made; the      *)
(* hosts lose commits and clones fail.                                       *)
(***************************************************************************)
EXTENDS Naturals, Sequences, FiniteSets

CONSTANTS
  Entries,      \* the CVE entries, a sequence: [cluster, pre, post, shape]
  CacheOf,      \* cluster -> the name of its cache, owner--name whatever the host
  MinClusters,  \* MINIMUM_INDEPENDENT_CLUSTERS
  Gates,        \* the gates that need evidence of their own
  Acquisitions, \* bound: how many acquisitions are made, one at a time
  Losses        \* bound: how often a host loses a commit

\* The shape of an entry is the first check of its metadata, its history or its trees
\* that it fails, or "candidate".
Shapes == {"invalid", "pre-patch-is-not-ancestor-of-post-patch", "pre-patch-truth-anchor-missing",
           "not-typescript-at-pre-and-post-patch", "not-typescript-truth-anchor", "candidate"}

CorpusAssumption ==
  /\ {MinClusters, Acquisitions, Losses} \subseteq Nat
  /\ Entries \in Seq({Entries[i] : i \in DOMAIN Entries})
  /\ \A i \in DOMAIN Entries : Entries[i].cluster \in DOMAIN CacheOf /\ Entries[i].shape \in Shapes

Clusters == DOMAIN CacheOf
Caches   == {CacheOf[r] : r \in Clusters}

VARIABLES
  hosted,   \* cluster -> the commits its host serves
  cache,    \* cache -> [dir, commits, head]
  acq,      \* the acquisition: pc, at, and what its document lists so far
  receipt,  \* the receipt file: at most one document
  inv,      \* the inventory: pc, at and the state of each entry
  ledger,   \* the last admission ledger
  count     \* acquisitions and losses so far

acquisition == <<acq, receipt>>
inventory   == <<inv, ledger>>
corpusVars == <<hosted, cache, acquisition, inventory, count>>

NoCache      == [dir |-> "absent", commits |-> {}, head |-> FALSE]
NotAcquiring == [pc |-> "off", at |-> 0, receipts |-> {}, failures |-> {}]
NoInventory  == [pc |-> "off", at |-> 1, states |-> <<>>]

CorpusInit ==
  /\ hosted = [r \in Clusters |->
       UNION {{Entries[i].pre, Entries[i].post} : i \in {i \in DOMAIN Entries : Entries[i].cluster = r}}]
  /\ cache = [c \in Caches |-> NoCache]
  /\ acq = NotAcquiring /\ receipt = {}
  /\ inv = NoInventory /\ ledger = [decision |-> "none", clusters |-> {}, gates |-> {}]
  /\ count = [acquisitions |-> 0, losses |-> 0]

-----------------------------------------------------------------------------
(* corpus_acquisition.py: the repositories in the order of their entries.   *)

\* Each repository is acquired once, at the first of its entries that is valid.
Urls ==
  {i \in DOMAIN Entries : /\ Entries[i].shape # "invalid"
                          /\ \A j \in 1..(i - 1) : Entries[j].shape # "invalid" =>
                               Entries[j].cluster # Entries[i].cluster}

\* _commits_for_repository
Required(r) ==
  UNION {{Entries[i].pre, Entries[i].post} :
           i \in {i \in DOMAIN Entries : Entries[i].cluster = r /\ Entries[i].shape # "invalid"}}

Here == Entries[acq.at].cluster   \* the repository at hand and its cache
Mine == cache[CacheOf[Here]]
InCache(c) == cache' = [cache EXCEPT ![CacheOf[Here]] = c]

\* On to the next repository, or to the receipt.
Onward(a) ==
  LET later == {i \in Urls : i > a.at} IN
  IF later = {} THEN [a EXCEPT !.pc = "write"]
  ELSE [a EXCEPT !.pc = "look", !.at = CHOOSE i \in later : \A j \in later : i <= j]
Proceed(receipts, failures) ==
  acq' = Onward([acq EXCEPT !.receipts = @ \union receipts, !.failures = @ \union failures])

\* acquire_benchmark: the checkout lands on the pinned revision, or the program ends.
Acquire ==
  /\ acq.pc = "off" /\ count.acquisitions < Acquisitions
  /\ count' = [count EXCEPT !.acquisitions = @ + 1]
  /\ \E landed \in BOOLEAN :
       acq' = IF landed THEN Onward(NotAcquiring) ELSE NotAcquiring
  /\ UNCHANGED <<hosted, cache, receipt, inventory>>

\* _is_git_dir: what a killed clone left may look like a repository, or not.
Look ==
  /\ acq.pc = "look"
  /\ \/ Mine.dir = "absent" /\ acq' = [acq EXCEPT !.pc = "clone"]
     \/ Mine.dir = "stub" /\ Proceed({}, {Here})
     \/ Mine.dir = "bare" /\ acq' = [acq EXCEPT !.pc = "update"]
  /\ UNCHANGED <<hosted, cache, receipt, inventory, count>>

\* git clone --bare: its directory, first without and then with the form of a repository.
CloneBegins ==
  /\ acq.pc = "clone"
  /\ acq' = [acq EXCEPT !.pc = "cloning"]
  /\ \E dir \in {"stub", "bare"} : InCache([NoCache EXCEPT !.dir = dir])
  /\ UNCHANGED <<hosted, receipt, inventory, count>>

CloneEnds ==
  /\ acq.pc = "cloning"
  /\ \/ /\ InCache([dir |-> "bare", commits |-> hosted[Here], head |-> TRUE])
        /\ acq' = [acq EXCEPT !.pc = "check"]
     \/ InCache(NoCache) /\ Proceed({}, {Here})    \* rmtree
  /\ UNCHANGED <<hosted, receipt, inventory, count>>

\* remote set-url or add, then a fetch whose failure is not looked at.
UpdateClone ==
  /\ acq.pc = "update"
  /\ \E got \in {{}, hosted[Here]} : InCache([Mine EXCEPT !.commits = @ \union got])
  /\ acq' = [acq EXCEPT !.pc = "check"]
  /\ UNCHANGED <<hosted, receipt, inventory, count>>

\* The commits that are there once each that was not has been fetched, or could not be.
Available(fetched) == Required(Here) \subseteq Mine.commits \union fetched

\* What a failure leaves of the cache: whatever is there.
AfterFailureGone(c) == NoCache       \* seeded fault: a repository that lacks a commit is removed
AfterFailure(c) == c

\* cat-file and fetch of each required commit, rev-parse HEAD: a clone that was killed
\* has no HEAD, and no fetch gives it one.
Check ==
  /\ acq.pc = "check"
  /\ \E fetched \in SUBSET ((Required(Here) \intersect hosted[Here]) \ Mine.commits) :
       LET c == [Mine EXCEPT !.commits = @ \union fetched] IN
       IF Available(fetched) /\ Mine.head
       THEN InCache(c) /\ Proceed({Here}, {})
       ELSE InCache(AfterFailure(c)) /\ Proceed({}, {Here})
  /\ UNCHANGED <<hosted, receipt, inventory, count>>

\* write_exclusive: linked to a name that is free, or put in the place of what is there.
Write ==
  /\ acq.pc = "write"
  /\ \E replace \in BOOLEAN :
       receipt' = IF receipt = {} \/ replace
                  THEN {[receipts |-> acq.receipts, failures |-> acq.failures]} ELSE receipt
  /\ acq' = NotAcquiring
  /\ UNCHANGED <<hosted, cache, inventory, count>>

KillAcquisition ==
  /\ acq.pc # "off" /\ acq' = NotAcquiring
  /\ UNCHANGED <<hosted, cache, receipt, inventory, count>>

\* A host forgets a commit: a rewritten branch, a repository that is gone.
Lose ==
  /\ count.losses < Losses /\ count' = [count EXCEPT !.losses = @ + 1]
  /\ \E r \in Clusters : \E k \in hosted[r] : hosted' = [hosted EXCEPT ![r] = @ \ {k}]
  /\ UNCHANGED <<cache, acquisition, inventory>>

-----------------------------------------------------------------------------
(* corpus_inventory.py and corpus_gates.py                                  *)

\* _entry
State(entry) ==
  LET c == cache[CacheOf[entry.cluster]] IN
  CASE entry.shape = "invalid" -> "metadata-invalid"
    [] entry.shape # "invalid" /\ c.dir = "absent" -> "repository-cache-miss"
    [] entry.shape # "invalid" /\ c.dir # "absent" /\ ~({entry.pre, entry.post} \subseteq c.commits) ->
         "referenced-commit-unavailable"
    [] OTHER -> entry.shape

\* inventory_openssf_benchmark, entry by entry.
Inventory ==
  /\ inv.pc \in {"off", "reading"} /\ inv.at <= Len(Entries)
  /\ inv' = [pc |-> IF inv.at = Len(Entries) THEN "done" ELSE "reading", at |-> inv.at + 1,
             states |-> Append(inv.states, State(Entries[inv.at]))]
  /\ UNCHANGED <<hosted, cache, acquisition, ledger, count>>

\* evaluate_inventory_admission
Candidates(states) == {i \in DOMAIN states : states[i] = "candidate"}
CountedEntries(states) == Candidates(states)    \* seeded fault: every candidate is a cluster
Counted(states) == {Entries[i].cluster : i \in Candidates(states)}

\* _gate_truth to _gate_calibration: which of them have their evidence.
GatesPassed(evidence) == evidence = Gates

Evaluate ==
  /\ inv.pc = "done"
  /\ \E evidence \in SUBSET Gates :
       ledger' = [decision |-> IF GatesPassed(evidence) /\ Cardinality(Counted(inv.states)) >= MinClusters
                               THEN "admitted" ELSE "not-admitted",
                  clusters |-> {Entries[i].cluster : i \in Candidates(inv.states)}, gates |-> evidence]
  /\ inv' = NoInventory
  /\ UNCHANGED <<hosted, cache, acquisition, count>>

CorpusNext ==
  \/ Acquire \/ Look \/ CloneBegins \/ CloneEnds \/ UpdateClone \/ Check \/ Write \/ KillAcquisition \/ Lose
  \/ Inventory \/ Evaluate

CorpusSpec == CorpusInit /\ [][CorpusNext]_corpusVars

-----------------------------------------------------------------------------
\* What a receipt lists and what an inventory or a ledger rests on is in the cache and
\* stays there, whatever later acquisitions, kills and the hosts do: a later step that
\* reads the source of a candidate finds it (acquire_repository, _entry).
Sourced(r) == Required(r) \subseteq cache[CacheOf[r]].commits
SourceStays ==
  /\ \A doc \in receipt : \A r \in doc.receipts : Sourced(r)
  /\ \A i \in Candidates(inv.states) : {Entries[i].pre, Entries[i].post} \subseteq cache[CacheOf[Entries[i].cluster]].commits

\* A corpus is admitted only with the evidence of every gate and with enough clusters,
\* each of them a repository of its own with a candidate whose two commits are cached.
AdmissionIsEarned ==
  ledger.decision = "admitted" =>
    /\ ledger.gates = Gates /\ Cardinality(ledger.clusters) >= MinClusters
    /\ \A r \in ledger.clusters : \E i \in DOMAIN Entries :
         /\ Entries[i].cluster = r /\ Entries[i].shape = "candidate"
         /\ {Entries[i].pre, Entries[i].post} \subseteq cache[CacheOf[r]].commits

CorpusIsSound == SourceStays /\ AdmissionIsEarned
=============================================================================
