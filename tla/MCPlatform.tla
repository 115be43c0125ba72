----------------------------- MODULE MCPlatform -----------------------------
(***************************************************************************)
(* The agents and what they lean on, for TLC: the syndicate's graph, the   *)
(* import into DefectDojo, the benchmark, the attacker of the guard, the   *)
(* model gateway, the knowledge that is ingested and retrieved, and the    *)
(* deployment.  They share no state and no process, so no step of one is   *)
(* ordered with a step of another: each is checked on its own, beside the  *)
(* others in their initial states.                                         *)
(***************************************************************************)
EXTENDS Syndicate, Lake, Benchmark, Deploy, Gateway, TLC

CONSTANTS
  Attackers, Caught, Rounds, Payloads, Trials, MaxCalls, Drawn,
  MaxChars, Ingesters, TextChanges, Ingests,
  Hits, RrfK, TopK,
  Shells, Begins, Baselines

VARIABLES
  part,                                                               \* which one moves
  rng, attack,
  texts, cache, stored, rows, ing, count,
  found, disk, reader,
  artefacts, shell, shells,
  transcripts, baseline

attackVars == <<rng, attack>>
ragVars    == <<texts, cache, stored, rows, ing, count>>
foundVars  == <<found, disk, reader>>
measureVars == <<artefacts, shell, shells>>
pairVars   == <<transcripts, baseline>>

\* Two tools, of which one's paths can be spelled in two ways.
MCOrder == <<"semgrep", "nuclei">>
MCKind == [t \in {"semgrep", "nuclei"} |-> t]

\* Three seeds; an operator that draws and one that does not.
MCSeeds == <<[id |-> "s1", form |-> 0], [id |-> "s2", form |-> 1], [id |-> "s3", form |-> 2]>>
Attack == INSTANCE Attacker WITH Runs <- Attackers, Seeds <- MCSeeds, run <- attack,
  Mutation <- [shift |-> [f \in 0..3 |-> (f + 1) % 4], leet |-> [f \in 0..3 |-> IF f = 0 THEN 3 ELSE f]],
  Draws <- [shift |-> [f \in 0..3 |-> 1], leet |-> [f \in 0..3 |-> 0]]

\* A text of each kind the redaction treats in its own way; declarations that are exact, short,
\* repeated, out of order, of an unknown trust, and too long.
MCWords == {<<"prose", "person">>, <<"key", "scheme", "secret", "payload">>,
            <<"key", "secret", "newline", "payload", "hash">>, <<"bare", "attempt">>}
MCSpan(i, t) == [index |-> i, trust |-> t]
MCDeclarations ==
  {<<>>, <<MCSpan(1, "operator")>>, <<MCSpan(1, "operator"), MCSpan(2, "operator")>>,
   <<MCSpan(1, "operator"), MCSpan(1, "target-derived")>>,
   <<MCSpan(1, "target-derived"), MCSpan(2, "operator")>>,
   <<MCSpan(2, "target-derived"), MCSpan(1, "operator")>>,
   <<MCSpan(1, "unknown"), MCSpan(2, "operator")>>,
   <<MCSpan(1, "operator"), MCSpan(2, "operator"), MCSpan(3, "operator")>>}

\* Three cases, of which one is vulnerable; five for the guard, all benign and new.
MCCases == <<"c1", "c2", "c3">>
Outlast == INSTANCE Benchmark WITH Cases <- <<"c1", "c2", "c3", "c4", "c5">>, Flawed <- {},
                                   Invocations <- 1, Outages <- 1

\* Two documents; texts with headings of two levels, a fence, and a paragraph longer than a chunk.
MCLine(k, l, t, s) == [kind |-> k, level |-> l, title |-> t, size |-> s]
MCTexts == {
  <<MCLine("para", 0, "p", 1), MCLine("heading", 1, "h", 0), MCLine("para", 0, "q", 2), MCLine("para", 0, "r", 5)>>,
  <<MCLine("heading", 2, "g", 0), MCLine("para", 0, "q", 2), MCLine("para", 0, "s", 1), MCLine("fence", 0, "f", 1),
    MCLine("heading", 1, "c", 1), MCLine("fence", 0, "e", 1)>>,
  <<MCLine("heading", 1, "h", 0)>> }
Knowledge == INSTANCE Rag WITH Order <- <<"a", "b">>, Texts <- MCTexts, Changes <- TextChanges, upstream <- texts

\* Two editions of the charter corpus, the second with one file changed and one more.
Search == INSTANCE Retrieval WITH answer <- found,
  Editions <- <<[e1 |-> "x", e2 |-> "y"], [e1 |-> "x", e2 |-> "z", e3 |-> "w"]>>

\* A text whose sentences flag it together, one an earlier version flagged, and one that would be
\* flagged but for what is taken for a secret and what is cut off; of the five files two are
\* vulnerable in the classes asked for, one of them gone, and one lies in another repository.
MCSaid(marks, secret) == [marks |-> marks, secret |-> secret]
MCText(said) == [asks |-> FALSE, said |-> said]
MCTogether == MCText(<<MCSaid({"concept"}, {}), MCSaid({"absence"}, {})>>)
MCNoChange == MCText(<<MCSaid({"concept"}, {}), MCSaid({"absence", "extra"}, {})>>)
MCBeyond == MCText(<<MCSaid({"concept", "absence"}, {"absence"}), MCSaid({"presence"}, {}), MCSaid({"inherent"}, {})>>)
MCTruth == [v1 |-> {"absence"}, v2 |-> {"absence", "trap"}, o |-> {"other"}, c1 |-> {"trap"}, d |-> {}]
MCRow(arm, text) == [arm |-> arm, response |-> text]
Measure == INSTANCE Instrument WITH Procs <- Shells, Names <- <<"a", "b">>, Truth <- MCTruth,
  Repo <- [f \in DOMAIN MCTruth |-> IF f = "d" THEN "s" ELSE "r"], Source <- DOMAIN MCTruth \ {"v2"}, Missing <- {"v2"},
  Texts <- {MCTogether, MCNoChange, MCBeyond}, MaxKept <- 2, Most <- [positive |-> 1, negative |-> 1],
  Kept <- {[f \in {"v1", "c1"} |-> IF f = "v1" THEN MCRow("positive", MCTogether) ELSE MCRow("negative", MCNoChange)],
           [f \in {"v2"} |-> MCRow("positive", MCNoChange)]},
  disk <- artefacts, proc <- shell, begun <- shells

\* Three goals, of which two are considered and one is paired, with one of two user tasks.
Pair == INSTANCE Baseline WITH Runs <- Baselines, Users <- <<"u1", "u2">>, Injections <- <<"i1", "i2", "i3">>,
  MaxUser <- 1, MaxInjection <- 1, MaxProbe <- 2, MaxIters <- 1, log <- transcripts, run <- baseline

ASSUME LakeAssumption
ASSUME Attack!AttackerAssumption
ASSUME GatewayAssumption
ASSUME BenchmarkAssumption
ASSUME Outlast!BenchmarkAssumption
ASSUME Knowledge!RagAssumption
ASSUME Search!RetrievalAssumption
ASSUME Measure!InstrumentAssumption
ASSUME Pair!BaselineAssumption

-----------------------------------------------------------------------------

\* Of a part that does not move one initial state is enough.
MCInit ==
  /\ part \in {"graph", "lake", "attack", "call", "bench", "outage", "rag", "search", "deploy", "measure", "pair"}
  /\ Init
  /\ present = [t \in Tools |-> Findings]      \* bound: what there is, is there at first
  /\ part = "lake" \/ tested = {}
  /\ LakeInit
  /\ part = "attack" \/ (rng = [n \in 1..Drawn |-> "leet"] /\ attack = [r \in Attackers |-> Attack!Begun(FALSE)])
  /\ Attack!Init
  /\ GatewayInit
  /\ part \in {"bench", "outage"} \/ provider = TRUE
  /\ IF part = "outage" THEN Outlast!BenchInit ELSE BenchInit
  /\ part = "rag" \/ texts = [d \in {"a", "b"} |-> <<MCLine("heading", 1, "h", 0)>>]
  /\ Knowledge!Init
  /\ part = "search" \/ disk = [manifest |-> 1, files |-> [e1 |-> "x", e2 |-> "y", e3 |-> Search!NoFile]]
  /\ Search!Init
  /\ DeployInit
  /\ part = "measure" \/ artefacts = [n \in {"a", "b"} |-> Measure!NoArtefact]
  /\ Measure!Init
  /\ Pair!Init

MCNext ==
  \/ part = "graph" /\ Next
     /\ UNCHANGED <<part, lakeVars, attackVars, callVars, benchVars, ragVars, foundVars, deployVars, measureVars, pairVars>>
  \/ part = "lake" /\ LakeNext
     /\ UNCHANGED <<part, vars, attackVars, callVars, benchVars, ragVars, foundVars, deployVars, measureVars, pairVars>>
  \/ part = "attack" /\ Attack!Next
     /\ UNCHANGED <<part, vars, lakeVars, callVars, benchVars, ragVars, foundVars, deployVars, measureVars, pairVars>>
  \/ part = "call" /\ GatewayNext
     /\ UNCHANGED <<part, vars, lakeVars, attackVars, benchVars, ragVars, foundVars, deployVars, measureVars, pairVars>>
  \/ ((part = "bench" /\ BenchNext) \/ (part = "outage" /\ Outlast!BenchNext))
     /\ UNCHANGED <<part, vars, lakeVars, attackVars, callVars, ragVars, foundVars, deployVars, measureVars, pairVars>>
  \/ part = "rag" /\ Knowledge!Next
     /\ UNCHANGED <<part, vars, lakeVars, attackVars, callVars, benchVars, foundVars, deployVars, measureVars, pairVars>>
  \/ part = "search" /\ Search!Next
     /\ UNCHANGED <<part, vars, lakeVars, attackVars, callVars, benchVars, ragVars, deployVars, measureVars, pairVars>>
  \/ part = "deploy" /\ DeployNext
     /\ UNCHANGED <<part, vars, lakeVars, attackVars, callVars, benchVars, ragVars, foundVars, measureVars, pairVars>>
  \/ part = "measure" /\ Measure!Next
     /\ UNCHANGED <<part, vars, lakeVars, attackVars, callVars, benchVars, ragVars, foundVars, deployVars, pairVars>>
  \/ part = "pair" /\ Pair!Next
     /\ UNCHANGED <<part, vars, lakeVars, attackVars, callVars, benchVars, ragVars, foundVars, deployVars, measureVars>>

MCVars == <<part, vars, lakeVars, attackVars, callVars, benchVars, ragVars, foundVars, deployVars,
            measureVars, pairVars>>
MCSpec == MCInit /\ [][MCNext]_MCVars

\* The processes of every part are the same two model values.
MCSymmetry == Permutations(Processes) \cup Permutations(Proposals)

-----------------------------------------------------------------------------
(* Of a part that does not move, the states are looked at where it moves.  *)

\* Attacker: runs of one seed mutate alike, whatever the model answers (mutate_round).
\* Instrument: what an artefact publishes follows from the answers kept in it, a replicate shares no
\* file with the run it excludes, and a rescoring that ends leaves no verdict its rules would not give
\* (run_generative.main, pick_files, rescore_artefacts.main).
\* Baseline: the rate is of goals this run has reached unattacked, no task is paid for twice, and what
\* a tool answered is never declared the operator's (run_baseline.main, build_provenance_declaration).
MeasuredIsReproducible ==
  /\ part = "attack" => Attack!LineageIsReproducible
  /\ part = "measure" =>
       Measure!TypeOK /\ Measure!Rederivable /\ Measure!ReplicateIsDisjoint /\ Measure!EndsReconciled
  /\ part = "pair" => Pair!TypeOK /\ Pair!ScoredIsReachable /\ Pair!PaidOnce /\ Pair!ToolsAreTargets
\* Rag, Retrieval: what is stored of a document is one text of it, what is retrieved is one edition,
\* and the fused order respects both searches (rag.ingest, retrieve_charter, rrf_fuse).
KnowledgeIsWhole ==
  /\ part = "rag" => Knowledge!StoredIsOneText
  /\ part = "search" => Search!FusionRespectsBoth /\ Search!RetrievedIsWhole
=============================================================================
