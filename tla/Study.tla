-------------------------------- MODULE Study --------------------------------
(***************************************************************************)
(* The comparison the Workbench is built for, as the functions it is made  *)
(* of: pairs of sealed snapshots and their difference (comparison_pair),   *)
(* the closure of B1 (selection), the frame of units common to all arms    *)
(* and what B3 may ask and answer about it (analysis_population, egress),  *)
(* the matching of worklists with the truth (contracts, truth_matcher),    *)
(* the paired contrast (scoring), its rendering (result_state) and what a  *)
(* catalog and a publication must satisfy (contracts).                     *)
(*                                                                         *)
(* The functions keep no state: a behaviour asks one of them one question. *)
(* What they refuse, they refuse by an exception.                          *)
(***************************************************************************)
EXTENDS Integers, Sequences, FiniteSets

LOCAL INSTANCE SequencesExt
LOCAL INSTANCE TLC

CONSTANTS
  Packets,    \* review_packets_per_arm, twelve in the frozen protocol
  Readings,   \* b3_readings, three
  MinPairs,   \* minimum_paired_repositories, twenty
  MinPower,   \* minimum_power, in tenths
  Effect,     \* minimum_effect, in hundredths
  Units,      \* unit identifiers, in their order
  Snapshots,  \* the snapshots that may be paired: [repository, files |-> [paths -> digests]]
  Graphs,     \* the graphs of B1: [Units -> [complete, neighbors]]
  Frames,     \* the unit lists of a frame: sequences of [id, source |-> a class of sealed source]
  Truths,     \* the truth manifests: [defects |-> sequence of [id, canonical, others], negatives]
  Rows,       \* the lists of paired result rows: [repository, b2, b3, mask, complete]
  Catalogs,   \* the catalogs: [corpora |-> sequence of entries, status]
  Samples,    \* the sizes of the timed sample of the value gate, twenty to thirty
  Censuses,   \* its censuses: [volume, least |-> minimum volume, most |-> maximum median, seconds]
  Studies,    \* the studies that are published: pairs of a frame's units and of rows
  Edits       \* what may be wrong with a publication: pairs of a field and its value

StudyAssumption ==
  /\ Packets \in Nat \ {0} /\ Readings \in Nat \ {0} /\ MinPairs \in Nat \ {0}
  /\ MinPower \in Nat /\ Effect \in Nat
  /\ Units \subseteq Nat /\ IsFiniteSet(Units)

VARIABLES asked, answer

vars == <<asked, answer>>

Arms    == {"B0", "B1", "B2", "B3"}
Refused == [ok |-> FALSE]
Nothing == [op |-> "nothing"]
Distinct(s) == \A i, j \in 1..Len(s) : i # j => s[i] # s[j]

Init == asked = Nothing /\ answer = Refused

-----------------------------------------------------------------------------
(* Pairs and B1's closure.                                                 *)

\* build_comparison_pair: a file is renamed if its content is that of exactly one file that is gone
\* and of exactly one that is new.
BuildPair(base, candidate) ==
  IF base.repository # candidate.repository THEN Refused ELSE
  LET b == base.files
      c == candidate.files
      deleted == DOMAIN b \ DOMAIN c
      added   == DOMAIN c \ DOMAIN b
      Moved(s, t) == /\ {p \in deleted : b[p] = b[s]} = {s}
                     /\ {p \in added : c[p] = b[s]} = {t}
      renamed == {m \in deleted \X added : Moved(m[1], m[2])}
  IN [ok |-> TRUE, renamed |-> renamed,
      added    |-> added \ {m[2] : m \in renamed},
      deleted  |-> deleted \ {m[1] : m \in renamed},
      modified |-> {p \in DOMAIN b \cap DOMAIN c : b[p] # c[p]}]

\* conservative_b1_closure: the queue takes up every selected unit once; one whose entry is
\* incomplete, or leads out of the universe, selects all.
Enough(graph, universe, u) == graph[u].complete /\ graph[u].neighbors \subseteq universe

Closure(graph, universe, changed) ==
  IF changed = {} \/ ~ changed \subseteq universe THEN Refused ELSE
  LET Grow(S) == IF \A u \in S : Enough(graph, universe, u)
                 THEN S \cup UNION {graph[u].neighbors : u \in S} ELSE universe
      after[n \in 0..Cardinality(universe)] == IF n = 0 THEN changed ELSE Grow(after[n - 1])
  IN [ok |-> TRUE, selected |-> after[Cardinality(universe)]]

-----------------------------------------------------------------------------
(* The common frame.                                                       *)

\* A unit's sealed source: "clean", "redactable", or one that is refused (outside the snapshot or the
\* file, not UTF-8, no dependency, a credential left after redaction, a context over its cap).
Admissible(unit) == unit.source \in {"clean", "redactable"}

\* The information each arm gets; validate_publication asks for B3's.
InputsOf(a) == CASE a = "B0" -> <<"candidate-snapshot">>
                 [] a = "B1" -> <<"sealed-pair-diff", "conservative-closure">>
                 [] a = "B2" -> <<"candidate-snapshot", "stable-order">>
                 [] a = "B3" -> <<"canonical-unit", "sealed-dependency-context">>

\* build_selection_manifest.
BuildFrame(units) ==
  LET ids == [i \in 1..Len(units) |-> units[i].id] IN
  IF Len(units) < Packets \/ ~ Distinct(ids) \/ \E i \in 1..Len(units) : ~ Admissible(units[i])
  THEN Refused
  ELSE LET mask == {ids[i] : i \in 1..Len(units)} IN
       [ok |-> TRUE, mask |-> mask, requests |-> Len(units) * Readings,
        arms |-> [a \in Arms |-> [mask |-> mask, inputs |-> InputsOf(a)]]]

\* select_b2_stable_order.
StableOrder(mask) ==
  IF Cardinality(mask) < Packets THEN Refused
  ELSE [ok |-> TRUE, list |-> SubSeq(SetToSortSeq(mask, <), 1, Packets)]

\* prepare_b3_request, quarantine_response.
Prepare(frame, id) == IF id \in frame.mask THEN [ok |-> TRUE, unit |-> id] ELSE Refused
Quarantine(proposals, admitted) ==
  IF Distinct(proposals) /\ admitted # {} /\ ToSet(proposals) \subseteq admitted
  THEN [ok |-> TRUE, proposals |-> proposals] ELSE Refused

-----------------------------------------------------------------------------
(* Matching with the truth.                                                *)

\* TruthManifest.from_mapping.
UnitsOf(d)  == {d.canonical} \cup d.others
TruthOk(t) ==
  LET n == Len(t.defects) IN
  /\ n > 0 /\ t.negatives # {}
  /\ Distinct([i \in 1..n |-> t.defects[i].id])
  /\ \A i \in 1..n : /\ t.defects[i].others # {} /\ t.defects[i].canonical \notin t.defects[i].others
                     /\ UnitsOf(t.defects[i]) \cap t.negatives = {}
  /\ \A i, j \in 1..n : i # j => UnitsOf(t.defects[i]) \cap UnitsOf(t.defects[j]) = {}

\* by_unit: a later defect overwrites an earlier one.
ByUnit(t, u) ==
  LET of == {i \in 1..Len(t.defects) : u \in UnitsOf(t.defects[i])} IN
  IF of = {} THEN "none" ELSE t.defects[CHOOSE i \in of : \A j \in of : j <= i].id

\* Seeded fault: a second proposal of a vulnerability claims it again.
ClaimsAgain(t, list) == {i \in 1..Len(list) : ByUnit(t, list[i]) # "none"}
\* The first proposal of a vulnerability claims it.
Claims(t, list) == {i \in 1..Len(list) :
  /\ ByUnit(t, list[i]) # "none"
  /\ \A j \in 1..(i - 1) : ByUnit(t, list[j]) # ByUnit(t, list[i])}
At(list, places) == LET s == SetToSortSeq(places, <) IN [k \in 1..Len(s) |-> list[s[k]]]

\* match_proposals.
MatchProposals(t, list) ==
  LET claims == Claims(t, list)
      known  == {i \in 1..Len(list) : ByUnit(t, list[i]) # "none"}
  IN [claimed      |-> [k \in 1..Cardinality(claims) |-> ByUnit(t, At(list, claims)[k])],
      duplicates   |-> At(list, known \ claims),
      not_measured |-> At(list, (1..Len(list)) \ known)]

\* match_worklist: what is unknown to the truth is a negative or not measured.
Scorable(list, admitted) ==
  list # <<>> /\ Len(list) <= Packets /\ ToSet(list) \subseteq admitted
MatchWorklist(t, list, admitted) ==
  IF ~ TruthOk(t) \/ ~ Scorable(list, admitted) THEN Refused ELSE
  LET claims == Claims(t, list)
      known  == {i \in 1..Len(list) : ByUnit(t, list[i]) # "none"}
      negative == {i \in (1..Len(list)) \ known : list[i] \in t.negatives}
  IN [ok |-> TRUE,
      recalled   |-> [k \in 1..Cardinality(claims) |-> ByUnit(t, At(list, claims)[k])],
      duplicates |-> At(list, known \ claims),
      negatives  |-> At(list, negative),
      unmeasured |-> At(list, (1..Len(list)) \ (known \cup negative)),
      of         |-> Len(t.defects)]

-----------------------------------------------------------------------------
(* The contrast and its rendering.                                         *)

\* paired_b3_b2_bootstrap: the rows it takes.
RowsOk(rows) ==
  /\ Len(rows) >= MinPairs
  /\ Distinct([i \in 1..Len(rows) |-> rows[i].repository])
  /\ \A i \in 1..Len(rows) : /\ rows[i].complete = Readings /\ rows[i].mask = rows[1].mask
                             /\ {rows[i].b2, rows[i].b3} \subseteq 0..100

\* The means of the resamples: every repository is drawn with replacement.  (Sums of hundredths:
\* Effect is scaled by the number of rows.)
Means(rows) == {FoldLeft(LAMBDA x, y : x + y, 0, drawn) :
                  drawn \in [1..Len(rows) -> {rows[i].b3 - rows[i].b2 : i \in 1..Len(rows)}]}

Label(lower, upper, margin) ==
  CASE lower > margin -> "win"
    [] ~ lower > margin /\ upper < -margin -> "loss"
    [] lower >= -margin /\ lower <= margin /\ upper <= margin /\ upper >= -margin -> "tie"
    [] OTHER -> "inconclusive"

\* Two order statistics of the sorted resamples.
Contrast(rows, lower, upper) ==
  IF ~ RowsOk(rows) THEN Refused
  ELSE [ok |-> TRUE, lower |-> lower, upper |-> upper, margin |-> Effect * Len(rows),
        label |-> Label(lower, upper, Effect * Len(rows))]

\* render_result_state, for a named contrast.
Render(outcome, contrast, lower, upper, margin) ==
  IF outcome # "corpus-only" \/ contrast # "B3-B2" \/ lower > upper THEN Refused
  ELSE [ok |-> TRUE,
        outcome |-> IF lower > margin THEN "win" ELSE IF upper < -margin THEN "loss"
                    ELSE IF lower >= -margin /\ upper <= margin THEN "tie" ELSE "inconclusive"]

-----------------------------------------------------------------------------
(* The catalog and the publication.                                        *)

\* validate_corpus_catalog.
CorpusOk(c) ==
  /\ c.paired > 0 /\ c.paired <= c.repositories
  /\ IF c.outcome = "corpus-only"
     THEN /\ c.typescript /\ c.repositories >= MinPairs /\ c.independent /\ c.screened
          /\ c.power = "eligible" /\ c.paired >= MinPairs
     ELSE c.power = "not-applicable-case-study-only"
  /\ c.digest = ~ (c.outcome = "case-study-only" /\ c.truth = "not-admitted")

CatalogOk(catalog) ==
  LET eligible == \E i \in 1..Len(catalog.corpora) : catalog.corpora[i].outcome = "corpus-only" IN
  /\ catalog.corpora # <<>>
  /\ Distinct([i \in 1..Len(catalog.corpora) |-> catalog.corpora[i].id])
  /\ \A i \in 1..Len(catalog.corpora) : CorpusOk(catalog.corpora[i])
  /\ IF eligible THEN catalog.status \in {"unsaid", "eligible-corpus-catalogued"}
                 ELSE catalog.status = "blocked-no-eligible-typescript-corpus"

\* validate_publication.
Publishable(d, catalog) ==
  /\ d.spec = "frozen" /\ d.contrast = "B3-B2"
  /\ CatalogOk(catalog)
  /\ \E i \in 1..Len(catalog.corpora) :
       catalog.corpora[i].id = d.corpus /\ catalog.corpora[i].outcome = "corpus-only"
  /\ d.outcome = "corpus-only" /\ catalog.status = "eligible-corpus-catalogued"
  /\ d.calibration = "of the spec" /\ ~ d.confirmatory
  /\ d.eligible >= MinPairs /\ d.power >= MinPower
  /\ DOMAIN d.arms = Arms
  /\ \A a \in Arms : d.arms[a].packets = Packets /\ d.arms[a].mask = d.mask /\ d.arms[a].inputs # <<>>
  /\ d.readings = Readings /\ d.arms["B3"].inputs = InputsOf("B3")
  /\ d.units > 0 /\ d.perReading = d.units /\ d.requests = d.units * Readings
  /\ Len(d.attempts) = d.eligible
  /\ Distinct([i \in 1..Len(d.attempts) |-> d.attempts[i].repository])
  /\ \A i \in 1..Len(d.attempts) :
       /\ d.attempts[i].terminal = "complete"
       /\ DOMAIN d.attempts[i].admissible = Arms
       /\ \A a \in Arms : d.attempts[i].admissible[a] >= Packets
  /\ d.lower <= d.upper

\* What a study that went well has to say: its frame, its contrast, its repositories.
Publication(frame, rows, contrast, catalog) ==
  [spec |-> "frozen", contrast |-> "B3-B2", corpus |-> catalog.corpora[1].id,
   outcome |-> catalog.corpora[1].outcome, calibration |-> "of the spec", confirmatory |-> FALSE,
   eligible |-> Len(rows), power |-> MinPower, mask |-> frame.mask,
   arms |-> [a \in Arms |-> [packets |-> Packets, mask |-> frame.arms[a].mask,
                             inputs |-> frame.arms[a].inputs]],
   readings |-> Readings, units |-> Cardinality(frame.mask), perReading |-> Cardinality(frame.mask),
   requests |-> frame.requests,
   attempts |-> [i \in 1..Len(rows) |->
                   [repository |-> rows[i].repository, terminal |-> "complete",
                    admissible |-> [a \in Arms |-> Cardinality(frame.mask)]]],
   lower |-> contrast.lower, upper |-> contrast.upper]

\* evaluate_cmc_value_gate, for a census of the right shape; the median is doubled.
Twice(seconds) ==
  LET n == Len(seconds)
      s == SortSeq(seconds, <)
  IN s[(n + 1) \div 2] + s[n \div 2 + 1]
ValueGate(c) ==
  CASE Len(c.seconds) \notin Samples -> "invalid"
    [] Len(c.seconds) \in Samples /\ (c.volume < c.least \/ Twice(c.seconds) > 2 * c.most) -> "failed"
    [] OTHER -> "passed"

-----------------------------------------------------------------------------
(* The questions.                                                          *)

Ask(question, reply) == asked' = question /\ answer' = reply

AskPair == \E b, c \in Snapshots :
  Ask([op |-> "pair", base |-> b, candidate |-> c], BuildPair(b, c))

AskClosure == \E g \in Graphs, changed \in SUBSET Units :
  Ask([op |-> "closure", graph |-> g, changed |-> changed], Closure(g, DOMAIN g, changed))

AskGate == \E c \in Censuses : Ask([op |-> "gate", census |-> c], [ok |-> TRUE, status |-> ValueGate(c)])

AskFrame == \E units \in Frames : Ask([op |-> "frame", units |-> units], BuildFrame(units))

AskMatch == \E t \in Truths, list \in BoundedSeq(Units, Packets + 1) :
  Ask([op |-> "match", truth |-> t, list |-> list], MatchWorklist(t, list, Units))

AskContrast == \E rows \in Rows : \E lower, upper \in Means(rows) :
  /\ lower <= upper
  /\ Ask([op |-> "contrast", rows |-> rows], Contrast(rows, lower, upper))

\* The publication of a study with the widest interval, with something wrong in it or nothing.
AskPublication == \E study \in Studies, catalog \in Catalogs :
  LET frame == BuildFrame(study[1])
      means == Means(study[2])
      contrast == Contrast(study[2], CHOOSE m \in means : \A n \in means : m <= n,
                                     CHOOSE m \in means : \A n \in means : m >= n)
      honest == Publication(frame, study[2], contrast, catalog)
  IN /\ frame.ok /\ contrast.ok
     /\ \/ Ask([op |-> "publication", catalog |-> catalog, doc |-> honest, edit |-> "none"],
               [ok |-> Publishable(honest, catalog)])
        \/ \E e \in Edits :
             LET d == [honest EXCEPT ![e[1]] = e[2]] IN
             Ask([op |-> "publication", catalog |-> catalog, doc |-> d, edit |-> e[1]],
                 [ok |-> Publishable(d, catalog)])

Next ==
  /\ asked = Nothing
  /\ AskPair \/ AskGate \/ AskClosure \/ AskFrame \/ AskMatch \/ AskContrast \/ AskPublication

Spec == Init /\ [][Next]_vars

Answered(op) == asked.op = op /\ answer.ok

-----------------------------------------------------------------------------
(* Properties.                                                             *)

TypeOK == asked.op \in {"nothing", "pair", "closure", "frame", "match", "contrast", "publication",
                       "gate"}
          /\ answer.ok \in BOOLEAN

\* A pair's difference loses nothing: with the base and the contents of what is added or modified it
\* gives the candidate back, and it names a path once (build_comparison_pair).
PairIsExact ==
  Answered("pair") =>
    LET b == asked.base.files
        c == asked.candidate.files
        from == {m[1] : m \in answer.renamed}
        to   == {m[2] : m \in answer.renamed}
        rewritten == answer.added \cup answer.modified
        source(p) == IF p \in to THEN (CHOOSE m \in answer.renamed : m[2] = p)[1] ELSE p
        paths == (DOMAIN b \ (answer.deleted \cup from)) \cup answer.added \cup to
    IN /\ [p \in paths |-> IF p \in rewritten THEN c[p] ELSE b[source(p)]] = c
       /\ Cardinality(from) = Cardinality(to)
       /\ \A x, y \in {answer.added, answer.modified, answer.deleted, from, to} :
            x = y \/ x \cap y = {}

\* B1 looks at exactly what the changed units reach, and at everything as soon as anything they reach
\* is not fully known (conservative_b1_closure).
ClosureIsConservative ==
  Answered("closure") =>
    LET g == asked.graph
        Known(u) == Enough(g, DOMAIN g, u)
        Closed(S) == asked.changed \subseteq S /\ \A u \in S : Known(u) => g[u].neighbors \subseteq S
        reached == {u \in DOMAIN g : \A S \in SUBSET DOMAIN g : Closed(S) => u \in S}
    IN answer.selected = IF \A u \in reached : Known(u) THEN reached ELSE DOMAIN g

\* The frame is one for all arms: B3 may ask about each of its units and no other, B2's list and
\* every nonempty answer that passed quarantine can be scored against the truth, and B3's requests
\* are one for each unit and reading (build_selection_manifest, prepare_b3_request,
\* quarantine_response, match_worklist).
FrameIsCommon ==
  Answered("frame") =>
    /\ \A a \in Arms : answer.arms[a].mask = answer.mask
    /\ \A u \in Units : Prepare(answer, u).ok <=> \E i \in 1..Len(asked.units) : asked.units[i].id = u
    /\ answer.requests = Cardinality(answer.mask \X (1..Readings))
    /\ StableOrder(answer.mask).ok /\ Scorable(StableOrder(answer.mask).list, answer.mask)
    /\ \A p \in BoundedSeq(Units, Packets) \ {<<>>} :
         Quarantine(p, answer.mask).ok => Scorable(p, answer.mask)

\* Every proposal of a worklist is accounted for once and every vulnerability claimed once, the recall
\* is of distinct defects, no order of the manifest's defects changes it, and the two matchers agree
\* (match_worklist, match_proposals).
MatchIsFair ==
  Answered("match") =>
    LET r == answer
        hit == {asked.truth.defects[i].id : i \in {j \in 1..Len(asked.truth.defects) :
                  UnitsOf(asked.truth.defects[j]) \cap ToSet(asked.list) # {}}}
        other == MatchProposals(asked.truth, asked.list)
        reversed == [asked.truth EXCEPT !.defects = Reverse(@)]
    IN /\ ToSet(r.recalled) = hit /\ Distinct(r.recalled)
       /\ r.of = Cardinality({asked.truth.defects[i].id : i \in 1..Len(asked.truth.defects)})
       /\ Len(r.recalled) + Len(r.duplicates) + Len(r.negatives) + Len(r.unmeasured) = Len(asked.list)
       /\ MatchWorklist(reversed, asked.list, Units) = r
       /\ other.claimed = r.recalled /\ other.duplicates = r.duplicates
       /\ ToSet(other.not_measured) = ToSet(r.negatives) \cup ToSet(r.unmeasured)

\* What is rendered of a contrast is what the scoring called it, and a win or a loss takes a repository
\* that gained or lost more than the effect (paired_b3_b2_bootstrap, render_result_state).
LabelIsRendered ==
  Answered("contrast") =>
    LET shown == Render("corpus-only", "B3-B2", answer.lower, answer.upper, answer.margin)
        delta(i) == asked.rows[i].b3 - asked.rows[i].b2
    IN /\ shown.ok /\ shown.outcome = answer.label
       /\ answer.label = "win" => \E i \in 1..Len(asked.rows) : delta(i) > Effect
       /\ answer.label = "loss" => \E i \in 1..Len(asked.rows) : delta(i) < -Effect

\* The packaging gate passes no census of which more than half the decisions took too long, and fails
\* none of enough volume of which more than half were in time (evaluate_cmc_value_gate).
GateIsTheMajority ==
  Answered("gate") /\ answer.status # "invalid" =>
    LET c == asked.census
        slow == Cardinality({i \in 1..Len(c.seconds) : c.seconds[i] > c.most})
    IN /\ answer.status = "passed" => c.volume >= c.least /\ 2 * slow <= Len(c.seconds)
       /\ answer.status = "failed" /\ c.volume >= c.least => 2 * slow >= Len(c.seconds)

\* What is published can be rendered, stands on one catalogued corpus with enough pairs, and leaves no
\* repository, arm or reading out; and a study that went well can be published if its corpus is
\* eligible and the catalog says so (validate_publication, validate_corpus_catalog).
PublishedIsWhole ==
  asked.op = "publication" =>
    LET d == asked.doc
        of == {i \in 1..Len(asked.catalog.corpora) : asked.catalog.corpora[i].id = d.corpus}
    IN /\ answer.ok =>
            /\ Render(d.outcome, d.contrast, d.lower, d.upper, Effect).ok
            /\ Cardinality(of) = 1
            /\ \A i \in of : LET c == asked.catalog.corpora[i] IN
                 c.outcome = d.outcome /\ c.paired >= MinPairs /\ c.repositories >= c.paired
            /\ Cardinality({d.attempts[i].repository : i \in 1..Len(d.attempts)}) = d.eligible
            /\ d.requests = Cardinality((1..d.units) \X (1..Readings))
            /\ \A a, b \in Arms : d.arms[a].mask = d.arms[b].mask
       /\ (asked.edit = "none" /\ CatalogOk(asked.catalog)
             /\ asked.catalog.corpora[1].outcome = "corpus-only"
             /\ asked.catalog.status = "eligible-corpus-catalogued") => answer.ok
===============================================================================
