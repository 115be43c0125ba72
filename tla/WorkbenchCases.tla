----------------------------- MODULE WorkbenchCases -----------------------------
(***************************************************************************)
(* The data that MCWorkbench lets the study, the admission of a scan and   *)
(* the ledger work on.                                                     *)
(***************************************************************************)
EXTENDS Naturals, Sequences

LOCAL INSTANCE SequencesExt

-----------------------------------------------------------------------------
(* Study: what one unit test would write down, and its neighbours.         *)

\* Every tree over three paths with two contents, in one repository, and the empty one of another.
StSnapshots ==
  {[repository |-> "a", files |-> f] : f \in UNION {[d -> {1, 2}] : d \in SUBSET {"p", "q", "r"}}}
    \cup {[repository |-> "b", files |-> <<>>]}

\* Every graph of three units, known or not; a neighbour may lie outside.
StGraphs == [1..3 -> [complete : {TRUE}, neighbors : SUBSET (1..3) \cup {{9}}]
                       \cup {[complete |-> FALSE, neighbors |-> {}]}]

\* Up to three units of a frame, repeated and out of order.
StFrames == BoundedSeq([id : {2, 1, 4}, source : {"redactable", "refused"}], 3)

\* Manifests that are in order, and ones with a defect or a negative too many.
StDefect(i, c, o) == [id |-> i, canonical |-> c, others |-> o]
StTruths ==
  [defects   : {<<>>, <<StDefect("v", 1, {})>>, <<StDefect("v", 1, {2})>>,
                <<StDefect("v", 1, {2}), StDefect("w", 3, {4})>>,
                <<StDefect("v", 1, {2}), StDefect("w", 2, {3})>>,
                <<StDefect("v", 1, {2}), StDefect("v", 3, {4})>>},
   negatives : {{}, {5}, {2, 5}}]

\* Two repositories with losses, gains and neither; masks and readings that differ.
StRow == [repository : {"a", "b"}, b2 : {0, 2}, b3 : {0, 2, 5}, mask : {"m"}, complete : {3}]
           \cup [repository : {"a", "b"}, b2 : {0}, b3 : {5}, mask : {"m", "n"}, complete : {2, 3}]
StRows == UNION {[1..n -> StRow] : n \in 1..2}

StPaired(r, b) == [repository |-> r, b2 |-> 2, b3 |-> b, mask |-> "m", complete |-> 3]
StUnit(i, s)   == [id |-> i, source |-> s]
StStudies == {<<<<StUnit(2, "clean"), StUnit(1, "redactable")>>, <<StPaired("a", x), StPaired("b", 5)>>>> :
                x \in {0, 5}}

\* A corpus, a case study, and each with one thing wrong.
StCorpus ==
  [id |-> "c", outcome |-> "corpus-only", repositories |-> 3, paired |-> 2, typescript |-> TRUE,
   independent |-> TRUE, screened |-> TRUE, power |-> "eligible", truth |-> "admitted", digest |-> TRUE]
StCase ==
  [StCorpus EXCEPT !.id = "d", !.outcome = "case-study-only", !.repositories = 1, !.paired = 1,
     !.power = "not-applicable-case-study-only", !.truth = "not-admitted", !.digest = FALSE]
StCorpora ==
  {StCorpus, [StCorpus EXCEPT !.paired = 1], [StCorpus EXCEPT !.repositories = 1],
   [StCorpus EXCEPT !.typescript = FALSE], [StCorpus EXCEPT !.screened = FALSE],
   [StCorpus EXCEPT !.digest = FALSE],
   StCase, [StCase EXCEPT !.digest = TRUE], [StCase EXCEPT !.id = "c"]}
StCatalogs ==
  [corpora : {<<x>> : x \in StCorpora} \cup (StCorpora \X StCorpora),
   status  : {"unsaid", "eligible-corpus-catalogued", "blocked-no-eligible-typescript-corpus"}]

\* What a publication may get wrong.
StArmsWith(mask, inputs) ==
  [a \in {"B0", "B1", "B2", "B3"} |->
     [packets |-> 2, mask |-> IF a = "B2" THEN mask ELSE {1, 2}, inputs |-> IF a = "B3" THEN inputs ELSE <<"x">>]]
StEdits ==
  {<<"spec", "other">>, <<"contrast", "B3-B1">>, <<"corpus", "d">>, <<"corpus", "x">>,
   <<"outcome", "case-study-only">>, <<"calibration", "other">>, <<"confirmatory", TRUE>>,
   <<"eligible", 1>>, <<"eligible", 3>>, <<"power", 0>>, <<"mask", {1}>>, <<"readings", 2>>,
   <<"arms", <<>>>>, <<"arms", StArmsWith({1}, <<"canonical-unit", "sealed-dependency-context">>)>>,
   <<"arms", StArmsWith({1, 2}, <<"x">>)>>, <<"units", 0>>, <<"units", 1>>, <<"perReading", 1>>,
   <<"requests", 3>>, <<"attempts", <<>>>>, <<"lower", 50>>, <<"upper", -50>>}

\* Samples around the limit, too few and too many.
StCensuses == [volume : {1, 3}, least : {2}, most : {4}, seconds : BoundedSeq({1, 4, 5, 9}, 4)]

-----------------------------------------------------------------------------
(* Admission: pins in the three forms, in any order of two lines; places   *)
(* within and outside the mount.                                           *)

AdPin(e, d, f) == [engine |-> e, image |-> [at |-> e, digest |-> d], form |-> f]
AdGood == <<AdPin("codeql", "1", "quoted"), AdPin("semgrep", "1", "quoted"), AdPin("trivy", "1", "quoted")>>
AdPinFiles ==
  {AdGood,
   <<AdPin("semgrep", "2", "bare"), AdPin("semgrep", "3", "indented")>> \o AdGood,
   Append(AdGood, AdPin("semgrep", "2", "bare")), Append(AdGood, AdPin("semgrep", "2", "indented")),
   Append(AdGood, AdPin("trivy", "none", "quoted")),
   [AdGood EXCEPT ![1].form = "bare"], [AdGood EXCEPT ![3].image.digest = "malformed"]}

AdSnapshots == {[digest |-> "x", whole |-> TRUE], [digest |-> "y", whole |-> FALSE]}

AdPlace(p, h) == [path |-> p, how |-> h]
AdRaw   == [rule : {"r", "none"}, line : {0, 1}, title : {"t", "none"},
            place : {AdPlace("a", "relative"), AdPlace("a", "mounted"), AdPlace("b", "absolute")}]
AdNamed == {r \in AdRaw : r.place.how # "absolute" /\ r.rule = "r"}
AdFull  == {r \in AdNamed : r.line = 1 /\ r.title = "t"}
AdPart(p, raw) == [at |-> p, raw |-> raw]
AdParts == {AdPart(p, raw) : p \in {AdPlace("a", "mounted"), AdPlace("b", "absolute")},
                             raw \in {<<>>} \cup {<<r>> : r \in AdRaw}}
AdHere(raw) == AdPart(AdPlace("a", "relative"), raw)
AdReports ==
  [complete : BOOLEAN,
   parts    : {<<>>} \cup {<<p>> : p \in AdParts} \cup {<<AdHere(<<x, y>>)>> : x, y \in AdNamed}
                \cup {<<AdHere(<<x>>), p>> : x \in AdFull, p \in AdParts}]

-----------------------------------------------------------------------------
(* Evidence: the lines of the ledger.                                      *)

EvEntries == [kind : {"metric", "incomplete"}, id : {"label", "digest"}, twelve : BOOLEAN]
=================================================================================
