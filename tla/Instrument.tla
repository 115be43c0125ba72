----------------------------- MODULE Instrument -----------------------------
(***************************************************************************)
(* The file-level instrument of evaluation/sast-fp-discrimination: what a  *)
(* model says of a file is classified by rules (run_generative.py), the    *)
(* verdicts are counted and published in an artefact, and when the rules   *)
(* are mended the artefacts are read again (rescore_artefacts.py).  Runs   *)
(* and rescorings are processes of an operator's shell: they write one     *)
(* directory in place and may be killed at any point.                      *)
(*                                                                         *)
(* A text is what its sentences hold of the vocabularies; some of it may   *)
(* be taken for a secret, and is then gone from the text that is kept.     *)
(***************************************************************************)
EXTENDS Naturals, Sequences, FiniteSets, Functions, FiniteSetsExt

CONSTANTS
  Procs,    \* processes
  Names,    \* artefacts, in the order of their names
  Truth,    \* file -> the marks of its ground truth, of {"absence", "other", "trap"}
  Repo,     \* file -> its repository
  Source,   \* the files that are Python source of some size
  Missing,  \* the files the corpus does not hold
  Texts,    \* what a model may say
  Kept,     \* the rows (arm, response) of the artefacts of an earlier version
  MaxKept,  \* the sentences of a text that are kept (raw[:4000])
  Most,     \* arm -> E16_POS, E16_NEG
  Begins    \* bound: the processes begun

NoArtefact == [by |-> "none"]
Torn == [by |-> "torn"]
NoName == ""
FileMissing == [asks |-> FALSE, said |-> <<[marks |-> {"missing"}, secret |-> {}]>>]   \* "\x00FILE-MISSING"
NoAnswer == [asks |-> FALSE, said |-> <<>>]

Arms == {"positive", "negative"}
InstrumentAssumption ==
  /\ DOMAIN Repo = DOMAIN Truth /\ Source \subseteq DOMAIN Truth /\ Missing \subseteq DOMAIN Truth
  /\ MaxKept \in Nat \ {0} /\ Most \in [Arms -> Nat]
  /\ \A t \in Texts : t = NoAnswer \/ \A k \in DOMAIN t.said : t.said[k].secret \subseteq t.said[k].marks

VARIABLES
  disk,   \* artefact -> NoArtefact, Torn (what no reader can parse) or the report in it
  proc,   \* process -> what it does
  begun

vars == <<disk, proc, begun>>

-----------------------------------------------------------------------------
(* What is said of a text.                                                 *)

\* trace.redact_persisted over the first 4000 characters.
Persisted(text) ==
  IF text = FileMissing THEN text
  ELSE [text EXCEPT !.said = [k \in 1..(IF Len(@) < MaxKept THEN Len(@) ELSE MaxKept) |->
                               [marks |-> @[k].marks \ @[k].secret, secret |-> {}]]]

\* The sentences, and each two that follow each other.
Windows(said) ==
  {said[k].marks : k \in DOMAIN said}
    \cup {said[k].marks \cup said[k + 1].marks : k \in {i \in DOMAIN said : i + 1 \in DOMAIN said}}

\* Reassurance goes first; "extra" is the reassurance an earlier version did not know.
Flags(window, version) ==
  /\ version = "now" => "extra" \notin window
  /\ "present" \notin window
  /\ \/ "inherent" \in window
     \/ {"concept", "absence"} \subseteq window /\ "presence" \notin window

Classify(text, version) ==
  CASE text = FileMissing -> "file-missing"
    [] text.said = <<>> \/ text.asks -> "non-answer"
    [] OTHER -> IF \E w \in Windows(text.said) : Flags(w, version) THEN "flagged" ELSE "clean"

-----------------------------------------------------------------------------
(* What is counted.  A rate is its two numbers; of no answers there is none. *)

None == <<>>
Tally(rows, arm, verdict) == Cardinality({f \in DOMAIN rows : rows[f].arm = arm /\ rows[f].verdict = verdict})
Counts(rows) == [arm \in Arms |-> [v \in {"flagged", "clean", "non-answer", "file-missing"} |-> Tally(rows, arm, v)]]
Rate(counts, arm) ==
  LET engaged == counts[arm]["flagged"] + counts[arm]["clean"]
  IN IF engaged = 0 THEN None ELSE <<counts[arm]["flagged"], engaged>>

\* separation: the positive rate less the negative one; by, for the properties: the
\* version of the rules the verdicts are of.
Report(rows, version) ==
  LET c == Counts(rows)
      fr == Rate(c, "positive")
      nr == Rate(c, "negative")
  IN [by |-> version, superseded |-> <<>>, rows |-> rows, counts |-> c, vulnerable |-> fr, clean |-> nr,
      separation |-> IF None \in {fr, nr} THEN None ELSE <<fr, nr>>]

\* recompute: a rate that is None counts as 0 here, and an arm without rows keeps its rate.
OrZero(rate) == IF rate = None THEN <<0, 1>> ELSE rate
Recompute(doc) ==
  LET c == Counts(doc.rows)
      Has(arm) == \E f \in DOMAIN doc.rows : doc.rows[f].arm = arm
      fr == IF Has("positive") THEN Rate(c, "positive") ELSE doc.vulnerable
      nr == IF Has("negative") THEN Rate(c, "negative") ELSE doc.clean
  IN [doc EXCEPT !.counts = c, !.vulnerable = fr, !.clean = nr, !.separation = <<OrZero(fr), OrZero(nr)>>]

Idle == [pc |-> "idle"]
Reread(rows, version) == [f \in DOMAIN rows |->
  [arm |-> rows[f].arm, response |-> rows[f].response, verdict |-> Classify(rows[f].response, version)]]
Earlier == {Report(Reread(rows, "before"), "before") : rows \in Kept}
Init ==
  /\ disk \in [Range(Names) -> {NoArtefact} \cup Earlier]
  /\ proc = [p \in Procs |-> Idle] /\ begun = 0

-----------------------------------------------------------------------------
(* A run.                                                                  *)

\* canary_passes: of three readings of the planted defect one must be flagged.
Readings == 3
CanaryPasses(tally) == "flagged" \in tally

\* The files of an arm: with a vulnerability of the classes, or in the same repositories
\* source of some size without any.
Vulnerable == {f \in DOMAIN Truth : Truth[f] \cap {"absence", "other"} # {}}
Positives == {f \in DOMAIN Truth : "absence" \in Truth[f]}
Negatives == {f \in Source \ Vulnerable : \E g \in Positives : Repo[g] = Repo[f]}
Candidates == [positive |-> Positives, negative |-> Negatives]

\* _already_used: what cannot be read has used nothing.
AlreadyUsed(name) == IF name = NoName \/ disk[name] \in {NoArtefact, Torn} THEN {} ELSE DOMAIN disk[name].rows

\* pick_files: a shuffled prefix, any of its size.
Pick(arm, used) ==
  LET left == Candidates[arm] \ used
  IN kSubset(IF Cardinality(left) < Most[arm] THEN Cardinality(left) ELSE Most[arm], left)

\* A run with GENERATIVE_OUT and E16_EXCLUDE_ARTEFACT; without a positive canary it ends.
Begin(p, out, exclude) ==
  /\ proc[p].pc = "idle" /\ begun < Begins
  /\ begun' = begun + 1
  /\ \E tally \in SUBSET {Classify(text, "now") : text \in Texts \cup {NoAnswer}} :
       /\ Cardinality(tally) <= Readings /\ CanaryPasses(tally)
       /\ \E pos \in Pick("positive", AlreadyUsed(exclude)), neg \in Pick("negative", AlreadyUsed(exclude)) :
            proc' = [proc EXCEPT ![p] =
              [pc |-> "ask", out |-> out, used |-> AlreadyUsed(exclude),
               arm |-> [f \in pos \cup neg |-> IF f \in pos THEN "positive" ELSE "negative"], rows |-> <<>>]]
  /\ UNCHANGED disk

\* query and the row of it: what is classified is what is kept.
Row(arm, text) == [arm |-> arm, response |-> Persisted(text), verdict |-> Classify(Persisted(text), "now")]
Ask(p) ==
  /\ proc[p].pc = "ask"
  /\ \E f \in DOMAIN proc[p].arm \ DOMAIN proc[p].rows :
       \E text \in IF f \in Missing THEN {FileMissing} ELSE Texts \cup {NoAnswer} :
         proc' = [proc EXCEPT ![p].rows = [g \in DOMAIN @ \cup {f} |-> IF g = f THEN Row(proc[p].arm[f], text) ELSE @[g]]]
  /\ UNCHANGED <<disk, begun>>

\* open(.., "w"): until the report is in it the file is empty; two that have it open at
\* once may leave what is neither's.
Writes(p, name) == proc[p].pc = "write" /\ proc[p].out = name
Open(p, name, doc, then) ==
  /\ disk' = [disk EXCEPT ![name] = Torn]
  /\ proc' = [q \in Procs |->
       CASE q = p -> [pc |-> "write", out |-> name, doc |-> doc, then |-> then,
                      alone |-> \A o \in Procs \ {p} : ~Writes(o, name)]
         [] q # p /\ Writes(q, name) -> [proc[q] EXCEPT !.alone = FALSE]
         [] OTHER -> proc[q]]

Publish(p) ==
  /\ proc[p].pc = "ask" /\ DOMAIN proc[p].rows = DOMAIN proc[p].arm
  /\ Open(p, proc[p].out, Report(proc[p].rows, "now"), Idle)
  /\ UNCHANGED begun

\* The end of the "with": a run is over, a rescoring goes on.
Close(p) ==
  /\ proc[p].pc = "write"
  /\ \E left \in {proc[p].doc} \cup IF proc[p].alone THEN {} ELSE {Torn} :
       disk' = [disk EXCEPT ![proc[p].out] = left]
  /\ proc' = [proc EXCEPT ![p] = proc[p].then]
  /\ UNCHANGED begun

\* The shell's interrupt, an exception, the machine.
Kill(p) ==
  /\ proc[p].pc \in {"ask", "read", "ready", "write"}
  /\ proc' = [proc EXCEPT ![p] = Idle]
  /\ UNCHANGED <<disk, begun>>

-----------------------------------------------------------------------------
(* A rescoring, with --write: every artefact in turn.                      *)

Rescore(p) ==
  /\ proc[p].pc = "idle" /\ begun < Begins
  /\ begun' = begun + 1
  /\ LET listed == SelectSeq(Names, LAMBDA n : disk[n] # NoArtefact)
     IN proc' = [proc EXCEPT ![p] = [pc |-> "read", todo |-> listed, listed |-> Range(listed)]]
  /\ UNCHANGED disk

Drifted(doc) == {f \in DOMAIN doc.rows : doc.rows[f].verdict # Classify(doc.rows[f].response, "now")}

\* What was published is kept beside it.
Numbers(doc) == [counts |-> doc.counts, vulnerable |-> doc.vulnerable, clean |-> doc.clean, separation |-> doc.separation]
Reconciled(doc) ==
  Recompute([doc EXCEPT !.rows = Reread(@, "now"), !.by = "now", !.superseded = Append(@, Numbers(doc))])

\* What does not parse ends it (json.load); what has not drifted is left alone.
Read(p) ==
  /\ proc[p].pc = "read" /\ proc[p].todo # <<>>
  /\ LET name == Head(proc[p].todo)
         next == [proc[p] EXCEPT !.todo = Tail(@)]
     IN proc' = [proc EXCEPT ![p] =
          IF disk[name] = Torn THEN Idle
          ELSE IF Drifted(disk[name]) = {} THEN next
          ELSE [pc |-> "ready", out |-> name, doc |-> Reconciled(disk[name]), then |-> next]]
  /\ UNCHANGED <<disk, begun>>

Rewrite(p) ==
  /\ proc[p].pc = "ready"
  /\ Open(p, proc[p].out, proc[p].doc, proc[p].then)
  /\ UNCHANGED begun

\* It stays at its end, for the properties, until the operator begins anew.
Over(p) ==
  /\ proc[p].pc = "read" /\ proc[p].todo = <<>>
  /\ proc' = [proc EXCEPT ![p] = Idle]
  /\ UNCHANGED <<disk, begun>>

Next ==
  \E p \in Procs :
    \/ \E out \in Range(Names), exclude \in Range(Names) \cup {NoName} : Begin(p, out, exclude)
    \/ Ask(p) \/ Publish(p) \/ Close(p) \/ Kill(p)
    \/ Rescore(p) \/ Read(p) \/ Rewrite(p) \/ Over(p)

Spec == Init /\ [][Next]_vars

-----------------------------------------------------------------------------
Whole(name) == disk[name] \notin {NoArtefact, Torn}
Doing(p) == proc[p].pc \in {"ready", "write"}
Reports == {disk[n] : n \in {n \in Range(Names) : Whole(n)}} \cup {proc[p].doc : p \in {p \in Procs : Doing(p)}}

\* The variables have their shapes.
TypeOK ==
  /\ \A p \in Procs : proc[p].pc \in {"idle", "ask", "read", "ready", "write"}
  /\ \A p \in Procs : proc[p].pc = "ask" => DOMAIN proc[p].rows \subseteq DOMAIN proc[p].arm
  /\ begun \in 0..Begins

\* What an artefact says follows from the answers kept in it: every number from its
\* verdicts, and its verdicts, unless it is an earlier version's, from their own text; a
\* file the model was not shown or did not answer for is in no rate; and what a rescoring
\* corrected is still there to be seen.
Answered(doc, arm) ==
  {f \in DOMAIN doc.rows : /\ doc.rows[f].arm = arm /\ doc.rows[f].response # FileMissing
                           /\ doc.rows[f].response.said # <<>> /\ ~doc.rows[f].response.asks}
Follows(rate, doc, arm) ==
  IF Answered(doc, arm) = {} THEN rate = None
  ELSE rate = <<Tally(doc.rows, arm, "flagged"), Cardinality(Answered(doc, arm))>>
Rederivable ==
  \A doc \in Reports :
    /\ doc.by = "now" => Drifted(doc) = {}
    /\ doc.counts = Counts(doc.rows)
    /\ doc.superseded # <<>> =>
         doc.by = "now" /\ Head(doc.superseded) = Numbers(Report(Reread(doc.rows, "before"), "before"))
    /\ Follows(doc.vulnerable, doc, "positive") /\ Follows(doc.clean, doc, "negative")

\* A run asks of nothing the artefact it excludes has asked of, no file stands in both of
\* its arms' truths, and what it publishes is about the files it picked.
ReplicateIsDisjoint ==
  \A p \in Procs : proc[p].pc = "ask" =>
    /\ DOMAIN proc[p].arm \cap proc[p].used = {}
    /\ \A f \in DOMAIN proc[p].arm : proc[p].arm[f] = "negative" <=> Truth[f] \cap {"absence", "other"} = {}

\* When a rescoring has come to its end, no artefact it listed holds a verdict its rules
\* would not give: what was torn ended it, and who writes meanwhile writes by the same rules.
EndsReconciled ==
  \A p \in Procs : (proc[p].pc = "read" /\ proc[p].todo = <<>>) =>
    \A n \in proc[p].listed : Whole(n) => Drifted(disk[n]) = {}
=============================================================================
