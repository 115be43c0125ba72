------------------------------ MODULE Attacker ------------------------------
(***************************************************************************)
(* The adaptive attacker of evaluation/ipi-guard/adaptive-attacker.py:     *)
(* rounds of payloads, each round mutated from the payloads of the last    *)
(* one the input detector let through, with bounded trials on the live     *)
(* model in between.  Several runs with the same seed, with a gateway and  *)
(* without one, are followed side by side.                                 *)
(*                                                                         *)
(* The titles of a payload are a form: what matters is which operator      *)
(* makes which form of it, and which forms the detector catches.           *)
(***************************************************************************)
EXTENDS Naturals, Sequences, FiniteSets, SequencesExt

CONSTANTS
  Runs,      \* runs with the same seed
  Seeds,     \* the static seeds, a sequence: id and form
  Mutation,  \* operator -> (form -> form)
  Draws,     \* operator -> (form -> how often the operator itself draws)
  Caught,    \* the forms detect_injection catches
  Rounds,    \* --rounds
  Payloads,  \* --payloads-per-round
  Trials,    \* --trials-per-round
  MaxCalls,  \* MAX_LIVE_CALLS
  Drawn      \* bound: the random numbers of the seed repeat after as many

AttackerAssumption ==
  /\ {Rounds, Payloads, Trials, MaxCalls} \subseteq Nat /\ Drawn \in Nat \ {0}
  /\ DOMAIN Draws = DOMAIN Mutation

VARIABLES
  rng,  \* random.Random(seed): the operators it would choose at each draw
  run   \* run -> its state

vars == <<rng, run>>

\* used: the draws so far; targets: what is left of the live targets, tested: those of
\* the round; trial and completed: of the target at hand; calls: calls_used; made, for
\* the properties: the calls made; trace: the lineage of every round.
Begun(live) ==
  [pc |-> "round", live |-> live, round |-> 0, used |-> 0,
   current |-> [k \in DOMAIN Seeds |-> [seed |-> Seeds[k].id, form |-> Seeds[k].form, lineage |-> <<"seed">>]],
   targets |-> <<>>, tested |-> <<>>, trial |-> 0, completed |-> 0, calls |-> 0, made |-> 0,
   trace |-> <<>>]

Init ==
  /\ rng \in [1..Drawn -> DOMAIN Mutation]
  /\ \E live \in [Runs -> BOOLEAN] : run = [r \in Runs |-> Begun(live[r])]

-----------------------------------------------------------------------------
CaughtByDetector(payload) == payload.form \in Caught
Survivors(payloads) == SelectSeq(payloads, LAMBDA p : ~CaughtByDetector(p))

\* What a round is mutated from: the survivors of the last, or all of it.
\* Seeded fault: those the live model was tried on.
FrontierTested(me) == IF me.tested # <<>> THEN me.tested ELSE me.current
Frontier(me) == IF Survivors(me.current) = <<>> THEN me.current ELSE Survivors(me.current)

\* One operator applied: what it makes, and the draws of it and of its choice.
Mutated(payload, op) == [payload EXCEPT !.form = Mutation[op][@], !.lineage = Append(@, op)]
Cost(payload, op) == 1 + Draws[op][payload.form]

\* mutate_round: a form met before in the round is skipped.
MutateRound(base, used) ==
  FoldLeft(LAMBDA acc, p :
             LET op == rng[(acc.used % Drawn) + 1]
                 new == Mutated(p, op)
             IN [used |-> acc.used + Cost(p, op),
                 round |-> IF \E k \in DOMAIN acc.round : acc.round[k].form = new.form
                           THEN acc.round ELSE Append(acc.round, new)],
           [used |-> used, round |-> <<>>], base)

\* _bounded_live_targets.
Bounded(survivors, calls) ==
  LET budget == (MaxCalls - calls) \div (IF Trials = 0 THEN 1 ELSE Trials * 2)
      n == CHOOSE n \in {Len(survivors), Payloads, budget} :
             \A m \in {Len(survivors), Payloads, budget} : n <= m
  IN SubSeq(survivors, 1, n)

\* A round up to its live trials, of which there are none without a gateway.
Lineage(payloads) == [k \in DOMAIN payloads |-> [seed |-> payloads[k].seed, lineage |-> payloads[k].lineage]]
Round(r) ==
  LET me == run[r]
      made == IF me.round = 0 THEN [used |-> 0, round |-> me.current]
                              ELSE MutateRound(Frontier(me), me.used)
      targets == IF me.live THEN Bounded(Survivors(made.round), me.calls) ELSE <<>>
  IN /\ me.pc = "round" /\ me.round < Rounds
     /\ run' = [run EXCEPT ![r] =
                  [me EXCEPT !.pc = "live", !.used = made.used, !.current = made.round,
                             !.targets = targets, !.tested = targets,
                             !.trace = Append(@, [fallback |-> me.round > 0 /\ Survivors(me.current) = <<>>,
                                                  payloads |-> Lineage(made.round)])]]
     /\ UNCHANGED rng

\* live_test_payload: the raw call, then the guarded one.  An exception of either ends the
\* trial, which is then not counted.
Trial(r) ==
  LET me == run[r] IN
  /\ me.pc = "live" /\ me.targets # <<>> /\ me.trial < Trials
  /\ \E made \in {1, 2}, ok \in BOOLEAN :
       /\ ok => made = 2
       /\ run' = [run EXCEPT ![r].trial = @ + 1, ![r].made = @ + made,
                             ![r].completed = IF ok THEN @ + 1 ELSE @]
  /\ UNCHANGED rng

TrialsEnd(r) ==
  LET me == run[r] IN
  /\ me.pc = "live" /\ me.targets # <<>> /\ me.trial = Trials
  /\ run' = [run EXCEPT ![r].targets = Tail(@), ![r].trial = 0, ![r].completed = 0,
                        ![r].calls = @ + me.completed * 2]
  /\ UNCHANGED rng

RoundEnds(r) ==
  /\ run[r].pc = "live" /\ run[r].targets = <<>>
  /\ run' = [run EXCEPT ![r].pc = "round", ![r].round = @ + 1]
  /\ UNCHANGED rng

Next == \E r \in Runs : Round(r) \/ Trial(r) \/ TrialsEnd(r) \/ RoundEnds(r)

Spec == Init /\ [][Next]_vars

-----------------------------------------------------------------------------
\* "Same SEED -> same round-by-round payload lineage": whatever the live model answers,
\* and with no gateway at all, two runs mutate alike.
LineageIsReproducible ==
  \A r, s \in Runs : IsPrefix(run[r].trace, run[s].trace) \/ IsPrefix(run[s].trace, run[r].trace)
=============================================================================
