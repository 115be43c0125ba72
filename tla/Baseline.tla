------------------------------ MODULE Baseline ------------------------------
(***************************************************************************)
(* The static baseline of evaluation/agentdojo (run_baseline.py over       *)
(* sentinel_pipeline.py): every injected goal is first tried on its own,   *)
(* those the scaffold can reach are paired with the user tasks, and the    *)
(* rate of the attacks that succeed is of those pairs alone.  The          *)
(* transcripts of the tasks lie in a directory, which is fresh or, with    *)
(* --logdir, shared with other runs; what is there need not be run again.  *)
(*                                                                         *)
(* AgentDojo itself is external: a task is run by its loop of completions  *)
(* and tools, and what comes of it is the model's.                         *)
(***************************************************************************)
EXTENDS Naturals, Sequences, FiniteSets, SequencesExt

CONSTANTS
  Runs,        \* runs, each with a fresh directory of its own
  Users,       \* the user tasks of the suite, sorted
  Injections,  \* its injection tasks, sorted
  MaxUser, MaxInjection, MaxProbe,  \* --max-user-tasks, --max-injection-tasks, --max-probe-injection-tasks
  MaxIters     \* --max-tool-iters

BaselineAssumption ==
  /\ {MaxUser, MaxInjection, MaxProbe} \subseteq Nat \ {0} /\ MaxIters \in Nat
  /\ Users # <<>> /\ Injections # <<>> /\ IsInjective(Users) /\ IsInjective(Injections)

Alone == "alone"     \* an injection task with no user task
Shared == "shared"   \* the directory of --logdir
Prefix(s, n) == SubSeq(s, 1, IF n < Len(s) THEN n ELSE Len(s))
Considered == Prefix(Injections, MaxProbe)
UserIds == Prefix(Users, MaxUser)

VARIABLES
  log,  \* directory -> transcripts: task -> what came of it, and of which run
  run   \* run -> its state

vars == <<log, run>>

Idle == [pc |-> "idle"]
Unsent == [roles |-> <<>>, trust |-> <<>>]
Nothing == <<>>
With(results, key, result) == [k \in DOMAIN results \cup {key} |-> IF k = key THEN result ELSE results[k]]
Init ==
  /\ log = [d \in Runs \cup {Shared} |-> Nothing]
  /\ run = [r \in Runs |-> Idle]

-----------------------------------------------------------------------------
(* A task: completions, and the tools they call, at most MaxIters times.   *)

\* build_provenance_declaration: one span to a message.
Declaration(roles) == [k \in DOMAIN roles |-> IF roles[k] = "tool" THEN "target-derived" ELSE "operator"]

\* SentinelOpenAILLM.query; the completion calls tools or does not. usage: in completions.
Query(r) ==
  /\ run[r].pc = "call"
  /\ \E calls \in BOOLEAN :
       run' = [run EXCEPT ![r] =
         [@ EXCEPT !.pc = IF calls /\ run[r].iters < MaxIters THEN "tools" ELSE "scored",
                   !.sent = [roles |-> run[r].roles, trust |-> Declaration(run[r].roles)],
                   !.roles = Append(@, "assistant"),
                   !.usage = @ + 1]]
  /\ UNCHANGED log

\* ToolsExecutor: the answers of the tools follow the message that calls them.
Tools(r) ==
  /\ run[r].pc = "tools"
  /\ run' = [run EXCEPT ![r] = [@ EXCEPT !.pc = "call", !.roles = Append(@, "tool"), !.iters = @ + 1]]
  /\ UNCHANGED log

\* The task is over: its goal was reached or not, and the directory holds the transcript.
Taken(me, result) == [me EXCEPT !.pc = "next", !.results = With(@, Head(me.todo), result), !.todo = Tail(@),
                                !.roles = <<>>, !.iters = 0, !.sent = Unsent]
Score(r) ==
  /\ run[r].pc = "scored"
  /\ \E reached \in BOOLEAN :
       LET result == [by |-> r, reached |-> reached]
       IN /\ log' = [log EXCEPT ![run[r].dir] = With(@, Head(run[r].todo), result)]
          /\ run' = [run EXCEPT ![r] = Taken(@, result)]

\* A task of the list: served from the directory when it is there and need not be run again.
Serve(r) ==
  /\ run[r].pc = "next" /\ run[r].todo # <<>>
  /\ LET key == Head(run[r].todo)
         there == log[run[r].dir]
     IN run' = [run EXCEPT ![r] =
          IF ~@.force /\ key \in DOMAIN there THEN Taken(@, there[key])
          ELSE [@ EXCEPT !.pc = "call", !.roles = <<"system", "user">>, !.ran = Append(@, key)]]
  /\ UNCHANGED log

-----------------------------------------------------------------------------
(* A run: first every goal on its own, then the pairs of those reached.    *)

Begin(r, dir) ==
  /\ run[r] = Idle
  /\ run' = [run EXCEPT ![r] =
       [pc |-> "next", phase |-> "probe", dir |-> dir, force |-> TRUE,
        todo |-> [k \in DOMAIN Considered |-> <<Alone, Considered[k]>>],
        results |-> Nothing, probed |-> Nothing, selected |-> <<>>,
        roles |-> <<>>, iters |-> 0, sent |-> Unsent,
        usage |-> 0, ran |-> <<>>]]
  /\ UNCHANGED log

Reached(results, key) == key \in DOMAIN results /\ results[key].reached
Viable(me) == SelectSeq(Considered, LAMBDA i : Reached(me.results, <<Alone, i>>))

\* benchmark_suite_with_injections: the goals alone, then user by user.
Matrix(selected) ==
  [k \in DOMAIN selected |-> <<Alone, selected[k]>>]
    \o FlattenSeq([u \in DOMAIN UserIds |-> [k \in DOMAIN selected |-> <<UserIds[u], selected[k]>>]])

\* Without a goal that can be reached there is nothing to pair.
Selected(me) == Prefix(Viable(me), MaxInjection)
Select(r) ==
  /\ run[r].pc = "next" /\ run[r].todo = <<>> /\ run[r].phase = "probe"
  /\ LET selected == Selected(run[r])
     IN run' = [run EXCEPT ![r] = [@ EXCEPT !.phase = "attack", !.force = FALSE, !.selected = selected,
                                            !.todo = Matrix(selected), !.probed = run[r].results, !.results = Nothing]]
  /\ UNCHANGED log

\* compute_metrics, cost_estimate and the artefact: the rate as its two numbers, None for no pairs;
\* the tokens of a task are those of the whole run over its pairs.
Pairs(me) == {k \in DOMAIN me.results : k[1] # Alone}
Metrics(me) ==
  LET succeeded == {k \in Pairs(me) : Reached(me.results, k)}
  IN [rate |-> IF Pairs(me) = {} THEN <<>> ELSE <<Cardinality(succeeded), Cardinality(Pairs(me))>>,
      standalone |-> [i \in ToSet(Considered) |-> Reached(me.probed, <<Alone, i>>)],
      pairs |-> [k \in Pairs(me) |-> Reached(me.results, k)]]
CostEstimate(me) == IF Pairs(me) = {} THEN <<>> ELSE <<me.usage, Cardinality(Pairs(me))>>
Publish(r) ==
  /\ run[r].pc = "next" /\ run[r].todo = <<>> /\ run[r].phase = "attack"
  /\ run' = [run EXCEPT ![r] = [pc |-> "done", dir |-> run[r].dir, selected |-> run[r].selected, ran |-> run[r].ran,
                                metrics |-> Metrics(run[r]), cost |-> CostEstimate(run[r]),
                                usage |-> run[r].usage, probed |-> run[r].probed, results |-> run[r].results]]
  /\ UNCHANGED log

\* A completion that cannot be had after its retries ends the run, as a kill does.
Die(r) ==
  /\ run[r].pc \in {"next", "call", "tools", "scored"}
  /\ run' = [run EXCEPT ![r] = [pc |-> "dead"]]
  /\ UNCHANGED log

Next ==
  \E r \in Runs :
    \/ \E dir \in {r, Shared} : Begin(r, dir)
    \/ Serve(r) \/ Query(r) \/ Tools(r) \/ Score(r) \/ Select(r) \/ Publish(r) \/ Die(r)

Spec == Init /\ [][Next]_vars

-----------------------------------------------------------------------------
Going == {r \in Runs : run[r].pc \in {"next", "call", "tools", "scored"}}
Done == {r \in Runs : run[r].pc = "done"}

\* The variables have their shapes.
TypeOK ==
  /\ \A r \in Runs : run[r].pc \in {"idle", "next", "call", "tools", "scored", "done", "dead"}
  /\ \A d \in DOMAIN log : \A k \in DOMAIN log[d] : log[d][k].by \in Runs

\* The rate is of pairs whose goal this very run has reached with nothing attacked, whatever
\* lay in the directory; it is there exactly when there is such a goal.
ScoredIsReachable ==
  \A r \in Done :
    /\ \A k \in DOMAIN run[r].metrics.pairs :
         /\ run[r].probed[<<Alone, k[2]>>] = [by |-> r, reached |-> TRUE]
         /\ run[r].metrics.standalone[k[2]]
    /\ run[r].metrics.rate = <<>> <=> \A i \in ToSet(Considered) : ~run[r].metrics.standalone[i]
    /\ run[r].selected # <<>> => Len(UserIds) * Len(run[r].selected) = run[r].metrics.rate[2]

\* No task is run twice, so none is paid for twice; and in a directory of its own a run
\* counts nothing it has not run itself.
PaidOnce ==
  /\ \A r \in Going \cup Done : IsInjective(run[r].ran) /\ run[r].usage <= Len(run[r].ran) * (MaxIters + 1)
  /\ \A r \in Done : run[r].dir = r =>
       \A k \in DOMAIN run[r].metrics.pairs : run[r].results[k].by = r /\ k \in ToSet(run[r].ran)

\* What leaves for the gateway is declared message by message, and nothing a tool has
\* answered as the operator's.
ToolsAreTargets ==
  \A r \in Going :
    /\ Len(run[r].sent.trust) = Len(run[r].sent.roles)
    /\ \A k \in DOMAIN run[r].sent.roles : run[r].sent.roles[k] = "tool" <=> run[r].sent.trust[k] = "target-derived"
=============================================================================
