----------------------------- MODULE Benchmark -----------------------------
(***************************************************************************)
(* The full benchmark of benchmark/run/run-full-benchmark.py: invocations  *)
(* of one run, one after the other, each scanning the test cases the run   *)
(* directory does not vouch for yet.                                       *)
(*                                                                         *)
(* Metis swallows the errors of a provider: it then exits with 0 and       *)
(* writes a valid SARIF without findings, as for a benign case.  Tokens    *)
(* are counted in calls that reached the provider.  An invocation may be   *)
(* killed; a Metis process it started then goes on alone.                  *)
(***************************************************************************)
EXTENDS Naturals, Sequences, FiniteSets, SequencesExt

CONSTANTS
  Cases,       \* the test cases, a sequence: the order of expectedresults
  Flawed,      \* the cases a real scan reports findings for
  Workers,     \* --concurrency
  InFlight,    \* INFLIGHT_PER_WORKER
  Attempts,    \* MAX_RETRIES + 1
  Window,      \* ZERO_TOKEN_ABORT_WINDOW
  Outages,     \* bound: how often the provider goes away or comes back
  Invocations  \* bound: how often the run is started

BenchmarkAssumption ==
  /\ Cases \in Seq(Range(Cases)) /\ IsInjective(Cases) /\ Flawed \subseteq Range(Cases)
  /\ {Workers, InFlight, Attempts, Window} \subseteq Nat \ {0}
  /\ {Outages, Invocations} \subseteq Nat

Names == Range(Cases)

VARIABLES
  provider,  \* does the provider answer
  outages,   \* how often that changed
  sarif,     \* case -> its file in the run directory: "none", "empty", "findings", "corrupt"
  usage,     \* case -> tokens recorded in its usage directory, over all invocations
  inv,       \* the running invocation, see NotRunning
  orphans,   \* the cases a Metis process of a killed invocation is scanning
  started,   \* how many invocations there were
  manifest   \* run-manifest.json

results == <<sarif, usage>>
benchVars == <<provider, outages, results, inv, orphans, started, manifest>>

\* tokens: the total, kept by the case it was spent for.
NoManifest == [complete |-> FALSE, tokens |-> [c \in Names |-> 0]]

\* proven: the cases this invocation took as done; todo: what is not submitted yet;
\* queued, running (case -> attempt), ended (case -> what scan_one returned): the futures
\* in flight; recent: the tokens of the last scans.  dry, for the properties: the cases
\* begun since the provider went away.
NotRunning ==
  [pc |-> "off", limit |-> FALSE, proven |-> {}, todo |-> {}, queued |-> {},
   running |-> <<>>, ended |-> <<>>, recent |-> <<>>, failed |-> {}, abort |-> FALSE,
   dry |-> {}]

BenchInit ==
  /\ provider \in BOOLEAN /\ outages = 0
  /\ sarif = [c \in Names |-> "none"] /\ usage = [c \in Names |-> 0]
  /\ inv = NotRunning /\ orphans = {} /\ started = 0
  /\ manifest = NoManifest

-----------------------------------------------------------------------------
(* The outside.                                                             *)

Outage ==
  /\ outages < Outages /\ outages' = outages + 1
  /\ provider' = ~provider
  /\ inv' = [inv EXCEPT !.dry = {}]
  /\ UNCHANGED <<results, orphans, started, manifest>>

\* What one review_file of Metis leaves behind.  It may be killed by its timeout, or
\* exit with an error, after the call was billed, with the file half written or not.
Reviews(c) ==
  LET found == IF c \in Flawed THEN "findings" ELSE "empty" IN
  IF provider
  THEN {[ok |-> TRUE,  file |-> found, tokens |-> 1],
        [ok |-> FALSE, file |-> sarif[c], tokens |-> 1],
        [ok |-> FALSE, file |-> "corrupt", tokens |-> 1]}
  ELSE {[ok |-> TRUE,  file |-> "empty", tokens |-> 0],
        [ok |-> FALSE, file |-> sarif[c], tokens |-> 0]}

\* The usage directory of a case keeps what every scan of it recorded.
Leaves(c, review) ==
  /\ sarif' = [sarif EXCEPT ![c] = review.file]
  /\ usage' = [usage EXCEPT ![c] = @ + review.tokens]

\* No parent's timeout kills it.
OrphanEnds(c) ==
  /\ c \in orphans
  /\ orphans' = orphans \ {c}
  /\ \E review \in Reviews(c) : review.file # "corrupt" /\ Leaves(c, review)
  /\ UNCHANGED <<provider, outages, inv, started, manifest>>

-----------------------------------------------------------------------------
(* main, up to run_scans.                                                   *)

Readable(file) == file \in {"empty", "findings"}

\* trustworthy_prior_scans: a SARIF with a token record.  The canary has made the usage
\* directory, so the rule for runs without one never applies.
\* Seeded fault: one finding vouches for the directory.
TrustworthyByFinding(kept, tokens) ==
  IF \E c \in Names : kept[c] = "findings" THEN {c \in Names : Readable(kept[c])} ELSE {}
Trustworthy(kept, tokens) == {c \in Names : Readable(kept[c]) /\ tokens[c] > 0}

\* The first n cases of S, in the order of expectedresults.
Place(c) == CHOOSE k \in DOMAIN Cases : Cases[k] = c
First(S, n) == {c \in S : Cardinality({d \in S : Place(d) < Place(c)}) < n}

\* Futures are submitted as long as the window has room.
Flying(i) == i.queued \cup DOMAIN i.running \cup DOMAIN i.ended
TopUp(i) ==
  LET more == First(i.todo, Workers * InFlight - Cardinality(Flying(i)))
  IN [i EXCEPT !.queued = @ \cup more, !.todo = @ \ more]

\* preflight_canary: without a call that is billed the invocation ends at once.  Its
\* usage directory is not one of a test case.
StartInvocation(limit) ==
  /\ inv.pc = "off"
  /\ started < Invocations /\ started' = started + 1
  /\ IF provider
     THEN LET proven == Trustworthy(sarif, usage)
              todo == Names \ proven
          IN inv' = TopUp([NotRunning EXCEPT !.pc = "scanning", !.limit = limit, !.proven = proven,
                             !.todo = IF limit THEN First(todo, 1) ELSE todo])
     ELSE UNCHANGED inv
  /\ UNCHANGED <<provider, outages, results, orphans, manifest>>

-----------------------------------------------------------------------------
(* run_scans: its workers and its main loop.                                *)

BeginScan ==
  /\ Cardinality(DOMAIN inv.running) < Workers
  /\ \E c \in First(inv.queued, 1) :
       inv' = [inv EXCEPT !.queued = @ \ {c},
                          !.running = [d \in DOMAIN @ \cup {c} |-> IF d = c THEN 1 ELSE @[d]],
                          !.dry = IF provider THEN @ ELSE @ \cup {c}]
  /\ UNCHANGED <<provider, outages, results, orphans, started, manifest>>

Ended(c, ok, tokens) ==
  inv' = [inv EXCEPT !.running = [d \in DOMAIN @ \ {c} |-> @[d]],
                     !.ended = [d \in DOMAIN @ \cup {c} |->
                                  IF d = c THEN [ok |-> ok, tokens |-> tokens] ELSE @[d]]]

\* One attempt of scan_one.
Attempt(c) ==
  /\ c \in DOMAIN inv.running
  /\ \E review \in Reviews(c) :
       /\ Leaves(c, review)
       /\ CASE review.ok -> Ended(c, TRUE, usage'[c])
            [] ~review.ok /\ inv.running[c] = Attempts -> Ended(c, FALSE, usage'[c])
            [] OTHER -> inv' = [inv EXCEPT !.running[c] = @ + 1]
  /\ UNCHANGED <<provider, outages, orphans, started, manifest>>

\* zero_token_guard, on the last Window scans.
GuardTrips(recent) == Len(recent) = Window /\ \A k \in 1..Window : recent[k] = 0

\* Seeded fault: trimmed to less than the guard asks for.
LatestTrimmed(seq, n) == IF seq = <<>> THEN seq ELSE <<Last(seq)>>
Latest(seq, n) == IF Len(seq) > n THEN SubSeq(seq, Len(seq) - n + 1, Len(seq)) ELSE seq

\* Futures that have not started are cancelled.
Cancel(i) == [i EXCEPT !.abort = TRUE, !.queued = {}]

\* What wait returned is taken in any order; then the guard, and more work or none.
Collect ==
  /\ inv.ended # <<>>
  /\ \E order \in SetToSeqs(DOMAIN inv.ended) :
       LET recent == Latest(inv.recent \o [k \in DOMAIN order |-> inv.ended[order[k]].tokens], Window)
           i == [inv EXCEPT
                   !.ended = <<>>,
                   !.recent = recent,
                   !.failed = @ \cup {c \in DOMAIN inv.ended : ~inv.ended[c].ok}]
       IN inv' = IF inv.abort \/ GuardTrips(recent) THEN Cancel(i) ELSE TopUp(i)
  /\ UNCHANGED <<provider, outages, results, orphans, started, manifest>>

\* No scan ended for STALL_ABORT_AFTER intervals.
Stall ==
  /\ DOMAIN inv.running # {} /\ inv.ended = <<>> /\ ~inv.abort
  /\ inv' = Cancel(inv)
  /\ UNCHANGED <<provider, outages, results, orphans, started, manifest>>

\* The completeness gate.
Complete(i, kept) ==
  /\ \A c \in Names : kept[c] # "none"
  /\ i.failed = {} /\ ~i.abort /\ ~i.limit

\* read_run_tokens: the usage directories of the run.
\* Seeded fault: what this invocation scanned.
RunTokensOfInvocation(i, tokens) == [c \in Names |-> IF c \in i.proven THEN 0 ELSE tokens[c]]
RunTokens(i, tokens) == tokens

Finish ==
  /\ inv.pc = "scanning"
  /\ Flying(inv) = {}
  /\ manifest' = [complete |-> Complete(inv, sarif), tokens |-> RunTokens(inv, usage)]
  /\ inv' = NotRunning
  /\ UNCHANGED <<provider, outages, results, orphans, started>>

KillInvocation ==
  /\ inv.pc = "scanning"
  /\ orphans' \in {orphans, orphans \cup DOMAIN inv.running}
  /\ inv' = NotRunning
  /\ UNCHANGED <<provider, outages, results, started, manifest>>

-----------------------------------------------------------------------------
BenchNext ==
  \/ Outage
  \/ \E limit \in BOOLEAN : StartInvocation(limit)
  \/ \E c \in Names : OrphanEnds(c) \/ Attempt(c)
  \/ BeginScan \/ Collect \/ Stall \/ Finish \/ KillInvocation

BenchSpec == BenchInit /\ [][BenchNext]_benchVars

-----------------------------------------------------------------------------
\* "Never call it FULL from a truncated run": when a manifest says complete, every case
\* has a readable SARIF, from this invocation or with a token record; and a resumed run
\* still reports what the invocations before it spent (main, read_run_tokens).
CompleteIsWhole ==
  [][/\ Finish /\ manifest'.complete =>
          \A c \in Names : Readable(sarif[c]) /\ (usage[c] > 0 \/ c \notin inv.proven)
     /\ \A c \in Names : manifest'.tokens[c] >= manifest.tokens[c]]_benchVars

\* When the provider goes away for good, a run that scans its cases for the first time soon
\* stops (zero_token_guard).  The guard is asked after each batch: a scan that was billed
\* before the outage and is still under way on one of the workers hides as many scans as
\* fall one short of the window, and those collected with it.
DeadProviderStops ==
  LET futures == Workers * InFlight
  IN started = 1 => Cardinality(inv.dry) <= Workers * ((Window - 1) + (futures - 1)) + futures
=============================================================================
