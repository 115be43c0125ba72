------------------------------ MODULE Syndicate ------------------------------
(***************************************************************************)
(* The supervisor graph (agent/supervisor.py): recon, fuzz, exploit and    *)
(* the seam where a run waits for a human, checkpointed per thread by      *)
(* LangGraph; the request budget that a thread carries from one invocation *)
(* to the next; and the approval of the simulated state change, minted by  *)
(* a person's own process (agent/approve.py) and spent once by the graph   *)
(* (agent/approval.py).                                                    *)
(*                                                                         *)
(* Of LangGraph, which is not in the repository, the model keeps what the  *)
(* code relies on: a checkpoint after every node, written while the next   *)
(* node already runs; an invocation with input starts at the first node of *)
(* the last checkpoint's state; one that resumes goes on from its node;    *)
(* nothing keeps two invocations of one thread apart.                      *)
(***************************************************************************)
EXTENDS Naturals, Sequences, FiniteSets

CONSTANTS
  Threads,      \* the checkpoint threads
  Processes,    \* the processes that invoke or resume the graph
  Proposals,    \* what exploit may propose: the facts and a narrative
  Tokens,       \* the approvals a person may mint, by their nonce
  Targets,      \* how many targets a fuzz run has
  PerTarget,    \* the most requests of one target (MAX_REQUESTS_PER_TARGET and a baseline)
  Ceiling,      \* MAX_TOTAL_REQUESTS
  MaxCut        \* bound: kills, overlaps and failures that lose a count, per thread

ASSUME SyndicateAssumption ==
  /\ Targets \in Nat \ {0} /\ PerTarget \in Nat \ {0} /\ Ceiling \in Nat \ {0}
  /\ MaxCut \in Nat /\ Threads # {}
  /\ "none" \notin Proposals \cup Tokens /\ {"junk", "empty"} \cap Tokens = {}

VARIABLES
  saved,      \* the last checkpoint of each thread
  pc, job,    \* where each process is, and what it holds in memory
  tokens,     \* the approvals, as far as the person's process came
  spent,      \* the consumed nonces
  trail,      \* the audit log, without refusals
  sent,       \* ghost: the counted requests a thread really made
  cut,        \* ghost: invocations of a thread that overlapped, or were killed uncounted
  failed      \* ghost: invocations whose guidance failed after the requests

graph    == <<saved, pc, job>>
approval == <<tokens, spent, trail>>
ghosts   == <<sent, cut, failed>>
vars     == <<graph, approval, ghosts>>

Nodes  == {"recon", "fuzz", "exploit", "seam", "state change"}
Places == Nodes \cup {"idle", "fuzzing", "guiding", "verified", "recorded", "refusing", "end"}
Values == Tokens \cup {"none", "junk", "empty"}

\* What a checkpoint holds; next is the node to run.
NoState == [next |-> "none", budget |-> 0, found |-> FALSE, proposal |-> "none",
            pending |-> FALSE, token |-> "none"]
\* value: what the seam is resumed with; state: the graph's state; unsaved: its checkpoint
\* is still to be written; run: requests that no written checkpoint counts.
NoJob(t) == [thread |-> t, value |-> "none", state |-> NoState, unsaved |-> FALSE,
             todo |-> 0, run |-> 0]

\* The most requests of one fuzz run: the budget is looked at before each target.
MaxRun ==
  IF Targets * PerTarget < Ceiling - 1 + PerTarget THEN Targets * PerTarget
                                                   ELSE Ceiling - 1 + PerTarget

StateOK(s) ==
  /\ s.next \in Nodes \cup {"none", "end"} /\ s.budget \in Nat /\ s.found \in BOOLEAN
  /\ s.proposal \in Proposals \cup {"none"} /\ s.pending \in BOOLEAN /\ s.token \in Values

TypeOK ==
  /\ \A t \in Threads : StateOK(saved[t]) /\ saved[t].budget < Ceiling + MaxRun
  /\ pc \in [Processes -> Places]
  /\ \A p \in Processes :
       /\ job[p].thread \in Threads /\ job[p].value \in Values /\ StateOK(job[p].state)
       /\ job[p].unsaved \in BOOLEAN /\ job[p].todo \in 0..Targets /\ job[p].run \in 0..MaxRun
  /\ \A k \in Tokens :
       /\ tokens[k].stage \in {"none", "signed", "issued", "handed", "expired"}
       /\ tokens[k].proposal \in Proposals \cup {"none"}
  /\ spent \subseteq Tokens
  /\ \A i \in DOMAIN trail :
       trail[i].action \in {"token-issued", "simulated-execute"} /\ trail[i].token \in Tokens
  /\ \A t \in Threads : sent[t] \in Nat /\ cut[t] + failed[t] \in 0..MaxCut

Init ==
  /\ saved = [t \in Threads |-> NoState]
  /\ pc = [p \in Processes |-> "idle"]
  /\ job = [p \in Processes |-> NoJob(CHOOSE t \in Threads : TRUE)]
  /\ tokens = [k \in Tokens |-> [stage |-> "none", proposal |-> "none"]]
  /\ spent = {}
  /\ trail = <<>>
  /\ sent = [t \in Threads |-> 0]
  /\ cut = [t \in Threads |-> 0]
  /\ failed = [t \in Threads |-> 0]

At(p, place)   == pc[p] = place
Goto(p, place) == pc' = [pc EXCEPT ![p] = place]
State(p)       == job[p].state
Thread(p)      == job[p].thread
Running(t)     == {p \in Processes : ~ At(p, "idle") /\ Thread(p) = t}
MayCut(t)      == cut[t] + failed[t] < MaxCut

-----------------------------------------------------------------------------
(* Invocations.                                                            *)

Begin(p, t, state, value, place) ==
  /\ At(p, "idle")
  /\ Goto(p, place)
  /\ job' = [job EXCEPT ![p] = [NoJob(t) EXCEPT !.state = state, !.value = value,
                                                !.unsaved = (place = "recon")]]
  /\ IF Running(t) = {} THEN UNCHANGED cut
                        ELSE MayCut(t) /\ cut' = [cut EXCEPT ![t] = @ + 1]
  /\ UNCHANGED <<saved, approval, sent, failed>>

\* Seeded fault: the budget is supplied with the input of every invocation.
InputRearmed(t) == [saved[t] EXCEPT !.next = "recon", !.budget = 0]
\* run_syndicate seeds the budget of a new thread only; the rest of the state stays.
Input(t) == [saved[t] EXCEPT !.next = "recon"]

\* A caller that wants a state change says so in the first input of the thread.
Invoke(p, t) ==
  \E pending \in IF saved[t].next = "none" THEN BOOLEAN ELSE {saved[t].pending} :
    Begin(p, t, [Input(t) EXCEPT !.pending = pending], "none", "recon")

\* resume_state_change, with a handed-out token, with something else, or with {}.  A
\* thread whose state change was refused goes on at that node.
Resume(p, t) ==
  /\ saved[t].next \in {"seam", "state change"} /\ saved[t].pending
  /\ \E v \in {k \in Tokens : tokens[k].stage \in {"handed", "expired"}} \cup {"junk", "empty"} :
       Begin(p, t, saved[t], v, saved[t].next)

\* A node is done when the checkpoint before it is written, and its own is written next.
Done(p, state) ==
  /\ ~ job[p].unsaved
  /\ Goto(p, state.next)
  /\ job' = [job EXCEPT ![p].state = state, ![p].unsaved = TRUE]
  /\ UNCHANGED saved

Save(p) ==
  /\ job[p].unsaved
  /\ saved' = [saved EXCEPT ![Thread(p)] = State(p)]
  /\ job' = [job EXCEPT ![p].unsaved = FALSE,
                        ![p].run = IF State(p).next = "exploit" THEN 0 ELSE @]
  /\ UNCHANGED <<pc, approval, ghosts>>

\* The invocation returns, or raises what a node raised.
Leave(p) ==
  /\ ~ job[p].unsaved
  /\ Goto(p, "idle")
  /\ job' = [job EXCEPT ![p] = NoJob(CHOOSE t \in Threads : TRUE)]
  /\ UNCHANGED saved

Kill(p) ==
  /\ ~ At(p, "idle")
  /\ Goto(p, "idle")
  /\ job' = [job EXCEPT ![p] = NoJob(CHOOSE t \in Threads : TRUE)]
  /\ IF job[p].run = 0 THEN UNCHANGED cut
     ELSE MayCut(Thread(p)) /\ cut' = [cut EXCEPT ![Thread(p)] = @ + 1]
  /\ UNCHANGED <<saved, approval, sent, failed>>

-----------------------------------------------------------------------------
(* Recon, fuzz and exploit.                                                *)

Recon(p) ==
  /\ At(p, "recon")
  /\ Leave(p) \/ Done(p, [State(p) EXCEPT !.next = "fuzz"])
  /\ UNCHANGED <<approval, ghosts>>

\* Seeded fault: the persisted budget is not looked at.
ExhaustedNever(state) == FALSE
Exhausted(state) == state.budget >= Ceiling

\* A thread that is at its ceiling fuzzes nothing; the gateway may refuse a token.
Fuzz(p) ==
  /\ At(p, "fuzz")
  /\ IF Exhausted(State(p))
     THEN Done(p, [State(p) EXCEPT !.next = "exploit", !.found = FALSE])
     ELSE \/ Leave(p)
          \/ Goto(p, "fuzzing") /\ job' = [job EXCEPT ![p].todo = Targets] /\ UNCHANGED saved
  /\ UNCHANGED <<approval, ghosts>>

\* One target: its baseline, and the payloads until the kill-switch; only what was
\* answered is counted.
FuzzTarget(p) ==
  /\ At(p, "fuzzing")
  /\ IF job[p].todo = 0 \/ job[p].run >= Ceiling
     THEN Goto(p, "guiding") /\ UNCHANGED <<job, sent>>
     ELSE \E n \in 0..PerTarget :
            /\ job' = [job EXCEPT ![p].todo = @ - 1, ![p].run = @ + n]
            /\ sent' = [sent EXCEPT ![Thread(p)] = @ + n]
            /\ UNCHANGED pc
  /\ UNCHANGED <<saved, approval, cut, failed>>

\* Findings are sent to a model for guidance; when it fails, so does the node.
Guide(p) ==
  /\ At(p, "guiding")
  /\ \/ /\ \E found \in IF job[p].run = 0 THEN {FALSE} ELSE BOOLEAN :
             Done(p, [State(p) EXCEPT !.next = "exploit", !.found = found,
                                      !.budget = @ + job[p].run])
        /\ UNCHANGED failed
     \/ /\ job[p].run > 0 /\ MayCut(Thread(p))
        /\ Leave(p)
        /\ failed' = [failed EXCEPT ![Thread(p)] = @ + 1]
  /\ UNCHANGED <<approval, sent, cut>>

\* Leads come from findings alone; the first one, with its narrative, is what a person
\* may approve.
Exploit(p) ==
  /\ At(p, "exploit")
  /\ \E q \in IF State(p).found THEN Proposals ELSE {"none"} :
       Done(p, [State(p) EXCEPT !.next = "seam", !.proposal = q])
  /\ UNCHANGED <<approval, ghosts>>

-----------------------------------------------------------------------------
(* The seam and the state change.                                          *)

\* Seeded fault: a resume that is still paused returns.
PausedQuietly(p) == IF job[p].value = "none" \/ job[p].value = "empty" THEN "end" ELSE "resumed"
\* A first run pauses; a resume with {} pauses again, which the wrapper refuses.
Paused(p) == CASE job[p].value = "none"  -> "end"
               [] job[p].value = "empty" -> "refusing"
               [] OTHER                  -> "resumed"

\* _route_after_interrupt
AfterInterrupt(state) == IF state.proposal # "none" THEN "state change" ELSE "end"

Seam(p) ==
  /\ At(p, "seam")
  /\ IF ~ State(p).pending
     THEN Done(p, [State(p) EXCEPT !.next = "end"])
     ELSE IF Paused(p) # "resumed"
     THEN Goto(p, Paused(p)) /\ UNCHANGED <<saved, job>>
     ELSE Done(p, [State(p) EXCEPT !.next = AfterInterrupt(State(p)), !.token = job[p].value])
  /\ UNCHANGED <<approval, ghosts>>

\* Seeded fault: the token is not bound to what was reviewed.
VerifiedUnbound(k, q) == k \in Tokens /\ tokens[k].stage = "handed" /\ k \notin spent
\* verify_approval, whose last step consumes the nonce.
Verified(k, q) ==
  /\ k \in Tokens
  /\ tokens[k].stage = "handed"
  /\ tokens[k].proposal = q
  /\ k \notin spent

\* Seeded fault: the nonce is looked up and not kept.
ConsumedNot(k) == spent
Consumed(k) == spent \cup {k}

\* state_change_node: an unusable token, or a ledger that fails, is refused by raising.
StateChange(p) ==
  /\ At(p, "state change")
  /\ \/ Leave(p) /\ UNCHANGED spent
     \/ /\ Verified(State(p).token, State(p).proposal)
        /\ spent' = Consumed(State(p).token)
        /\ Goto(p, "verified") /\ UNCHANGED <<saved, job>>
  /\ UNCHANGED <<tokens, trail, ghosts>>

Row(action, k, q) == [action |-> action, token |-> k, proposal |-> q]

\* The audit row comes before the action; when it fails the approval is spent for nothing.
Record(p) ==
  /\ At(p, "verified")
  /\ \/ /\ trail' = Append(trail, Row("simulated-execute", State(p).token, State(p).proposal))
        /\ Goto(p, "recorded") /\ UNCHANGED <<saved, job>>
     \/ Leave(p) /\ UNCHANGED trail
  /\ UNCHANGED <<tokens, spent, ghosts>>

Execute(p) ==
  /\ At(p, "recorded")
  /\ Done(p, [State(p) EXCEPT !.next = "end"])
  /\ UNCHANGED <<approval, ghosts>>

\* The invocation returns; a resume that is still paused records its refusal and raises.
Return(p) == (At(p, "end") \/ At(p, "refusing")) /\ Leave(p) /\ UNCHANGED <<approval, ghosts>>

-----------------------------------------------------------------------------
(* The person's process (agent/approve.py).                                *)

\* The proposal file is written from what a thread is paused with.
Sign(k) ==
  /\ tokens[k].stage = "none"
  /\ \E t \in Threads :
       /\ saved[t].next = "seam" /\ saved[t].pending /\ saved[t].proposal # "none"
       /\ tokens' = [tokens EXCEPT ![k] = [stage |-> "signed", proposal |-> saved[t].proposal]]
  /\ UNCHANGED <<graph, spent, trail, ghosts>>

RecordDecision(k) ==
  /\ tokens[k].stage = "signed"
  /\ trail' = Append(trail, Row("token-issued", k, tokens[k].proposal))
  /\ tokens' = [tokens EXCEPT ![k].stage = "issued"]
  /\ UNCHANGED <<graph, spent, ghosts>>

Recorded(k) == tokens[k].stage = "issued"

HandOut(k) ==
  /\ Recorded(k)
  /\ tokens' = [tokens EXCEPT ![k].stage = "handed"]
  /\ UNCHANGED <<graph, spent, trail, ghosts>>

Expire(k) ==
  /\ tokens[k].stage = "handed"
  /\ tokens' = [tokens EXCEPT ![k].stage = "expired"]
  /\ UNCHANGED <<graph, spent, trail, ghosts>>

Invocation(p) ==
  \/ \E t \in Threads : Invoke(p, t) \/ Resume(p, t)
  \/ Save(p) \/ Kill(p) \/ Return(p)
Node(p) ==
  \/ Recon(p) \/ Fuzz(p) \/ FuzzTarget(p) \/ Guide(p) \/ Exploit(p)
  \/ Seam(p) \/ StateChange(p) \/ Record(p) \/ Execute(p)
Approve(k) == Sign(k) \/ RecordDecision(k) \/ HandOut(k) \/ Expire(k)

Next == (\E p \in Processes : Invocation(p) \/ Node(p)) \/ \E k \in Tokens : Approve(k)

Spec == Init /\ [][Next]_vars

-----------------------------------------------------------------------------
(* Properties.                                                             *)

Is(i, action) == i \in DOMAIN trail /\ trail[i].action = action

\* The trail tells the whole story: an action that ran has, before it, the approval of
\* that very proposal, and no approval ran twice - whoever resumes with the token, on
\* whatever thread, after whatever crash (verify_approval, consume_nonce, ApprovalLedger).
ApprovedOnce ==
  \A i \in DOMAIN trail :
    Is(i, "simulated-execute") =>
      /\ \E j \in 1..(i - 1) :
           Is(j, "token-issued") /\ trail[j].token = trail[i].token
                                /\ trail[j].proposal = trail[i].proposal
      /\ \A j \in DOMAIN trail \ {i} :
           Is(j, "simulated-execute") => trail[j].token # trail[i].token

\* A resume that returns, where there was something to approve, is one whose action ran
\* and is in the trail; every other one raises (resume_state_change, state_change_node).
ResumeAnswers ==
  \A p \in Processes :
    At(p, "end") /\ job[p].value # "none" /\ State(p).proposal # "none" =>
      \E i \in DOMAIN trail :
        Is(i, "simulated-execute") /\ trail[i].token = State(p).token
                                  /\ trail[i].proposal = State(p).proposal

\* However often a thread is invoked, it sends fewer requests than its ceiling and one
\* whole run, and one more run for every count that was lost; and the checkpoint of a
\* thread that nobody runs counts exactly what was sent (run_syndicate, fuzz_node).
BudgetHolds ==
  \A t \in Threads :
    /\ sent[t] < Ceiling + MaxRun * (1 + cut[t] + failed[t])
    /\ Running(t) = {} /\ cut[t] + failed[t] = 0 => saved[t].budget = sent[t]

\* A resume that returns had its action run, and a thread's requests are counted against its
\* ceiling (resume_state_change, run_syndicate, fuzz_node).
ThreadsAreExact == TypeOK /\ ResumeAnswers /\ BudgetHolds

\* What D11 asks for: a run whose guidance failed is counted like any other.  The count is
\* made after the guidance, so it is not (fuzz_node, fuzz.run).
NoRearm == \A t \in Threads : sent[t] < Ceiling + MaxRun * (1 + cut[t])
==============================================================================
