--------------------------- MODULE SyndicateProofs ---------------------------
(***************************************************************************)
(* Theorems about the supervisor graph, for any threads, processes,        *)
(* proposals and approvals, any number of targets and any ceiling.  First  *)
(* the approval of state changes: each action that ran was approved        *)
(* before, as it ran, and no approval ran twice.  Then the request budget  *)
(* and what a resume answers: however many processes run one thread, what  *)
(* it sends stays below its ceiling and one run for every count that was   *)
(* lost, and a resume that returns had its action run.                     *)
(***************************************************************************)
EXTENDS Syndicate, SequenceTheorems, FiniteSetTheorems, TLAPS

(***************************************************************************)
(* The inductive invariant.  An approval that was issued is in the trail,  *)
(* for the proposal it was signed for; one that is not spent did not run.  *)
(* Of the processes that verified an approval and have not recorded the    *)
(* action yet, each holds an approval of its own, which did not run.       *)
(***************************************************************************)
Issued(k, q) == \E i \in DOMAIN trail :
  trail[i].action = "token-issued" /\ trail[i].token = k /\ trail[i].proposal = q
Ran(k) == \E i \in DOMAIN trail : trail[i].action = "simulated-execute" /\ trail[i].token = k

Proposed == Proposals \cup {"none"}
Entry == [action: {"token-issued", "simulated-execute"}, token: Tokens, proposal: Proposed]

\* What is needed of the types.
StateIs(s) == DOMAIN s = DOMAIN NoState /\ s.proposal \in Proposed
JobIs(j)   == DOMAIN j = DOMAIN NoJob(CHOOSE t \in Threads : TRUE) /\ StateIs(j.state)
TokenIs(x) == x \in [stage: {"none", "signed", "issued", "handed", "expired"},
                     proposal: Proposed]

Typed ==
  /\ saved = [t \in Threads |-> saved[t]] /\ \A t \in Threads : StateIs(saved[t])
  /\ pc \in [Processes -> Places]
  /\ job = [p \in Processes |-> job[p]] /\ \A p \in Processes : JobIs(job[p])
  /\ DOMAIN tokens = Tokens /\ \A k \in Tokens : TokenIs(tokens[k])
  /\ tokens = [k \in Tokens |-> tokens[k]]
  /\ spent \subseteq Tokens
  /\ trail \in Seq(Entry)

ApprovalInv ==
  /\ \A k \in Tokens : tokens[k].stage \in {"issued", "handed", "expired"} =>
       Issued(k, tokens[k].proposal)
  /\ \A k \in Tokens : k \notin spent => ~ Ran(k)

VerifiedInv ==
  /\ \A p \in Processes : pc[p] = "verified" =>
       /\ State(p).token \in spent
       /\ Issued(State(p).token, State(p).proposal)
       /\ ~ Ran(State(p).token)
  /\ \A p, r \in Processes :
       pc[p] = "verified" /\ pc[r] = "verified" /\ State(p).token = State(r).token => p = r

IInv == Typed /\ ApprovalInv /\ VerifiedInv /\ ApprovedOnce

-----------------------------------------------------------------------------
(* Steps that change no approval.                                          *)

\* One process goes somewhere else, and carries its job on or changes it.
LEMMA QuietStep ==
  ASSUME IInv, NEW p \in Processes, UNCHANGED <<saved, approval>>,
         NEW place \in Places \ {"verified"}, pc' = [pc EXCEPT ![p] = place],
         NEW j, JobIs(j), job' = [job EXCEPT ![p] = j]
  PROVE  IInv'
<1>1. /\ pc'[p] = place
      /\ \A r \in Processes \ {p} : pc'[r] = pc[r] /\ job'[r] = job[r]
  BY DEF IInv, Typed
<1>2. tokens' = tokens /\ spent' = spent /\ trail' = trail
  BY DEF approval
<1>3. Typed'
  BY <1>2 DEF IInv, Typed
<1>4. ApprovalInv' /\ ApprovedOnce'
  BY <1>2 DEF IInv, ApprovalInv, ApprovedOnce, Issued, Ran, Is
<1>5. VerifiedInv'
  BY <1>1, <1>2 DEF IInv, VerifiedInv, State, Issued, Ran
<1> QED
  BY <1>3, <1>4, <1>5 DEF IInv

LEMMA NoJobIs == \A t : JobIs(NoJob(t))
BY DEF JobIs, NoJob, StateIs, NoState, Proposed

LEMMA LeaveStep ==
  ASSUME IInv, NEW p \in Processes, UNCHANGED approval, Leave(p)
  PROVE  IInv'
<1>1. "idle" \in Places \ {"verified"}
  BY DEF Places
<1> QED
  BY <1>1, NoJobIs, QuietStep DEF Leave, Goto

LEMMA GotoStep ==
  ASSUME IInv, NEW p \in Processes, UNCHANGED <<saved, approval>>,
         NEW place \in Places \ {"verified"}, Goto(p, place), job' = job
  PROVE  IInv'
<1>1. job' = [job EXCEPT ![p] = job[p]] /\ JobIs(job[p])
  BY DEF IInv, Typed
<1> QED
  BY <1>1, QuietStep DEF Goto

LEMMA DoneStep ==
  ASSUME IInv, NEW p \in Processes, UNCHANGED approval, NEW state, StateIs(state),
         state.next \in Places \ {"verified"}, Done(p, state)
  PROVE  IInv'
<1> DEFINE j == [job[p] EXCEPT !.state = state, !.unsaved = TRUE]
<1>1. job' = [job EXCEPT ![p] = j] /\ JobIs(j)
  BY DEF IInv, Typed, Done, JobIs, NoJob
<1> HIDE DEF j
<1>2. UNCHANGED <<saved, approval>> /\ pc' = [pc EXCEPT ![p] = state.next]
  BY DEF Done, Goto
<1> QED
  BY <1>1, <1>2, QuietStep

\* Several nodes change some fields of the state.
LEMMA StateOf ==
  ASSUME IInv, NEW p \in Processes
  PROVE  StateIs(State(p)) /\ JobIs(job[p]) /\ DOMAIN State(p) = DOMAIN NoState
BY DEF IInv, Typed, JobIs, State, StateIs

LEMMA BeginStep ==
  ASSUME IInv, NEW p \in Processes, NEW t, NEW state, StateIs(state), NEW value,
         NEW place \in {"recon", "seam", "state change"}, Begin(p, t, state, value, place)
  PROVE  IInv'
<1> DEFINE j == [NoJob(t) EXCEPT !.state = state, !.value = value,
                                 !.unsaved = (place = "recon")]
<1>1. job' = [job EXCEPT ![p] = j]
  BY DEF Begin
<1>2. JobIs(j)
  BY DEF JobIs, NoJob
<1>3. UNCHANGED <<saved, approval>> /\ pc' = [pc EXCEPT ![p] = place]
  BY DEF Begin, Goto
<1>4. place \in Places \ {"verified"}
  BY DEF Places, Nodes
<1> HIDE DEF j
<1> QED
  BY <1>1, <1>2, <1>3, <1>4, QuietStep

LEMMA InvokeStep ==
  ASSUME IInv, NEW p \in Processes, NEW t \in Threads, Invoke(p, t)
  PROVE  IInv'
<1>1. PICK pending : Begin(p, t, [Input(t) EXCEPT !.pending = pending], "none", "recon")
  BY DEF Invoke
<1>2. StateIs([Input(t) EXCEPT !.pending = pending])
  BY DEF IInv, Typed, StateIs, Input, NoState
<1> QED
  BY <1>1, <1>2, BeginStep

LEMMA ResumeStep ==
  ASSUME IInv, NEW p \in Processes, NEW t \in Threads, Resume(p, t)
  PROVE  IInv'
<1>1. PICK v : Begin(p, t, saved[t], v, saved[t].next)
  BY DEF Resume
<1>2. saved[t].next \in {"recon", "seam", "state change"}
  BY DEF Resume
<1>3. StateIs(saved[t])
  BY DEF IInv, Typed
<1> QED
  BY <1>1, <1>2, <1>3, BeginStep

\* A checkpoint is written; the process stays where it is.
LEMMA SaveStep ==
  ASSUME IInv, NEW p \in Processes, Save(p)
  PROVE  IInv'
<1>1. pc' = pc /\ tokens' = tokens /\ spent' = spent /\ trail' = trail
  BY DEF Save, approval
<1>2. \A r \in Processes : job'[r].state = job[r].state /\ DOMAIN job'[r] = DOMAIN job[r]
  BY DEF IInv, Typed, Save, JobIs, NoJob
<1>3. job' = [r \in Processes |-> job'[r]]
  BY DEF IInv, Typed, Save
<1>4. saved' = [t \in Threads |-> saved'[t]] /\ \A t \in Threads : StateIs(saved'[t])
  <2>1. StateIs(State(p))
    BY StateOf
  <2> QED
    BY <2>1 DEF IInv, Typed, Save
<1>5. Typed'
  BY <1>1, <1>2, <1>3, <1>4 DEF IInv, Typed, JobIs, NoJob
<1>6. ApprovalInv' /\ ApprovedOnce'
  BY <1>1 DEF IInv, ApprovalInv, ApprovedOnce, Issued, Ran, Is
<1>7. VerifiedInv'
  BY <1>1, <1>2 DEF IInv, VerifiedInv, State, Issued, Ran
<1> QED
  BY <1>5, <1>6, <1>7 DEF IInv

LEMMA KillStep ==
  ASSUME IInv, NEW p \in Processes, Kill(p)
  PROVE  IInv'
<1>1. "idle" \in Places \ {"verified"}
  BY DEF Places
<1>2. /\ UNCHANGED <<saved, approval>> /\ pc' = [pc EXCEPT ![p] = "idle"]
      /\ job' = [job EXCEPT ![p] = NoJob(CHOOSE t \in Threads : TRUE)]
  BY DEF Kill, Goto
<1> QED
  BY <1>1, <1>2, NoJobIs, QuietStep

LEMMA ReconStep ==
  ASSUME IInv, NEW p \in Processes, Recon(p)
  PROVE  IInv'
<1> DEFINE s == [State(p) EXCEPT !.next = "fuzz"]
<1>1. StateIs(s) /\ s.next \in Places \ {"verified"}
  BY StateOf DEF StateIs, Places, Nodes, NoState
<1>2. UNCHANGED approval /\ (Leave(p) \/ Done(p, s))
  BY DEF Recon
<1> HIDE DEF s
<1> QED
  BY <1>1, <1>2, LeaveStep, DoneStep

LEMMA FuzzStep ==
  ASSUME IInv, NEW p \in Processes, Fuzz(p)
  PROVE  IInv'
<1> DEFINE s == [State(p) EXCEPT !.next = "exploit", !.found = FALSE]
<1>1. UNCHANGED approval
  BY DEF Fuzz
<1>2. CASE Done(p, s)
  <2>1. StateIs(s) /\ s.next \in Places \ {"verified"}
    BY StateOf DEF StateIs, Places, Nodes, NoState
  <2> HIDE DEF s
  <2> QED
    BY <1>1, <1>2, <2>1, DoneStep
<1>3. CASE Leave(p)
  BY <1>1, <1>3, LeaveStep
<1>4. CASE Goto(p, "fuzzing") /\ job' = [job EXCEPT ![p].todo = Targets] /\ UNCHANGED saved
  <2> DEFINE j == [job[p] EXCEPT !.todo = Targets]
  <2>1. job' = [job EXCEPT ![p] = j] /\ JobIs(j)
    BY <1>4, StateOf DEF JobIs, NoJob
  <2>2. "fuzzing" \in Places \ {"verified"}
    BY DEF Places
  <2> HIDE DEF j
  <2> QED
    BY <1>1, <1>4, <2>1, <2>2, QuietStep DEF Goto
<1> QED
  BY <1>2, <1>3, <1>4 DEF Fuzz

LEMMA FuzzTargetStep ==
  ASSUME IInv, NEW p \in Processes, FuzzTarget(p)
  PROVE  IInv'
<1>1. UNCHANGED <<saved, approval>>
  BY DEF FuzzTarget
<1>2. CASE Goto(p, "guiding") /\ job' = job
  <2>1. "guiding" \in Places \ {"verified"}
    BY DEF Places
  <2> QED
    BY <1>1, <1>2, <2>1, GotoStep
<1>3. ASSUME NEW n, pc' = pc,
             job' = [job EXCEPT ![p].todo = @ - 1, ![p].run = @ + n],
             At(p, "fuzzing")
      PROVE  IInv'
  <2> DEFINE j == [job[p] EXCEPT !.todo = @ - 1, !.run = @ + n]
  <2>1. job' = [job EXCEPT ![p] = j] /\ JobIs(j)
    BY <1>3, StateOf DEF IInv, Typed, JobIs, NoJob
  <2>2. "fuzzing" \in Places \ {"verified"} /\ pc' = [pc EXCEPT ![p] = "fuzzing"]
    BY <1>3 DEF IInv, Typed, At, Places
  <2> HIDE DEF j
  <2> QED
    BY <1>1, <2>1, <2>2, QuietStep
<1> QED
  BY <1>2, <1>3 DEF FuzzTarget

LEMMA GuideStep ==
  ASSUME IInv, NEW p \in Processes, Guide(p)
  PROVE  IInv'
<1>1. UNCHANGED approval
  BY DEF Guide
<1>2. ASSUME NEW found, Done(p, [State(p) EXCEPT !.next = "exploit", !.found = found,
                                                 !.budget = @ + job[p].run])
      PROVE  IInv'
  <2> DEFINE s == [State(p) EXCEPT !.next = "exploit", !.found = found,
                                   !.budget = @ + job[p].run]
  <2>1. StateIs(s) /\ s.next \in Places \ {"verified"}
    BY StateOf DEF StateIs, Places, Nodes, NoState
  <2>2. Done(p, s)
    BY <1>2
  <2> HIDE DEF s
  <2> QED
    BY <1>1, <2>1, <2>2, DoneStep
<1>3. CASE Leave(p)
  BY <1>1, <1>3, LeaveStep
<1> QED
  BY <1>2, <1>3 DEF Guide

LEMMA ExploitStep ==
  ASSUME IInv, NEW p \in Processes, Exploit(p)
  PROVE  IInv'
<1>1. PICK q \in Proposed : Done(p, [State(p) EXCEPT !.next = "seam", !.proposal = q])
  BY DEF Exploit, Proposed
<1> DEFINE s == [State(p) EXCEPT !.next = "seam", !.proposal = q]
<1>2. StateIs(s) /\ s.next \in Places \ {"verified"}
  BY StateOf DEF StateIs, Places, Nodes, NoState
<1>3. UNCHANGED approval /\ Done(p, s)
  BY <1>1 DEF Exploit
<1> HIDE DEF s
<1> QED
  BY <1>2, <1>3, DoneStep

LEMMA SeamStep ==
  ASSUME IInv, NEW p \in Processes, Seam(p)
  PROVE  IInv'
<1>1. UNCHANGED approval
  BY DEF Seam
<1>2. ASSUME NEW token, NEW n \in {"state change", "end"},
             Done(p, [State(p) EXCEPT !.next = n, !.token = token])
      PROVE  IInv'
  <2> DEFINE s == [State(p) EXCEPT !.next = n, !.token = token]
  <2>1. StateIs(s) /\ s.next \in Places \ {"verified"}
    BY StateOf DEF StateIs, Places, Nodes, NoState
  <2>2. Done(p, s)
    BY <1>2
  <2> HIDE DEF s
  <2> QED
    BY <1>1, <2>1, <2>2, DoneStep
<1>3. CASE ~ State(p).pending
  <2> DEFINE s == [State(p) EXCEPT !.next = "end"]
  <2>1. StateIs(s) /\ s.next \in Places \ {"verified"}
    BY StateOf DEF StateIs, Places, Nodes, NoState
  <2>2. Done(p, s)
    BY <1>3 DEF Seam
  <2> HIDE DEF s
  <2> QED
    BY <1>1, <2>1, <2>2, DoneStep
<1>4. CASE State(p).pending /\ Paused(p) # "resumed"
  <2>1. Goto(p, Paused(p)) /\ UNCHANGED <<saved, job>>
    BY <1>4 DEF Seam
  <2>2. Paused(p) \in Places \ {"verified"}
    BY <1>4 DEF Paused, Places
  <2> QED
    BY <1>1, <2>1, <2>2, GotoStep
<1>5. CASE State(p).pending /\ Paused(p) = "resumed"
  <2>1. AfterInterrupt(State(p)) \in {"state change", "end"}
    BY DEF AfterInterrupt
  <2> QED
    BY <1>2, <1>5, <2>1 DEF Seam
<1> QED
  BY <1>3, <1>4, <1>5

LEMMA ExecuteStep ==
  ASSUME IInv, NEW p \in Processes, Execute(p)
  PROVE  IInv'
<1> DEFINE s == [State(p) EXCEPT !.next = "end"]
<1>1. StateIs(s) /\ s.next \in Places \ {"verified"}
  BY StateOf DEF StateIs, Places, Nodes, NoState
<1>2. UNCHANGED approval /\ Done(p, s)
  BY DEF Execute
<1> HIDE DEF s
<1> QED
  BY <1>1, <1>2, DoneStep

-----------------------------------------------------------------------------
(* Steps that change the approvals, the ledger of nonces or the trail.     *)

\* What a row at the end of the trail changes.
LEMMA AppendStep ==
  ASSUME IInv, NEW row \in Entry, trail' = Append(trail, row)
  PROVE  /\ trail' \in Seq(Entry)
         /\ Len(trail) \in Nat /\ DOMAIN trail = 1..Len(trail)
         /\ DOMAIN trail' = 1..(Len(trail) + 1)
         /\ \A i \in DOMAIN trail : trail'[i] = trail[i]
         /\ trail'[Len(trail) + 1] = row
         /\ \A k, q : Issued(k, q)' <=>
              \/ Issued(k, q)
              \/ row.action = "token-issued" /\ row.token = k /\ row.proposal = q
         /\ \A k : Ran(k)' <=> Ran(k) \/ (row.action = "simulated-execute" /\ row.token = k)
<1>1. trail \in Seq(Entry)
  BY DEF IInv, Typed
<1>2. /\ trail' \in Seq(Entry)
      /\ Len(trail) \in Nat /\ DOMAIN trail = 1..Len(trail)
      /\ DOMAIN trail' = 1..(Len(trail) + 1)
      /\ \A i \in DOMAIN trail : trail'[i] = trail[i]
      /\ trail'[Len(trail) + 1] = row
  BY <1>1
<1> QED
  BY <1>2 DEF Issued, Ran

LEMMA StateChangeStep ==
  ASSUME IInv, NEW p \in Processes, StateChange(p)
  PROVE  IInv'
<1>1. tokens' = tokens /\ trail' = trail
  BY DEF StateChange
<1>2. CASE Leave(p) /\ UNCHANGED spent
  BY <1>1, <1>2, LeaveStep DEF approval
<1>3. CASE /\ Verified(State(p).token, State(p).proposal)
           /\ spent' = Consumed(State(p).token)
           /\ Goto(p, "verified") /\ UNCHANGED <<saved, job>>
  <2> DEFINE k == State(p).token
             q == State(p).proposal
  <2>1. /\ k \in Tokens /\ tokens[k].stage = "handed" /\ tokens[k].proposal = q
        /\ k \notin spent /\ spent' = spent \cup {k}
        /\ pc' = [pc EXCEPT ![p] = "verified"] /\ saved' = saved /\ job' = job
    BY <1>3 DEF Verified, Consumed, Goto
  <2>2. Issued(k, q) /\ ~ Ran(k)
    BY <2>1 DEF IInv, ApprovalInv
  <2>3. Typed'
    <3>1. "verified" \in Places
      BY DEF Places
    <3> QED
      BY <1>1, <2>1, <3>1 DEF IInv, Typed
  <2>4. ApprovalInv' /\ ApprovedOnce'
    BY <1>1, <2>1 DEF IInv, ApprovalInv, ApprovedOnce, Issued, Ran, Is
  <2>5. /\ pc'[p] = "verified" /\ \A r \in Processes \ {p} : pc'[r] = pc[r]
        /\ \A r \in Processes : State(r)' = State(r)
    BY <2>1 DEF IInv, Typed, State
  <2>6. \A r \in Processes \ {p} : pc[r] = "verified" => State(r).token # k
    BY <2>1 DEF IInv, VerifiedInv
  <2> HIDE DEF k, q
  <2>7. VerifiedInv'
    <3>1. \A x, y : (Issued(x, y)' <=> Issued(x, y)) /\ (Ran(x)' <=> Ran(x))
      BY <1>1 DEF Issued, Ran
    <3>2. State(p).token = k /\ State(p).proposal = q
      BY DEF k, q
    <3>3. ASSUME NEW r \in Processes, pc'[r] = "verified"
          PROVE  (State(r).token \in spent /\ Issued(State(r).token, State(r).proposal)
                  /\ ~ Ran(State(r).token))'
      <4>1. CASE r = p
        BY <2>1, <2>2, <2>5, <3>1, <3>2, <4>1
      <4>2. CASE r # p
        BY <2>1, <2>5, <3>1, <3>3, <4>2 DEF IInv, VerifiedInv
      <4> QED
        BY <4>1, <4>2
    <3>4. ASSUME NEW r \in Processes, NEW u \in Processes, pc'[r] = "verified",
                 pc'[u] = "verified", (State(r).token = State(u).token)'
          PROVE  r = u
      BY <2>5, <2>6, <3>2, <3>4 DEF IInv, VerifiedInv
    <3> QED
      BY <3>3, <3>4 DEF VerifiedInv
  <2> QED
    BY <2>3, <2>4, <2>7 DEF IInv
<1> QED
  BY <1>2, <1>3 DEF StateChange

LEMMA RecordStep ==
  ASSUME IInv, NEW p \in Processes, Record(p)
  PROVE  IInv'
<1>1. tokens' = tokens /\ spent' = spent
  BY DEF Record
<1>2. CASE Leave(p) /\ UNCHANGED trail
  BY <1>1, <1>2, LeaveStep DEF approval
<1>3. CASE /\ trail' = Append(trail, Row("simulated-execute", State(p).token, State(p).proposal))
           /\ Goto(p, "recorded") /\ UNCHANGED <<saved, job>>
  <2> DEFINE k == State(p).token
             q == State(p).proposal
             row == Row("simulated-execute", k, q)
  <2>1. pc' = [pc EXCEPT ![p] = "recorded"] /\ saved' = saved /\ job' = job
    BY <1>3 DEF Goto
  <2>2. k \in spent /\ Issued(k, q) /\ ~ Ran(k)
    BY DEF IInv, VerifiedInv, Record, At
  <2>3. row \in Entry /\ row.action = "simulated-execute" /\ row.token = k /\ row.proposal = q
    BY <2>2, StateOf DEF IInv, Typed, Entry, Row, StateIs
  <2>4. trail' = Append(trail, row)
    BY <1>3
  <2> HIDE DEF row, k, q
  <2>5. /\ trail' \in Seq(Entry)
        /\ Len(trail) \in Nat /\ DOMAIN trail = 1..Len(trail)
        /\ DOMAIN trail' = 1..(Len(trail) + 1)
        /\ \A i \in DOMAIN trail : trail'[i] = trail[i]
        /\ trail'[Len(trail) + 1] = row
        /\ \A x, y : Issued(x, y)' <=> Issued(x, y)
        /\ \A x : Ran(x)' <=> Ran(x) \/ k = x
    BY <2>3, <2>4, AppendStep
  <2>6. Typed'
    <3>1. "recorded" \in Places
      BY DEF Places
    <3> QED
      BY <1>1, <2>1, <2>5, <3>1 DEF IInv, Typed
  <2>7. ApprovalInv'
    BY <1>1, <2>2, <2>5 DEF IInv, ApprovalInv
  <2>8. VerifiedInv'
    <3>1. /\ pc'[p] # "verified" /\ \A r \in Processes \ {p} : pc'[r] = pc[r]
          /\ \A r \in Processes : State(r)' = State(r)
      BY <2>1 DEF IInv, Typed, State
    <3>2. \A r \in Processes \ {p} : pc[r] = "verified" => State(r).token # k
      BY DEF IInv, VerifiedInv, Record, At, k
    <3> QED
      BY <1>1, <2>5, <3>1, <3>2 DEF IInv, VerifiedInv
  <2>9. ApprovedOnce'
    <3> DEFINE n == Len(trail) + 1
    <3>1. PICK m \in DOMAIN trail : /\ trail[m].action = "token-issued" /\ trail[m].token = k
                                    /\ trail[m].proposal = q
      BY <2>2 DEF Issued
    <3>2. \A i \in DOMAIN trail : trail[i].action = "simulated-execute" => trail[i].token # k
      BY <2>2 DEF Ran
    <3>3. ASSUME NEW i \in DOMAIN trail', trail'[i].action = "simulated-execute"
          PROVE  /\ \E j \in 1..(i - 1) : /\ j \in DOMAIN trail'
                      /\ trail'[j].action = "token-issued"
                      /\ trail'[j].token = trail'[i].token
                      /\ trail'[j].proposal = trail'[i].proposal
                 /\ \A j \in DOMAIN trail' \ {i} :
                      trail'[j].action = "simulated-execute" =>
                        trail'[j].token # trail'[i].token
      <4>1. CASE i = n
        <5>1. m \in 1..(i - 1) /\ m \in DOMAIN trail' /\ trail'[m] = trail[m]
          BY <2>5, <4>1
        <5>2. \A j \in DOMAIN trail' \ {i} : j \in DOMAIN trail /\ trail'[j] = trail[j]
          BY <2>5, <4>1
        <5>3. trail'[i] = row
          BY <2>5, <4>1
        <5> QED
          BY <2>3, <3>1, <3>2, <5>1, <5>2, <5>3
      <4>2. CASE i # n
        <5>1. i \in DOMAIN trail /\ trail'[i] = trail[i]
          BY <2>5, <4>2
        <5>2. PICK j \in 1..(i - 1) : /\ j \in DOMAIN trail /\ trail[j].action = "token-issued"
                                      /\ trail[j].token = trail[i].token
                                      /\ trail[j].proposal = trail[i].proposal
          BY <3>3, <5>1 DEF IInv, ApprovedOnce, Is
        <5>3. j \in DOMAIN trail' /\ trail'[j] = trail[j]
          BY <2>5, <5>2
        <5>4. \A u \in DOMAIN trail' \ {i} : trail'[u].action = "simulated-execute" =>
                trail'[u].token # trail'[i].token
          <6>1. SUFFICES ASSUME NEW u \in DOMAIN trail' \ {i},
                                trail'[u].action = "simulated-execute"
                         PROVE  trail'[u].token # trail'[i].token
            OBVIOUS
          <6>2. CASE u = n
            BY <2>3, <2>5, <3>2, <3>3, <5>1, <6>2
          <6>3. CASE u # n
            <7>1. u \in DOMAIN trail /\ trail'[u] = trail[u]
              BY <2>5, <6>3
            <7> QED
              BY <3>3, <5>1, <6>1, <7>1 DEF IInv, ApprovedOnce, Is
          <6> QED
            BY <6>2, <6>3
        <5> QED
          BY <5>1, <5>2, <5>3, <5>4
      <4> QED
        BY <4>1, <4>2
    <3> QED
      BY <3>3 DEF ApprovedOnce, Is
  <2> QED
    BY <2>6, <2>7, <2>8, <2>9 DEF IInv
<1> QED
  BY <1>2, <1>3 DEF Record

\* An approval goes one stage on, and the trail stays.
LEMMA StageStep ==
  ASSUME IInv, NEW k \in Tokens, NEW x, TokenIs(x), UNCHANGED <<graph, spent, trail>>,
         tokens' = [tokens EXCEPT ![k] = x],
         x.stage \in {"issued", "handed", "expired"} => Issued(k, x.proposal)
  PROVE  IInv'
<1>1. pc' = pc /\ job' = job /\ saved' = saved /\ spent' = spent /\ trail' = trail
  BY DEF graph
<1>2. Typed'
  BY <1>1 DEF IInv, Typed
<1>3. ApprovalInv'
  <2>1. \A u, y : (Issued(u, y)' <=> Issued(u, y)) /\ (Ran(u)' <=> Ran(u))
    BY <1>1 DEF Issued, Ran
  <2>2. tokens'[k] = x /\ \A u \in Tokens \ {k} : tokens'[u] = tokens[u]
    BY DEF IInv, Typed
  <2> QED
    BY <1>1, <2>1, <2>2 DEF IInv, ApprovalInv
<1>4. VerifiedInv' /\ ApprovedOnce'
  BY <1>1 DEF IInv, VerifiedInv, ApprovedOnce, State, Issued, Ran, Is
<1> QED
  BY <1>2, <1>3, <1>4 DEF IInv

LEMMA SignStep ==
  ASSUME IInv, NEW k \in Tokens, Sign(k)
  PROVE  IInv'
<1>1. PICK t \in Threads :
        tokens' = [tokens EXCEPT ![k] = [stage |-> "signed", proposal |-> saved[t].proposal]]
  BY DEF Sign
<1> DEFINE x == [stage |-> "signed", proposal |-> saved[t].proposal]
<1>2. TokenIs(x) /\ x.stage = "signed"
  BY DEF IInv, Typed, StateIs, TokenIs
<1>3. UNCHANGED <<graph, spent, trail>> /\ tokens' = [tokens EXCEPT ![k] = x]
  BY <1>1 DEF Sign
<1> HIDE DEF x
<1> QED
  BY <1>2, <1>3, StageStep

LEMMA HandOutExpireStep ==
  ASSUME IInv, NEW k \in Tokens, HandOut(k) \/ Expire(k)
  PROVE  IInv'
<1>1. PICK s \in {"handed", "expired"} : tokens' = [tokens EXCEPT ![k].stage = s]
  BY DEF HandOut, Expire
<1>2. TokenIs(tokens[k]) /\ tokens[k].stage \in {"issued", "handed"}
  BY DEF IInv, Typed, HandOut, Expire, Recorded
<1> DEFINE x == [tokens[k] EXCEPT !.stage = s]
<1>3. TokenIs(x) /\ x.proposal = tokens[k].proposal
  BY <1>2 DEF TokenIs
<1>4. UNCHANGED <<graph, spent, trail>> /\ tokens' = [tokens EXCEPT ![k] = x]
  BY <1>1 DEF HandOut, Expire
<1>5. Issued(k, x.proposal)
  BY <1>2, <1>3 DEF IInv, ApprovalInv
<1> HIDE DEF x
<1> QED
  BY <1>3, <1>4, <1>5, StageStep

LEMMA RecordDecisionStep ==
  ASSUME IInv, NEW k \in Tokens, RecordDecision(k)
  PROVE  IInv'
<1> DEFINE q == tokens[k].proposal
           row == Row("token-issued", k, q)
<1>1. pc' = pc /\ job' = job /\ saved' = saved /\ spent' = spent
  BY DEF RecordDecision, graph
<1>2. row \in Entry /\ row.action = "token-issued" /\ row.token = k /\ row.proposal = q
  BY DEF IInv, Typed, TokenIs, Entry, Row
<1>3. trail' = Append(trail, row)
  BY DEF RecordDecision
<1>4. /\ tokens' = [tokens EXCEPT ![k].stage = "issued"] /\ TokenIs(tokens[k])
  BY DEF RecordDecision, IInv, Typed
<1>5. /\ DOMAIN tokens' = Tokens /\ tokens' = [u \in Tokens |-> tokens'[u]]
      /\ TokenIs(tokens'[k]) /\ tokens'[k].proposal = q
      /\ \A u \in Tokens \ {k} : tokens'[u] = tokens[u]
  BY <1>4 DEF IInv, Typed, TokenIs
<1> HIDE DEF row, q
<1>6. /\ trail' \in Seq(Entry)
      /\ Len(trail) \in Nat /\ DOMAIN trail = 1..Len(trail)
      /\ DOMAIN trail' = 1..(Len(trail) + 1)
      /\ \A i \in DOMAIN trail : trail'[i] = trail[i]
      /\ trail'[Len(trail) + 1] = row
      /\ \A x, y : Issued(x, y)' <=> Issued(x, y) \/ (k = x /\ q = y)
      /\ \A x : Ran(x)' <=> Ran(x)
  BY <1>2, <1>3, AppendStep
<1>7. Typed'
  BY <1>1, <1>5, <1>6 DEF IInv, Typed
<1>8. ApprovalInv'
  BY <1>1, <1>5, <1>6 DEF IInv, ApprovalInv
<1>9. VerifiedInv'
  BY <1>1, <1>6 DEF IInv, VerifiedInv, State
<1>10. ApprovedOnce'
  <2>1. \A i \in DOMAIN trail' : trail'[i].action = "simulated-execute" =>
          i \in DOMAIN trail /\ trail'[i] = trail[i]
    BY <1>2, <1>6
  <2>2. \A i \in DOMAIN trail : i \in DOMAIN trail'
    BY <1>6
  <2> QED
    BY <1>6, <2>1, <2>2 DEF IInv, ApprovedOnce, Is
<1> QED
  BY <1>7, <1>8, <1>9, <1>10 DEF IInv

-----------------------------------------------------------------------------
LEMMA InitInv == Init => IInv
<1> SUFFICES ASSUME Init PROVE IInv
  OBVIOUS
<1>1. trail = <<>> /\ DOMAIN trail = {}
  BY DEF Init
<1>2. Typed
  <2>1. pc \in [Processes -> Places]
    BY DEF Init, Places
  <2>2. saved = [t \in Threads |-> saved[t]] /\ \A t \in Threads : StateIs(saved[t])
    BY DEF Init, StateIs, NoState, Proposed
  <2>3. job = [p \in Processes |-> job[p]] /\ \A p \in Processes : JobIs(job[p])
    BY NoJobIs DEF Init
  <2>4. /\ DOMAIN tokens = Tokens /\ tokens = [k \in Tokens |-> tokens[k]]
        /\ \A k \in Tokens : TokenIs(tokens[k])
    BY DEF Init, TokenIs, Proposed
  <2> QED
    BY <1>1, <2>1, <2>2, <2>3, <2>4 DEF Init, Typed
<1>3. ApprovalInv /\ ApprovedOnce
  BY <1>1 DEF Init, ApprovalInv, ApprovedOnce, Ran, Issued, Is
<1>4. VerifiedInv
  BY DEF Init, VerifiedInv
<1> QED
  BY <1>2, <1>3, <1>4 DEF IInv

LEMMA NextInv == IInv /\ [Next]_vars => IInv'
<1> SUFFICES ASSUME IInv, [Next]_vars PROVE IInv'
  OBVIOUS
<1>1. ASSUME NEW p \in Processes, Invocation(p) PROVE IInv'
  <2>1. CASE Return(p)
    BY <2>1, LeaveStep DEF Return
  <2> QED
    BY <1>1, <2>1, InvokeStep, ResumeStep, SaveStep, KillStep DEF Invocation
<1>2. ASSUME NEW p \in Processes, Node(p) PROVE IInv'
  BY <1>2, ReconStep, FuzzStep, FuzzTargetStep, GuideStep, ExploitStep, SeamStep,
     StateChangeStep, RecordStep, ExecuteStep DEF Node
<1>3. ASSUME NEW k \in Tokens, Approve(k) PROVE IInv'
  BY <1>3, SignStep, RecordDecisionStep, HandOutExpireStep DEF Approve
<1>4. CASE UNCHANGED vars
  <2>1. /\ saved' = saved /\ pc' = pc /\ job' = job
        /\ tokens' = tokens /\ spent' = spent /\ trail' = trail
    BY <1>4 DEF vars, graph, approval
  <2> QED
    BY <2>1 DEF IInv, Typed, ApprovalInv, VerifiedInv, ApprovedOnce, State, Issued, Ran, Is
<1> QED
  BY <1>1, <1>2, <1>3, <1>4 DEF Next

\* The invariant holds in every reachable state, whatever the constants
\* (agent/supervisor.py, agent/approval.py).
THEOREM Invariance == Spec => []IInv
BY InitInv, NextInv, PTL DEF Spec

\* No state change runs that was not approved before, as it runs, and no approval runs
\* twice, for any threads, processes, proposals and approvals (verify_approval,
\* consume_nonce, ApprovalLedger).
THEOREM RunsApproved == Spec => []ApprovedOnce
<1>1. IInv => ApprovedOnce
  BY DEF IInv
<1> QED
  BY <1>1, Invariance, PTL

-----------------------------------------------------------------------------
(***************************************************************************)
(* The account of one thread.  R are the processes that run it; may[p] is  *)
(* what p may still send, seen[p] the budget as p will report it, run[p]   *)
(* what it sent and no written checkpoint counts; s is what was sent, b    *)
(* the budget of the checkpoint, and l the number of lost counts.  Each    *)
(* process, and the checkpoint, is behind what was sent and what the       *)
(* others may still send by one run for each lost count, at most.          *)
(***************************************************************************)
Owed(S, may) == {x \in S \X (1..MaxRun) : x[2] <= may[x[1]]}
Debt(S, may) == Cardinality(Owed(S, may))

Account(R, may, seen, run, s, b, l) ==
  /\ IsFiniteSet(R)
  /\ \A p \in R : s + Debt(R \ {p}, may) <= seen[p] + MaxRun * l
  /\ \/ s + Debt(R, may) <= b + MaxRun * l
     \/ \E p \in R : s + Debt(R \ {p}, may) <= b + run[p] + MaxRun * l
  /\ s < Ceiling + MaxRun * (1 + l)
  /\ l = 0 => /\ \A p, q \in R : p = q
              /\ R = {} => s = b
              /\ \A p \in R : s = seen[p] /\ s = b + run[p]

Figures(may, seen, run) ==
  \A p \in Processes : may[p] \in 0..MaxRun /\ seen[p] \in Nat /\ run[p] \in 0..MaxRun
                       /\ may[p] + run[p] <= MaxRun

LEMMA RunIsNat == MaxRun \in Nat
BY SyndicateAssumption DEF MaxRun

LEMMA Times == \A m, l \in Nat : /\ m * l \in Nat
                                 /\ m * (1 + l) = m + m * l /\ m * (l + 1) = m * l + m
                                 /\ m * (1 + (l + 1)) = m + m * l + m
OBVIOUS

LEMMA DebtIsNat ==
  ASSUME NEW S, IsFiniteSet(S), NEW may
  PROVE  IsFiniteSet(Owed(S, may)) /\ Debt(S, may) \in Nat
<1>1. IsFiniteSet(1..MaxRun)
  BY RunIsNat, FS_Interval
<1>2. IsFiniteSet(S \X (1..MaxRun))
  BY <1>1, FS_Product
<1>3. Owed(S, may) \in SUBSET (S \X (1..MaxRun))
  BY DEF Owed
<1> QED
  BY <1>2, <1>3, FS_Subset, FS_CardinalityType DEF Debt

LEMMA DebtSame ==
  ASSUME NEW S, NEW may, NEW may2, \A q \in S : may2[q] = may[q]
  PROVE  Debt(S, may2) = Debt(S, may)
<1>1. Owed(S, may2) = Owed(S, may)
  BY DEF Owed
<1> QED
  BY <1>1 DEF Debt

LEMMA DebtNone == \A may : Debt({}, may) = 0
BY FS_EmptySet DEF Debt, Owed

LEMMA Interval == \A n \in Nat : IsFiniteSet(1..n) /\ Cardinality(1..n) = n
<1> TAKE n \in Nat
<1>1. 1 \in Int /\ n \in Int
  OBVIOUS
<1>2. IsFiniteSet(1..n) /\ Cardinality(1..n) = IF 1 > n THEN 0 ELSE n - 1 + 1
  BY <1>1, FS_Interval
<1> QED
  BY <1>2

LEMMA DebtOne ==
  ASSUME NEW p, NEW may, may[p] \in 0..MaxRun
  PROVE  IsFiniteSet(Owed({p}, may)) /\ Debt({p}, may) = may[p]
<1>1. IsFiniteSet({p}) /\ Cardinality({p}) = 1
  BY FS_Singleton
<1>2. may[p] \in Nat /\ IsFiniteSet(1..may[p]) /\ Cardinality(1..may[p]) = may[p]
  BY RunIsNat, Interval
<1>3. Owed({p}, may) = {p} \X (1..may[p])
  BY RunIsNat DEF Owed
<1>4. Cardinality({p} \X (1..may[p])) = 1 * may[p]
  BY <1>1, <1>2, FS_Product
<1>5. IsFiniteSet({p} \X (1..may[p]))
  BY <1>1, <1>2, FS_Product
<1>6. Cardinality({p} \X (1..may[p])) = may[p]
  BY <1>2, <1>4
<1> QED
  BY <1>3, <1>5, <1>6 DEF Debt

LEMMA DebtAdd ==
  ASSUME NEW S, IsFiniteSet(S), NEW p, p \notin S, NEW may, may[p] \in 0..MaxRun
  PROVE  Debt(S \cup {p}, may) = Debt(S, may) + may[p]
<1>1. Owed(S \cup {p}, may) = Owed(S, may) \cup Owed({p}, may)
  BY DEF Owed
<1>2. Owed(S, may) \cap Owed({p}, may) = {}
  BY DEF Owed
<1>3. IsFiniteSet(Owed(S, may)) /\ Debt(S, may) \in Nat
  BY DebtIsNat
<1>4. IsFiniteSet(Owed({p}, may)) /\ Debt({p}, may) = may[p]
  BY DebtOne
<1>5. Cardinality(Owed(S, may) \cup Owed({p}, may)) =
        Cardinality(Owed(S, may)) + Cardinality(Owed({p}, may)) - Cardinality({})
  BY <1>2, <1>3, <1>4, FS_Union
<1>6. Debt(S \cup {p}, may) = Debt(S, may) + Debt({p}, may) - 0
  BY <1>1, <1>5, FS_EmptySet DEF Debt
<1>7. may[p] \in Nat
  BY RunIsNat
<1> QED
  BY <1>3, <1>4, <1>6, <1>7

LEMMA DebtSplit ==
  ASSUME NEW R, IsFiniteSet(R), NEW p \in R, NEW may, may[p] \in 0..MaxRun
  PROVE  /\ IsFiniteSet(R \ {p}) /\ Debt(R \ {p}, may) \in Nat /\ Debt(R, may) \in Nat
         /\ Debt(R, may) = Debt(R \ {p}, may) + may[p]
<1>1. IsFiniteSet(R \ {p}) /\ (R \ {p}) \cup {p} = R /\ p \notin R \ {p}
  BY FS_RemoveElement
<1>2. Debt(R, may) = Debt(R \ {p}, may) + may[p]
  BY <1>1, DebtAdd
<1> QED
  BY <1>1, <1>2, DebtIsNat

-----------------------------------------------------------------------------
(* What a step does to an account.  Only the figures of p change.          *)

Only(R, p, may, seen, run, may2, seen2, run2) ==
  /\ Figures(may, seen, run) /\ Figures(may2, seen2, run2) /\ R \subseteq Processes
  /\ \A q \in R \ {p} : may2[q] = may[q] /\ seen2[q] = seen[q] /\ run2[q] = run[q]

\* What is owed with p and without it, before and after; and what is owed to another.
Split(R, p, may, may2) ==
  /\ may[p] \in Nat /\ may2[p] \in Nat
  /\ Debt(R, may) \in Nat /\ Debt(R, may2) \in Nat
  /\ Debt(R \ {p}, may) \in Nat /\ Debt(R \ {p}, may2) = Debt(R \ {p}, may)
  /\ Debt(R, may) = Debt(R \ {p}, may) + may[p]
  /\ Debt(R, may2) = Debt(R \ {p}, may) + may2[p]

SplitOther(R, p, q, may, may2) ==
  /\ Debt(R \ {q}, may) \in Nat /\ Debt(R \ {q}, may2) \in Nat
  /\ Debt((R \ {p}) \ {q}, may2) \in Nat
  /\ Debt(R \ {q}, may) = Debt((R \ {p}) \ {q}, may2) + may[p]
  /\ Debt(R \ {q}, may2) = Debt((R \ {p}) \ {q}, may2) + may2[p]

LEMMA Owing ==
  ASSUME NEW R, NEW p \in R, NEW may, NEW seen, NEW run, NEW may2, NEW seen2, NEW run2,
         Only(R, p, may, seen, run, may2, seen2, run2), IsFiniteSet(R)
  PROVE  Split(R, p, may, may2)
<1>1. may[p] \in 0..MaxRun /\ may2[p] \in 0..MaxRun
  BY DEF Only, Figures
<1>2. Debt(R \ {p}, may2) = Debt(R \ {p}, may)
  BY DebtSame DEF Only
<1>3. /\ Debt(R, may) \in Nat /\ Debt(R \ {p}, may) \in Nat
      /\ Debt(R, may) = Debt(R \ {p}, may) + may[p]
  BY <1>1, DebtSplit
<1>4. Debt(R, may2) \in Nat /\ Debt(R, may2) = Debt(R \ {p}, may2) + may2[p]
  BY <1>1, DebtSplit
<1>5. may[p] \in Nat /\ may2[p] \in Nat
  BY <1>1, RunIsNat
<1> QED
  BY <1>2, <1>3, <1>4, <1>5 DEF Split

LEMMA OwingOther ==
  ASSUME NEW R, NEW p \in R, NEW may, NEW seen, NEW run, NEW may2, NEW seen2, NEW run2,
         Only(R, p, may, seen, run, may2, seen2, run2), IsFiniteSet(R),
         NEW q \in R \ {p}
  PROVE  SplitOther(R, p, q, may, may2)
<1> DEFINE T == R \ {q}
<1>1. IsFiniteSet(T) /\ p \in T
  BY FS_RemoveElement
<1>2. Only(T, p, may, seen, run, may2, seen2, run2)
  BY DEF Only
<1>3. T \ {p} = (R \ {p}) \ {q}
  OBVIOUS
<1> HIDE DEF T
<1>4. /\ Debt(T, may) \in Nat /\ Debt(T, may2) \in Nat
      /\ Debt(T \ {p}, may) \in Nat /\ Debt(T \ {p}, may2) = Debt(T \ {p}, may)
      /\ Debt(T, may) = Debt(T \ {p}, may) + may[p]
      /\ Debt(T, may2) = Debt(T \ {p}, may) + may2[p]
  <2>1. Split(T, p, may, may2)
    BY <1>1, <1>2, Owing
  <2> QED
    BY <2>1 DEF Split
<1>5. Debt(T \ {p}, may2) \in Nat
  BY <1>4
<1> QED
  BY <1>3, <1>4, <1>5 DEF T, SplitOther

\* p goes on, and may send no more than before.
LEMMA AccountMove ==
  ASSUME NEW R, NEW p \in R, NEW may, NEW seen, NEW run, NEW may2, NEW seen2, NEW run2,
         Only(R, p, may, seen, run, may2, seen2, run2),
         NEW s \in Nat, NEW b \in Nat, NEW l \in Nat, Account(R, may, seen, run, s, b, l),
         may2[p] <= may[p], seen2[p] = seen[p], run2[p] = run[p]
  PROVE  Account(R, may2, seen2, run2, s, b, l)
<1> DEFINE X == MaxRun * l
<1>1. X \in Nat
  BY RunIsNat, Times
<1>2. IsFiniteSet(R) /\ \A q \in R : seen2[q] = seen[q] /\ run2[q] = run[q] /\ run[q] \in Nat
                                      /\ seen[q] \in Nat
  BY RunIsNat DEF Account, Only, Figures
<1>3. /\ Debt(R, may2) \in Nat /\ Debt(R, may2) <= Debt(R, may) /\ Debt(R, may) \in Nat
      /\ \A q \in R : /\ Debt(R \ {q}, may2) \in Nat /\ Debt(R \ {q}, may) \in Nat
                      /\ Debt(R \ {q}, may2) <= Debt(R \ {q}, may)
  <2>1. Split(R, p, may, may2)
    <3>1. IsFiniteSet(R)
      BY <1>2
    <3> QED
      BY <3>1, Owing
  <2>2. ASSUME NEW q \in R \ {p}
        PROVE  /\ Debt(R \ {q}, may2) \in Nat /\ Debt(R \ {q}, may) \in Nat
               /\ Debt(R \ {q}, may2) <= Debt(R \ {q}, may)
    <3>1. IsFiniteSet(R)
      BY <1>2
    <3>2. SplitOther(R, p, q, may, may2)
      BY <3>1, OwingOther
    <3> QED
      BY <2>1, <3>2 DEF Split, SplitOther
  <2>3. /\ Debt(R, may2) <= Debt(R, may)
        /\ Debt(R \ {p}, may2) \in Nat /\ Debt(R \ {p}, may) \in Nat
        /\ Debt(R \ {p}, may2) <= Debt(R \ {p}, may)
    BY <2>1 DEF Split
  <2>4. ASSUME NEW q \in R
        PROVE  /\ Debt(R \ {q}, may2) \in Nat /\ Debt(R \ {q}, may) \in Nat
               /\ Debt(R \ {q}, may2) <= Debt(R \ {q}, may)
    BY <2>2, <2>3
  <2> QED
    BY <2>1, <2>3, <2>4 DEF Split
<1>4. /\ \A q \in R : s + Debt(R \ {q}, may) <= seen[q] + X
      /\ \/ s + Debt(R, may) <= b + X
         \/ \E q \in R : s + Debt(R \ {q}, may) <= b + run[q] + X
  BY DEF Account
<1> HIDE DEF X
<1>5. \A q \in R : s + Debt(R \ {q}, may2) <= seen2[q] + X
  BY <1>1, <1>2, <1>3, <1>4
<1>6. \/ s + Debt(R, may2) <= b + X
      \/ \E q \in R : s + Debt(R \ {q}, may2) <= b + run2[q] + X
  <2>1. CASE s + Debt(R, may) <= b + X
    BY <1>1, <1>3, <2>1
  <2>2. ASSUME NEW q \in R, s + Debt(R \ {q}, may) <= b + run[q] + X
        PROVE  s + Debt(R \ {q}, may2) <= b + run2[q] + X
    BY <1>1, <1>2, <1>3, <2>2
  <2> QED
    BY <1>4, <2>1, <2>2
<1> QED
  BY <1>2, <1>5, <1>6 DEF Account, X

\* p sends n requests of those it may still send.
LEMMA AccountSend ==
  ASSUME NEW R, NEW p \in R, NEW may, NEW seen, NEW run, NEW may2, NEW seen2, NEW run2,
         Only(R, p, may, seen, run, may2, seen2, run2),
         NEW s \in Nat, NEW b \in Nat, NEW l \in Nat, Account(R, may, seen, run, s, b, l),
         NEW n \in Nat, may[p] = may2[p] + n, seen2[p] = seen[p] + n, run2[p] = run[p] + n,
         seen2[p] < Ceiling + MaxRun
  PROVE  Account(R, may2, seen2, run2, s + n, b, l)
<1> DEFINE X == MaxRun * l
<1>1. X \in Nat /\ MaxRun * (1 + l) = MaxRun + X /\ Ceiling \in Nat
  BY RunIsNat, Times, SyndicateAssumption
<1>2. /\ IsFiniteSet(R) /\ \A q \in R : run[q] \in Nat /\ seen[q] \in Nat
      /\ \A q \in R \ {p} : seen2[q] = seen[q] /\ run2[q] = run[q]
  BY RunIsNat DEF Account, Only, Figures
<1>3. /\ Debt(R, may2) \in Nat /\ Debt(R, may) = Debt(R, may2) + n
      /\ Debt(R \ {p}, may) \in Nat /\ Debt(R \ {p}, may2) = Debt(R \ {p}, may)
      /\ \A q \in R \ {p} : /\ Debt(R \ {q}, may2) \in Nat
                            /\ Debt(R \ {q}, may) = Debt(R \ {q}, may2) + n
  <2>1. Split(R, p, may, may2)
    <3>1. IsFiniteSet(R)
      BY <1>2
    <3> QED
      BY <3>1, Owing
  <2>2. ASSUME NEW q \in R \ {p}
        PROVE  /\ Debt(R \ {q}, may2) \in Nat
               /\ Debt(R \ {q}, may) = Debt(R \ {q}, may2) + n
    <3>1. IsFiniteSet(R)
      BY <1>2
    <3>2. SplitOther(R, p, q, may, may2)
      BY <3>1, OwingOther
    <3> QED
      BY <2>1, <3>2 DEF Split, SplitOther
  <2> QED
    BY <2>1, <2>2 DEF Split
<1>4. /\ \A q \in R : s + Debt(R \ {q}, may) <= seen[q] + X
      /\ \/ s + Debt(R, may) <= b + X
         \/ \E q \in R : s + Debt(R \ {q}, may) <= b + run[q] + X
  BY DEF Account
<1> HIDE DEF X
<1>5. ASSUME NEW q \in R
      PROVE  s + n + Debt(R \ {q}, may2) <= seen2[q] + X
  <2>1. CASE q = p
    BY <1>1, <1>2, <1>3, <1>4, <2>1
  <2>2. CASE q # p
    <3>1. /\ Debt(R \ {q}, may2) \in Nat /\ Debt(R \ {q}, may) = Debt(R \ {q}, may2) + n
          /\ seen2[q] = seen[q] /\ seen[q] \in Nat
      BY <1>2, <1>3, <2>2
    <3>2. s + Debt(R \ {q}, may) <= seen[q] + X
      BY <1>4
    <3> QED
      BY <1>1, <3>1, <3>2
  <2> QED
    BY <2>1, <2>2
<1>6. \/ s + n + Debt(R, may2) <= b + X
      \/ \E q \in R : s + n + Debt(R \ {q}, may2) <= b + run2[q] + X
  <2>1. CASE s + Debt(R, may) <= b + X
    BY <1>1, <1>3, <2>1
  <2>2. ASSUME NEW q \in R, s + Debt(R \ {q}, may) <= b + run[q] + X
        PROVE  s + n + Debt(R \ {q}, may2) <= b + run2[q] + X
    <3>1. CASE q = p
      BY <1>1, <1>2, <1>3, <2>2, <3>1
    <3>2. CASE q # p
      BY <1>1, <1>2, <1>3, <2>2, <3>2
    <3> QED
      BY <3>1, <3>2
  <2> QED
    BY <1>4, <2>1, <2>2
<1>7. s + n < Ceiling + (MaxRun + X)
  <2>1. s + n + Debt(R \ {p}, may2) <= seen2[p] + X
    BY <1>5
  <2>2. Debt(R \ {p}, may2) \in Nat /\ seen2[p] \in Nat
    BY <1>2, <1>3
  <2> QED
    BY <1>1, <2>1, <2>2, RunIsNat
<1>8. l = 0 => /\ \A q, r \in R : q = r
               /\ R = {} => s + n = b
               /\ \A q \in R : s + n = seen2[q] /\ s + n = b + run2[q]
  BY <1>2 DEF Account
<1> QED
  BY <1>1, <1>2, <1>5, <1>6, <1>7, <1>8 DEF Account, X

\* p writes a checkpoint.
LEMMA AccountSave ==
  ASSUME NEW R, NEW p \in R, NEW may, NEW seen, NEW run, NEW may2, NEW seen2, NEW run2,
         Only(R, p, may, seen, run, may2, seen2, run2),
         NEW s \in Nat, NEW b \in Nat, NEW l \in Nat, Account(R, may, seen, run, s, b, l),
         may2[p] = may[p], seen2[p] = seen[p], NEW c \in Nat, seen[p] = c + run2[p]
  PROVE  Account(R, may2, seen2, run2, s, c, l)
<1>1. IsFiniteSet(R) /\ \A q \in R : seen2[q] = seen[q]
  BY DEF Account, Only
<1>2. \A q \in R : Debt(R \ {q}, may2) = Debt(R \ {q}, may)
  BY DebtSame DEF Only
<1>3. \A q \in R : s + Debt(R \ {q}, may) <= seen[q] + MaxRun * l
  BY DEF Account
<1>4. s + Debt(R \ {p}, may2) <= c + run2[p] + MaxRun * l
  BY <1>2, <1>3
<1>5. s < Ceiling + MaxRun * (1 + l)
  BY DEF Account
<1>6. l = 0 => /\ \A q, r \in R : q = r
               /\ R # {}
               /\ \A q \in R : s = seen2[q] /\ s = c + run2[q]
  BY <1>1 DEF Account
<1> QED
  BY <1>1, <1>2, <1>3, <1>4, <1>5, <1>6 DEF Account

\* p stops: with nothing that is not counted, or losing a count.
LEMMA AccountLeave ==
  ASSUME NEW R, NEW p \in R, NEW may, NEW seen, NEW run, NEW may2, NEW seen2, NEW run2,
         Only(R, p, may, seen, run, may2, seen2, run2),
         NEW s \in Nat, NEW b \in Nat, NEW l \in Nat, Account(R, may, seen, run, s, b, l),
         NEW k \in Nat, (k = l /\ run[p] = 0) \/ k = l + 1
  PROVE  Account(R \ {p}, may2, seen2, run2, s, b, k)
<1> DEFINE X == MaxRun * l
           Y == MaxRun * k
<1>1. /\ X \in Nat /\ Y \in Nat /\ ((Y = X /\ run[p] = 0) \/ Y = X + MaxRun)
      /\ MaxRun * (1 + l) = MaxRun + X /\ MaxRun * (1 + k) = MaxRun + Y /\ Ceiling \in Nat
  BY RunIsNat, Times, SyndicateAssumption
<1>2. /\ IsFiniteSet(R) /\ \A q \in R : run[q] \in 0..MaxRun /\ seen[q] \in Nat
      /\ \A q \in R \ {p} : seen2[q] = seen[q] /\ run2[q] = run[q]
  BY RunIsNat DEF Account, Only, Figures
<1>3. IsFiniteSet(R \ {p})
  BY <1>2, FS_RemoveElement
<1>4. /\ Debt(R \ {p}, may2) \in Nat /\ Debt(R \ {p}, may) = Debt(R \ {p}, may2)
      /\ Debt(R, may) \in Nat /\ Debt(R \ {p}, may2) <= Debt(R, may)
      /\ \A q \in R \ {p} : /\ Debt((R \ {p}) \ {q}, may2) \in Nat
                            /\ Debt(R \ {q}, may) \in Nat
                            /\ Debt((R \ {p}) \ {q}, may2) <= Debt(R \ {q}, may)
  <2>1. Split(R, p, may, may2)
    <3>1. IsFiniteSet(R)
      BY <1>2
    <3> QED
      BY <3>1, Owing
  <2>2. ASSUME NEW q \in R \ {p}
        PROVE  /\ Debt((R \ {p}) \ {q}, may2) \in Nat
               /\ Debt(R \ {q}, may) \in Nat
               /\ Debt((R \ {p}) \ {q}, may2) <= Debt(R \ {q}, may)
    <3>1. IsFiniteSet(R)
      BY <1>2
    <3>2. SplitOther(R, p, q, may, may2)
      BY <3>1, OwingOther
    <3> QED
      BY <2>1, <3>2 DEF Split, SplitOther
  <2>3. /\ Debt(R \ {p}, may2) \in Nat /\ Debt(R \ {p}, may) = Debt(R \ {p}, may2)
        /\ Debt(R, may) \in Nat /\ Debt(R \ {p}, may2) <= Debt(R, may)
    BY <2>1 DEF Split
  <2> QED
    BY <2>2, <2>3
<1>5. /\ \A q \in R : s + Debt(R \ {q}, may) <= seen[q] + X
      /\ \/ s + Debt(R, may) <= b + X
         \/ \E q \in R : s + Debt(R \ {q}, may) <= b + run[q] + X
      /\ s < Ceiling + (MaxRun + X)
  BY <1>1 DEF Account
<1> HIDE DEF X, Y
<1>6. ASSUME NEW q \in R \ {p}
      PROVE  s + Debt((R \ {p}) \ {q}, may2) <= seen2[q] + Y
  <2>1. /\ Debt((R \ {p}) \ {q}, may2) \in Nat /\ Debt(R \ {q}, may) \in Nat
        /\ Debt((R \ {p}) \ {q}, may2) <= Debt(R \ {q}, may)
        /\ seen2[q] = seen[q] /\ seen[q] \in Nat
    BY <1>2, <1>4
  <2>2. s + Debt(R \ {q}, may) <= seen[q] + X
    BY <1>5
  <2>3. X <= Y
    BY <1>1, RunIsNat
  <2> QED
    BY <1>1, <2>1, <2>2, <2>3
<1>7. \/ s + Debt(R \ {p}, may2) <= b + Y
      \/ \E q \in R \ {p} : s + Debt((R \ {p}) \ {q}, may2) <= b + run2[q] + Y
  <2>1. CASE s + Debt(R, may) <= b + X
    BY <1>1, <1>4, <2>1, RunIsNat
  <2>2. ASSUME NEW q \in R, s + Debt(R \ {q}, may) <= b + run[q] + X
        PROVE  <1>7
    <3>1. CASE q = p
      <4>1. run[p] \in 0..MaxRun
        BY <1>2
      <4>2. s + Debt(R \ {p}, may2) <= b + run[p] + X
        BY <1>4, <2>2, <3>1
      <4>3. s + Debt(R \ {p}, may2) <= b + Y
        BY <1>1, <1>4, <4>1, <4>2, RunIsNat
      <4> QED
        BY <4>3
    <3>2. CASE q # p
      <4>1. /\ Debt((R \ {p}) \ {q}, may2) \in Nat /\ Debt(R \ {q}, may) \in Nat
            /\ Debt((R \ {p}) \ {q}, may2) <= Debt(R \ {q}, may)
            /\ run2[q] = run[q] /\ run[q] \in Nat
        BY <1>2, <1>4, <3>2, RunIsNat
      <4>2. X <= Y
        BY <1>1, RunIsNat
      <4>3. s + Debt((R \ {p}) \ {q}, may2) <= b + run2[q] + Y
        BY <1>1, <2>2, <4>1, <4>2
      <4> QED
        BY <3>2, <4>3
    <3> QED
      BY <3>1, <3>2
  <2> QED
    BY <1>5, <2>1, <2>2
<1>8. s < Ceiling + (MaxRun + Y)
  BY <1>1, <1>5, RunIsNat
<1>9. k = 0 => /\ \A q, r \in R \ {p} : q = r
               /\ R \ {p} = {} => s = b
               /\ \A q \in R \ {p} : s = seen2[q] /\ s = b + run2[q]
  <2> SUFFICES ASSUME k = 0
               PROVE  R \ {p} = {} /\ s = b
    OBVIOUS
  <2>1. l = 0 /\ run[p] = 0
    OBVIOUS
  <2>2. (\A q, r \in R : q = r) /\ s = b + run[p]
    BY <2>1 DEF Account
  <2> QED
    BY <2>1, <2>2
<1> QED
  BY <1>1, <1>3, <1>6, <1>7, <1>8, <1>9 DEF Account, Y

\* p starts on a thread that nobody runs, or one that others run, which loses a count.
LEMMA AccountBegin ==
  ASSUME NEW R, NEW p \in Processes \ R, NEW may, NEW seen, NEW run,
         NEW may2, NEW seen2, NEW run2, Only(R \cup {p}, p, may, seen, run, may2, seen2, run2),
         NEW s \in Nat, NEW b \in Nat, NEW l \in Nat, Account(R, may, seen, run, s, b, l),
         seen2[p] = b, run2[p] = 0,
         NEW k \in Nat, (k = l /\ R = {}) \/ k = l + 1
  PROVE  Account(R \cup {p}, may2, seen2, run2, s, b, k)
<1> DEFINE X == MaxRun * l
           Y == MaxRun * k
           T == R \cup {p}
<1>1. /\ X \in Nat /\ Y \in Nat /\ ((Y = X /\ R = {}) \/ Y = X + MaxRun)
      /\ MaxRun * (1 + l) = MaxRun + X /\ MaxRun * (1 + k) = MaxRun + Y /\ Ceiling \in Nat
  BY RunIsNat, Times, SyndicateAssumption
<1>2. /\ IsFiniteSet(R) /\ may2[p] \in 0..MaxRun
      /\ \A q \in R : /\ run[q] \in 0..MaxRun /\ seen[q] \in Nat /\ may[q] \in 0..MaxRun
                      /\ may[q] + run[q] <= MaxRun
                      /\ may2[q] = may[q] /\ seen2[q] = seen[q] /\ run2[q] = run[q]
  BY RunIsNat DEF Account, Only, Figures
<1>3. IsFiniteSet(T) /\ T \ {p} = R /\ p \in T
  BY <1>2, FS_AddElement
<1>4. Debt(R, may2) = Debt(R, may) /\ Debt(R, may) \in Nat
  BY <1>2, DebtSame, DebtIsNat
<1>5. \A q \in R : /\ Debt(R \ {q}, may) \in Nat
                   /\ Debt(R, may) = Debt(R \ {q}, may) + may[q]
                   /\ Debt(T \ {q}, may2) = Debt(R \ {q}, may) + may2[p]
  <2>1. SUFFICES ASSUME NEW q \in R
                 PROVE  /\ Debt(R \ {q}, may) \in Nat
                        /\ Debt(R, may) = Debt(R \ {q}, may) + may[q]
                        /\ Debt(T \ {q}, may2) = Debt(R \ {q}, may) + may2[p]
    OBVIOUS
  <2>2. Debt(R \ {q}, may) \in Nat /\ Debt(R, may) = Debt(R \ {q}, may) + may[q]
    <3>1. IsFiniteSet(R) /\ may[q] \in 0..MaxRun
      BY <1>2
    <3> QED
      BY <3>1, DebtSplit
  <2>3. Debt(T \ {q}, may2) = Debt(R \ {q}, may2) + may2[p]
    <3>1. IsFiniteSet(T \ {q})
      BY <1>3, FS_RemoveElement
    <3>2. p \in T \ {q} /\ (T \ {q}) \ {p} = R \ {q}
      BY <1>3, <2>1
    <3> HIDE DEF T
    <3>3. Debt(T \ {q}, may2) = Debt((T \ {q}) \ {p}, may2) + may2[p]
      <4>1. may2[p] \in 0..MaxRun
        BY <1>2
      <4> QED
        BY <3>1, <3>2, <4>1, DebtSplit
    <3> QED
      BY <3>2, <3>3
  <2>4. Debt(R \ {q}, may2) = Debt(R \ {q}, may)
    BY <1>2, DebtSame
  <2> QED
    BY <1>3, <2>2, <2>3, <2>4
<1>6. /\ \A q \in R : s + Debt(R \ {q}, may) <= seen[q] + X
      /\ \/ s + Debt(R, may) <= b + X
         \/ \E q \in R : s + Debt(R \ {q}, may) <= b + run[q] + X
      /\ s < Ceiling + (MaxRun + X)
  BY <1>1 DEF Account
<1> HIDE DEF X, Y
<1>7. s + Debt(R, may) <= b + Y
  <2>1. CASE s + Debt(R, may) <= b + X
    BY <1>1, <1>4, <2>1, RunIsNat
  <2>2. ASSUME NEW q \in R, s + Debt(R \ {q}, may) <= b + run[q] + X
        PROVE  s + Debt(R, may) <= b + Y
    <3>1. /\ Debt(R \ {q}, may) \in Nat /\ Debt(R, may) = Debt(R \ {q}, may) + may[q]
          /\ may[q] + run[q] <= MaxRun
      BY <1>2, <1>5
    <3>4. run[q] \in Nat /\ may[q] \in Nat
      BY <1>2, RunIsNat
    <3>2. Y = X + MaxRun
      BY <1>1
    <3> QED
      BY <1>1, <2>2, <3>1, <3>2, <3>4, RunIsNat
  <2> QED
    BY <1>6, <2>1, <2>2
<1>8. ASSUME NEW q \in T
      PROVE  s + Debt(T \ {q}, may2) <= seen2[q] + Y
  <2>1. CASE q = p
    BY <1>3, <1>4, <1>7, <2>1
  <2>2. CASE q # p
    <3>1. q \in R
      BY <2>2
    <3>2. /\ Debt(R \ {q}, may) \in Nat /\ Debt(T \ {q}, may2) = Debt(R \ {q}, may) + may2[p]
          /\ s + Debt(R \ {q}, may) <= seen[q] + X
      BY <1>5, <1>6, <3>1
    <3>3. seen2[q] = seen[q] /\ seen[q] \in Nat
      BY <1>2, <3>1
    <3>4. may2[p] \in Nat /\ may2[p] <= MaxRun /\ Y = X + MaxRun
      BY <1>1, <1>2, <3>1, RunIsNat
    <3> HIDE DEF T
    <3> QED
      BY <1>1, <3>2, <3>3, <3>4, RunIsNat
  <2> QED
    BY <2>1, <2>2
<1>9. s + Debt(T \ {p}, may2) <= b + run2[p] + Y
  BY <1>1, <1>3, <1>4, <1>7
<1>10. s < Ceiling + (MaxRun + Y)
  BY <1>1, <1>6, RunIsNat
<1>11. k = 0 => /\ \A q, r \in T : q = r
                /\ T # {}
                /\ \A q \in T : s = seen2[q] /\ s = b + run2[q]
  <2> SUFFICES ASSUME k = 0
               PROVE  R = {} /\ s = b
    BY <1>3
  <2>1. l = 0 /\ R = {}
    OBVIOUS
  <2> QED
    BY <2>1 DEF Account
<1> QED
  BY <1>1, <1>3, <1>8, <1>9, <1>10, <1>11 DEF Account, Y

\* p runs another thread.
LEMMA AccountElsewhere ==
  ASSUME NEW R, NEW p, p \notin R, NEW may, NEW seen, NEW run, NEW may2, NEW seen2, NEW run2,
         Only(R, p, may, seen, run, may2, seen2, run2),
         NEW s, NEW b, NEW l, Account(R, may, seen, run, s, b, l)
  PROVE  Account(R, may2, seen2, run2, s, b, l)
<1>1. \A q \in R : may2[q] = may[q] /\ seen2[q] = seen[q] /\ run2[q] = run[q]
  BY DEF Only
<1>2. /\ Debt(R, may2) = Debt(R, may)
      /\ \A q \in R : Debt(R \ {q}, may2) = Debt(R \ {q}, may)
  BY <1>1, DebtSame
<1> QED
  BY <1>1, <1>2 DEF Account

-----------------------------------------------------------------------------
(***************************************************************************)
(* The second invariant.  A process that fuzzes is below the ceiling and   *)
(* within its targets, and holds requests that no checkpoint counts only   *)
(* until the checkpoint after them; one that was resumed is of a thread    *)
(* that awaits an approval, and when it is done with one its action is in  *)
(* the trail; and the account of every thread is right.                    *)
(***************************************************************************)
May       == [p \in Processes |-> IF pc[p] \in {"recon", "fuzz"} THEN MaxRun
                                  ELSE IF pc[p] = "fuzzing" THEN MaxRun - job[p].run ELSE 0]
Seen      == [p \in Processes |->
               State(p).budget + IF pc[p] \in {"fuzzing", "guiding"} THEN job[p].run ELSE 0]
Uncounted == [p \in Processes |-> job[p].run]
Lost(t)   == cut[t] + failed[t]

\* The account of t is right, with b in the checkpoint.
Right(t, b) == Account(Running(t), May, Seen, Uncounted, sent[t], b, Lost(t))

BudgetOK(s) == StateOK(s) /\ s.budget < Ceiling + MaxRun
Executed(k, q) == \E i \in DOMAIN trail :
  Is(i, "simulated-execute") /\ trail[i].token = k /\ trail[i].proposal = q

JobTyped(p) ==
  /\ job[p].thread \in Threads /\ job[p].value \in Values /\ BudgetOK(State(p))
  /\ job[p].unsaved \in BOOLEAN /\ job[p].todo \in 0..Targets /\ job[p].run \in 0..MaxRun

Fuzzes(p) ==
  /\ pc[p] = "idle" => ~ job[p].unsaved
  /\ pc[p] \in {"fuzz", "fuzzing", "guiding"} => State(p).next = "fuzz"
  /\ pc[p] \in {"fuzzing", "guiding"} => State(p).budget < Ceiling
  /\ pc[p] = "fuzzing" => job[p].run <= (Targets - job[p].todo) * PerTarget
  /\ job[p].run > 0 => \/ pc[p] \in {"fuzzing", "guiding"}
                       \/ pc[p] = "exploit" /\ State(p).next = "exploit" /\ job[p].unsaved

Answers(p) ==
  /\ job[p].value # "none" => State(p).pending
  /\ pc[p] = "recorded" => Executed(State(p).token, State(p).proposal)
  /\ pc[p] = "end" /\ job[p].value # "none" /\ State(p).proposal # "none" =>
       Executed(State(p).token, State(p).proposal)

Ghosts ==
  /\ sent \in [Threads -> Nat] /\ cut \in [Threads -> Nat] /\ failed \in [Threads -> Nat]
  /\ \A t \in Threads : Lost(t) <= MaxCut

BInv ==
  /\ \A t \in Threads : BudgetOK(saved[t])
  /\ \A p \in Processes : JobTyped(p) /\ Fuzzes(p) /\ Answers(p)
  /\ Ghosts
  /\ \A t \in Threads : Right(t, saved[t].budget)

-----------------------------------------------------------------------------
(* What a step of one process does to the figures: those of the others     *)
(* stay.                                                                   *)
Acts(p, place, j) == pc' = [pc EXCEPT ![p] = place] /\ job' = [job EXCEPT ![p] = j]

LEMMA Others ==
  ASSUME IInv, NEW p \in Processes, NEW place, NEW j, Acts(p, place, j)
  PROVE  /\ pc'[p] = place /\ job'[p] = j
         /\ \A q \in Processes \ {p} : pc'[q] = pc[q] /\ job'[q] = job[q]
BY DEF IInv, Typed, Acts

LEMMA FiguresNow ==
  (\A p \in Processes : JobTyped(p) /\ Fuzzes(p)) => Figures(May, Seen, Uncounted)
<1> SUFFICES ASSUME NEW p \in Processes, JobTyped(p), Fuzzes(p)
             PROVE  May[p] \in 0..MaxRun /\ Seen[p] \in Nat /\ Uncounted[p] \in 0..MaxRun
                    /\ May[p] + Uncounted[p] <= MaxRun
  BY DEF Figures
<1>1. /\ State(p).budget \in Nat /\ job[p].run \in 0..MaxRun /\ MaxRun \in Nat
      /\ pc[p] \in {"recon", "fuzz"} => job[p].run = 0
  BY RunIsNat DEF JobTyped, Fuzzes, BudgetOK, StateOK
<1> QED
  BY <1>1 DEF May, Seen, Uncounted

LEMMA FiguresThen ==
  (\A p \in Processes : JobTyped(p)' /\ Fuzzes(p)') => Figures(May', Seen', Uncounted')
<1> SUFFICES ASSUME NEW p \in Processes, JobTyped(p)', Fuzzes(p)'
             PROVE  May'[p] \in 0..MaxRun /\ Seen'[p] \in Nat /\ Uncounted'[p] \in 0..MaxRun
                    /\ May'[p] + Uncounted'[p] <= MaxRun
  BY DEF Figures
<1>1. /\ State(p)'.budget \in Nat /\ job'[p].run \in 0..MaxRun /\ MaxRun \in Nat
      /\ pc'[p] \in {"recon", "fuzz"} => job'[p].run = 0
  BY RunIsNat DEF JobTyped, Fuzzes, BudgetOK, StateOK
<1> QED
  BY <1>1 DEF May, Seen, Uncounted

\* The part of the invariant that is not the account.
Steady == /\ \A t \in Threads : BudgetOK(saved[t])
          /\ \A p \in Processes : JobTyped(p) /\ Fuzzes(p) /\ Answers(p)
          /\ Ghosts

LEMMA StepOf ==
  ASSUME IInv, BInv, NEW p \in Processes, NEW place, NEW j, Acts(p, place, j),
         JobTyped(p)', Fuzzes(p)', Answers(p)', \A t \in Threads : BudgetOK(saved[t])', Ghosts',
         \A k, x : Executed(k, x) => Executed(k, x)'
  PROVE  /\ Steady'
         /\ \A R \in SUBSET Processes :
              Only(R, p, May, Seen, Uncounted, May', Seen', Uncounted')
         /\ \A t : Running(t)' = IF place # "idle" /\ j.thread = t
                                 THEN Running(t) \cup {p} ELSE Running(t) \ {p}
<1>1. /\ pc'[p] = place /\ job'[p] = j
      /\ \A q \in Processes \ {p} : pc'[q] = pc[q] /\ job'[q] = job[q]
  BY Others
<1>2. \A q \in Processes \ {p} : JobTyped(q)' /\ Fuzzes(q)' /\ Answers(q)'
  BY <1>1 DEF BInv, JobTyped, Fuzzes, Answers, State
<1>3. \A q \in Processes \ {p} : /\ May'[q] = May[q] /\ Seen'[q] = Seen[q]
                                 /\ Uncounted'[q] = Uncounted[q]
  BY <1>1 DEF May, Seen, Uncounted, State
<1>4. Figures(May, Seen, Uncounted)
  BY FiguresNow DEF BInv
<1>5. Figures(May', Seen', Uncounted')
  BY <1>2, FiguresThen
<1>6. \A R \in SUBSET Processes : Only(R, p, May, Seen, Uncounted, May', Seen', Uncounted')
  BY <1>3, <1>4, <1>5 DEF Only
<1>7. ASSUME NEW t
      PROVE  Running(t)' = IF place # "idle" /\ j.thread = t
                           THEN Running(t) \cup {p} ELSE Running(t) \ {p}
  BY <1>1 DEF Running, At, Thread
<1> QED
  BY <1>2, <1>6, <1>7 DEF Steady

LEMMA Accounts ==
  ASSUME Steady', \A t \in Threads : Right(t, saved[t].budget)'
  PROVE  BInv'
BY DEF Steady, BInv

\* What the account of each thread is about.
LEMMA AccountOf ==
  ASSUME BInv, NEW t \in Threads
  PROVE  /\ Account(Running(t), May, Seen, Uncounted, sent[t], saved[t].budget, Lost(t))
         /\ sent[t] \in Nat /\ saved[t].budget \in Nat /\ Lost(t) \in Nat
         /\ Running(t) \in SUBSET Processes
<1>1. Account(Running(t), May, Seen, Uncounted, sent[t], saved[t].budget, Lost(t))
  BY DEF BInv, Right
<1>2. sent[t] \in Nat /\ Lost(t) \in Nat
  BY DEF BInv, Ghosts, Lost
<1>3. saved[t].budget \in Nat
  BY DEF BInv, BudgetOK, StateOK
<1> QED
  BY <1>1, <1>2, <1>3 DEF Running

\* The process goes on on its thread, and may send no more than before.
LEMMA StayStep ==
  ASSUME IInv, BInv, NEW p \in Processes, NEW place, NEW j, Acts(p, place, j),
         JobTyped(p)', Fuzzes(p)', Answers(p)', UNCHANGED <<saved, ghosts>>,
         \A k, x : Executed(k, x) => Executed(k, x)',
         pc[p] # "idle", place # "idle", j.thread = Thread(p),
         May'[p] <= May[p], Seen'[p] = Seen[p], Uncounted'[p] = Uncounted[p]
  PROVE  BInv'
<1>1. saved' = saved /\ sent' = sent /\ \A t : Lost(t)' = Lost(t)
  BY DEF ghosts, Lost
<1>2. (\A t \in Threads : BudgetOK(saved[t])') /\ Ghosts'
  BY <1>1 DEF BInv, ghosts, Ghosts, BudgetOK, StateOK, Lost
<1>3. /\ Steady'
      /\ \A R \in SUBSET Processes :
           Only(R, p, May, Seen, Uncounted, May', Seen', Uncounted')
      /\ \A t : Running(t)' = IF place # "idle" /\ j.thread = t
                              THEN Running(t) \cup {p} ELSE Running(t) \ {p}
  BY <1>2, StepOf
<1>4. ASSUME NEW t \in Threads
      PROVE  Right(t, saved[t].budget)'
  <2>1. /\ Account(Running(t), May, Seen, Uncounted, sent[t], saved[t].budget, Lost(t))
        /\ sent[t] \in Nat /\ saved[t].budget \in Nat /\ Lost(t) \in Nat
        /\ Running(t) \in SUBSET Processes
    BY AccountOf
  <2>2. Running(t)' = Running(t)
    BY <1>3 DEF Running, At, Thread
  <2>3. Only(Running(t), p, May, Seen, Uncounted, May', Seen', Uncounted')
    BY <1>3, <2>1
  <2>4. Account(Running(t), May', Seen', Uncounted', sent[t], saved[t].budget, Lost(t))
    <3>1. CASE p \in Running(t)
      BY <2>1, <2>3, <3>1, AccountMove
    <3>2. CASE p \notin Running(t)
      BY <2>1, <2>3, <3>2, AccountElsewhere
    <3> QED
      BY <3>1, <3>2
  <2> QED
    BY <1>1, <2>2, <2>4 DEF Right
<1> QED
  BY <1>3, <1>4, Accounts

\* The process sends n requests of a fuzz run.
LEMMA SendStep ==
  ASSUME IInv, BInv, NEW p \in Processes, NEW place, NEW j, Acts(p, place, j),
         JobTyped(p)', Fuzzes(p)', Answers(p)', UNCHANGED <<saved, cut, failed>>,
         \A k, x : Executed(k, x) => Executed(k, x)',
         pc[p] # "idle", place # "idle", j.thread = Thread(p),
         NEW n \in Nat, sent' = [sent EXCEPT ![Thread(p)] = @ + n],
         May[p] = May'[p] + n, Seen'[p] = Seen[p] + n, Uncounted'[p] = Uncounted[p] + n,
         Seen'[p] < Ceiling + MaxRun
  PROVE  BInv'
<1>1. saved' = saved /\ \A t : Lost(t)' = Lost(t)
  BY DEF Lost
<1>2. (\A t \in Threads : BudgetOK(saved[t])') /\ Ghosts'
  <2>1. \A t \in Threads : sent[t] + n \in Nat
    BY DEF BInv, Ghosts
  <2> QED
    BY <1>1, <2>1 DEF BInv, Ghosts, BudgetOK, StateOK, Lost
<1>3. /\ Steady'
      /\ \A R \in SUBSET Processes :
           Only(R, p, May, Seen, Uncounted, May', Seen', Uncounted')
      /\ \A t : Running(t)' = IF place # "idle" /\ j.thread = t
                              THEN Running(t) \cup {p} ELSE Running(t) \ {p}
  BY <1>2, StepOf
<1>4. ASSUME NEW t \in Threads
      PROVE  Right(t, saved[t].budget)'
  <2>1. /\ Account(Running(t), May, Seen, Uncounted, sent[t], saved[t].budget, Lost(t))
        /\ sent[t] \in Nat /\ saved[t].budget \in Nat /\ Lost(t) \in Nat
        /\ Running(t) \in SUBSET Processes
    BY AccountOf
  <2>2. Running(t)' = Running(t)
    BY <1>3 DEF Running, At, Thread
  <2>3. Only(Running(t), p, May, Seen, Uncounted, May', Seen', Uncounted')
    BY <1>3, <2>1
  <2>4. p \in Running(t) <=> t = Thread(p)
    BY DEF Running, At
  <2>5. sent'[t] = IF t = Thread(p) THEN sent[t] + n ELSE sent[t]
    BY DEF BInv, Ghosts
  <2>6. Account(Running(t), May', Seen', Uncounted', sent'[t], saved[t].budget, Lost(t))
    <3>1. CASE t = Thread(p)
      <4>1. p \in Running(t) /\ sent'[t] = sent[t] + n
        BY <2>4, <2>5, <3>1
      <4>2. Account(Running(t), May', Seen', Uncounted', sent[t] + n, saved[t].budget, Lost(t))
        BY <2>1, <2>3, <4>1, AccountSend
      <4> QED
        BY <4>1, <4>2
    <3>2. CASE t # Thread(p)
      <4>1. p \notin Running(t) /\ sent'[t] = sent[t]
        BY <2>4, <2>5, <3>2
      <4> QED
        BY <2>1, <2>3, <4>1, AccountElsewhere
    <3> QED
      BY <3>1, <3>2
  <2> QED
    BY <1>1, <2>2, <2>6 DEF Right
<1> QED
  BY <1>3, <1>4, Accounts

\* The process writes a checkpoint that counts all but what it still holds.
LEMMA CheckpointStep ==
  ASSUME IInv, BInv, NEW p \in Processes, NEW j, Acts(p, pc[p], j),
         JobTyped(p)', Fuzzes(p)', Answers(p)', UNCHANGED <<trail, ghosts>>,
         pc[p] # "idle", j.thread = Thread(p),
         NEW x, BudgetOK(x), saved' = [saved EXCEPT ![Thread(p)] = x],
         May'[p] = May[p], Seen'[p] = Seen[p], Seen[p] = x.budget + Uncounted'[p]
  PROVE  BInv'
<1>1. sent' = sent /\ \A t : Lost(t)' = Lost(t)
  BY DEF Lost, ghosts
<1>2. (\A t \in Threads : BudgetOK(saved[t])') /\ Ghosts'
  <2>1. Ghosts'
    BY <1>1 DEF BInv, Ghosts, ghosts
  <2>2. \A t \in Threads : BudgetOK(saved'[t])
    BY DEF BInv, IInv, Typed
  <2> QED
    BY <2>1, <2>2 DEF BudgetOK, StateOK
<1>3. \A k, y : Executed(k, y) => Executed(k, y)'
  BY DEF Executed, Is
<1>4. /\ Steady'
      /\ \A R \in SUBSET Processes :
           Only(R, p, May, Seen, Uncounted, May', Seen', Uncounted')
      /\ \A t : Running(t)' = IF pc[p] # "idle" /\ j.thread = t
                              THEN Running(t) \cup {p} ELSE Running(t) \ {p}
  BY <1>2, <1>3, StepOf
<1>5. ASSUME NEW t \in Threads
      PROVE  Right(t, saved[t].budget)'
  <2>1. /\ Account(Running(t), May, Seen, Uncounted, sent[t], saved[t].budget, Lost(t))
        /\ sent[t] \in Nat /\ saved[t].budget \in Nat /\ Lost(t) \in Nat
        /\ Running(t) \in SUBSET Processes
    BY AccountOf
  <2>2. Running(t)' = Running(t)
    BY <1>4 DEF Running, At, Thread
  <2>3. Only(Running(t), p, May, Seen, Uncounted, May', Seen', Uncounted')
    BY <1>4, <2>1
  <2>4. p \in Running(t) <=> t = Thread(p)
    BY DEF Running, At
  <2>5. saved'[t] = IF t = Thread(p) THEN x ELSE saved[t]
    BY DEF IInv, Typed
  <2>6. x.budget \in Nat
    BY DEF BudgetOK, StateOK
  <2>7. Account(Running(t), May', Seen', Uncounted', sent[t], saved'[t].budget, Lost(t))
    <3>1. CASE t = Thread(p)
      <4>1. p \in Running(t) /\ saved'[t].budget = x.budget
        BY <2>4, <2>5, <3>1
      <4>2. Account(Running(t), May', Seen', Uncounted', sent[t], x.budget, Lost(t))
        BY <2>1, <2>3, <2>6, <4>1, AccountSave
      <4> QED
        BY <4>1, <4>2
    <3>2. CASE t # Thread(p)
      <4>1. p \notin Running(t) /\ saved'[t] = saved[t]
        BY <2>4, <2>5, <3>2
      <4> QED
        BY <2>1, <2>3, <4>1, AccountElsewhere
    <3> QED
      BY <3>1, <3>2
  <2> QED
    BY <1>1, <2>2, <2>7 DEF Right
<1> QED
  BY <1>4, <1>5, Accounts

\* A process that is idle holds nothing.
LEMMA NothingHeld ==
  ASSUME NEW p \in Processes, pc'[p] = "idle",
         job'[p] = NoJob(CHOOSE t \in Threads : TRUE)
  PROVE  JobTyped(p)' /\ Fuzzes(p)' /\ Answers(p)'
<1>1. Ceiling + MaxRun > 0 /\ Targets \in Nat /\ MaxRun \in Nat
  BY RunIsNat, SyndicateAssumption
<1>2. (CHOOSE t \in Threads : TRUE) \in Threads
  BY SyndicateAssumption
<1>3. BudgetOK(NoState)
  BY <1>1 DEF NoState, BudgetOK, StateOK, Values
<1>4. State(p)' = NoState
  BY DEF NoJob, State
<1>5. /\ job'[p].thread \in Threads /\ job'[p].value = "none" /\ job'[p].unsaved = FALSE
      /\ job'[p].todo = 0 /\ job'[p].run = 0
  BY <1>2 DEF NoJob
<1>6. JobTyped(p)'
  <2>1. BudgetOK(State(p))'
    BY <1>3, <1>4 DEF BudgetOK, StateOK
  <2>2. 0 \in 0..Targets /\ 0 \in 0..MaxRun
    BY <1>1
  <2> QED
    BY <1>5, <2>1, <2>2 DEF JobTyped, Values
<1>7. Fuzzes(p)' /\ Answers(p)'
  BY DEF Fuzzes, Answers, NoJob
<1> QED
  BY <1>6, <1>7

\* The process stops, with nothing that is not counted, or losing a count.
LEMMA StopStep ==
  ASSUME IInv, BInv, NEW p \in Processes, Acts(p, "idle", NoJob(CHOOSE t \in Threads : TRUE)),
         UNCHANGED <<saved, sent>>, \A k, x : Executed(k, x) => Executed(k, x)', Ghosts',
         pc[p] # "idle", NEW u, u = Thread(p),
         \A t \in Threads \ {u} : Lost(t)' = Lost(t),
         (Lost(u)' = Lost(u) /\ job[p].run = 0) \/ Lost(u)' = Lost(u) + 1
  PROVE  BInv'
<1>1. JobTyped(p)' /\ Fuzzes(p)' /\ Answers(p)'
  BY Others, NothingHeld
<1>2. \A t \in Threads : BudgetOK(saved[t])'
  BY DEF BInv, BudgetOK, StateOK
<1>3. /\ Steady'
      /\ \A R \in SUBSET Processes :
           Only(R, p, May, Seen, Uncounted, May', Seen', Uncounted')
      /\ \A t : Running(t)' = Running(t) \ {p}
  BY <1>1, <1>2, StepOf
<1>4. ASSUME NEW t \in Threads
      PROVE  Right(t, saved[t].budget)'
  <2>1. /\ Account(Running(t), May, Seen, Uncounted, sent[t], saved[t].budget, Lost(t))
        /\ sent[t] \in Nat /\ saved[t].budget \in Nat /\ Lost(t) \in Nat
        /\ Running(t) \in SUBSET Processes
    BY AccountOf
  <2>2. Running(t)' = Running(t) \ {p}
    BY <1>3
  <2>3. Only(Running(t), p, May, Seen, Uncounted, May', Seen', Uncounted')
    BY <1>3, <2>1
  <2>4. p \in Running(t) <=> t = u
    BY DEF Running, At
  <2>5. Account(Running(t)', May', Seen', Uncounted', sent[t], saved[t].budget, Lost(t)')
    <3>1. CASE t = u
      <4>1. p \in Running(t)
        BY <2>4, <3>1
      <4>2. Lost(t)' \in Nat /\ ((Lost(t)' = Lost(t) /\ Uncounted[p] = 0) \/ Lost(t)' = Lost(t) + 1)
        <5>1. Uncounted[p] = job[p].run
          BY DEF Uncounted
        <5> QED
          BY <2>1, <3>1, <5>1
      <4>3. Account(Running(t) \ {p}, May', Seen', Uncounted', sent[t], saved[t].budget, Lost(t)')
        BY <2>1, <2>3, <4>1, <4>2, AccountLeave
      <4> QED
        BY <2>2, <4>3
    <3>2. CASE t # u
      <4>1. p \notin Running(t) /\ Running(t)' = Running(t) /\ Lost(t)' = Lost(t)
        BY <2>2, <2>4, <3>2
      <4> QED
        BY <2>1, <2>3, <4>1, AccountElsewhere
    <3> QED
      BY <3>1, <3>2
  <2> QED
    BY <2>5 DEF Right
<1> QED
  BY <1>3, <1>4, Accounts

\* The process starts from the checkpoint of a thread.
LEMMA StartStep ==
  ASSUME IInv, BInv, NEW p \in Processes, NEW place, NEW j, Acts(p, place, j),
         JobTyped(p)', Fuzzes(p)', Answers(p)', UNCHANGED <<saved, approval, sent>>, Ghosts',
         pc[p] = "idle", place \notin {"idle", "fuzzing", "guiding"}, j.thread \in Threads,
         j.state.budget = saved[j.thread].budget, j.run = 0,
         \A t \in Threads \ {j.thread} : Lost(t)' = Lost(t),
         \/ Lost(j.thread)' = Lost(j.thread) /\ Running(j.thread) = {}
         \/ Lost(j.thread)' = Lost(j.thread) + 1
  PROVE  BInv'
<1>1. \A k, x : Executed(k, x) => Executed(k, x)'
  BY DEF Executed, Is, approval
<1>2. \A t \in Threads : BudgetOK(saved[t])'
  BY DEF BInv, BudgetOK, StateOK
<1>3. /\ Steady'
      /\ \A R \in SUBSET Processes :
           Only(R, p, May, Seen, Uncounted, May', Seen', Uncounted')
      /\ \A t : Running(t)' = IF j.thread = t THEN Running(t) \cup {p} ELSE Running(t) \ {p}
  BY <1>1, <1>2, StepOf
<1>4. Seen'[p] = j.state.budget /\ Uncounted'[p] = 0
  <2>1. pc'[p] = place /\ job'[p] = j
    BY Others
  <2>2. j.state.budget \in Nat
    BY <2>1 DEF JobTyped, BudgetOK, StateOK, State
  <2> QED
    BY <2>1, <2>2 DEF Seen, Uncounted, State
<1>5. ASSUME NEW t \in Threads
      PROVE  Right(t, saved[t].budget)'
  <2>1. /\ Account(Running(t), May, Seen, Uncounted, sent[t], saved[t].budget, Lost(t))
        /\ sent[t] \in Nat /\ saved[t].budget \in Nat /\ Lost(t) \in Nat
        /\ Running(t) \in SUBSET Processes
    BY AccountOf
  <2>2. p \in Processes \ Running(t)
    BY DEF Running, At
  <2>3. Account(Running(t)', May', Seen', Uncounted', sent[t], saved[t].budget, Lost(t)')
    <3>1. CASE t = j.thread
      <4>1. Only(Running(t) \cup {p}, p, May, Seen, Uncounted, May', Seen', Uncounted')
        BY <1>3, <2>1
      <4>2. Lost(t)' \in Nat /\ ((Lost(t)' = Lost(t) /\ Running(t) = {}) \/ Lost(t)' = Lost(t) + 1)
        BY <2>1, <3>1
      <4>3. Seen'[p] = saved[t].budget /\ Uncounted'[p] = 0
        BY <1>4, <3>1
      <4>4. Account(Running(t) \cup {p}, May', Seen', Uncounted', sent[t], saved[t].budget,
                    Lost(t)')
        BY <2>1, <2>2, <4>1, <4>2, <4>3, AccountBegin
      <4> QED
        BY <1>3, <3>1, <4>4
    <3>2. CASE t # j.thread
      <4>1. p \notin Running(t) /\ Running(t)' = Running(t) /\ Lost(t)' = Lost(t)
        BY <1>3, <2>2, <3>2
      <4>2. Only(Running(t), p, May, Seen, Uncounted, May', Seen', Uncounted')
        BY <1>3, <2>1
      <4> QED
        BY <2>1, <4>1, <4>2, AccountElsewhere
    <3> QED
      BY <3>1, <3>2
  <2> QED
    BY <2>3 DEF Right
<1> QED
  BY <1>3, <1>5, Accounts

-----------------------------------------------------------------------------
(* The second invariant, action by action.                                 *)

\* Where a node or an invocation begins, waits, goes to, and what no step takes from the trail.
Entries  == {"recon", "seam", "state change"}
Turns    == {"seam", "state change", "verified"}
Arrivals == {"fuzz", "exploit", "seam", "state change", "end"}
Halts    == {"end", "refusing", "verified", "recorded"}
Trails   == \A k, x : Executed(k, x) => Executed(k, x)'

LEMMA TrailKept == UNCHANGED trail => Trails
BY DEF Trails, Executed, Is

\* What is known of a process and of its state.
LEMMA Known ==
  ASSUME IInv, BInv, NEW p \in Processes
  PROVE  /\ DOMAIN State(p) = {"next", "budget", "found", "proposal", "pending", "token"}
         /\ DOMAIN job[p] = {"thread", "value", "state", "unsaved", "todo", "run"}
         /\ JobTyped(p) /\ Fuzzes(p) /\ Answers(p) /\ BudgetOK(State(p))
         /\ job = [job EXCEPT ![p] = job[p]] /\ pc = [pc EXCEPT ![p] = pc[p]]
         /\ job[p].run \in Nat /\ State(p).budget \in Nat
<1>1. StateIs(State(p)) /\ JobIs(job[p])
  BY StateOf
<1>2. JobTyped(p) /\ Fuzzes(p) /\ Answers(p) /\ BudgetOK(State(p))
  BY DEF BInv, JobTyped
<1>3. job = [job EXCEPT ![p] = job[p]] /\ pc = [pc EXCEPT ![p] = pc[p]]
  BY DEF IInv, Typed
<1>4. job[p].run \in Nat /\ State(p).budget \in Nat
  BY <1>2, RunIsNat DEF JobTyped, BudgetOK, StateOK
<1> QED
  BY <1>1, <1>2, <1>3, <1>4 DEF StateIs, JobIs, NoState, NoJob

\* The figures of a process, before and after a step.
LEMMA FiguresOf ==
  ASSUME NEW p \in Processes
  PROVE  /\ pc[p] \in {"recon", "fuzz"} => May[p] = MaxRun
         /\ pc[p] = "fuzzing" => May[p] = MaxRun - job[p].run
         /\ pc[p] \notin {"recon", "fuzz", "fuzzing"} => May[p] = 0
         /\ pc[p] \in {"fuzzing", "guiding"} => Seen[p] = State(p).budget + job[p].run
         /\ pc[p] \notin {"fuzzing", "guiding"} => Seen[p] = State(p).budget + 0
         /\ Uncounted[p] = job[p].run
BY DEF May, Seen, Uncounted

LEMMA FiguresAfter ==
  ASSUME NEW p \in Processes
  PROVE  /\ pc'[p] \in {"recon", "fuzz"} => May'[p] = MaxRun
         /\ pc'[p] = "fuzzing" => May'[p] = MaxRun - job'[p].run
         /\ pc'[p] \notin {"recon", "fuzz", "fuzzing"} => May'[p] = 0
         /\ pc'[p] \in {"fuzzing", "guiding"} => Seen'[p] = State(p)'.budget + job'[p].run
         /\ pc'[p] \notin {"fuzzing", "guiding"} => Seen'[p] = State(p)'.budget + 0
         /\ Uncounted'[p] = job'[p].run
BY DEF May, Seen, Uncounted

\* A node is done, and reports its state.
LEMMA DoneBudget ==
  ASSUME IInv, BInv, NEW p \in Processes, NEW state, Done(p, state), UNCHANGED <<approval, ghosts>>,
         pc[p] # "idle", BudgetOK(state), state.pending = State(p).pending,
         state.next \in Arrivals,
         state.next = "fuzz" => pc[p] = "recon",
         state.budget = Seen[p], job[p].run > 0 => state.next = "exploit",
         state.next = "end" => \/ job[p].value = "none" \/ state.proposal = "none"
                               \/ Executed(state.token, state.proposal)
  PROVE  BInv'
<1> DEFINE j == [job[p] EXCEPT !.state = state, !.unsaved = TRUE]
<1>1. Acts(p, state.next, j)
  BY DEF Done, Goto, Acts
<1>2. /\ j.thread = job[p].thread /\ j.value = job[p].value /\ j.state = state
      /\ j.unsaved = TRUE /\ j.todo = job[p].todo /\ j.run = job[p].run
  BY Known
<1>3. pc'[p] = state.next /\ job'[p] = j
  BY <1>1, Others
<1> HIDE DEF j
<1>4. JobTyped(p) /\ Answers(p) /\ job[p].run \in Nat /\ MaxRun \in Nat
  BY Known, RunIsNat
<1>5. /\ State(p)' = state /\ Thread(p)' = job[p].thread /\ trail' = trail
  BY <1>2, <1>3 DEF State, Thread, approval
<1>6. JobTyped(p)'
  <2>1. BudgetOK(State(p))'
    BY <1>5 DEF BudgetOK, StateOK
  <2> QED
    BY <1>2, <1>3, <1>4, <2>1 DEF JobTyped
<1>7. Fuzzes(p)'
  BY <1>2, <1>3, <1>4, <1>5 DEF Fuzzes, Arrivals
<1>8. Trails
  BY <1>5, TrailKept
<1>9. Answers(p)'
  BY <1>2, <1>3, <1>4, <1>5, <1>8 DEF Answers, Executed, Is, Arrivals
<1>10. May'[p] <= May[p] /\ Seen'[p] = Seen[p] /\ Uncounted'[p] = Uncounted[p]
  <2>1. Seen'[p] = Seen[p]
    <3>1. state.budget \in Nat
      BY DEF BudgetOK, StateOK
    <3>2. Seen'[p] = state.budget + 0
      BY <1>3, <1>5, FiguresAfter DEF Arrivals
    <3> QED
      BY <3>1, <3>2
  <2>2. Uncounted'[p] = Uncounted[p]
    BY <1>2, <1>3, FiguresOf, FiguresAfter
  <2>3. May'[p] <= May[p]
    <3>1. CASE state.next = "fuzz"
      <4>1. May[p] = MaxRun /\ May'[p] = MaxRun
        BY <1>3, <3>1, FiguresOf, FiguresAfter
      <4> QED
        BY <1>4, <4>1
    <3>2. CASE state.next # "fuzz"
      <4>1. May'[p] = 0
        BY <1>3, <3>2, FiguresAfter DEF Arrivals
      <4>2. May[p] \in 0..MaxRun
        BY FiguresNow DEF BInv, Figures
      <4> QED
        BY <1>4, <4>1, <4>2
    <3> QED
      BY <3>1, <3>2
  <2> QED
    BY <2>1, <2>2, <2>3
<1>11. state.next # "idle" /\ j.thread = Thread(p)
  BY <1>2 DEF Thread, Arrivals
<1>12. UNCHANGED <<saved, ghosts>>
  BY DEF Done
<1> QED
  BY <1>1, <1>6, <1>7, <1>8, <1>9, <1>10, <1>11, <1>12, StayStep DEF Trails

\* The process goes on to another place, with what it holds.
LEMMA GoBudget ==
  ASSUME IInv, BInv, NEW p \in Processes, NEW place \in Halts,
         Goto(p, place), UNCHANGED <<saved, job, ghosts>>, Trails,
         pc[p] \in Turns,
         place = "end" => job[p].value = "none",
         place = "recorded" => Executed(State(p).token, State(p).proposal)'
  PROVE  BInv'
<1>1. Acts(p, place, job[p])
  BY Known DEF Goto, Acts
<1>2. pc'[p] = place /\ job'[p] = job[p]
  BY <1>1, Others
<1>3. JobTyped(p) /\ Fuzzes(p) /\ Answers(p) /\ job[p].run \in Nat /\ MaxRun \in Nat
  BY Known, RunIsNat
<1>4. JobTyped(p)' /\ Fuzzes(p)'
  BY <1>2, <1>3 DEF JobTyped, Fuzzes, BudgetOK, StateOK, State, Halts, Turns
<1>5. Answers(p)'
  BY <1>2, <1>3 DEF Answers, State, Halts
<1>6. May'[p] <= May[p] /\ Seen'[p] = Seen[p] /\ Uncounted'[p] = Uncounted[p]
  <2>1. May'[p] = 0 /\ May[p] = 0
    BY <1>2, FiguresOf, FiguresAfter DEF Halts, Turns
  <2>2. Seen'[p] = State(p)'.budget + 0 /\ Seen[p] = State(p).budget + 0
    BY <1>2, FiguresOf, FiguresAfter DEF Halts, Turns
  <2>3. Uncounted'[p] = Uncounted[p] /\ State(p)' = State(p)
    BY <1>2, FiguresOf, FiguresAfter DEF State
  <2> QED
    BY <2>1, <2>2, <2>3
<1> QED
  BY <1>1, <1>4, <1>5, <1>6, StayStep DEF Trails, Thread, Halts, Turns

\* An invocation that returns or raises has reported all it sent, but for a failed guidance.
LEMMA LeaveBudget ==
  ASSUME IInv, BInv, NEW p \in Processes, Leave(p), UNCHANGED <<approval, ghosts>>,
         pc[p] \notin {"idle", "fuzzing", "guiding"}
  PROVE  BInv'
<1>1. Acts(p, "idle", NoJob(CHOOSE t \in Threads : TRUE)) /\ UNCHANGED <<saved, sent, trail>>
  BY DEF Leave, Goto, Acts, ghosts, approval
<1>2. job[p].run = 0
  BY Known DEF Leave, Fuzzes
<1>3. Ghosts' /\ \A t : Lost(t)' = Lost(t)
  BY DEF ghosts, Ghosts, Lost, BInv
<1>4. Trails
  BY <1>1, TrailKept
<1> QED
  BY <1>1, <1>2, <1>3, <1>4, StopStep DEF Trails

LEMMA LosingGhosts ==
  ASSUME BInv, NEW u \in Threads, MayCut(u), UNCHANGED sent,
         \/ cut' = [cut EXCEPT ![u] = @ + 1] /\ failed' = failed
         \/ failed' = [failed EXCEPT ![u] = @ + 1] /\ cut' = cut
  PROVE  /\ Ghosts'
         /\ Lost(u)' = Lost(u) + 1 /\ \A t \in Threads \ {u} : Lost(t)' = Lost(t)
<1>1. sent \in [Threads -> Nat] /\ cut \in [Threads -> Nat] /\ failed \in [Threads -> Nat]
  BY DEF BInv, Ghosts
<1>2. cut' \in [Threads -> Nat] /\ failed' \in [Threads -> Nat] /\ sent' \in [Threads -> Nat]
  BY <1>1
<1>3. Lost(u)' = Lost(u) + 1 /\ \A t \in Threads \ {u} : Lost(t)' = Lost(t)
  BY <1>1 DEF Lost
<1>4. Lost(u) \in Nat /\ Lost(u) < MaxCut /\ MaxCut \in Nat
  BY <1>1, SyndicateAssumption DEF MayCut, Lost
<1>5. \A t \in Threads : Lost(t)' <= MaxCut
  BY <1>3, <1>4 DEF BInv, Ghosts
<1> QED
  BY <1>2, <1>3, <1>5 DEF Ghosts

LEMMA KillBudget ==
  ASSUME IInv, BInv, NEW p \in Processes, Kill(p)
  PROVE  BInv'
<1>1. /\ Acts(p, "idle", NoJob(CHOOSE t \in Threads : TRUE)) /\ UNCHANGED <<saved, sent, trail, failed>>
      /\ pc[p] # "idle"
  BY DEF Kill, Goto, Acts, approval, At
<1>2. Trails
  BY <1>1, TrailKept
<1>3. PICK u \in Threads : u = Thread(p)
  BY Known DEF JobTyped, Thread
<1>4. CASE job[p].run = 0
  <2>1. cut' = cut
    BY <1>4 DEF Kill
  <2>2. Ghosts' /\ \A t : Lost(t)' = Lost(t)
    BY <1>1, <2>1 DEF Ghosts, Lost, BInv
  <2> QED
    BY <1>1, <1>2, <1>3, <1>4, <2>2, StopStep DEF Trails
<1>5. CASE job[p].run # 0
  <2>1. MayCut(u) /\ cut' = [cut EXCEPT ![u] = @ + 1]
    BY <1>3, <1>5 DEF Kill
  <2>2. Ghosts' /\ Lost(u)' = Lost(u) + 1 /\ \A t \in Threads \ {u} : Lost(t)' = Lost(t)
    BY <1>1, <1>3, <2>1, LosingGhosts
  <2> QED
    BY <1>1, <1>2, <1>3, <2>2, StopStep DEF Trails
<1> QED
  BY <1>4, <1>5

LEMMA BeginBudget ==
  ASSUME IInv, BInv, NEW p \in Processes, NEW t \in Threads, NEW state, NEW value \in Values,
         NEW place \in Entries, Begin(p, t, state, value, place),
         BudgetOK(state), state.budget = saved[t].budget,
         value # "none" => state.pending
  PROVE  BInv'
<1> DEFINE j == [NoJob(t) EXCEPT !.state = state, !.value = value,
                                 !.unsaved = (place = "recon")]
<1>1. Acts(p, place, j) /\ UNCHANGED <<saved, approval, sent, failed>> /\ pc[p] = "idle"
  BY DEF Begin, Goto, Acts, At
<1>2. /\ j.thread = t /\ j.value = value /\ j.state = state /\ j.unsaved \in BOOLEAN
      /\ j.todo = 0 /\ j.run = 0
  BY DEF NoJob
<1> HIDE DEF j
<1>3. pc'[p] = place /\ job'[p] = j
  BY <1>1, Others
<1>4. State(p)' = state
  BY <1>2, <1>3 DEF State
<1>5. JobTyped(p)'
  <2>1. BudgetOK(State(p))'
    BY <1>4 DEF BudgetOK, StateOK
  <2>2. 0 \in 0..Targets /\ 0 \in 0..MaxRun
    <3>1. Targets \in Nat /\ MaxRun \in Nat
      BY RunIsNat, SyndicateAssumption
    <3> QED
      BY <3>1
  <2> QED
    BY <1>2, <1>3, <2>1, <2>2 DEF JobTyped
<1>6. Fuzzes(p)' /\ Answers(p)'
  <2>1. /\ ~ (job'[p].run > 0)
        /\ pc'[p] \notin {"idle", "fuzz", "fuzzing", "guiding", "recorded", "end"}
    <3>1. job'[p].run = 0
      BY <1>2, <1>3
    <3>2. pc'[p] \notin {"idle", "fuzz", "fuzzing", "guiding", "recorded", "end"}
      BY <1>3 DEF Entries
    <3>3. ~ (0 > 0)
      OBVIOUS
    <3> QED
      BY <3>1, <3>2, <3>3
  <2>2. job'[p].value # "none" => State(p)'.pending
    BY <1>2, <1>3, <1>4
  <2> QED
    BY <2>1, <2>2 DEF Fuzzes, Answers
<1>7. /\ Ghosts' /\ \A u \in Threads \ {t} : Lost(u)' = Lost(u)
      /\ (Lost(t)' = Lost(t) /\ Running(t) = {}) \/ Lost(t)' = Lost(t) + 1
  <2>1. CASE Running(t) = {} /\ cut' = cut
    BY <1>1, <2>1 DEF Ghosts, Lost, BInv
  <2>2. CASE MayCut(t) /\ cut' = [cut EXCEPT ![t] = @ + 1]
    BY <1>1, <2>2, LosingGhosts
  <2> QED
    BY <2>1, <2>2 DEF Begin
<1>8. place \notin {"idle", "fuzzing", "guiding"}
  BY DEF Entries
<1> QED
  BY <1>1, <1>2, <1>5, <1>6, <1>7, <1>8, StartStep

LEMMA InvokeBudget ==
  ASSUME IInv, BInv, NEW p \in Processes, NEW t \in Threads, Invoke(p, t)
  PROVE  BInv'
<1>1. PICK pending \in BOOLEAN :
        Begin(p, t, [Input(t) EXCEPT !.pending = pending], "none", "recon")
  <2>1. saved[t].pending \in BOOLEAN
    BY DEF BInv, BudgetOK, StateOK
  <2> QED
    BY <2>1 DEF Invoke
<1> DEFINE s == [Input(t) EXCEPT !.pending = pending]
<1>2. BudgetOK(saved[t]) /\ DOMAIN saved[t] = DOMAIN NoState
  BY DEF BInv, IInv, Typed, StateIs
<1>3. BudgetOK(s) /\ s.budget = saved[t].budget
  BY <1>2 DEF BudgetOK, StateOK, Input, NoState, Nodes
<1>4. "none" \in Values /\ "recon" \in Entries
  BY DEF Values, Entries
<1> HIDE DEF s
<1>5. Begin(p, t, s, "none", "recon")
  BY <1>1 DEF s
<1> QED
  BY <1>3, <1>4, <1>5, BeginBudget

LEMMA ResumeBudget ==
  ASSUME IInv, BInv, NEW p \in Processes, NEW t \in Threads, Resume(p, t)
  PROVE  BInv'
<1>1. PICK v \in Values : Begin(p, t, saved[t], v, saved[t].next)
  BY DEF Resume, Values
<1>2. saved[t].next \in Entries /\ saved[t].pending
  BY DEF Resume, Entries
<1>3. BudgetOK(saved[t])
  BY DEF BInv
<1> QED
  BY <1>1, <1>2, <1>3, BeginBudget

LEMMA SaveBudget ==
  ASSUME IInv, BInv, NEW p \in Processes, Save(p)
  PROVE  BInv'
<1> DEFINE j == [job[p] EXCEPT !.unsaved = FALSE,
                               !.run = IF State(p).next = "exploit" THEN 0 ELSE @]
<1>1. Acts(p, pc[p], j) /\ UNCHANGED <<trail, ghosts>>
  BY Known DEF Save, Acts, approval
<1>2. /\ j.thread = job[p].thread /\ j.value = job[p].value /\ j.state = State(p)
      /\ j.unsaved = FALSE /\ j.todo = job[p].todo
      /\ j.run = IF State(p).next = "exploit" THEN 0 ELSE job[p].run
  BY Known DEF State
<1>3. pc'[p] = pc[p] /\ job'[p] = j
  BY <1>1, Others
<1> HIDE DEF j
<1>4. /\ JobTyped(p) /\ Fuzzes(p) /\ Answers(p) /\ BudgetOK(State(p)) /\ MaxRun \in Nat
      /\ job[p].run \in Nat /\ State(p).budget \in Nat
  BY Known, RunIsNat
<1>5. State(p)' = State(p)
  BY <1>2, <1>3 DEF State
<1>6. JobTyped(p)'
  <2>1. BudgetOK(State(p))'
    BY <1>4, <1>5 DEF BudgetOK, StateOK
  <2>2. 0 \in 0..MaxRun
    BY <1>4
  <2> QED
    BY <1>2, <1>3, <1>4, <2>1, <2>2 DEF JobTyped
<1>7. Fuzzes(p)' /\ Answers(p)'
  <2>1. Fuzzes(p)'
    BY <1>2, <1>3, <1>4, <1>5 DEF Fuzzes
  <2>2. Answers(p)'
    BY <1>1, <1>2, <1>3, <1>4, <1>5 DEF Answers, Executed, Is
  <2> QED
    BY <2>1, <2>2
<1>8. pc[p] # "idle"
  BY <1>4 DEF Fuzzes, Save
<1>9. saved' = [saved EXCEPT ![Thread(p)] = State(p)] /\ j.thread = Thread(p)
  BY <1>2 DEF Save, Thread
<1>10. /\ May'[p] = May[p] /\ Seen'[p] = Seen[p]
       /\ Seen[p] = State(p).budget + Uncounted'[p]
  <2>1. pc[p] \in {"fuzz", "fuzzing", "guiding"} => j.run = job[p].run
    BY <1>2, <1>4 DEF Fuzzes
  <2>2. pc[p] \notin {"fuzzing", "guiding"} => j.run = 0
    BY <1>2, <1>4 DEF Fuzzes
  <2>3. May'[p] = May[p]
    BY <1>3, <2>1, FiguresOf, FiguresAfter
  <2>4. Seen'[p] = Seen[p]
    BY <1>3, <1>5, <2>1, FiguresOf, FiguresAfter
  <2>5. Seen[p] = State(p).budget + Uncounted'[p]
    BY <1>3, <1>4, <2>1, <2>2, FiguresOf, FiguresAfter
  <2> QED
    BY <2>3, <2>4, <2>5
<1> QED
  BY <1>1, <1>4, <1>6, <1>7, <1>8, <1>9, <1>10, CheckpointStep

LEMMA ReconBudget ==
  ASSUME IInv, BInv, NEW p \in Processes, Recon(p)
  PROVE  BInv'
<1> DEFINE s == [State(p) EXCEPT !.next = "fuzz"]
<1>1. UNCHANGED <<approval, ghosts>> /\ pc[p] = "recon" /\ (Leave(p) \/ Done(p, s))
  BY DEF Recon, At
<1>2. CASE Leave(p)
  BY <1>1, <1>2, LeaveBudget
<1>3. CASE Done(p, s)
  <2>1. BudgetOK(s) /\ s.pending = State(p).pending /\ s.budget = State(p).budget /\ s.next = "fuzz"
    BY Known DEF BudgetOK, StateOK, Nodes
  <2>2. job[p].run = 0 /\ Seen[p] = State(p).budget
    BY <1>1, Known DEF Fuzzes, Seen
  <2> HIDE DEF s
  <2>3. ~ (job[p].run > 0) /\ s.budget = Seen[p] /\ pc[p] # "idle" /\ s.next # "end"
    BY <1>1, <2>1, <2>2
  <2>4. s.next \in Arrivals
    BY <2>1 DEF Arrivals
  <2> QED
    BY <1>1, <1>3, <2>1, <2>3, <2>4, DoneBudget
<1> QED
  BY <1>1, <1>2, <1>3

LEMMA FuzzBudget ==
  ASSUME IInv, BInv, NEW p \in Processes, Fuzz(p)
  PROVE  BInv'
<1> DEFINE s == [State(p) EXCEPT !.next = "exploit", !.found = FALSE]
<1>1. UNCHANGED <<approval, ghosts>> /\ pc[p] = "fuzz"
  BY DEF Fuzz, At
<1>2. job[p].run = 0 /\ Seen[p] = State(p).budget
  BY <1>1, Known DEF Fuzzes, Seen
<1>3. CASE Done(p, s)
  <2>1. BudgetOK(s) /\ s.pending = State(p).pending /\ s.budget = State(p).budget
        /\ s.next = "exploit"
    BY Known DEF BudgetOK, StateOK, Nodes
  <2> HIDE DEF s
  <2>2. s.next \in Arrivals
    BY <2>1 DEF Arrivals
  <2>3. ~ (job[p].run > 0) /\ s.budget = Seen[p] /\ pc[p] # "idle" /\ s.next # "end"
        /\ s.next # "fuzz"
    BY <1>1, <1>2, <2>1
  <2> QED
    BY <1>1, <1>3, <2>1, <2>2, <2>3, DoneBudget
<1>4. CASE Leave(p)
  BY <1>1, <1>4, LeaveBudget
<1>5. CASE /\ Goto(p, "fuzzing") /\ job' = [job EXCEPT ![p].todo = Targets] /\ UNCHANGED saved
           /\ ~ Exhausted(State(p))
  <2> DEFINE j == [job[p] EXCEPT !.todo = Targets]
  <2>1. Acts(p, "fuzzing", j) /\ UNCHANGED <<saved, ghosts>>
    BY <1>1, <1>5 DEF Goto, Acts
  <2>2. /\ j.thread = job[p].thread /\ j.value = job[p].value /\ j.state = State(p)
        /\ j.unsaved = job[p].unsaved /\ j.todo = Targets /\ j.run = 0
    BY <1>2, Known DEF State
  <2>3. pc'[p] = "fuzzing" /\ job'[p] = j
    BY <2>1, Others
  <2> HIDE DEF j
  <2>4. /\ JobTyped(p) /\ Fuzzes(p) /\ Answers(p) /\ BudgetOK(State(p)) /\ MaxRun \in Nat
        /\ State(p).budget \in Nat /\ State(p)' = State(p)
    BY <2>2, <2>3, Known, RunIsNat DEF State
  <2>5. JobTyped(p)'
    <3>1. BudgetOK(State(p))'
      BY <2>4 DEF BudgetOK, StateOK
    <3>2. Targets \in 0..Targets /\ 0 \in 0..MaxRun
      BY <2>4, SyndicateAssumption
    <3> QED
      BY <2>2, <2>3, <2>4, <3>1, <3>2 DEF JobTyped
  <2>6. Fuzzes(p)'
    <3>1. 0 <= (Targets - Targets) * PerTarget
      BY SyndicateAssumption
    <3>2. State(p).budget < Ceiling /\ State(p).next = "fuzz"
      BY <1>1, <1>5, <2>4, SyndicateAssumption DEF Exhausted, Fuzzes
    <3> QED
      BY <2>2, <2>3, <2>4, <3>1, <3>2 DEF Fuzzes
  <2>7. Answers(p)'
    BY <2>2, <2>3, <2>4 DEF Answers
  <2>8. May'[p] <= May[p] /\ Seen'[p] = Seen[p] /\ Uncounted'[p] = Uncounted[p]
    BY <1>1, <1>2, <2>2, <2>3, <2>4 DEF May, Seen, Uncounted
  <2>9. Trails
    BY <1>1, TrailKept DEF approval
  <2> QED
    BY <1>1, <2>1, <2>2, <2>5, <2>6, <2>7, <2>8, <2>9, StayStep DEF Trails, Thread
<1> QED
  BY <1>3, <1>4, <1>5 DEF Fuzz

\* A run keeps within its targets and stops at the ceiling.
LEMMA RunBound ==
  ASSUME NEW todo \in 1..Targets, NEW run \in Nat, NEW n \in 0..PerTarget,
         run <= (Targets - todo) * PerTarget, run < Ceiling
  PROVE  run + n <= (Targets - (todo - 1)) * PerTarget /\ run + n <= MaxRun
<1>1. Targets \in Nat /\ PerTarget \in Nat /\ Ceiling \in Nat
  BY SyndicateAssumption
<1>2. \A a, b \in Nat : (a + 1) * b = a * b + b
  OBVIOUS
<1>3. \A a, b, c \in Nat : (a + c) * b = a * b + c * b /\ c * b \in Nat /\ a * b \in Nat
  OBVIOUS
<1> DEFINE a == Targets - todo
           c == todo - 1
<1>4. a \in Nat /\ c \in Nat /\ Targets - (todo - 1) = a + 1 /\ Targets = (a + 1) + c
  BY <1>1
<1>5. (Targets - (todo - 1)) * PerTarget = a * PerTarget + PerTarget /\ a * PerTarget \in Nat
  BY <1>1, <1>2, <1>3, <1>4
<1>6. run + n <= (Targets - (todo - 1)) * PerTarget
  BY <1>1, <1>5
<1>7. Targets * PerTarget = (a + 1) * PerTarget + c * PerTarget /\ c * PerTarget \in Nat
      /\ (a + 1) * PerTarget \in Nat
  BY <1>1, <1>3, <1>4
<1> HIDE DEF c
<1>8. run + n <= Targets * PerTarget
  BY <1>1, <1>4, <1>6, <1>7
<1> QED
  BY <1>1, <1>6, <1>8 DEF MaxRun

LEMMA FuzzTargetBudget ==
  ASSUME IInv, BInv, NEW p \in Processes, FuzzTarget(p)
  PROVE  BInv'
<1>1. /\ UNCHANGED <<saved, approval, cut, failed>> /\ pc[p] = "fuzzing"
      /\ JobTyped(p) /\ Fuzzes(p) /\ Answers(p) /\ BudgetOK(State(p))
      /\ MaxRun \in Nat /\ job[p].run \in Nat /\ State(p).budget \in Nat
  BY Known, RunIsNat DEF FuzzTarget, At
<1>2. Trails
  BY <1>1, TrailKept DEF approval
<1>3. CASE Goto(p, "guiding") /\ UNCHANGED <<job, sent>>
  <2>1. Acts(p, "guiding", job[p])
    BY <1>3, Known DEF Goto, Acts
  <2>2. pc'[p] = "guiding" /\ job'[p] = job[p]
    BY <2>1, Others
  <2>3. JobTyped(p)' /\ Fuzzes(p)' /\ Answers(p)'
    BY <1>1, <2>2 DEF JobTyped, Fuzzes, Answers, BudgetOK, StateOK, State
  <2>4. May'[p] <= May[p] /\ Seen'[p] = Seen[p] /\ Uncounted'[p] = Uncounted[p]
    BY <1>1, <2>2 DEF JobTyped, May, Seen, Uncounted, State
  <2> QED
    BY <1>1, <1>2, <1>3, <2>1, <2>3, <2>4, StayStep DEF Trails, Thread, ghosts
<1>4. ASSUME NEW n \in 0..PerTarget, job[p].todo # 0, ~ (job[p].run >= Ceiling),
             job' = [job EXCEPT ![p].todo = @ - 1, ![p].run = @ + n],
             sent' = [sent EXCEPT ![Thread(p)] = @ + n], pc' = pc
      PROVE  BInv'
  <2> DEFINE j == [job[p] EXCEPT !.todo = @ - 1, !.run = @ + n]
  <2>1. Acts(p, "fuzzing", j)
    BY <1>1, <1>4, Known DEF Acts
  <2>2. /\ j.thread = job[p].thread /\ j.value = job[p].value /\ j.state = State(p)
        /\ j.unsaved = job[p].unsaved /\ j.todo = job[p].todo - 1 /\ j.run = job[p].run + n
    BY Known DEF State
  <2>3. pc'[p] = "fuzzing" /\ job'[p] = j
    BY <2>1, Others
  <2> HIDE DEF j
  <2>4. State(p)' = State(p)
    BY <2>2, <2>3 DEF State
  <2>5. /\ job[p].todo \in 1..Targets /\ job[p].run < Ceiling
        /\ job[p].run <= (Targets - job[p].todo) * PerTarget
        /\ Targets \in Nat /\ PerTarget \in Nat /\ Ceiling \in Nat /\ n \in Nat
    BY <1>1, <1>4, SyndicateAssumption DEF JobTyped, Fuzzes
  <2>6. /\ job[p].run + n <= (Targets - (job[p].todo - 1)) * PerTarget
        /\ job[p].run + n <= MaxRun
    BY <1>1, <2>5, RunBound
  <2>7. JobTyped(p)'
    <3>1. BudgetOK(State(p))'
      BY <1>1, <2>4 DEF BudgetOK, StateOK
    <3>2. job[p].todo - 1 \in 0..Targets /\ job[p].run + n \in 0..MaxRun
      BY <1>1, <2>5, <2>6
    <3> QED
      BY <1>1, <2>2, <2>3, <3>1, <3>2 DEF JobTyped
  <2>8. Fuzzes(p)' /\ Answers(p)'
    <3>1. Fuzzes(p)'
      BY <1>1, <2>2, <2>3, <2>4, <2>6 DEF Fuzzes
    <3>2. Answers(p)'
      BY <1>1, <2>2, <2>3, <2>4 DEF Answers
    <3> QED
      BY <3>1, <3>2
  <2>9. /\ May[p] = May'[p] + n /\ Seen'[p] = Seen[p] + n /\ Uncounted'[p] = Uncounted[p] + n
        /\ Seen'[p] < Ceiling + MaxRun
    <3>1. State(p).budget < Ceiling
      BY <1>1 DEF Fuzzes
    <3>2. Seen'[p] = State(p).budget + (job[p].run + n) /\ Seen[p] = State(p).budget + job[p].run
      BY <1>1, <2>2, <2>3, <2>4 DEF Seen
    <3>3. May'[p] = MaxRun - (job[p].run + n) /\ May[p] = MaxRun - job[p].run
      BY <1>1, <2>2, <2>3 DEF May
    <3>4. Uncounted'[p] = job[p].run + n /\ Uncounted[p] = job[p].run
      BY <2>2, <2>3 DEF Uncounted
    <3> QED
      BY <1>1, <2>5, <2>6, <3>1, <3>2, <3>3, <3>4
  <2> QED
    BY <1>1, <1>2, <1>4, <2>1, <2>2, <2>5, <2>7, <2>8, <2>9, SendStep DEF Trails, Thread
<1> QED
  BY <1>3, <1>4 DEF FuzzTarget

LEMMA GuideBudget ==
  ASSUME IInv, BInv, NEW p \in Processes, Guide(p)
  PROVE  BInv'
<1>1. /\ UNCHANGED <<approval, sent, cut>> /\ pc[p] = "guiding"
      /\ JobTyped(p) /\ Fuzzes(p) /\ Answers(p) /\ BudgetOK(State(p))
      /\ MaxRun \in Nat /\ job[p].run \in Nat /\ State(p).budget \in Nat
  BY Known, RunIsNat DEF Guide, At
<1>2. ASSUME NEW found \in BOOLEAN, failed' = failed,
             Done(p, [State(p) EXCEPT !.next = "exploit", !.found = found,
                                      !.budget = @ + job[p].run])
      PROVE  BInv'
  <2> DEFINE s == [State(p) EXCEPT !.next = "exploit", !.found = found,
                                   !.budget = @ + job[p].run]
  <2>1. Seen[p] = State(p).budget + job[p].run
    BY <1>1, FiguresOf
  <2>2. /\ s.pending = State(p).pending /\ s.budget = State(p).budget + job[p].run
        /\ s.next = "exploit" /\ s.found = found /\ s.proposal = State(p).proposal
        /\ s.token = State(p).token
    BY Known
  <2>3. Done(p, s)
    BY <1>2
  <2> HIDE DEF s
  <2>4. State(p).budget < Ceiling /\ job[p].run <= MaxRun /\ Ceiling \in Nat
    BY <1>1, SyndicateAssumption DEF Fuzzes, JobTyped
  <2>5. s.budget \in Nat /\ s.budget < Ceiling + MaxRun
    BY <1>1, <2>2, <2>4
  <2>6. BudgetOK(s)
    BY <1>1, <2>2, <2>5 DEF BudgetOK, StateOK, Nodes
  <2>7. s.next \in Arrivals /\ s.next # "fuzz" /\ s.next # "end" /\ s.budget = Seen[p]
    BY <2>1, <2>2 DEF Arrivals
  <2>8. pc[p] # "idle" /\ UNCHANGED <<approval, ghosts>>
    BY <1>1, <1>2 DEF ghosts
  <2> QED
    BY <2>2, <2>3, <2>6, <2>7, <2>8, DoneBudget
<1>3. CASE /\ MayCut(Thread(p)) /\ Leave(p)
           /\ failed' = [failed EXCEPT ![Thread(p)] = @ + 1]
  <2>1. PICK u \in Threads : u = Thread(p)
    BY <1>1 DEF JobTyped, Thread
  <2>2. Acts(p, "idle", NoJob(CHOOSE t \in Threads : TRUE)) /\ UNCHANGED <<saved, sent, trail>>
    BY <1>1, <1>3 DEF Leave, Goto, Acts, approval
  <2>3. MayCut(u) /\ failed' = [failed EXCEPT ![u] = @ + 1]
    BY <1>3, <2>1
  <2>4. Ghosts' /\ Lost(u)' = Lost(u) + 1 /\ \A t \in Threads \ {u} : Lost(t)' = Lost(t)
    BY <1>1, <2>3, LosingGhosts
  <2>5. Trails
    BY <2>2, TrailKept
  <2> QED
    BY <1>1, <2>1, <2>2, <2>4, <2>5, StopStep DEF Trails
<1> QED
  <2>1. \A found \in IF job[p].run = 0 THEN {FALSE} ELSE BOOLEAN : found \in BOOLEAN
    OBVIOUS
  <2> QED
    BY <1>2, <1>3, <2>1 DEF Guide

LEMMA ExploitBudget ==
  ASSUME IInv, BInv, NEW p \in Processes, Exploit(p)
  PROVE  BInv'
<1>1. PICK q \in Proposals \cup {"none"} :
        Done(p, [State(p) EXCEPT !.next = "seam", !.proposal = q])
  BY DEF Exploit
<1> DEFINE s == [State(p) EXCEPT !.next = "seam", !.proposal = q]
<1>2. UNCHANGED <<approval, ghosts>> /\ pc[p] = "exploit" /\ ~ job[p].unsaved
  BY <1>1 DEF Exploit, At, Done
<1>3. ~ (job[p].run > 0) /\ Seen[p] = State(p).budget + 0 /\ State(p).budget \in Nat
  BY <1>2, Known, FiguresOf DEF Fuzzes
<1>4. /\ s.pending = State(p).pending /\ s.budget = State(p).budget
      /\ s.next = "seam" /\ s.found = State(p).found /\ s.proposal = q
      /\ s.token = State(p).token
  BY Known
<1>5. Done(p, s)
  BY <1>1
<1> HIDE DEF s
<1>6. BudgetOK(s)
  BY <1>4, Known DEF BudgetOK, StateOK, Nodes
<1>7. s.next \in Arrivals /\ s.next # "fuzz" /\ s.next # "end" /\ s.budget = Seen[p]
  BY <1>3, <1>4 DEF Arrivals
<1>8. pc[p] # "idle"
  BY <1>2
<1> QED
  BY <1>2, <1>3, <1>4, <1>5, <1>6, <1>7, <1>8, DoneBudget

\* The seam and the action change what comes next and what the resume brought.
LEMMA GoOn ==
  ASSUME IInv, BInv, NEW p \in Processes, NEW n \in Arrivals, n # "fuzz", NEW token \in Values,
         Done(p, [State(p) EXCEPT !.next = n, !.token = token]),
         UNCHANGED <<approval, ghosts>>, pc[p] = "seam" \/ pc[p] = "recorded",
         n = "end" => \/ job[p].value = "none" \/ State(p).proposal = "none"
                      \/ Executed(token, State(p).proposal)
  PROVE  BInv'
<1> DEFINE s == [State(p) EXCEPT !.next = n, !.token = token]
<1>1. /\ s.pending = State(p).pending /\ s.budget = State(p).budget
      /\ s.next = n /\ s.found = State(p).found /\ s.proposal = State(p).proposal
      /\ s.token = token
  BY Known
<1>2. Done(p, s)
  OBVIOUS
<1> HIDE DEF s
<1>3. BudgetOK(s)
  <2>1. n \in Nodes \cup {"none", "end"}
    BY DEF Arrivals, Nodes
  <2> QED
    BY <1>1, <2>1, Known DEF BudgetOK, StateOK
<1>4. ~ (job[p].run > 0) /\ Seen[p] = State(p).budget + 0 /\ State(p).budget \in Nat
  BY Known, FiguresOf DEF Fuzzes
<1>5. s.next \in Arrivals /\ s.next # "fuzz" /\ pc[p] # "idle"
  BY <1>1
<1>7. s.budget = Seen[p]
  BY <1>1, <1>4
<1>6. s.next = "end" => \/ job[p].value = "none" \/ s.proposal = "none"
                        \/ Executed(s.token, s.proposal)
  BY <1>1
<1> QED
  BY <1>1, <1>2, <1>3, <1>4, <1>5, <1>6, <1>7, DoneBudget

LEMMA SameToken ==
  ASSUME IInv, BInv, NEW p \in Processes, NEW n
  PROVE  /\ [State(p) EXCEPT !.next = n] = [State(p) EXCEPT !.next = n, !.token = State(p).token]
         /\ State(p).token \in Values
<1>1. StateIs(State(p)) /\ StateOK(State(p))
  BY StateOf, Known DEF BudgetOK
<1> QED
  BY <1>1 DEF StateOK, StateIs, NoState

LEMMA SeamBudget ==
  ASSUME IInv, BInv, NEW p \in Processes, Seam(p)
  PROVE  BInv'
<1>1. UNCHANGED <<approval, ghosts>> /\ pc[p] = "seam" /\ Answers(p) /\ job[p].value \in Values
  BY Known DEF Seam, At, JobTyped
<1>2. CASE ~ State(p).pending
  <2>1. Done(p, [State(p) EXCEPT !.next = "end", !.token = State(p).token])
    BY <1>2, SameToken DEF Seam
  <2>2. job[p].value = "none" /\ "end" \in Arrivals
    BY <1>1, <1>2 DEF Answers, Arrivals
  <2> QED
    BY <1>1, <2>1, <2>2, GoOn, SameToken
<1>3. CASE State(p).pending /\ Paused(p) # "resumed"
  <2>1. Goto(p, Paused(p)) /\ UNCHANGED <<saved, job, ghosts>>
    BY <1>1, <1>3 DEF Seam
  <2>2. Paused(p) \in Halts /\ Paused(p) # "recorded"
        /\ (Paused(p) = "end" => job[p].value = "none")
    BY <1>3 DEF Paused, Halts
  <2>3. Trails /\ pc[p] \in Turns
    BY <1>1, TrailKept DEF approval, Turns
  <2> QED
    BY <2>1, <2>2, <2>3, GoBudget
<1>4. CASE State(p).pending /\ Paused(p) = "resumed"
  <2>1. Done(p, [State(p) EXCEPT !.next = AfterInterrupt(State(p)), !.token = job[p].value])
    BY <1>4 DEF Seam
  <2>2. AfterInterrupt(State(p)) \in Arrivals /\ AfterInterrupt(State(p)) # "fuzz"
        /\ (AfterInterrupt(State(p)) = "end" => State(p).proposal = "none")
    BY DEF AfterInterrupt, Arrivals
  <2> QED
    BY <1>1, <2>1, <2>2, GoOn
<1> QED
  BY <1>2, <1>3, <1>4

LEMMA StateChangeBudget ==
  ASSUME IInv, BInv, NEW p \in Processes, StateChange(p)
  PROVE  BInv'
<1>1. UNCHANGED <<tokens, trail, ghosts>> /\ pc[p] = "state change"
  BY DEF StateChange, At
<1>2. CASE Leave(p) /\ UNCHANGED spent
  BY <1>1, <1>2, LeaveBudget DEF approval
<1>3. CASE Goto(p, "verified") /\ UNCHANGED <<saved, job>>
  <2>1. Trails /\ "verified" \in Halts /\ pc[p] \in Turns
    BY <1>1, TrailKept DEF Halts, Turns
  <2> QED
    BY <1>1, <1>3, <2>1, GoBudget
<1> QED
  BY <1>2, <1>3 DEF StateChange

\* A row more leaves what is in the trail there.
LEMMA Appended ==
  ASSUME IInv, NEW row \in Entry, trail' = Append(trail, row)
  PROVE  Trails /\ (row.action = "simulated-execute" => Executed(row.token, row.proposal)')
<1>1. /\ Len(trail) \in Nat /\ DOMAIN trail = 1..Len(trail)
      /\ DOMAIN trail' = 1..(Len(trail) + 1)
      /\ \A i \in DOMAIN trail : trail'[i] = trail[i]
      /\ trail'[Len(trail) + 1] = row
  BY AppendStep
<1>2. \A i \in DOMAIN trail : i \in DOMAIN trail'
  BY <1>1
<1>3. Len(trail) + 1 \in DOMAIN trail'
  BY <1>1
<1>4. Trails
  BY <1>1, <1>2 DEF Trails, Executed, Is
<1>5. row.action = "simulated-execute" => Executed(row.token, row.proposal)'
  BY <1>1, <1>3 DEF Executed, Is
<1> QED
  BY <1>4, <1>5

LEMMA RecordBudget ==
  ASSUME IInv, BInv, NEW p \in Processes, Record(p)
  PROVE  BInv'
<1>1. UNCHANGED <<tokens, spent, ghosts>> /\ pc[p] = "verified"
  BY DEF Record, At
<1>2. CASE Leave(p) /\ UNCHANGED trail
  BY <1>1, <1>2, LeaveBudget DEF approval
<1>3. CASE /\ trail' = Append(trail, Row("simulated-execute", State(p).token, State(p).proposal))
           /\ Goto(p, "recorded") /\ UNCHANGED <<saved, job>>
  <2>1. State(p).token \in Tokens /\ State(p).proposal \in Proposed
    BY <1>1, StateOf DEF IInv, VerifiedInv, Typed, StateIs
  <2>2. PICK row \in Entry : /\ row = Row("simulated-execute", State(p).token, State(p).proposal)
                             /\ row.action = "simulated-execute"
                             /\ row.token = State(p).token /\ row.proposal = State(p).proposal
    <3> DEFINE x == Row("simulated-execute", State(p).token, State(p).proposal)
    <3>1. x \in Entry /\ x.action = "simulated-execute"
          /\ x.token = State(p).token /\ x.proposal = State(p).proposal
      BY <2>1 DEF Entry, Row
    <3> QED
      BY <3>1
  <2>3. trail' = Append(trail, row)
    BY <1>3, <2>2
  <2>4. Trails /\ Executed(row.token, row.proposal)'
    BY <2>2, <2>3, Appended
  <2>5. Executed(State(p).token, State(p).proposal)'
    <3>1. State(p)'.token = row.token /\ State(p)'.proposal = row.proposal
      BY <1>3, <2>2 DEF State
    <3> QED
      BY <2>4, <3>1 DEF Executed
  <2>6. "recorded" \in Halts /\ pc[p] \in Turns
    BY <1>1 DEF Halts, Turns
  <2> QED
    BY <1>1, <1>3, <2>4, <2>5, <2>6, GoBudget
<1> QED
  BY <1>2, <1>3 DEF Record

LEMMA ExecuteBudget ==
  ASSUME IInv, BInv, NEW p \in Processes, Execute(p)
  PROVE  BInv'
<1>1. UNCHANGED <<approval, ghosts>> /\ pc[p] = "recorded" /\ Answers(p)
  BY Known DEF Execute, At
<1>2. Done(p, [State(p) EXCEPT !.next = "end", !.token = State(p).token])
  BY SameToken DEF Execute
<1>3. Executed(State(p).token, State(p).proposal) /\ "end" \in Arrivals
  BY <1>1 DEF Answers, Arrivals
<1> QED
  BY <1>1, <1>2, <1>3, GoOn, SameToken

\* The person's process touches no thread.
LEMMA ApproveBudget ==
  ASSUME IInv, BInv, UNCHANGED <<graph, ghosts>>, Trails
  PROVE  BInv'
<1>1. /\ saved' = saved /\ pc' = pc /\ job' = job
      /\ sent' = sent /\ cut' = cut /\ failed' = failed
  BY DEF graph, ghosts
<1>2. \A p \in Processes : Answers(p)'
  BY <1>1 DEF BInv, Answers, State, Trails
<1>3. (\A t \in Threads : BudgetOK(saved[t])') /\ Ghosts'
  BY <1>1 DEF BInv, BudgetOK, StateOK, Ghosts, Lost
<1>4. \A p \in Processes : JobTyped(p)' /\ Fuzzes(p)'
  BY <1>1 DEF BInv, JobTyped, Fuzzes, BudgetOK, StateOK, State
<1>5. \A t \in Threads : Right(t, saved[t].budget)'
  <2>1. May' = May /\ Seen' = Seen /\ Uncounted' = Uncounted
    BY <1>1 DEF May, Seen, Uncounted, State
  <2>2. \A t : Running(t)' = Running(t) /\ Lost(t)' = Lost(t)
    BY <1>1 DEF Running, Lost, At, Thread
  <2> QED
    BY <1>1, <2>1, <2>2 DEF BInv, Right
<1> QED
  BY <1>2, <1>3, <1>4, <1>5 DEF BInv

LEMMA ApprovalBudget ==
  ASSUME IInv, BInv, NEW k \in Tokens, Approve(k)
  PROVE  BInv'
<1>1. CASE Sign(k) \/ HandOut(k) \/ Expire(k)
  <2>1. UNCHANGED <<graph, ghosts>> /\ UNCHANGED trail
    BY <1>1 DEF Sign, HandOut, Expire
  <2> QED
    BY <2>1, TrailKept, ApproveBudget
<1>2. CASE RecordDecision(k)
  <2>1. PICK row \in Entry : row = Row("token-issued", k, tokens[k].proposal)
    BY DEF IInv, Typed, TokenIs, Entry, Row
  <2>2. UNCHANGED <<graph, ghosts>> /\ trail' = Append(trail, row)
    BY <1>2, <2>1 DEF RecordDecision
  <2> QED
    BY <2>2, Appended, ApproveBudget
<1> QED
  BY <1>1, <1>2 DEF Approve

-----------------------------------------------------------------------------
LEMMA InitBudget == Init => BInv
<1> SUFFICES ASSUME Init PROVE BInv
  OBVIOUS
<1>1. Ceiling + MaxRun > 0 /\ Ceiling \in Nat /\ Targets \in Nat /\ MaxRun \in Nat /\ MaxCut \in Nat
  BY RunIsNat, SyndicateAssumption
<1>2. (CHOOSE t \in Threads : TRUE) \in Threads
  BY SyndicateAssumption
<1>3. BudgetOK(NoState)
  BY <1>1 DEF NoState, BudgetOK, StateOK, Values
<1>4. \A t \in Threads : saved[t] = NoState
  BY DEF Init
<1>5. \A p \in Processes : pc[p] = "idle" /\ job[p] = NoJob(CHOOSE t \in Threads : TRUE)
  BY DEF Init
<1>6. ASSUME NEW p \in Processes
      PROVE  JobTyped(p) /\ Fuzzes(p) /\ Answers(p)
  <2>1. /\ job[p].thread \in Threads /\ job[p].value = "none" /\ job[p].unsaved = FALSE
        /\ job[p].todo = 0 /\ job[p].run = 0 /\ State(p) = NoState /\ pc[p] = "idle"
    <3>1. job[p] = NoJob(CHOOSE t \in Threads : TRUE) /\ pc[p] = "idle"
      BY <1>5
    <3> QED
      BY <1>2, <3>1 DEF NoJob, State
  <2>2. 0 \in 0..Targets /\ 0 \in 0..MaxRun
    BY <1>1
  <2>3. JobTyped(p)
    BY <1>3, <2>1, <2>2 DEF JobTyped, Values
  <2> QED
    BY <2>1, <2>3 DEF Fuzzes, Answers
<1>7. Ghosts /\ \A t \in Threads : Lost(t) = 0 /\ sent[t] = 0
  <2>1. sent \in [Threads -> Nat] /\ cut \in [Threads -> Nat] /\ failed \in [Threads -> Nat]
    BY DEF Init
  <2>2. \A t \in Threads : Lost(t) = 0 /\ sent[t] = 0
    BY DEF Init, Lost
  <2> QED
    BY <1>1, <2>1, <2>2 DEF Ghosts
<1>8. ASSUME NEW t \in Threads
      PROVE  Right(t, saved[t].budget)
  <2>1. Running(t) = {}
    BY <1>5 DEF Running, At
  <2>2. saved[t].budget = 0
    BY <1>4 DEF NoState
  <2>3. Account({}, May, Seen, Uncounted, 0, 0, 0)
    <3>1. MaxRun * 0 = 0 /\ MaxRun * (1 + 0) = MaxRun
      BY <1>1
    <3>2. IsFiniteSet({}) /\ Debt({}, May) = 0
      BY FS_EmptySet, DebtNone
    <3>3. 0 + 0 <= 0 + 0 /\ 0 < Ceiling + MaxRun
      BY <1>1
    <3> QED
      BY <3>1, <3>2, <3>3 DEF Account
  <2> QED
    BY <1>7, <2>1, <2>2, <2>3 DEF Right
<1> QED
  BY <1>3, <1>4, <1>6, <1>7, <1>8 DEF BInv

LEMMA NextBudget == IInv /\ BInv /\ [Next]_vars => BInv'
<1> SUFFICES ASSUME IInv, BInv, [Next]_vars PROVE BInv'
  OBVIOUS
<1>1. ASSUME NEW p \in Processes, Invocation(p) PROVE BInv'
  <2>1. CASE Return(p)
    <3>1. pc[p] \notin {"idle", "fuzzing", "guiding"} /\ Leave(p) /\ UNCHANGED <<approval, ghosts>>
      BY <2>1 DEF Return, At
    <3> QED
      BY <3>1, LeaveBudget
  <2> QED
    BY <1>1, <2>1, InvokeBudget, ResumeBudget, SaveBudget, KillBudget DEF Invocation
<1>2. ASSUME NEW p \in Processes, Node(p) PROVE BInv'
  BY <1>2, ReconBudget, FuzzBudget, FuzzTargetBudget, GuideBudget, ExploitBudget, SeamBudget,
     StateChangeBudget, RecordBudget, ExecuteBudget DEF Node
<1>3. ASSUME NEW k \in Tokens, Approve(k) PROVE BInv'
  BY <1>3, ApprovalBudget
<1>4. CASE UNCHANGED vars
  <2>1. UNCHANGED <<graph, ghosts>> /\ UNCHANGED trail
    BY <1>4 DEF vars, approval
  <2> QED
    BY <2>1, TrailKept, ApproveBudget
<1> QED
  BY <1>1, <1>2, <1>3, <1>4 DEF Next

\* The account of every thread is right in every reachable state (run_syndicate, fuzz_node).
THEOREM AccountsRight == Spec => []BInv
<1>1. Init => IInv /\ BInv
  BY InitInv, InitBudget
<1>2. (IInv /\ BInv) /\ [Next]_vars => (IInv /\ BInv)'
  BY NextInv, NextBudget
<1>3. Spec => [](IInv /\ BInv)
  BY <1>1, <1>2, PTL DEF Spec
<1>4. IInv /\ BInv => BInv
  OBVIOUS
<1> QED
  BY <1>3, <1>4, PTL

\* Types, what a resume that returns may answer, and the budget that holds, for any threads,
\* processes, proposals and approvals, any number of targets and any ceiling
\* (resume_state_change, run_syndicate, fuzz_node).
THEOREM Exactness == Spec => []ThreadsAreExact
<1>1. IInv /\ BInv => ThreadsAreExact
  <2> SUFFICES ASSUME IInv, BInv PROVE ThreadsAreExact
    OBVIOUS
  <2>1. TypeOK
    <3>1. \A p \in Processes :
            /\ job[p].thread \in Threads /\ job[p].value \in Values /\ StateOK(job[p].state)
            /\ job[p].unsaved \in BOOLEAN /\ job[p].todo \in 0..Targets /\ job[p].run \in 0..MaxRun
      BY DEF BInv, JobTyped, BudgetOK, State
    <3>2. \A t \in Threads : sent[t] \in Nat /\ cut[t] + failed[t] \in 0..MaxCut
      BY SyndicateAssumption DEF BInv, Ghosts, Lost
    <3>3. \A t \in Threads : StateOK(saved[t]) /\ saved[t].budget < Ceiling + MaxRun
      BY DEF BInv, BudgetOK
    <3>4. \A k \in Tokens :
            /\ tokens[k].stage \in {"none", "signed", "issued", "handed", "expired"}
            /\ tokens[k].proposal \in Proposals \cup {"none"}
      BY DEF IInv, Typed, TokenIs, Proposed
    <3>5. \A i \in DOMAIN trail :
            trail[i].action \in {"token-issued", "simulated-execute"} /\ trail[i].token \in Tokens
      <4>1. \A i \in DOMAIN trail : trail[i] \in Entry
        BY DEF IInv, Typed
      <4> QED
        BY <4>1 DEF Entry
    <3> QED
      BY <3>1, <3>2, <3>3, <3>4, <3>5 DEF TypeOK, IInv, Typed
  <2>2. ResumeAnswers
    BY DEF BInv, Answers, ResumeAnswers, Executed, At
  <2>3. BudgetHolds
    <3>1. SUFFICES ASSUME NEW t \in Threads
                   PROVE  /\ sent[t] < Ceiling + MaxRun * (1 + Lost(t))
                          /\ Running(t) = {} /\ Lost(t) = 0 => saved[t].budget = sent[t]
      <4>1. \A t \in Threads : 1 + cut[t] + failed[t] = 1 + Lost(t)
        BY DEF BInv, Ghosts, Lost
      <4> QED
        BY <4>1 DEF BudgetHolds, Lost
    <3>2. Account(Running(t), May, Seen, Uncounted, sent[t], saved[t].budget, Lost(t))
      BY AccountOf
    <3> QED
      BY <3>2 DEF Account
  <2> QED
    BY <2>1, <2>2, <2>3 DEF ThreadsAreExact
<1> QED
  BY <1>1, Invariance, AccountsRight, PTL
=============================================================================
