-------------------------- MODULE BrokerQueueProofs --------------------------
(* Theorems about the command queue, for any number of commands, startup     *)
(* capabilities and pending connections.                                     *)
EXTENDS BrokerQueue, SequenceTheorems, TLAPS

(***************************************************************************)
(* The inductive invariant.  A command is executed by the accept thread    *)
(* only after its claim's capability is spent, and a capability is renewed *)
(* only by a claim of a queued row; no row is ever queued again.           *)
(***************************************************************************)

\* What is known of a command whatever the threads do.
CommandInv(k) ==
  /\ executions[k] <= 1
  /\ k \notin spent => executions[k] = 0
  /\ status[k] \in {"absent", "queued"} => executions[k] = 0
  /\ status[k] = "succeeded" => executions[k] = 1 /\ k \in passed

\* The accept thread has a command that was claimed, and has not executed it yet.
ServingInv ==
  /\ acceptor \in {"authorized", "resolved"} =>
       /\ serving \in Keys /\ serving \in spent
       /\ executions[serving] = 0
       /\ status[serving] \notin {"absent", "queued"}
  /\ acceptor = "executing" => serving \in Keys /\ executions[serving] = 1

\* The dispatch thread holds a command; a success it is about to record was earned.
ClaimInv ==
  /\ dispatcher \in {"connecting", "waiting"} \cup Terminal =>
       claim \in Keys /\ status[claim] \notin {"absent", "queued"}
  /\ dispatcher = "succeeded" => executions[claim] = 1 /\ claim \in passed

IInv ==
  /\ TypeOK
  /\ \A k \in Keys : CommandInv(k)
  /\ ServingInv /\ ClaimInv

LEMMA InitInv == Init => IInv
<1> SUFFICES ASSUME Init PROVE IInv
  OBVIOUS
<1>1. TypeOK
  <2>1. <<>> \in Seq(Keys)
    BY EmptySeq
  <2> QED
    BY <2>1 DEF Init, TypeOK, Terminal
<1> QED
  BY <1>1, BrokerAssumption DEF Init, IInv, CommandInv, ServingInv, ClaimInv, Terminal

-----------------------------------------------------------------------------
(* Type correctness.                                                       *)

LEMMA TypeInv ==
  ASSUME IInv, [Next]_vars
  PROVE  TypeOK'
<1> USE DEF IInv, TypeOK, Terminal, Sessions
<1>1. CASE \E c \in Capabilities : StartBroker(c)
  BY <1>1 DEF StartBroker, threads, life, work, Recovered
<1>2. CASE StopBroker \/ Bootstrap
  BY <1>2 DEF StopBroker, Bootstrap, Unused, queue, threads, life, work
<1>3. CASE \E s \in Sessions : ExpireSession(s)
  BY <1>3 DEF ExpireSession, queue, threads, life, work
<1>4. CASE \E s \in Sessions, k \in Keys : SubmitNew(s, k)
  <2>1. PICK s \in Sessions, k \in Keys : SubmitNew(s, k)
    BY <1>4
  <2>2. rows' \in Seq(Keys)
    BY <2>1, AppendProperties DEF SubmitNew
  <2> QED
    BY <2>1, <2>2 DEF SubmitNew, process, threads, life, work
<1>5. CASE \E s \in Sessions, k \in Keys : SubmitFails(s, k)
  BY <1>5 DEF SubmitFails, queue, threads, life, work
<1>6. CASE StartWorker \/ StopWorker \/ RemoveSocket
  <2>1. <<>> \in Seq(Keys)
    BY EmptySeq
  <2> QED
    BY <1>6, <2>1 DEF StartWorker, StopWorker, RemoveSocket, queue, process, threads, work
<1>7. CASE Claim
  <2>1. \A i \in DOMAIN rows : rows[i] \in Keys
    BY ElementOfSeq
  <2> QED
    BY <1>7, <2>1 DEF Claim, process, life, work
<1>8. CASE Connect
  <2>1. claim \in Keys => Append(backlog, claim) \in Seq(Keys)
    BY AppendProperties
  <2> QED
    BY <1>8, <2>1 DEF Connect, ClaimInv, queue, process, life, work
<1>9. CASE ConnectFails \/ TimesOut
  BY <1>9 DEF ConnectFails, TimesOut, queue, process, life, work
<1>10. CASE Finish
  BY <1>10 DEF Finish, Finishable, process, life, work
<1>11. CASE Accept
  <2>1. backlog # <<>> => Head(backlog) \in Keys /\ Tail(backlog) \in Seq(Keys)
    BY HeadTailProperties
  <2> QED
    BY <1>11, <2>1 DEF Accept, Authorizable, Answer, Heard, process, life, work
<1>12. CASE Resolve
  BY <1>12 DEF Resolve, Answer, Heard, queue, process, life, work
<1>13. CASE Execute
  BY <1>13 DEF Execute, ServingInv, queue, process, life
<1>14. CASE Reply
  BY <1>14 DEF Reply, ServingInv, Answer, Heard, queue, process, life
<1>15. CASE UNCHANGED vars
  BY <1>15 DEF vars, queue, process, threads, life, work
<1> QED
  BY <1>1, <1>2, <1>3, <1>4, <1>5, <1>6, <1>7, <1>8, <1>9, <1>10, <1>11, <1>12, <1>13, <1>14,
     <1>15 DEF Next

-----------------------------------------------------------------------------
(* The invariant, one action after the other.                              *)

LEMMA StartBrokerInv ==
  ASSUME IInv, TypeOK', NEW c \in Capabilities, StartBroker(c)
  PROVE  IInv'
BY DEF IInv, TypeOK, StartBroker, Recovered, CommandInv, ServingInv, ClaimInv, Terminal, threads, life, work

LEMMA SubmitInv ==
  ASSUME IInv, TypeOK', NEW s \in Sessions, NEW k \in Keys, SubmitNew(s, k)
  PROVE  IInv'
BY DEF IInv, TypeOK, SubmitNew, CommandInv, ServingInv, ClaimInv, Terminal, process, threads, life, work

\* What leaves the rows and the executions alone, and no thread with a command it did not have.
LEMMA QuietInv ==
  ASSUME IInv, TypeOK', status' = status, spent' = spent, executions' = executions, passed' = passed,
         \/ acceptor' = acceptor /\ serving' = serving
         \/ acceptor' \in {"off", "accepting"},
         \/ dispatcher' = dispatcher /\ claim' = claim
         \/ dispatcher' \in {"off", "polling"}
         \/ dispatcher \in {"connecting", "waiting"} /\ dispatcher' \in {"waiting", "failed"} /\ claim' = claim
  PROVE  IInv'
BY DEF IInv, TypeOK, CommandInv, ServingInv, ClaimInv, Terminal

LEMMA ClaimStep ==
  ASSUME IInv, TypeOK', Claim
  PROVE  IInv'
<1>1. PICK i \in DOMAIN rows : Oldest(i) /\ claim' = rows[i] /\ spent' = spent \ {rows[i]}
                              /\ status' = [status EXCEPT ![rows[i]] = "running"]
  BY DEF Claim
<1>2. rows[i] \in Keys /\ status[rows[i]] = "queued"
  BY <1>1, ElementOfSeq DEF IInv, TypeOK, Oldest
<1> QED
  BY <1>1, <1>2 DEF IInv, TypeOK, Claim, CommandInv, ServingInv, ClaimInv, Terminal, process, life, work

LEMMA FinishInv ==
  ASSUME IInv, TypeOK', Finish
  PROVE  IInv'
BY DEF IInv, TypeOK, Finish, Finishable, CommandInv, ServingInv, ClaimInv, Terminal, process, life, work

LEMMA AcceptInv ==
  ASSUME IInv, TypeOK', Accept
  PROVE  IInv'
<1>1. Head(backlog) \in Keys
  BY HeadTailProperties DEF IInv, TypeOK, Accept
<1> QED
  BY <1>1 DEF IInv, TypeOK, Accept, Authorizable, Answer, Listening, Heard, CommandInv, ServingInv,
     ClaimInv, Terminal, process, life, work

LEMMA ResolveInv ==
  ASSUME IInv, TypeOK', Resolve
  PROVE  IInv'
BY DEF IInv, TypeOK, Resolve, Answer, Listening, Heard, CommandInv, ServingInv, ClaimInv, Terminal,
   queue, process, life, work

LEMMA ExecuteInv ==
  ASSUME IInv, TypeOK', Execute
  PROVE  IInv'
BY DEF IInv, TypeOK, Execute, CommandInv, ServingInv, ClaimInv, Terminal, queue, process, life

LEMMA ReplyInv ==
  ASSUME IInv, TypeOK', Reply
  PROVE  IInv'
BY DEF IInv, TypeOK, Reply, Answer, Listening, Heard, CommandInv, ServingInv, ClaimInv, Terminal,
   queue, process, life

LEMMA NextInv == IInv /\ [Next]_vars => IInv'
<1> SUFFICES ASSUME IInv, [Next]_vars PROVE IInv'
  OBVIOUS
<1>1. TypeOK'
  BY TypeInv
<1> DEFINE Same == status' = status /\ spent' = spent /\ executions' = executions /\ passed' = passed
           Idle == acceptor' = acceptor /\ serving' = serving /\ dispatcher' = dispatcher /\ claim' = claim
<1>2. CASE StopBroker \/ Bootstrap \/ (\E s \in Sessions : ExpireSession(s))
             \/ (\E s \in Sessions, k \in Keys : SubmitFails(s, k))
  <2>1. Same /\ Idle
    BY <1>2 DEF StopBroker, Bootstrap, ExpireSession, SubmitFails, queue, threads, work
  <2> QED
    BY <1>1, <2>1, QuietInv DEF Same, Idle
<1>3. CASE StartWorker \/ StopWorker \/ RemoveSocket
  <2>1. Same /\ (Idle \/ (acceptor' \in {"off", "accepting"} /\ dispatcher' \in {"off", "polling"}))
    BY <1>3 DEF StartWorker, StopWorker, RemoveSocket, queue, threads, work
  <2> QED
    BY <1>1, <2>1, QuietInv DEF Same, Idle
<1>4. CASE Connect \/ ConnectFails \/ TimesOut
  BY <1>1, <1>4, QuietInv DEF Connect, ConnectFails, TimesOut, queue, work
<1>5. CASE UNCHANGED vars
  <2>1. Same /\ Idle
    BY <1>5 DEF vars, queue, threads, work
  <2> QED
    BY <1>1, <2>1, QuietInv DEF Same, Idle
<1> QED
  BY <1>1, <1>2, <1>3, <1>4, <1>5, StartBrokerInv, SubmitInv, ClaimStep, FinishInv, AcceptInv,
     ResolveInv, ExecuteInv, ReplyInv DEF Next

-----------------------------------------------------------------------------
(* The theorems.                                                           *)

\* Every behaviour of the queue keeps the inductive invariant.
THEOREM Invariance == Spec => []IInv
BY InitInv, NextInv, PTL DEF Spec

\* The tables, sessions and threads keep their types.
THEOREM TypeCorrect == Spec => []TypeOK
<1>1. IInv => TypeOK
  BY DEF IInv
<1> QED
  BY <1>1, Invariance, PTL

\* No command is executed twice, over any restarts and lost answers
\* (_recover_abandoned_claims, authorize_worker_claim).
THEOREM OneExecution == Spec => []ExecutedOnce
<1>1. IInv => ExecutedOnce
  BY DEF IInv, CommandInv, ExecutedOnce
<1> QED
  BY <1>1, Invariance, PTL

\* A command recorded as succeeded was executed with success; one that waits was not executed
\* (dispatch_next).
THEOREM Earned == Spec => []SuccessIsEarned
<1>1. IInv => SuccessIsEarned
  BY DEF IInv, CommandInv, SuccessIsEarned
<1> QED
  BY <1>1, Invariance, PTL

\* A recorded outcome stays, and what was recorded before it was authorized is not executed any more
\* (finish_worker_command, authorize_worker_claim).
THEOREM Final == Spec => OutcomeIsFinal
<1>1. ASSUME IInv, [Next]_vars, NEW k \in Keys, status[k] \in Terminal
      PROVE  /\ status'[k] = status[k]
             /\ k \notin spent => executions'[k] = executions[k] /\ k \notin spent'
  <2> USE <1>1 DEF IInv, TypeOK, Terminal
  <2>1. CASE \E c \in Capabilities : StartBroker(c)
    BY <2>1 DEF StartBroker, Recovered, work
  <2>2. CASE \E s \in Sessions, j \in Keys : SubmitNew(s, j)
    BY <2>2 DEF SubmitNew, work
  <2>3. CASE Claim
    <3>1. \A i \in DOMAIN rows : rows[i] \in Keys
      BY ElementOfSeq
    <3> QED
      BY <2>3, <3>1 DEF Claim, Oldest, work
  <2>4. CASE Finish
    BY <2>4 DEF Finish, Finishable, work
  <2>5. CASE Accept
    BY <2>5 DEF Accept, Authorizable, work
  <2>6. CASE Execute
    BY <2>6 DEF Execute, ServingInv, queue
  <2>7. CASE Reply \/ Resolve
    BY <2>7 DEF Reply, Resolve, queue, work
  <2>8. CASE \/ StopBroker \/ Bootstrap \/ StartWorker \/ StopWorker \/ RemoveSocket
             \/ Connect \/ ConnectFails \/ TimesOut
    BY <2>8 DEF StopBroker, Bootstrap, StartWorker, StopWorker, RemoveSocket, Connect, ConnectFails,
       TimesOut, queue, work
  <2>9. CASE \E s \in Sessions : ExpireSession(s) \/ (\E j \in Keys : SubmitFails(s, j))
    BY <2>9 DEF ExpireSession, SubmitFails, queue, work
  <2>10. CASE UNCHANGED vars
    BY <2>10 DEF vars, queue, work
  <2> QED
    BY <2>1, <2>2, <2>3, <2>4, <2>5, <2>6, <2>7, <2>8, <2>9, <2>10 DEF Next
<1>2. IInv /\ [Next]_vars =>
        [\A k \in Keys : status[k] \in Terminal =>
           /\ status'[k] = status[k]
           /\ k \notin spent => executions'[k] = executions[k] /\ k \notin spent']_vars
  BY <1>1
<1> QED
  BY <1>2, Invariance, PTL DEF Spec, OutcomeIsFinal
=============================================================================
