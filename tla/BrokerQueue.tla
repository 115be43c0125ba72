----------------------------- MODULE BrokerQueue -----------------------------
(***************************************************************************)
(* The Workbench command queue: the broker process (workbench/             *)
(* host_broker.py) and the worker process (worker_supervisor.py,           *)
(* worker_dispatch.py, private_worker.py), which share one SQLite file.    *)
(* The broker hands out one session per startup capability and queues      *)
(* commands, one row per idempotency key.  In the worker a dispatch thread *)
(* claims the oldest row and sends its key over a private socket to an     *)
(* accept thread, which executes the command and answers; the dispatch     *)
(* thread records the outcome.  Either process may stop or be killed at    *)
(* any point; a restarted broker fails whatever is still running.          *)
(*                                                                         *)
(* The broker's methods hold one lock, and each claim, authorization,      *)
(* insert and finish is one SQLite transaction: each is one action.        *)
(***************************************************************************)
EXTENDS Naturals, Sequences

CONSTANTS
  Keys,          \* commands, named by their idempotency key
  Capabilities,  \* startup capabilities the broker is started with
  NoKey,         \* no command
  NoSession,     \* no session
  Backlog        \* connections the listening socket holds: listen(1)

ASSUME BrokerAssumption ==
  /\ NoKey \notin Keys
  /\ NoSession \notin Capabilities
  /\ Backlog \in Nat \ {0}

VARIABLES
  rows,        \* table broker_command in rowid order
  status,      \* broker_command.status; absent without a row
  spent,       \* rows with worker_capability_consumed
  consumed,    \* table broker_startup
  broker,      \* the startup capability of the running broker, or NoSession
  sessions,    \* the broker's sessions; a capability opens one at most
  lost,        \* keys whose command id the broker remembers, but that have no row
  worker,      \* is the worker process up
  socketFile,  \* does the worker's socket path exist
  dispatcher,  \* where the dispatch thread is
  claim,       \* the command the dispatch thread has claimed
  backlog,     \* connections not accepted yet, named by their command
  acceptor,    \* where the accept thread is
  serving,     \* the command of the accepted connection
  executions,  \* ghost: how often each command was executed
  passed       \* ghost: commands whose executor returned success

queue   == <<rows, status, spent, consumed>>
process == <<broker, sessions, lost>>
threads == <<dispatcher, claim, backlog, acceptor, serving>>
life    == <<worker, socketFile>>
work    == <<executions, passed>>
vars    == <<queue, process, threads, life, work>>

Terminal == {"succeeded", "failed"}
Sessions == Capabilities

TypeOK ==
  /\ rows \in Seq(Keys)
  /\ status \in [Keys -> {"absent", "queued", "running"} \cup Terminal]
  /\ spent \subseteq Keys
  /\ consumed \subseteq Capabilities
  /\ broker \in Capabilities \cup {NoSession}
  /\ sessions \subseteq Sessions
  /\ lost \subseteq Keys
  /\ worker \in BOOLEAN
  /\ socketFile \in BOOLEAN
  /\ dispatcher \in {"off", "polling", "connecting", "waiting", "dead"} \cup Terminal
  /\ claim \in Keys \cup {NoKey}
  /\ backlog \in Seq(Keys)
  /\ acceptor \in {"off", "accepting", "authorized", "resolved", "executing", "dead"}
  /\ serving \in Keys \cup {NoKey}
  /\ executions \in [Keys -> Nat]
  /\ passed \subseteq Keys

Init ==
  /\ rows = <<>>
  /\ status = [k \in Keys |-> "absent"]
  /\ spent = {}
  /\ consumed = {}
  /\ broker = NoSession
  /\ sessions = {}
  /\ lost = {}
  /\ worker = FALSE
  /\ socketFile = FALSE
  /\ dispatcher = "off" /\ claim = NoKey
  /\ backlog = <<>>
  /\ acceptor = "off" /\ serving = NoKey
  /\ executions = [k \in Keys |-> 0] /\ passed = {}

-----------------------------------------------------------------------------
(* The broker process.                                                     *)

\* Seeded fault: a restart puts an abandoned command back into the queue.
RecoveredAsQueued(s) == IF s = "running" THEN "queued" ELSE s
\* What a starting broker does to a row (_recover_abandoned_claims).
Recovered(s) == IF s = "running" THEN "failed" ELSE s

StartBroker(c) ==
  /\ broker = NoSession
  /\ broker' = c
  /\ status' = [k \in Keys |-> Recovered(status[k])]
  /\ UNCHANGED <<rows, spent, consumed, sessions, lost, threads, life, work>>

\* Stopped or killed: what is only in memory is gone.
StopBroker ==
  /\ broker # NoSession
  /\ broker' = NoSession
  /\ sessions' = {}
  /\ lost' = {}
  /\ UNCHANGED <<queue, threads, life, work>>

Unused == broker \notin consumed

Bootstrap ==
  /\ broker # NoSession /\ Unused
  /\ consumed' = consumed \cup {broker}
  /\ sessions' = sessions \cup {broker}
  /\ UNCHANGED <<rows, status, spent, broker, lost, threads, life, work>>

ExpireSession(s) ==
  /\ s \in sessions
  /\ sessions' = sessions \ {s}
  /\ UNCHANGED <<queue, broker, lost, threads, life, work>>

\* The first submission of a key: memory first, then the row.  A later one is answered
\* with the status of the row, if its session owns it, and changes nothing that lasts.
SubmitNew(s, k) ==
  /\ s \in sessions
  /\ k \notin lost /\ status[k] = "absent"
  /\ rows' = Append(rows, k)
  /\ status' = [status EXCEPT ![k] = "queued"]
  /\ UNCHANGED <<spent, consumed, process, threads, life, work>>

\* The INSERT fails: memory keeps the id of a command that has no row, and every
\* later submission of the key in this process is refused as unknown.
SubmitFails(s, k) ==
  /\ s \in sessions
  /\ k \notin lost /\ status[k] = "absent"
  /\ lost' = lost \cup {k}
  /\ UNCHANGED <<queue, broker, sessions, threads, life, work>>

-----------------------------------------------------------------------------
(* The worker process.                                                     *)

\* A socket path left behind by a killed worker refuses the start.
StartWorker ==
  /\ ~ worker /\ ~ socketFile
  /\ worker' = TRUE /\ socketFile' = TRUE
  /\ dispatcher' = "polling" /\ acceptor' = "accepting"
  /\ UNCHANGED <<queue, process, claim, backlog, serving, work>>

\* SIGTERM closes and unlinks the socket; a kill leaves its path behind.
StopWorker ==
  /\ worker
  /\ worker' = FALSE
  /\ socketFile' \in BOOLEAN
  /\ dispatcher' = "off" /\ claim' = NoKey
  /\ backlog' = <<>>
  /\ acceptor' = "off" /\ serving' = NoKey
  /\ UNCHANGED <<queue, process, work>>

\* The operator removes the path a killed worker left.
RemoveSocket ==
  /\ ~ worker /\ socketFile
  /\ socketFile' = FALSE
  /\ UNCHANGED <<queue, process, threads, worker, work>>

\* The i-th row is the oldest that is queued.
Oldest(i) == status[rows[i]] = "queued" /\ \A j \in 1..(i - 1) : status[rows[j]] # "queued"

\* claim_next_for_worker_authorized
Claim ==
  /\ dispatcher = "polling"
  /\ \E i \in DOMAIN rows :
       /\ Oldest(i)
       /\ claim' = rows[i]
       /\ status' = [status EXCEPT ![rows[i]] = "running"]
       /\ spent' = spent \ {rows[i]}
  /\ dispatcher' = "connecting"
  /\ UNCHANGED <<rows, consumed, process, backlog, acceptor, serving, life, work>>

Connect ==
  /\ dispatcher = "connecting" /\ Len(backlog) < Backlog
  /\ dispatcher' = "waiting"
  /\ backlog' = Append(backlog, claim)
  /\ UNCHANGED <<queue, process, claim, acceptor, serving, life, work>>

\* The path is gone or not private, or the backlog stays full for 5 seconds.
ConnectFails ==
  /\ dispatcher = "connecting"
  /\ dispatcher' = "failed"
  /\ UNCHANGED <<queue, process, claim, backlog, acceptor, serving, life, work>>

\* Seeded fault: the client socket has no timeout.
TimesOutOnClose ==
  /\ dispatcher = "waiting" /\ acceptor = "dead" /\ serving = claim
  /\ dispatcher' = "failed"
  /\ UNCHANGED <<queue, process, claim, backlog, acceptor, serving, life, work>>
\* No answer within 5 seconds: the client closes its end.
TimesOut ==
  /\ dispatcher = "waiting"
  /\ dispatcher' = "failed"
  /\ UNCHANGED <<queue, process, claim, backlog, acceptor, serving, life, work>>

\* Seeded fault: the outcome is written without looking at the row.
FinishableAlways(k) == TRUE
Finishable(k) == status[k] = "running"

\* finish_worker_command: the thread dies of the ContractViolation it raises.
Finish ==
  /\ dispatcher \in Terminal
  /\ IF Finishable(claim)
     THEN status' = [status EXCEPT ![claim] = dispatcher] /\ dispatcher' = "polling"
     ELSE dispatcher' = "dead" /\ UNCHANGED status
  /\ claim' = NoKey
  /\ UNCHANGED <<rows, spent, consumed, process, backlog, acceptor, serving, life, work>>

Dispatcher == Claim \/ Connect \/ ConnectFails \/ TimesOut \/ Finish

\* The client of k's connection still waits for the answer.
Listening(k) == dispatcher = "waiting" /\ claim = k

\* Seeded fault: any answer that arrives counts as success.
AnsweredIsSuccess(outcome) == {"succeeded"}
\* What the dispatch thread makes of an answer, which may come too late to be read.
Heard(outcome) == {outcome, "failed"}

\* Answering a client that has gone away raises in the handler of the first
\* failure too, and ends the accept loop.
Answer(k, outcome) ==
  IF Listening(k)
  THEN /\ acceptor' = "accepting"
       /\ \E heard \in Heard(outcome) : dispatcher' = heard
  ELSE acceptor' = "dead" /\ UNCHANGED dispatcher

\* Seeded fault: an unspent capability is enough, whatever became of the claim.
AuthorizableUnspent(k) == k \notin spent
Authorizable(k) == status[k] = "running" /\ k \notin spent

\* accept, receive and authorize_worker_claim, which spends the claim's capability.
Accept ==
  LET k == Head(backlog)
  IN /\ acceptor = "accepting" /\ backlog # <<>>
     /\ backlog' = Tail(backlog)
     /\ serving' = k
     /\ IF Authorizable(k)
        THEN acceptor' = "authorized" /\ spent' = spent \cup {k} /\ UNCHANGED dispatcher
        ELSE Answer(k, "failed") /\ UNCHANGED spent
     /\ UNCHANGED <<rows, status, consumed, process, claim, life, work>>

\* command_for_worker: the claim must still stand when the command is read.
Resolve ==
  /\ acceptor = "authorized"
  /\ IF status[serving] = "running"
     THEN acceptor' = "resolved" /\ UNCHANGED dispatcher
     ELSE Answer(serving, "failed")
  /\ UNCHANGED <<queue, process, claim, backlog, serving, life, work>>

\* The executor is called.  The row may have changed since it was read.
Execute ==
  /\ acceptor = "resolved"
  /\ acceptor' = "executing"
  /\ executions' = [executions EXCEPT ![serving] = @ + 1]
  /\ UNCHANGED <<queue, process, dispatcher, claim, backlog, serving, life, passed>>

\* The executor returns, or raises, whenever it likes.
Reply ==
  /\ acceptor = "executing"
  /\ \E outcome \in Terminal :
       /\ Answer(serving, outcome)
       /\ passed' = IF outcome = "succeeded" THEN passed \cup {serving} ELSE passed
  /\ UNCHANGED <<queue, process, claim, backlog, serving, life, executions>>

Next ==
  \/ \E c \in Capabilities : StartBroker(c)
  \/ StopBroker \/ Bootstrap
  \/ \E s \in Sessions : ExpireSession(s)
  \/ \E s \in Sessions, k \in Keys : SubmitNew(s, k) \/ SubmitFails(s, k)
  \/ StartWorker \/ StopWorker \/ RemoveSocket
  \/ Claim \/ Connect \/ ConnectFails \/ TimesOut \/ Finish
  \/ Accept \/ Resolve \/ Execute \/ Reply

Spec == Init /\ [][Next]_vars

\* The dispatch thread and the accept thread keep running; how long a command
\* executes is not promised.
FairSpec == Spec /\ WF_vars(Dispatcher) /\ WF_vars(Accept \/ Resolve \/ Execute)

-----------------------------------------------------------------------------
(* Properties.                                                             *)

\* A command is executed once at most, over broker restarts, worker restarts and
\* lost answers: "a process restart cannot turn an uncertain worker outcome into a
\* retryable queue item" (_recover_abandoned_claims).
ExecutedOnce == \A k \in Keys : executions[k] <= 1

\* A recorded outcome never changes, whichever of the recovering broker, the timed-out dispatch thread
\* and the late answer comes first (finish_worker_command); and a command whose outcome was recorded
\* before the worker was authorized is never executed any more, though its connection is still in the
\* backlog (authorize_worker_claim).
OutcomeIsFinal ==
  [][\A k \in Keys : status[k] \in Terminal =>
       /\ status'[k] = status[k]
       /\ k \notin spent => executions'[k] = executions[k] /\ k \notin spent']_vars

\* A command recorded as succeeded was executed and its own executor said so,
\* whatever earlier connections were still being answered; a command that was
\* never claimed was not executed (dispatch_next's comparison of the response).
SuccessIsEarned ==
  \A k \in Keys :
    /\ status[k] = "succeeded" => executions[k] = 1 /\ k \in passed
    /\ status[k] \in {"absent", "queued"} => executions[k] = 0

\* A command the dispatch thread holds gets its outcome, or the worker process goes
\* away, even if the accept thread is dead or the command executes for ever
\* (_send's timeout).
ClaimEnds ==
  \A k \in Keys : claim = k ~> (status[k] \in Terminal \/ ~ worker)

=============================================================================
