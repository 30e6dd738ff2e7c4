---------------------------- MODULE RunLifecycle ----------------------------
(***************************************************************************)
(* One run from its first delivery to its terminal event: RuntimeRunHandler,*)
(* RuntimeApprovalHandler and RuntimeCancelHandler executing as worker     *)
(* tasks, joined by the LiveRunRegistry, and the API calls that enqueue    *)
(* their commands (RunCoordinator.cancel_run, ApprovalCoordinator.         *)
(* record_approval_decision, ApprovalExpirySweeper).                       *)
(*                                                                         *)
(* The queue is what RuntimeQueue shows it to be: a command is delivered   *)
(* at least once, again after a crash, and again while its first delivery  *)
(* still executes when that outlives the lock (Overlap).                   *)
(*                                                                         *)
(* update_run_status of the file store writes unconditionally; a step here *)
(* is what a handler does between two awaits that suspend it.              *)
(***************************************************************************)
EXTENDS Naturals, FiniteSets

CONSTANTS
    Tasks,          \* claims the worker has in flight
    NoTask,
    Items,          \* action requests of one interrupt
    MaxInterrupts,  \* bound: interrupts of the run
    MaxDeliveries,  \* bound: deliveries of one command
    MaxRestarts,    \* bound: process restarts
    Overlap,        \* whether a lock expires under an executing task
    Budgets,        \* whether the organisation has budgets to exceed
    SettleBlocks    \* whether the store's lock is held when a failed claim is settled

ASSUME LifecycleAssumption ==
    /\ MaxInterrupts \in Nat
    /\ MaxDeliveries \in Nat \ {0}
    /\ MaxRestarts \in Nat
    /\ Overlap \in BOOLEAN /\ Budgets \in BOOLEAN /\ SettleBlocks \in BOOLEAN
    /\ NoTask \notin Tasks

Terminal == {"COMPLETED", "FAILED", "TIMED_OUT", "CANCELLED"}
Active == {"QUEUED", "RUNNING", "WAITING_FOR_APPROVAL", "CANCELLING"}
Statuses == Terminal \cup Active

Batches == 1..MaxInterrupts
Answers == {"APPROVED", "REJECTED"}
BatchStates == {"none", "PENDING", "RESUMING", "RESOLVED"}

Run == [kind |-> "run"]
Cancel == [kind |-> "cancel"]
Approvals == [kind : {"approval"}, batch : Batches, item : Items, answer : Answers]
Commands == {Run, Cancel} \cup Approvals

VARIABLES
    status,     \* the run row
    snapshot,   \* the run-control snapshot exists
    queue, deliveries,
    outgoing,   \* commands an API request has still to enqueue
    tasks,
    live,       \* LiveRunRegistry: the task published for the run
    batch,      \* approval batches, one per interrupt
    decided,    \* the decisions on their items
    rows,       \* the approval requests the user sees
    resumes,    \* history: times the graph was resumed for a batch
    seal,       \* which handler's event producer has sealed the run
    terminals,  \* terminal events in the run's ledger
    restarts

rowVars == <<status, snapshot>>
queueVars == <<queue, deliveries, outgoing>>
approvalVars == <<batch, decided, rows, resumes>>
ledgerVars == <<seal, terminals>>
vars == <<rowVars, queueVars, tasks, live, approvalVars, ledgerVars, restarts>>

Producers == {"run", "approval", "cancel"}

\* The pcs inside a handler's try block, and all between READY_TO_RESUME and its end.
Resuming == {"exec", "park", "close", "terminate", "finish"}
Owning == Resuming \cup {"prepare", "start", "setup"}
Pcs == {"idle", "wait", "enter", "drain", "mark", "settle"} \cup Owning

Idle == [pc |-> "idle", cmd |-> Run, stop |-> FALSE, read |-> "QUEUED", to |-> "COMPLETED",
         raised |-> FALSE]
TaskStates == [pc : Pcs, cmd : Commands, stop : BOOLEAN, read : Statuses, to : Statuses,
               raised : BOOLEAN]

LifecycleTypeOK ==
    /\ status \in Statuses /\ snapshot \in BOOLEAN
    /\ queue \in [Commands -> {"absent", "queued", "claimed", "done"}]
    /\ deliveries \in [Commands -> 0..MaxDeliveries]
    /\ outgoing \in SUBSET Commands
    /\ tasks \in [Tasks -> TaskStates]
    /\ live \in Tasks \cup {NoTask}
    /\ batch \in [Batches -> BatchStates]
    /\ decided \in [Batches -> [Items -> Answers \cup {"none"}]]
    /\ rows \in [Batches -> [Items -> Answers \cup {"none", "PENDING"}]]
    /\ resumes \in [Batches -> Nat]
    /\ seal \in [Producers -> BOOLEAN]
    /\ terminals \in Nat
    /\ restarts \in 0..MaxRestarts

\* create_run: the row is QUEUED and its command is enqueued.
Init ==
    /\ status = "QUEUED" /\ snapshot = FALSE
    /\ queue = [c \in Commands |-> IF c = Run THEN "queued" ELSE "absent"]
    /\ deliveries = [c \in Commands |-> 0]
    /\ outgoing = {}
    /\ tasks = [t \in Tasks |-> Idle]
    /\ live = NoTask
    /\ batch = [b \in Batches |-> "none"]
    /\ decided = [b \in Batches |-> [i \in Items |-> "none"]]
    /\ rows = [b \in Batches |-> [i \in Items |-> "none"]]
    /\ resumes = [b \in Batches |-> 0]
    /\ seal = [p \in Producers |-> FALSE]
    /\ terminals = 0
    /\ restarts = 0

-----------------------------------------------------------------------------
(* The API *)

\* Bound: of equal commands one is on its way at a time.
CanEnqueue(c) ==
    c \notin outgoing /\ queue[c] \in {"absent", "done"} /\ deliveries[c] < MaxDeliveries

\* cancel_run; the command follows in a step of its own.
RequestCancel ==
    /\ status \notin Terminal \cup {"CANCELLING"}
    /\ CanEnqueue(Cancel)
    /\ status' = "CANCELLING"
    /\ outgoing' = outgoing \cup {Cancel}
    /\ UNCHANGED <<snapshot, queue, deliveries, tasks, live, approvalVars, ledgerVars, restarts>>

\* record_approval_decision overwrites the row, decided or not, and looks neither at
\* the batch nor at the run.
Decide(c) ==
    /\ rows[c.batch][c.item] # "none"
    /\ CanEnqueue(c)
    /\ rows' = [rows EXCEPT ![c.batch][c.item] = c.answer]
    /\ outgoing' = outgoing \cup {c}
    /\ UNCHANGED <<rowVars, queue, deliveries, tasks, live, batch, decided, resumes,
                   ledgerVars, restarts>>

Enqueue(c) ==
    /\ c \in outgoing
    /\ outgoing' = outgoing \ {c}
    /\ queue' = [queue EXCEPT ![c] = "queued"]
    /\ UNCHANGED <<rowVars, deliveries, tasks, live, approvalVars, ledgerVars, restarts>>

\* _enqueue_synthetic_rejection of a request that expired; the row stays PENDING.
SweepExpired(c) ==
    /\ c.answer = "REJECTED"
    /\ rows[c.batch][c.item] = "PENDING"
    /\ CanEnqueue(c)
    /\ queue' = [queue EXCEPT ![c] = "queued"]
    /\ UNCHANGED <<rowVars, deliveries, outgoing, tasks, live, approvalVars, ledgerVars, restarts>>

-----------------------------------------------------------------------------
(* RuntimeWorker: claim, register, settle *)

\* A task at pc that no cancellation has reached; the next step of a cancelled task
\* is Unwind.
At(t, pc) == tasks[t].pc = pc /\ ~tasks[t].stop
Kind(t) == tasks[t].cmd.kind
Move(t, pc) == tasks' = [tasks EXCEPT ![t].pc = pc]
Executing(c) == \E t \in Tasks : tasks[t].pc # "idle" /\ tasks[t].cmd = c

\* Mutant: one delivery more than the attempts allow.
ClaimOnceMore(t, c) ==
    /\ tasks[t].pc = "idle"
    /\ queue[c] \in {"queued", "claimed"}
    /\ queue[c] = "claimed" => Overlap \/ ~Executing(c)
    /\ deliveries[c] <= MaxDeliveries
    /\ queue' = [queue EXCEPT ![c] = "claimed"]
    /\ deliveries' = [deliveries EXCEPT ![c] = @ + 1]
    /\ tasks' = [tasks EXCEPT ![t] =
                    [Idle EXCEPT !.pc = IF c = Cancel THEN "enter" ELSE "wait", !.cmd = c]]
    /\ UNCHANGED <<rowVars, outgoing, live, approvalVars, ledgerVars, restarts>>

Claim(t, c) ==
    /\ tasks[t].pc = "idle"
    /\ queue[c] \in {"queued", "claimed"}
    /\ queue[c] = "claimed" => Overlap \/ ~Executing(c)
    /\ deliveries[c] < MaxDeliveries
    /\ queue' = [queue EXCEPT ![c] = "claimed"]
    /\ deliveries' = [deliveries EXCEPT ![c] = @ + 1]
    /\ tasks' = [tasks EXCEPT ![t] =
                    [Idle EXCEPT !.pc = IF c = Cancel THEN "enter" ELSE "wait", !.cmd = c]]
    /\ UNCHANGED <<rowVars, outgoing, live, approvalVars, ledgerVars, restarts>>

\* A run or a resumption gets its execution slot and is published; a second task of
\* the same run replaces the first in the registry.
AcquireSlot(t) ==
    /\ At(t, "wait")
    /\ Move(t, "enter")
    /\ live' = t
    /\ UNCHANGED <<rowVars, queueVars, approvalVars, ledgerVars, restarts>>

Withdrawn(t) == IF live = t THEN NoTask ELSE live

\* The handler returns and the registration is withdrawn, or it raises and stays
\* registered until _mark_failure is done.
Leave(t, raised) ==
    /\ tasks' = [tasks EXCEPT ![t].pc = "settle", ![t].raised = raised]
    /\ live' = IF raised THEN live ELSE Withdrawn(t)

\* _retry_permitted: a failed run is dead-lettered, any other failed command retried.
Verdict(t) == IF tasks[t].raised /\ Kind(t) # "run" THEN "queued" ELSE "done"

Settle(t) ==
    /\ At(t, "settle")
    /\ queue' = [queue EXCEPT ![tasks[t].cmd] = Verdict(t)]
    /\ tasks' = [tasks EXCEPT ![t] = Idle]
    /\ live' = Withdrawn(t)
    /\ UNCHANGED <<rowVars, deliveries, outgoing, approvalVars, ledgerVars, restarts>>

\* The finally block of the approval handler.
ResolvedBy(t) ==
    IF Kind(t) = "approval" /\ tasks[t].pc \in Resuming
    THEN [batch EXCEPT ![tasks[t].cmd.batch] = "RESOLVED"] ELSE batch

\* CancelledError of a cancellation the registry authorised: the handler unwinds
\* without touching the status, and the claim is settled.  A cancellation that finds
\* _mark_failure waiting for the store's lock leaves the claim as it is.
Unwind(t) ==
    /\ tasks[t].stop
    /\ batch' = ResolvedBy(t)
    /\ \/ tasks[t].pc # "settle" /\ queue' = [queue EXCEPT ![tasks[t].cmd] = "done"]
       \/ tasks[t].pc = "settle" /\ queue' = [queue EXCEPT ![tasks[t].cmd] = Verdict(t)]
       \/ tasks[t].pc = "settle" /\ SettleBlocks /\ UNCHANGED queue
    /\ tasks' = [tasks EXCEPT ![t] = Idle]
    /\ live' = Withdrawn(t)
    /\ UNCHANGED <<rowVars, deliveries, outgoing, decided, rows, resumes, ledgerVars, restarts>>

-----------------------------------------------------------------------------
(* RuntimeRunHandler.handle and RuntimeApprovalHandler.handle *)

ReadRun(t) ==
    /\ At(t, "enter") /\ Kind(t) = "run"
    /\ tasks' = [tasks EXCEPT ![t].pc = "prepare", ![t].read = status]
    /\ UNCHANGED <<rowVars, queueVars, live, approvalVars, ledgerVars, restarts>>

\* _reject_run_for_budget: FAILED and RUN_REJECTED, without raising.
RejectForBudget(t) ==
    /\ At(t, "prepare") /\ Kind(t) = "run" /\ Budgets
    /\ tasks' = [tasks EXCEPT ![t].pc = "close", ![t].to = "FAILED"]
    /\ UNCHANGED <<rowVars, queueVars, live, approvalVars, ledgerVars, restarts>>

\* Mutant: the batch is not checked to be pending.
LockBatchUnchecked(t) ==
    /\ At(t, "enter") /\ Kind(t) = "approval"
    /\ LET c == tasks[t].cmd IN
       /\ decided' = [decided EXCEPT ![c.batch][c.item] = c.answer]
       /\ IF \E i \in Items : decided'[c.batch][i] = "none"
          THEN Leave(t, FALSE) /\ UNCHANGED batch
          ELSE /\ batch' = [batch EXCEPT ![c.batch] = "RESUMING"]
               /\ tasks' = [tasks EXCEPT ![t].pc = "prepare", ![t].read = status]
               /\ UNCHANGED live
    /\ UNCHANGED <<rowVars, queueVars, rows, resumes, ledgerVars, restarts>>

\* Mutant: the first decision takes the resume.
LockBatchFirst(t) ==
    /\ At(t, "enter") /\ Kind(t) = "approval"
    /\ LET c == tasks[t].cmd IN
       IF batch[c.batch] # "PENDING"
       THEN Leave(t, FALSE) /\ UNCHANGED <<batch, decided>>
       ELSE /\ decided' = [decided EXCEPT ![c.batch][c.item] = c.answer]
            /\ batch' = [batch EXCEPT ![c.batch] = "RESUMING"]
            /\ tasks' = [tasks EXCEPT ![t].pc = "prepare", ![t].read = status]
            /\ UNCHANGED live
    /\ UNCHANGED <<rowVars, queueVars, rows, resumes, ledgerVars, restarts>>

\* record_item_decision_and_maybe_lock_batch, under the batch's lock: the decision
\* that completes a pending batch takes the resume.
LockBatch(t) ==
    /\ At(t, "enter") /\ Kind(t) = "approval"
    /\ LET c == tasks[t].cmd IN
       IF batch[c.batch] # "PENDING"
       THEN Leave(t, FALSE) /\ UNCHANGED <<batch, decided>>
       ELSE /\ decided' = [decided EXCEPT ![c.batch][c.item] = c.answer]
            /\ IF \E i \in Items : decided'[c.batch][i] = "none"
               THEN Leave(t, FALSE) /\ UNCHANGED batch
               ELSE /\ batch' = [batch EXCEPT ![c.batch] = "RESUMING"]
                    /\ tasks' = [tasks EXCEPT ![t].pc = "prepare", ![t].read = status]
                    /\ UNCHANGED live
    /\ UNCHANGED <<rowVars, queueVars, rows, resumes, ledgerVars, restarts>>

\* ensure_snapshot makes a snapshot only for a run that was active when it was read,
\* and returns an existing one whatever the status.
EnsureSnapshot(t) ==
    /\ At(t, "prepare")
    /\ snapshot \/ tasks[t].read \in Active \ {"CANCELLING"}
    /\ snapshot' = TRUE
    /\ Move(t, "start")
    /\ UNCHANGED <<status, queueVars, live, approvalVars, ledgerVars, restarts>>

\* That, or hydrating the provider keys, raises outside the handler's try: the status
\* is left alone.
PrepareFails(t) ==
    /\ At(t, "prepare")
    /\ Leave(t, TRUE)
    /\ UNCHANGED <<rowVars, queueVars, approvalVars, ledgerVars, restarts>>

\* The status becomes RUNNING whatever it was.  RUN_STARTED is refused when this
\* producer has sealed the run.
StartRun(t) ==
    /\ At(t, "start") /\ Kind(t) = "run"
    /\ status' = "RUNNING"
    /\ IF seal["run"] THEN Leave(t, TRUE) ELSE Move(t, "setup") /\ UNCHANGED live
    /\ UNCHANGED <<snapshot, queueVars, approvalVars, ledgerVars, restarts>>

StartResume(t) ==
    /\ At(t, "start") /\ Kind(t) = "approval"
    /\ status' = "RUNNING"
    /\ Move(t, "setup")
    /\ UNCHANGED <<snapshot, queueVars, live, approvalVars, ledgerVars, restarts>>

\* The allocator, the budget guard, the workspace: both handlers build what the graph
\* needs before their try blocks, so a failure there leaves the run RUNNING and the
\* batch taken.
SetupFails(t) ==
    /\ At(t, "setup")
    /\ Leave(t, TRUE)
    /\ UNCHANGED <<rowVars, queueVars, approvalVars, ledgerVars, restarts>>

\* The try block is entered and the graph invoked, or resumed with the decisions.
BeginExecution(t) ==
    /\ At(t, "setup")
    /\ resumes' = IF Kind(t) = "approval"
                  THEN [resumes EXCEPT ![tasks[t].cmd.batch] = @ + 1] ELSE resumes
    /\ Move(t, "exec")
    /\ UNCHANGED <<rowVars, queueVars, live, batch, decided, rows, ledgerVars, restarts>>

\* The graph interrupts: insert_approval_batch and one request per item, and only
\* then the status.
Interrupt(t, b) ==
    /\ At(t, "exec") /\ ~seal[Kind(t)]
    /\ batch[b] = "none" /\ \A e \in Batches : e < b => batch[e] # "none"
    /\ batch' = [batch EXCEPT ![b] = "PENDING"]
    /\ rows' = [rows EXCEPT ![b] = [i \in Items |-> "PENDING"]]
    /\ Move(t, "park")
    /\ UNCHANGED <<rowVars, queueVars, live, decided, resumes, ledgerVars, restarts>>

Park(t) ==
    /\ At(t, "park")
    /\ status' = "WAITING_FOR_APPROVAL"
    /\ Move(t, "finish")
    /\ UNCHANGED <<snapshot, queueVars, live, approvalVars, ledgerVars, restarts>>

\* The graph answers, times out or raises; a causal event refused by the seal raises.
ExecEnds(t, to) ==
    /\ At(t, "exec")
    /\ to = "COMPLETED" => ~seal[Kind(t)]
    /\ to = "TIMED_OUT" => Kind(t) = "run"
    /\ tasks' = [tasks EXCEPT ![t].pc = "close", ![t].to = to, ![t].raised = (to = "FAILED")]
    /\ UNCHANGED <<rowVars, queueVars, live, approvalVars, ledgerVars, restarts>>

\* Mutant: the status is final and the handler is done.
CloseSilently(t) ==
    /\ At(t, "close")
    /\ status' = tasks[t].to
    /\ Move(t, "finish")
    /\ UNCHANGED <<snapshot, queueVars, live, approvalVars, ledgerVars, restarts>>

Close(t) ==
    /\ At(t, "close")
    /\ status' = tasks[t].to
    /\ Move(t, "terminate")
    /\ UNCHANGED <<snapshot, queueVars, live, approvalVars, ledgerVars, restarts>>

\* RunTerminationCoordinator.terminate appends the terminal event, which LedgerSeal
\* always admits.
Terminate(t) ==
    /\ At(t, "terminate")
    /\ terminals' = terminals + 1
    /\ seal' = [seal EXCEPT ![Kind(t)] = TRUE]
    /\ Move(t, "finish")
    /\ UNCHANGED <<rowVars, queueVars, live, approvalVars, restarts>>

\* The handler ends; a failure is raised again.
Finish(t) ==
    /\ At(t, "finish")
    /\ batch' = ResolvedBy(t)
    /\ Leave(t, tasks[t].raised)
    /\ UNCHANGED <<rowVars, queueVars, decided, rows, resumes, ledgerVars, restarts>>

-----------------------------------------------------------------------------
(* RuntimeCancelHandler.handle *)

\* Mutant: the guard of the cancel handler leaves CANCELLING out.
ReadForCancelMissesCancelling(t) ==
    /\ At(t, "enter") /\ Kind(t) = "cancel"
    /\ IF status \notin Active \ {"CANCELLING"} THEN Leave(t, FALSE)
       ELSE /\ tasks' = [u \in Tasks |->
                  IF u = t THEN [tasks[t] EXCEPT !.pc = IF live = NoTask THEN "mark" ELSE "drain"]
                  ELSE IF u = live THEN [tasks[u] EXCEPT !.stop = TRUE] ELSE tasks[u]]
            /\ UNCHANGED live
    /\ UNCHANGED <<rowVars, queueVars, approvalVars, ledgerVars, restarts>>

\* A run that is already over is left alone; otherwise LiveRunRegistry.cancel stops
\* the published task, if there is one, and waits for it.
ReadForCancel(t) ==
    /\ At(t, "enter") /\ Kind(t) = "cancel"
    /\ IF status \notin Active THEN Leave(t, FALSE)
       ELSE /\ tasks' = [u \in Tasks |->
                  IF u = t THEN [tasks[t] EXCEPT !.pc = IF live = NoTask THEN "mark" ELSE "drain"]
                  ELSE IF u = live THEN [tasks[u] EXCEPT !.stop = TRUE] ELSE tasks[u]]
            /\ UNCHANGED live
    /\ UNCHANGED <<rowVars, queueVars, approvalVars, ledgerVars, restarts>>

\* The wait ends when the task has unwound, or after DEFAULT_DRAIN_SECONDS; the handler
\* goes on alike.
Drain(t) ==
    /\ At(t, "drain")
    /\ Move(t, "mark")
    /\ UNCHANGED <<rowVars, queueVars, live, approvalVars, ledgerVars, restarts>>

MarkCancelled(t) ==
    /\ At(t, "mark")
    /\ status' = "CANCELLED"
    /\ Move(t, "terminate")
    /\ UNCHANGED <<snapshot, queueVars, live, approvalVars, ledgerVars, restarts>>

\* What follows the terminal event, the usage record and the metrics, raises out of the
\* handler, and the cancel command is retried.
CancelFails(t) ==
    /\ At(t, "finish") /\ Kind(t) = "cancel"
    /\ Leave(t, TRUE)
    /\ UNCHANGED <<rowVars, queueVars, approvalVars, ledgerVars, restarts>>

-----------------------------------------------------------------------------
\* The process ends, with tasks and API requests in it: killed, or shut down, when
\* the tasks are cancelled and their finally blocks run.  Claims stay unsettled.
Restart(graceful) ==
    /\ restarts < MaxRestarts
    /\ restarts' = restarts + 1
    /\ batch' = [b \in Batches |->
          IF graceful /\ \E t \in Tasks : /\ Kind(t) = "approval" /\ tasks[t].cmd.batch = b
                                          /\ tasks[t].pc \in Resuming
          THEN "RESOLVED" ELSE batch[b]]
    /\ tasks' = [t \in Tasks |-> Idle]
    /\ live' = NoTask
    /\ outgoing' = {}
    /\ seal' = [p \in Producers |-> FALSE]
    /\ UNCHANGED <<rowVars, queue, deliveries, decided, rows, resumes, terminals>>

TaskProceeds(t) ==
    \/ AcquireSlot(t) \/ Settle(t) \/ Unwind(t)
    \/ ReadRun(t) \/ RejectForBudget(t) \/ LockBatch(t)
    \/ EnsureSnapshot(t) \/ PrepareFails(t) \/ StartRun(t) \/ StartResume(t)
    \/ SetupFails(t) \/ BeginExecution(t)
    \/ \E b \in Batches : Interrupt(t, b)
    \/ Park(t)
    \/ \E to \in {"COMPLETED", "TIMED_OUT", "FAILED"} : ExecEnds(t, to)
    \/ Close(t) \/ Terminate(t) \/ Finish(t)
    \/ ReadForCancel(t) \/ Drain(t) \/ MarkCancelled(t) \/ CancelFails(t)

Next ==
    \/ RequestCancel
    \/ \E c \in Approvals : Decide(c) \/ SweepExpired(c)
    \/ \E c \in Commands : Enqueue(c)
    \/ \E t \in Tasks : \/ \E c \in Commands : Claim(t, c)
                        \/ TaskProceeds(t)
    \/ \E graceful \in BOOLEAN : Restart(graceful)

Spec == Init /\ [][Next]_vars

\* The loop keeps claiming, every task goes on (an execution has a deadline, a drain
\* a bound), and an API request is carried through.
Fairness ==
    /\ \A t \in Tasks : WF_vars(TaskProceeds(t))
    /\ \A c \in Commands : WF_vars(Enqueue(c)) /\ WF_vars(\E t \in Tasks : Claim(t, c))

LiveSpec == Spec /\ Fairness

-----------------------------------------------------------------------------
(* Properties *)

\* However decisions, sweeps, redeliveries, retries and crashes interleave, the graph
\* is resumed at most once for one interrupt, and then with a decision on every item.
ResumedOnceWithEveryDecision ==
    \A b \in Batches :
        /\ resumes[b] <= 1
        /\ resumes[b] = 1 => \A i \in Items : decided[b][i] # "none"

\* Once a resumption has taken the batch, no late decision changes what it resumes
\* with.
DecisionsFrozen ==
    [][\A b \in Batches : batch[b] \notin {"none", "PENDING"} =>
          decided'[b] = decided[b] /\ batch'[b] # "PENDING"]_vars

\* Two writers of the status race, "e.g. main run handler vs. cancel handler", and "the
\* loser raises ConcurrentRunUpdateError instead of silently overwriting": what the
\* cancel handler wrote stands.
CancelledRunIsFinal == [][(status = "CANCELLED") => status' = "CANCELLED"]_vars

\* A requested cancellation ends the run, whatever it races with.
CancelTakesEffect == status = "CANCELLING" ~> status \in Terminal

\* A run that is over says so in its ledger: the stream closes on that event.
TerminalIsAnnounced == status \in Terminal ~> terminals > 0
=============================================================================
