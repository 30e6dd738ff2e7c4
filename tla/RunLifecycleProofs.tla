------------------------- MODULE RunLifecycleProofs -------------------------
(***************************************************************************)
(* Proofs about RunLifecycle, for any number of tasks, items, interrupts,  *)
(* deliveries and restarts.                                                *)
(***************************************************************************)
EXTENDS RunLifecycle, TLAPS

(* The inductive invariant *)

\* Task t took the resumption of batch b and has not ended.
Owns(t, b) == tasks[t].pc \in Owning /\ Kind(t) = "approval" /\ tasks[t].cmd.batch = b
Fresh(t) == tasks[t].pc \in {"prepare", "start", "setup"}

\* A batch nobody has taken was never resumed; one that was taken has one owner at
\* most, and every decision; and until the owner starts it has not been resumed.
BatchInv(b) ==
    /\ batch[b] \in {"none", "PENDING"} =>
         resumes[b] = 0 /\ \A t \in Tasks : ~Owns(t, b)
    /\ \A t, u \in Tasks : Owns(t, b) /\ Owns(u, b) => t = u
    /\ \A t \in Tasks : Owns(t, b) /\ Fresh(t) => resumes[b] = 0
    /\ resumes[b] <= 1
    /\ batch[b] \notin {"none", "PENDING"} => \A i \in Items : decided[b][i] # "none"

\* Only the cancel handler waits for a drain and marks the run.
HandlerInv == \A t \in Tasks : tasks[t].pc \in {"drain", "mark"} => Kind(t) = "cancel"

LifecycleInv == LifecycleTypeOK /\ HandlerInv /\ \A b \in Batches : BatchInv(b)

-----------------------------------------------------------------------------
(* Types *)

\* What the kinds of command are made of.
LEMMA CommandTypes ==
    /\ Run \in Commands /\ Cancel \in Commands
    /\ \A c \in Commands : c.kind = "approval" => c \in Approvals
    /\ \A c \in Approvals : c \in Commands /\ c.batch \in Batches /\ c.item \in Items /\ c.answer \in Answers
BY DEF Commands, Run, Cancel, Approvals

\* A task without a claim is a task.
LEMMA IdleType == Idle \in TaskStates
BY CommandTypes DEF Idle, TaskStates, Pcs, Statuses, Terminal, Active

\* Every assignment a step makes to a task leaves a task.
LEMMA TaskUpdates ==
    ASSUME NEW r \in TaskStates, NEW pc \in Pcs, NEW c \in Commands, NEW s \in Statuses,
           NEW x \in BOOLEAN
    PROVE  /\ [r EXCEPT !.pc = pc] \in TaskStates
           /\ [r EXCEPT !.cmd = c] \in TaskStates
           /\ [r EXCEPT !.stop = x] \in TaskStates
           /\ [r EXCEPT !.read = s] \in TaskStates
           /\ [r EXCEPT !.to = s] \in TaskStates
           /\ [r EXCEPT !.raised = x] \in TaskStates
BY DEF TaskStates

\* create_run leaves the types.
LEMMA InitTypeOK == Init => LifecycleTypeOK
<1> SUFFICES ASSUME Init PROVE LifecycleTypeOK
  OBVIOUS
<1>0. snapshot \in BOOLEAN
  BY DEF Init
<1>1. /\ status \in Statuses
      /\ outgoing \in SUBSET Commands
      /\ live \in Tasks \cup {NoTask}
      /\ terminals \in Nat
      /\ restarts \in 0..MaxRestarts
  BY LifecycleAssumption DEF Init, Statuses, Active
<1>2. queue \in [Commands -> {"absent", "queued", "claimed", "done"}]
  BY DEF Init
<1>3. deliveries \in [Commands -> 0..MaxDeliveries]
  BY LifecycleAssumption DEF Init
<1>4. tasks \in [Tasks -> TaskStates]
  BY IdleType DEF Init
<1>5. /\ batch \in [Batches -> BatchStates] /\ resumes \in [Batches -> Nat]
      /\ seal \in [Producers -> BOOLEAN]
  BY DEF Init, BatchStates
<1>6. /\ decided \in [Batches -> [Items -> Answers \cup {"none"}]]
      /\ rows \in [Batches -> [Items -> Answers \cup {"none", "PENDING"}]]
  BY DEF Init
<1> QED
  BY <1>0, <1>1, <1>2, <1>3, <1>4, <1>5, <1>6 DEF LifecycleTypeOK

-----------------------------------------------------------------------------
(* How a step changes the tasks *)

\* Move changes the pc of one task.
LEMMA MoveType ==
    ASSUME LifecycleTypeOK, NEW t \in Tasks, NEW pc \in Pcs, Move(t, pc)
    PROVE  /\ tasks' \in [Tasks -> TaskStates]
           /\ \A u \in Tasks : tasks'[u] = IF u = t THEN [tasks[t] EXCEPT !.pc = pc] ELSE tasks[u]
<1>1. tasks \in [Tasks -> TaskStates]
  BY DEF LifecycleTypeOK
<1>2. [tasks[t] EXCEPT !.pc = pc] \in TaskStates
  BY <1>1, TaskUpdates DEF TaskStates
<1> QED
  BY <1>1, <1>2 DEF Move

\* Leave changes the pc and the outcome of one task.
LEMMA LeaveType ==
    ASSUME LifecycleTypeOK, NEW t \in Tasks, NEW raised \in BOOLEAN, Leave(t, raised)
    PROVE  /\ tasks' \in [Tasks -> TaskStates]
           /\ live' \in Tasks \cup {NoTask}
           /\ \A u \in Tasks : tasks'[u] = IF u = t
                 THEN [[tasks[t] EXCEPT !.pc = "settle"] EXCEPT !.raised = raised] ELSE tasks[u]
<1>1. tasks \in [Tasks -> TaskStates] /\ live \in Tasks \cup {NoTask}
  BY DEF LifecycleTypeOK
<1>2. [[tasks[t] EXCEPT !.pc = "settle"] EXCEPT !.raised = raised] \in TaskStates
  BY <1>1 DEF TaskStates, Pcs
<1> QED
  BY <1>1, <1>2 DEF Leave, Withdrawn


\* Types of a step of one task.
LEMMA TaskTypes ==
    ASSUME LifecycleTypeOK, NEW t \in Tasks, TaskProceeds(t)
    PROVE  LifecycleTypeOK'
<1> USE DEF rowVars, queueVars, approvalVars, ledgerVars
<1> DEFINE r == tasks[t]
<1>t. /\ r \in TaskStates /\ tasks \in [Tasks -> TaskStates]
      /\ r.cmd \in Commands /\ r.to \in Statuses /\ r.raised \in BOOLEAN /\ status \in Statuses
  BY DEF LifecycleTypeOK, TaskStates
<1>w. Withdrawn(t) \in Tasks \cup {NoTask}
  BY DEF LifecycleTypeOK, Withdrawn
<1>v. /\ Verdict(t) \in {"absent", "queued", "claimed", "done"}
      /\ ResolvedBy(t) \in [Batches -> BatchStates]
  BY <1>t, CommandTypes DEF LifecycleTypeOK, Verdict, ResolvedBy, Kind, BatchStates
<1>1. CASE AcquireSlot(t)
  <2>1. tasks' \in [Tasks -> TaskStates]
    BY <1>1, MoveType DEF AcquireSlot, Pcs, Owning, Resuming
  <2> QED
    BY <1>1, <2>1 DEF AcquireSlot, LifecycleTypeOK
<1>2. CASE Settle(t)
  <2>1. tasks' \in [Tasks -> TaskStates]
    BY <1>2, <1>t, IdleType DEF Settle
  <2> QED
    BY <1>2, <1>t, <1>v, <1>w, <2>1 DEF Settle, LifecycleTypeOK
<1>3. CASE Unwind(t)
  <2>1. tasks' \in [Tasks -> TaskStates]
    BY <1>3, <1>t, IdleType DEF Unwind
  <2> QED
    BY <1>3, <1>t, <1>v, <1>w, <2>1 DEF Unwind, LifecycleTypeOK
<1>4. CASE ReadRun(t)
  <2>1. [[r EXCEPT !.pc = "prepare"] EXCEPT !.read = status] \in TaskStates
    BY <1>t DEF TaskStates, Pcs, Owning, Resuming, Statuses, Terminal
  <2>2. tasks' \in [Tasks -> TaskStates]
    BY <1>4, <1>t, <2>1 DEF ReadRun
  <2> QED
    BY <1>4, <2>2 DEF ReadRun, LifecycleTypeOK
<1>5. CASE RejectForBudget(t)
  <2>1. [[r EXCEPT !.pc = "close"] EXCEPT !.to = "FAILED"] \in TaskStates
    BY <1>t DEF TaskStates, Pcs, Owning, Resuming, Statuses, Terminal
  <2>2. tasks' \in [Tasks -> TaskStates]
    BY <1>5, <1>t, <2>1 DEF RejectForBudget
  <2> QED
    BY <1>5, <2>2 DEF RejectForBudget, LifecycleTypeOK
<1>6. CASE LockBatch(t)
  <2>1. [[r EXCEPT !.pc = "prepare"] EXCEPT !.read = status] \in TaskStates
    BY <1>t DEF TaskStates, Pcs, Owning, Resuming
  <2>2. r.cmd \in Approvals /\ r.cmd.batch \in Batches /\ r.cmd.item \in Items /\ r.cmd.answer \in Answers
    BY <1>6, <1>t, CommandTypes DEF LockBatch, Kind
  <2>3. tasks' \in [Tasks -> TaskStates] /\ live' \in Tasks \cup {NoTask}
    BY <1>6, <1>t, <2>1, LeaveType DEF LockBatch, LifecycleTypeOK
  <2>4. /\ batch' \in [Batches -> BatchStates]
        /\ decided' \in [Batches -> [Items -> Answers \cup {"none"}]]
    <3>1. /\ batch' = batch \/ batch' = [batch EXCEPT ![r.cmd.batch] = "RESUMING"]
          /\ decided' = decided \/ decided' = [decided EXCEPT ![r.cmd.batch][r.cmd.item] = r.cmd.answer]
      BY <1>6 DEF LockBatch
    <3>2. batch \in [Batches -> BatchStates] /\ decided \in [Batches -> [Items -> Answers \cup {"none"}]]
      BY DEF LifecycleTypeOK
    <3> QED
      BY <2>2, <3>1, <3>2 DEF BatchStates
  <2> QED
    BY <1>6, <2>3, <2>4 DEF LockBatch, LifecycleTypeOK
<1>7. CASE EnsureSnapshot(t)
  <2>1. tasks' \in [Tasks -> TaskStates]
    BY <1>7, MoveType DEF EnsureSnapshot, Pcs, Owning
  <2>2. snapshot' \in BOOLEAN
    BY <1>7, Zenon DEF EnsureSnapshot
  <2> QED
    BY <1>7, <2>1, <2>2 DEF EnsureSnapshot, LifecycleTypeOK
<1>8. CASE PrepareFails(t)
  <2>1. tasks' \in [Tasks -> TaskStates] /\ live' \in Tasks \cup {NoTask}
    BY <1>8, <1>t, LeaveType DEF PrepareFails
  <2> QED
    BY <1>8, <2>1 DEF PrepareFails, LifecycleTypeOK
<1>9. CASE StartRun(t)
  <2>1. tasks' \in [Tasks -> TaskStates] /\ live' \in Tasks \cup {NoTask}
    BY <1>9, MoveType, LeaveType DEF StartRun, Pcs, Owning, Resuming, LifecycleTypeOK
  <2> QED
    BY <1>9, <2>1 DEF StartRun, LifecycleTypeOK, Statuses, Active
<1>10. CASE StartResume(t)
  <2>1. tasks' \in [Tasks -> TaskStates]
    BY <1>10, MoveType DEF StartResume, Pcs, Owning
  <2> QED
    BY <1>10, <2>1 DEF StartResume, LifecycleTypeOK, Statuses, Active
<1>10a. CASE SetupFails(t)
  <2>1. tasks' \in [Tasks -> TaskStates] /\ live' \in Tasks \cup {NoTask}
    BY <1>10a, <1>t, LeaveType DEF SetupFails
  <2> QED
    BY <1>10a, <2>1 DEF SetupFails, LifecycleTypeOK
<1>10b. CASE BeginExecution(t)
  <2>1. tasks' \in [Tasks -> TaskStates]
    BY <1>10b, MoveType DEF BeginExecution, Pcs, Owning, Resuming
  <2>2. resumes' \in [Batches -> Nat]
    <3>1. resumes \in [Batches -> Nat]
      BY DEF LifecycleTypeOK
    <3>2. CASE Kind(t) # "approval"
      BY <1>10b, <3>1, <3>2 DEF BeginExecution
    <3>3. CASE Kind(t) = "approval"
      <4>1. r.cmd.batch \in Batches
        BY <1>t, <3>3, CommandTypes DEF Kind
      <4>2. resumes' = [resumes EXCEPT ![r.cmd.batch] = resumes[r.cmd.batch] + 1]
        BY <1>10b, <3>3 DEF BeginExecution
      <4> QED
        BY <3>1, <4>1, <4>2
    <3> QED
      BY <3>2, <3>3
  <2> QED
    BY <1>10b, <2>1, <2>2 DEF BeginExecution, LifecycleTypeOK
<1>11. CASE \E b \in Batches : Interrupt(t, b)
  <2> PICK b \in Batches : Interrupt(t, b)
    BY <1>11
  <2>1. tasks' \in [Tasks -> TaskStates]
    BY MoveType DEF Interrupt, Pcs, Owning, Resuming
  <2>2. /\ batch' \in [Batches -> BatchStates]
        /\ rows' \in [Batches -> [Items -> Answers \cup {"none", "PENDING"}]]
    BY DEF Interrupt, LifecycleTypeOK, BatchStates
  <2> QED
    BY <2>1, <2>2 DEF Interrupt, LifecycleTypeOK
<1>12. CASE Park(t)
  <2>1. tasks' \in [Tasks -> TaskStates]
    BY <1>12, MoveType DEF Park, Pcs, Owning, Resuming
  <2> QED
    BY <1>12, <2>1 DEF Park, LifecycleTypeOK, Statuses, Active
<1>13. CASE \E to \in {"COMPLETED", "TIMED_OUT", "FAILED"} : ExecEnds(t, to)
  <2> PICK to \in {"COMPLETED", "TIMED_OUT", "FAILED"} : ExecEnds(t, to)
    BY <1>13
  <2>1. (to = "FAILED") \in BOOLEAN /\ to \in Statuses /\ "close" \in Pcs
    BY DEF Pcs, Owning, Resuming, Statuses, Terminal
  <2>2. [[[r EXCEPT !.pc = "close"] EXCEPT !.to = to] EXCEPT !.raised = (to = "FAILED")] \in TaskStates
    BY <1>t, <2>1 DEF TaskStates
  <2>3. tasks' \in [Tasks -> TaskStates]
    BY <1>t, <2>2 DEF ExecEnds
  <2> QED
    BY <2>3 DEF ExecEnds, LifecycleTypeOK
<1>14. CASE Close(t)
  <2>1. tasks' \in [Tasks -> TaskStates]
    BY <1>14, MoveType DEF Close, Pcs, Owning, Resuming
  <2> QED
    BY <1>14, <2>1, <1>t DEF Close, LifecycleTypeOK
<1>15. CASE Terminate(t)
  <2>1. tasks' \in [Tasks -> TaskStates]
    BY <1>15, MoveType DEF Terminate, Pcs, Owning, Resuming
  <2>2. terminals' \in Nat
    BY <1>15 DEF Terminate, LifecycleTypeOK
  <2>3. seal' \in [Producers -> BOOLEAN]
    <3>1. seal \in [Producers -> BOOLEAN] /\ seal' = [seal EXCEPT ![Kind(t)] = TRUE]
      BY <1>15 DEF Terminate, LifecycleTypeOK
    <3> QED
      BY <3>1, Zenon
  <2> QED
    BY <1>15, <2>1, <2>2, <2>3 DEF Terminate, LifecycleTypeOK
<1>16. CASE Finish(t)
  <2>1. tasks' \in [Tasks -> TaskStates] /\ live' \in Tasks \cup {NoTask}
    BY <1>16, <1>t, LeaveType DEF Finish
  <2> QED
    BY <1>16, <2>1, <1>v DEF Finish, LifecycleTypeOK
<1>17. CASE ReadForCancel(t)
  <2>1. CASE status \notin Active
    <3>1. tasks' \in [Tasks -> TaskStates] /\ live' \in Tasks \cup {NoTask}
      BY <1>17, <2>1, LeaveType DEF ReadForCancel
    <3> QED
      BY <1>17, <3>1 DEF ReadForCancel, LifecycleTypeOK
  <2>2. CASE status \in Active
    <3>1. [r EXCEPT !.pc = IF live = NoTask THEN "mark" ELSE "drain"] \in TaskStates
      BY <1>t DEF TaskStates, Pcs
    <3>2. \A u \in Tasks : [tasks[u] EXCEPT !.stop = TRUE] \in TaskStates /\ tasks[u] \in TaskStates
      BY <1>t DEF TaskStates
    <3>3. tasks' \in [Tasks -> TaskStates] /\ live' = live
      BY <1>17, <2>2, <3>1, <3>2 DEF ReadForCancel
    <3> QED
      BY <1>17, <3>3 DEF ReadForCancel, LifecycleTypeOK
  <2> QED
    BY <2>1, <2>2
<1>18. CASE Drain(t)
  <2>1. tasks' \in [Tasks -> TaskStates]
    BY <1>18, MoveType DEF Drain, Pcs
  <2> QED
    BY <1>18, <2>1 DEF Drain, LifecycleTypeOK
<1>19. CASE MarkCancelled(t)
  <2>1. tasks' \in [Tasks -> TaskStates]
    BY <1>19, MoveType DEF MarkCancelled, Pcs, Owning, Resuming
  <2> QED
    BY <1>19, <2>1 DEF MarkCancelled, LifecycleTypeOK, Statuses, Terminal
<1>20. CASE CancelFails(t)
  <2>1. tasks' \in [Tasks -> TaskStates] /\ live' \in Tasks \cup {NoTask}
    BY <1>20, <1>t, LeaveType DEF CancelFails
  <2> QED
    BY <1>20, <2>1 DEF CancelFails, LifecycleTypeOK
<1> QED
  BY <1>1, <1>2, <1>3, <1>4, <1>5, <1>6, <1>7, <1>8, <1>9, <1>10, <1>11, <1>12, <1>13,
     <1>14, <1>15, <1>16, <1>17, <1>18, <1>19, <1>20, <1>10a, <1>10b DEF TaskProceeds

\* Every step keeps the types.
LEMMA NextTypes == LifecycleTypeOK /\ [Next]_vars => LifecycleTypeOK'
<1> SUFFICES ASSUME LifecycleTypeOK, [Next]_vars PROVE LifecycleTypeOK'
  OBVIOUS
<1> USE DEF rowVars, queueVars, approvalVars, ledgerVars
<1>1. CASE UNCHANGED vars
  BY <1>1 DEF vars, LifecycleTypeOK
<1>2. CASE RequestCancel
  <2>1. outgoing' \in SUBSET Commands
    BY <1>2, CommandTypes DEF RequestCancel, LifecycleTypeOK
  <2> QED
    BY <1>2, <2>1 DEF RequestCancel, LifecycleTypeOK, Statuses, Active
<1>3. CASE \E c \in Approvals : Decide(c)
  <2> PICK c \in Approvals : Decide(c)
    BY <1>3
  <2>1. rows' \in [Batches -> [Items -> Answers \cup {"none", "PENDING"}]]
    BY CommandTypes DEF Decide, LifecycleTypeOK
  <2>2. outgoing' \in SUBSET Commands
    BY CommandTypes DEF Decide, LifecycleTypeOK
  <2> QED
    BY <2>1, <2>2 DEF Decide, LifecycleTypeOK
<1>4. CASE \E c \in Approvals : SweepExpired(c)
  BY <1>4, CommandTypes DEF SweepExpired, LifecycleTypeOK
<1>5. CASE \E c \in Commands : Enqueue(c)
  BY <1>5 DEF Enqueue, LifecycleTypeOK
<1>6. CASE \E t \in Tasks : \E c \in Commands : Claim(t, c)
  <2> PICK t \in Tasks, c \in Commands : Claim(t, c)
    BY <1>6
  <2>1. [[Idle EXCEPT !.pc = IF c = Cancel THEN "enter" ELSE "wait"] EXCEPT !.cmd = c] \in TaskStates
    BY IdleType DEF TaskStates, Pcs
  <2>2. tasks' \in [Tasks -> TaskStates]
    BY <2>1 DEF Claim, LifecycleTypeOK
  <2>3. deliveries' \in [Commands -> 0..MaxDeliveries]
    BY LifecycleAssumption DEF Claim, LifecycleTypeOK
  <2> QED
    BY <2>2, <2>3 DEF Claim, LifecycleTypeOK
<1>7. CASE \E t \in Tasks : TaskProceeds(t)
  BY <1>7, TaskTypes
<1>8. CASE \E graceful \in BOOLEAN : Restart(graceful)
  <2> PICK graceful \in BOOLEAN : Restart(graceful)
    BY <1>8
  <2>1. tasks' \in [Tasks -> TaskStates] /\ live' \in Tasks \cup {NoTask} /\ outgoing' \in SUBSET Commands
    BY IdleType DEF Restart
  <2>2. batch' \in [Batches -> BatchStates]
    BY DEF Restart, LifecycleTypeOK, BatchStates
  <2>3. seal' \in [Producers -> BOOLEAN]
    BY DEF Restart
  <2>4. restarts' \in 0..MaxRestarts
    BY LifecycleAssumption DEF Restart, LifecycleTypeOK
  <2> QED
    BY <2>1, <2>2, <2>3, <2>4 DEF Restart, LifecycleTypeOK
<1> QED
  BY <1>1, <1>2, <1>3, <1>4, <1>5, <1>6, <1>7, <1>8 DEF Next

\* The rows, the queue, the tasks, the batches and the ledger keep their types.
THEOREM LifecycleTypeCorrect == Spec => []LifecycleTypeOK
<1> QED
  BY InitTypeOK, NextTypes, PTL DEF Spec

-----------------------------------------------------------------------------
(* One resumption of a batch *)

\* create_run leaves the invariant.
LEMMA InitInv == Init => LifecycleInv
<1> SUFFICES ASSUME Init PROVE HandlerInv /\ \A b \in Batches : BatchInv(b)
  BY InitTypeOK DEF LifecycleInv
<1>1. \A t \in Tasks : tasks[t].pc = "idle"
  BY DEF Init, Idle
<1>2. HandlerInv
  BY <1>1 DEF HandlerInv
<1>3. \A b \in Batches : batch[b] = "none" /\ resumes[b] = 0
  BY DEF Init
<1> QED
  BY <1>1, <1>2, <1>3 DEF BatchInv, Owns, Owning, Resuming

\* A step that makes no task an owner and leaves the approval state alone.
LEMMA OwnersOnlyLeave ==
    ASSUME NEW b \in Batches, BatchInv(b),
           batch'[b] = batch[b], decided'[b] = decided[b], resumes'[b] = resumes[b],
           \A u \in Tasks : Owns(u, b)' => Owns(u, b) /\ (Fresh(u)' => Fresh(u))
    PROVE  BatchInv(b)'
BY DEF BatchInv

\* A step of one task after which it owns nothing it did not own, and has not moved
\* back to where the resumption is prepared.
LEMMA TaskOnlyLeaves ==
    ASSUME LifecycleTypeOK, NEW t \in Tasks, NEW b \in Batches,
           \A u \in Tasks : u # t => tasks'[u].pc = tasks[u].pc /\ tasks'[u].cmd = tasks[u].cmd,
           Owns(t, b)' => Owns(t, b) /\ (Fresh(t)' => Fresh(t))
    PROVE  \A u \in Tasks : Owns(u, b)' => Owns(u, b) /\ (Fresh(u)' => Fresh(u))
BY DEF Owns, Fresh, Kind

\* A step of a handler keeps what the invariant says of a batch.
LEMMA TaskBatchInv ==
    ASSUME LifecycleTypeOK, HandlerInv, NEW b \in Batches, BatchInv(b), NEW t \in Tasks, TaskProceeds(t)
    PROVE  BatchInv(b)'
<1> USE DEF rowVars, queueVars, approvalVars, ledgerVars
<1> DEFINE r == tasks[t]
<1>t. /\ r \in TaskStates /\ tasks \in [Tasks -> TaskStates] /\ r.cmd \in Commands
      /\ batch \in [Batches -> BatchStates] /\ resumes \in [Batches -> Nat]
  BY DEF LifecycleTypeOK, TaskStates
\* What leaves the approval state alone and moves task t only.
<1> DEFINE Quiet == /\ \A u \in Tasks : u # t => tasks'[u].pc = tasks[u].pc /\ tasks'[u].cmd = tasks[u].cmd
                    /\ tasks'[t].cmd = r.cmd
                    /\ UNCHANGED <<batch, decided, resumes>>
<1>1. ASSUME Quiet, \/ tasks'[t].pc \notin Owning
                    \/ Kind(t) # "approval"
                    \/ r.pc \in Owning /\ (tasks'[t].pc \in {"prepare", "start", "setup"} => Fresh(t))
      PROVE  BatchInv(b)'
  <2>1. Owns(t, b)' => Owns(t, b) /\ (Fresh(t)' => Fresh(t))
    BY <1>1 DEF Owns, Fresh, Kind
  <2> QED
    BY <1>1, <2>1, TaskOnlyLeaves, OwnersOnlyLeave
<1>2. CASE AcquireSlot(t)
  <2>1. Quiet /\ tasks'[t].pc = "enter"
    BY <1>2, <1>t DEF AcquireSlot, Move, TaskStates
  <2> QED
    BY <1>1, <2>1 DEF Owning, Resuming
<1>3. CASE Settle(t)
  <2>1. /\ \A u \in Tasks : u # t => tasks'[u] = tasks[u]
        /\ tasks'[t].pc = "idle" /\ UNCHANGED <<batch, decided, resumes>>
    BY <1>3, <1>t DEF Settle, Idle
  <2> QED
    BY <2>1, TaskOnlyLeaves, OwnersOnlyLeave DEF Owns, Owning, Resuming
<1>4. CASE ReadRun(t) \/ RejectForBudget(t)
  <2>1. Quiet /\ Kind(t) = "run"
    BY <1>4, <1>t DEF ReadRun, RejectForBudget, TaskStates
  <2> QED
    BY <1>1, <2>1
<1>5. CASE EnsureSnapshot(t) \/ StartResume(t)
  <2>1. Quiet /\ r.pc \in {"prepare", "start"} /\ tasks'[t].pc \in {"start", "setup"}
    BY <1>5, <1>t DEF EnsureSnapshot, StartResume, Move, At, TaskStates
  <2> QED
    BY <1>1, <2>1 DEF Owning, Fresh
<1>6. CASE PrepareFails(t) \/ SetupFails(t) \/ CancelFails(t)
  <2>1. Quiet /\ tasks'[t].pc = "settle"
    BY <1>6, <1>t DEF PrepareFails, SetupFails, CancelFails, Leave, TaskStates
  <2> QED
    BY <1>1, <2>1 DEF Owning, Resuming
<1>7. CASE StartRun(t)
  <2>1. Quiet /\ Kind(t) = "run"
    BY <1>7, <1>t DEF StartRun, Leave, Move, TaskStates
  <2> QED
    BY <1>1, <2>1
<1>8. CASE \/ Park(t) \/ Close(t) \/ Terminate(t)
           \/ \E to \in {"COMPLETED", "TIMED_OUT", "FAILED"} : ExecEnds(t, to)
  <2>1. Quiet /\ r.pc \in Owning /\ tasks'[t].pc \in {"finish", "terminate", "close"}
    BY <1>8, <1>t DEF Park, Close, Terminate, ExecEnds, Move, At, TaskStates, Owning, Resuming
  <2> QED
    BY <1>1, <2>1
<1>9. CASE ReadForCancel(t)
  <2>1. Quiet /\ Kind(t) # "approval"
    <3>1. CASE status \notin Active
      BY <1>9, <1>t, <3>1 DEF ReadForCancel, Leave, TaskStates
    <3>2. CASE status \in Active
      <4>1. \A u \in Tasks : u # t => tasks'[u] \in {tasks[u], [tasks[u] EXCEPT !.stop = TRUE]}
        BY <1>9, <1>t, <3>2 DEF ReadForCancel
      <4>2. tasks'[t].cmd = r.cmd
        BY <1>9, <1>t, <3>2 DEF ReadForCancel, TaskStates
      <4> QED
        BY <1>9, <1>t, <4>1, <4>2 DEF ReadForCancel, TaskStates
    <3> QED
      BY <3>1, <3>2
  <2> QED
    BY <1>1, <2>1
<1>10. CASE Drain(t) \/ MarkCancelled(t)
  <2>1. Quiet /\ Kind(t) # "approval"
    BY <1>10, <1>t DEF Drain, MarkCancelled, Move, At, TaskStates, HandlerInv
  <2> QED
    BY <1>1, <2>1
\* The owner of a batch resolves it as it leaves.
<1>11. CASE Unwind(t) \/ Finish(t)
  <2>1. /\ \A u \in Tasks : u # t => tasks'[u] = tasks[u]
        /\ tasks'[t].pc \in {"idle", "settle"} /\ UNCHANGED <<decided, resumes>>
        /\ batch' = ResolvedBy(t)
    BY <1>11, <1>t DEF Unwind, Finish, Leave, Idle, TaskStates
  <2>2. \A u \in Tasks : Owns(u, b)' => Owns(u, b) /\ (Fresh(u)' => Fresh(u))
    BY <2>1, TaskOnlyLeaves DEF Owns, Owning, Resuming
  <2>3. CASE batch'[b] = batch[b]
    BY <2>1, <2>2, <2>3, OwnersOnlyLeave
  <2>4. CASE batch'[b] # batch[b]
    <3>1. Owns(t, b) /\ batch'[b] = "RESOLVED"
      BY <1>t, <2>1, <2>4 DEF ResolvedBy, Owns, Owning
    <3>2. batch[b] \notin {"none", "PENDING"}
      BY <3>1 DEF BatchInv
    <3> QED
      BY <2>1, <2>2, <3>1, <3>2 DEF BatchInv
  <2> QED
    BY <2>3, <2>4
\* A pending batch has no owner and gets one.
<1>12. CASE LockBatch(t)
  <2> DEFINE c == r.cmd
  <2>1. c.batch \in Batches /\ c.item \in Items /\ c.answer \in Answers /\ Kind(t) = "approval"
    BY <1>12, <1>t, CommandTypes DEF LockBatch, Kind
  <2>2. /\ \A u \in Tasks : u # t => tasks'[u] = tasks[u]
        /\ tasks'[t].cmd = c /\ tasks'[t].pc \in {"settle", "prepare"}
        /\ UNCHANGED resumes
    BY <1>12, <1>t DEF LockBatch, Leave, TaskStates
  <2>3. r.pc = "enter"
    BY <1>12 DEF LockBatch, At
  <2>4. CASE c.batch # b
    <3>1. batch'[b] = batch[b] /\ decided'[b] = decided[b]
      BY <1>12, <2>4 DEF LockBatch, LifecycleTypeOK
    <3>2. ~Owns(t, b)'
      BY <2>2, <2>4 DEF Owns
    <3> QED
      BY <2>2, <3>1, <3>2, TaskOnlyLeaves, OwnersOnlyLeave
  <2>5. CASE c.batch = b /\ tasks'[t].pc = "settle"
    <3>0. tasks' # [tasks EXCEPT ![t].pc = "prepare", ![t].read = status]
      BY <1>t, <2>5 DEF TaskStates
    <3>1. batch' = batch /\ (decided' = decided \/ batch[b] = "PENDING")
      BY <1>12, <2>5, <3>0 DEF LockBatch
    <3>2. ~Owns(t, b)'
      BY <2>5 DEF Owns, Owning, Resuming
    <3>3. \A u \in Tasks : Owns(u, b)' => Owns(u, b) /\ (Fresh(u)' => Fresh(u))
      BY <2>2, <3>2, TaskOnlyLeaves
    <3> QED
      BY <2>2, <3>1, <3>3 DEF BatchInv
  <2>6. CASE c.batch = b /\ tasks'[t].pc = "prepare"
    <3>0. ~Leave(t, FALSE)
      BY <1>t, <2>6 DEF Leave, TaskStates
    <3>1. /\ batch[b] = "PENDING" /\ batch' = [batch EXCEPT ![b] = "RESUMING"]
          /\ \A i \in Items : decided'[b][i] # "none"
      BY <1>12, <2>6, <3>0 DEF LockBatch
    <3>a. batch'[b] = "RESUMING"
      BY <1>t, <3>1
    <3>2. resumes[b] = 0 /\ \A u \in Tasks : ~Owns(u, b)
      BY <3>1 DEF BatchInv
    <3>3. \A u \in Tasks : Owns(u, b)' => u = t
      BY <2>2, <3>2 DEF Owns, Kind
    <3> QED
      BY <2>2, <3>1, <3>a, <3>2, <3>3 DEF BatchInv
  <2> QED
    BY <2>2, <2>4, <2>5, <2>6
\* The one owner of the batch starts it, and is no longer where it may start.
<1>13. CASE BeginExecution(t) /\ Kind(t) = "approval"
  <2>1. /\ \A u \in Tasks : u # t => tasks'[u] = tasks[u]
        /\ tasks'[t].cmd = r.cmd /\ tasks'[t].pc = "exec" /\ UNCHANGED <<batch, decided>>
    BY <1>13, <1>t DEF BeginExecution, Move, TaskStates
  <2>2. r.cmd.batch \in Batches /\ Kind(t) = "approval" /\ r.pc = "setup"
    BY <1>13, <1>t, CommandTypes DEF BeginExecution, Kind, At
  <2>3. Owns(t, r.cmd.batch) /\ Fresh(t) /\ ~Fresh(t)'
    BY <2>1, <2>2 DEF Owns, Fresh, Owning
  <2>4. \A u \in Tasks : Owns(u, b)' => Owns(u, b) /\ (Fresh(u)' => Fresh(u))
    BY <2>1, <2>3, TaskOnlyLeaves DEF Owns, Kind
  <2>5. CASE r.cmd.batch # b
    <3>1. resumes'[b] = resumes[b]
      BY <1>13, <1>t, <2>5 DEF BeginExecution
    <3> QED
      BY <2>1, <2>4, <3>1, OwnersOnlyLeave
  <2>6. CASE r.cmd.batch = b
    <3>1. resumes[b] = 0 /\ batch[b] \notin {"none", "PENDING"}
      BY <2>3, <2>6 DEF BatchInv
    <3>2. resumes'[b] = 1
      BY <1>13, <1>t, <2>6, <3>1 DEF BeginExecution
    <3>3. \A u \in Tasks : Owns(u, b)' => u = t
      BY <2>3, <2>4, <2>6 DEF BatchInv
    <3> QED
      BY <2>1, <2>3, <3>1, <3>2, <3>3 DEF BatchInv
  <2> QED
    BY <2>5, <2>6
<1>15. CASE BeginExecution(t) /\ Kind(t) # "approval"
  <2>1. Quiet
    BY <1>15, <1>t DEF BeginExecution, Move, TaskStates
  <2> QED
    BY <1>1, <1>15, <2>1
<1>14. CASE \E e \in Batches : Interrupt(t, e)
  <2> PICK e \in Batches : Interrupt(t, e)
    BY <1>14
  <2>1. /\ \A u \in Tasks : u # t => tasks'[u] = tasks[u]
        /\ tasks'[t].cmd = r.cmd /\ tasks'[t].pc = "park" /\ r.pc = "exec"
        /\ UNCHANGED <<decided, resumes>>
    BY <1>t DEF Interrupt, Move, At, TaskStates
  <2>2. \A u \in Tasks : Owns(u, b)' => Owns(u, b) /\ (Fresh(u)' => Fresh(u))
    BY <2>1, TaskOnlyLeaves DEF Owns, Fresh, Kind, Owning, Resuming
  <2>3. batch'[b] = batch[b] \/ (batch[b] = "none" /\ batch'[b] = "PENDING")
    <3>1. batch[e] = "none" /\ batch' = [batch EXCEPT ![e] = "PENDING"]
      BY DEF Interrupt
    <3> QED
      BY <1>t, <3>1
  <2>4. CASE batch'[b] = batch[b]
    BY <2>1, <2>2, <2>4, OwnersOnlyLeave
  <2>5. CASE batch[b] = "none" /\ batch'[b] = "PENDING"
    BY <2>1, <2>2, <2>5 DEF BatchInv
  <2> QED
    BY <2>3, <2>4, <2>5
<1> QED
  BY <1>2, <1>3, <1>4, <1>5, <1>6, <1>7, <1>8, <1>9, <1>10, <1>11, <1>12, <1>13, <1>14, <1>15
  DEF TaskProceeds

\* The cancel handler alone reaches its drain.
LEMMA NextHandlerInv == LifecycleTypeOK /\ HandlerInv /\ [Next]_vars => HandlerInv'
<1> SUFFICES ASSUME LifecycleTypeOK, HandlerInv, [Next]_vars, NEW u \in Tasks,
                    tasks'[u].pc \in {"drain", "mark"}
             PROVE  tasks'[u].cmd.kind = "cancel"
  BY DEF HandlerInv, Kind
<1>t. tasks \in [Tasks -> TaskStates] /\ \A t \in Tasks : tasks[t].pc \in {"drain", "mark"} => tasks[t].cmd.kind = "cancel"
  BY DEF LifecycleTypeOK, HandlerInv, Kind
<1>1. CASE tasks' = tasks
  BY <1>1, <1>t
<1>2. CASE \E t \in Tasks : \E c \in Commands : Claim(t, c)
  BY <1>2, <1>t DEF Claim, Idle
<1>3. CASE \E t \in Tasks : TaskProceeds(t)
  <2> PICK t \in Tasks : TaskProceeds(t)
    BY <1>3
  <2>1. CASE ReadForCancel(t)
    <3>1. CASE status \notin Active
      BY <1>t, <2>1, <3>1 DEF ReadForCancel, Leave, TaskStates
    <3>2. CASE status \in Active
      <4>1. CASE u = t
        BY <1>t, <2>1, <3>2, <4>1 DEF ReadForCancel, Kind, TaskStates
      <4>2. CASE u # t
        <5>1. tasks'[u] \in {tasks[u], [tasks[u] EXCEPT !.stop = TRUE]}
          BY <1>t, <2>1, <3>2, <4>2 DEF ReadForCancel
        <5> QED
          BY <1>t, <5>1 DEF TaskStates
      <4> QED
        BY <4>1, <4>2
    <3> QED
      BY <3>1, <3>2
  <2>2. CASE Drain(t)
    BY <1>t, <2>2 DEF Drain, Move, At, TaskStates
  <2>3. CASE MarkCancelled(t) \/ AcquireSlot(t) \/ EnsureSnapshot(t) \/ StartResume(t)
             \/ BeginExecution(t) \/ Park(t) \/ Close(t) \/ Terminate(t) \/ \E b \in Batches : Interrupt(t, b)
    BY <1>t, <2>3 DEF MarkCancelled, AcquireSlot, EnsureSnapshot, StartResume,
                      BeginExecution, Park, Close, Terminate, Interrupt, Move, TaskStates
  <2>4. CASE \/ ReadRun(t) \/ RejectForBudget(t) \/ PrepareFails(t) \/ SetupFails(t) \/ Finish(t) \/ CancelFails(t)
             \/ \E to \in {"COMPLETED", "TIMED_OUT", "FAILED"} : ExecEnds(t, to)
    BY <1>t, <2>4 DEF ReadRun, RejectForBudget, PrepareFails, SetupFails, Finish, CancelFails,
                      ExecEnds, Leave, TaskStates
  <2>5. CASE StartRun(t) \/ LockBatch(t)
    BY <1>t, <2>5 DEF StartRun, LockBatch, Leave, Move, TaskStates
  <2>6. CASE Settle(t) \/ Unwind(t)
    BY <1>t, <2>6 DEF Settle, Unwind, Idle
  <2> QED
    BY <2>1, <2>2, <2>3, <2>4, <2>5, <2>6 DEF TaskProceeds
<1>4. CASE \E graceful \in BOOLEAN : Restart(graceful)
  BY <1>4 DEF Restart, Idle
<1> QED
  BY <1>1, <1>2, <1>3, <1>4 DEF Next, RequestCancel, Decide, SweepExpired, Enqueue, vars

\* Every step keeps the invariant.
LEMMA NextInv == LifecycleInv /\ [Next]_vars => LifecycleInv'
<1> SUFFICES ASSUME LifecycleInv, [Next]_vars, NEW b \in Batches PROVE BatchInv(b)'
  BY NextTypes, NextHandlerInv DEF LifecycleInv
<1> USE DEF rowVars, queueVars, approvalVars, ledgerVars
<1>i. LifecycleTypeOK /\ HandlerInv /\ BatchInv(b)
  BY DEF LifecycleInv
<1>1. CASE UNCHANGED <<tasks, batch, decided, resumes>>
  BY <1>1, <1>i, OwnersOnlyLeave DEF Owns, Fresh, Kind
<1>2. CASE \E t \in Tasks : \E c \in Commands : Claim(t, c)
  <2> PICK t \in Tasks, c \in Commands : Claim(t, c)
    BY <1>2
  <2>1. /\ \A u \in Tasks : u # t => tasks'[u] = tasks[u]
        /\ tasks'[t].pc \in {"enter", "wait"} /\ UNCHANGED <<batch, decided, resumes>>
    BY <1>i DEF Claim, Idle, LifecycleTypeOK
  <2> QED
    BY <1>i, <2>1, TaskOnlyLeaves, OwnersOnlyLeave DEF Owns, Owning, Resuming
<1>3. CASE \E t \in Tasks : TaskProceeds(t)
  BY <1>3, <1>i, TaskBatchInv
<1>4. CASE \E graceful \in BOOLEAN : Restart(graceful)
  <2> PICK graceful \in BOOLEAN : Restart(graceful)
    BY <1>4
  <2>1. \A u \in Tasks : ~Owns(u, b)'
    BY DEF Restart, Idle, Owns, Owning, Resuming
  <2>2. UNCHANGED <<decided, resumes>>
    BY DEF Restart
  <2>3. batch'[b] = batch[b] \/ (batch'[b] = "RESOLVED" /\ \E t \in Tasks : Owns(t, b))
    BY DEF Restart, Owns, Owning
  <2>4. batch'[b] = batch[b] \/ (batch'[b] = "RESOLVED" /\ batch[b] \notin {"none", "PENDING"})
    BY <1>i, <2>3 DEF BatchInv
  <2> QED
    BY <1>i, <2>1, <2>2, <2>4 DEF BatchInv
<1> QED
  BY <1>1, <1>2, <1>3, <1>4 DEF Next, RequestCancel, Decide, SweepExpired, Enqueue, vars

\* The invariant holds throughout.
LEMMA LifecycleInvariant == Spec => []LifecycleInv
<1> QED
  BY InitInv, NextInv, PTL DEF Spec

\* Whatever is decided twice, delivered twice, retried, cancelled or cut off by a
\* restart, the graph is resumed at most once for an interrupt, and then with a
\* decision on every item (record_item_decision_and_maybe_lock_batch).
THEOREM ResumedOnce == Spec => []ResumedOnceWithEveryDecision
<1>1. LifecycleInv => ResumedOnceWithEveryDecision
  <2> SUFFICES ASSUME LifecycleInv, NEW b \in Batches
               PROVE  resumes[b] <= 1 /\ (resumes[b] = 1 => \A i \in Items : decided[b][i] # "none")
    BY DEF ResumedOnceWithEveryDecision
  <2> QED
    BY DEF LifecycleInv, BatchInv
<1> QED
  BY <1>1, LifecycleInvariant, PTL

\* A taken batch is never pending again, and its decisions do not change: no late
\* decision alters what the graph is resumed with.
THEOREM DecisionsStayFrozen == Spec => DecisionsFrozen
<1> USE DEF rowVars, queueVars, approvalVars, ledgerVars
<1>1. ASSUME LifecycleInv, Next, NEW b \in Batches, batch[b] \notin {"none", "PENDING"}
      PROVE  decided'[b] = decided[b] /\ batch'[b] # "PENDING"
  <2>t. tasks \in [Tasks -> TaskStates] /\ batch \in [Batches -> BatchStates]
        /\ decided \in [Batches -> [Items -> Answers \cup {"none"}]]
    BY <1>1 DEF LifecycleInv, LifecycleTypeOK
  <2>1. CASE UNCHANGED <<batch, decided>>
    BY <1>1, <2>1
  <2>2. CASE \E t \in Tasks : LockBatch(t)
    <3> PICK t \in Tasks : LockBatch(t)
      BY <2>2
    <3>1. CASE tasks[t].cmd.batch = b
      BY <1>1, <3>1 DEF LockBatch
    <3>2. CASE tasks[t].cmd.batch # b
      BY <1>1, <2>t, <3>2 DEF LockBatch
    <3> QED
      BY <3>1, <3>2
  <2>3. CASE \E t \in Tasks : \E e \in Batches : Interrupt(t, e)
    BY <1>1, <2>t, <2>3 DEF Interrupt
  <2>4. CASE \E t \in Tasks : Unwind(t) \/ Finish(t)
    BY <1>1, <2>t, <2>4 DEF Unwind, Finish, ResolvedBy
  <2>5. CASE \E graceful \in BOOLEAN : Restart(graceful)
    BY <1>1, <2>t, <2>5 DEF Restart
  <2>6. CASE \E t \in Tasks : TaskProceeds(t)
    BY <2>1, <2>2, <2>3, <2>4, <2>6 DEF TaskProceeds, AcquireSlot, Settle, ReadRun, RejectForBudget,
       EnsureSnapshot, PrepareFails, StartRun, StartResume, SetupFails, BeginExecution, Park, ExecEnds,
       Close, Terminate, ReadForCancel, Drain, MarkCancelled, CancelFails
  <2> QED
    BY <1>1, <2>1, <2>5, <2>6 DEF Next, RequestCancel, Decide, SweepExpired, Enqueue, Claim
<1>2. LifecycleInv /\ [Next]_vars =>
        [\A b \in Batches : batch[b] \notin {"none", "PENDING"} =>
            decided'[b] = decided[b] /\ batch'[b] # "PENDING"]_vars
  BY <1>1
<1> QED
  BY <1>2, LifecycleInvariant, PTL DEF Spec, DecisionsFrozen
=============================================================================
