---------------------------- MODULE RuntimeQueue ----------------------------
(***************************************************************************)
(* The durable command queue of the runtime and the worker loop that       *)
(* drains it: FileRuntimeApiStore's queue half (claim_next, mark_*, the    *)
(* enqueue_* family, the boot-time replay and compaction of queue.jsonl),  *)
(* ArtifactAwareRuntimeQueue, which bridges the canonical artifact outbox  *)
(* into that queue, and RuntimeWorker.run_forever / _handle_claim.         *)
(*                                                                         *)
(* Time is two booleans: a command whose available_at lies ahead is in     *)
(* `delayed`, and a claim whose lock_expires_at has passed is "expired".   *)
(* The ledger file is represented by the image that replaying it yields.   *)
(***************************************************************************)
EXTENDS Naturals, Sequences, FiniteSets

CONSTANTS
    RunCmds,        \* RUN_REQUESTED commands
    ControlCmds,    \* RUN_CANCEL_REQUESTED and RUN_STEER_REQUESTED commands
    CommitCmds,     \* EFFECT_COMMIT_REQUESTED: ids derived from the decision
    ReconcileCmds,  \* EFFECT_RECONCILE_REQUESTED: idempotent enqueue
    ArtifactCmds,   \* ARTIFACT_EVENT_PUBLISH_REQUESTED: bridged from the outbox
    Slots,          \* the in-flight claim tasks of run_forever
    MaxParallel,    \* settings.execution.max_parallel_runs
    MaxRetries,     \* settings.execution.max_retries
    MaxEnqueues,    \* bound: caller-driven registrations of one command id
    MaxCrashes,     \* bound: process crashes
    NoCommand

Commands == RunCmds \cup ControlCmds \cup CommitCmds \cup ReconcileCmds \cup ArtifactCmds

ASSUME QueueAssumption ==
    /\ NoCommand \notin Commands
    /\ IsFiniteSet(Commands) /\ IsFiniteSet(Slots)
    /\ MaxParallel \in Nat \ {0}
    /\ MaxRetries \in Nat
    /\ MaxEnqueues \in Nat \ {0}
    /\ MaxCrashes \in Nat

VARIABLES
    order,      \* _queue_order, with the duplicates a re-registration appends
    status,     \* _queue_statuses; "absent" when the id has no row
    attempts,   \* _queue_attempts
    delayed,    \* commands whose _queue_available_at is in the future
    claims,     \* _queue_claims: "none", "active", or "expired"
    disk,       \* what replaying queue.jsonl gives
    tasks,      \* one record per in-flight slot
    poll,       \* where run_forever is: the outbox rows still to be bridged
    outbox,     \* the canonical artifact outbox (durable)
    enqueues,   \* history: registrations per command
    retries,    \* history: mark_retry calls since the last registration
    handled,    \* history: commands some handler completed or dead-lettered
    crashes

memory == <<order, status, attempts, delayed, claims>>
history == <<enqueues, retries, handled>>
vars == <<order, status, attempts, delayed, claims, disk, tasks, poll, outbox,
          enqueues, retries, handled, crashes>>

Claimable == {"PENDING", "RETRY", "CLAIMED"}
Settled == {"COMPLETED", "DEAD_LETTER"}
Statuses == Claimable \cup Settled \cup {"absent"}

IdleTask == [phase |-> "idle", cmd |-> NoCommand, attempts |-> 0]
IdlePoll == [bridging |-> FALSE, todo |-> {}]

\* The first occurrence of c in s comes before the first of d.
Before(c, d, s) ==
    \E i \in 1..Len(s) : s[i] = c /\ \A j \in 1..i : s[j] # d

TypeOK ==
    /\ order \in Seq(Commands)
    /\ status \in [Commands -> Statuses]
    /\ attempts \in [Commands -> Nat]
    /\ delayed \in SUBSET Commands
    /\ claims \in [Commands -> {"none", "active", "expired"}]
    /\ disk \in [order : Seq(Commands),
                 status : [Commands -> Statuses \ {"CLAIMED"}],
                 attempts : [Commands -> Nat]]
    /\ tasks \in [Slots -> [phase : {"idle", "waiting", "handling", "acking"},
                            cmd : Commands \cup {NoCommand},
                            attempts : Nat]]
    /\ poll \in [bridging : BOOLEAN, todo : SUBSET ArtifactCmds]
    /\ outbox \in [ArtifactCmds -> {"none", "pending", "acked"}]
    /\ enqueues \in [Commands -> Nat]
    /\ retries \in [Commands -> Nat]
    /\ handled \in SUBSET Commands
    /\ crashes \in Nat

Init ==
    /\ order = <<>>
    /\ status = [c \in Commands |-> "absent"]
    /\ attempts = [c \in Commands |-> 0]
    /\ delayed = {}
    /\ claims = [c \in Commands |-> "none"]
    /\ disk = [order |-> <<>>,
               status |-> [c \in Commands |-> "absent"],
               attempts |-> [c \in Commands |-> 0]]
    /\ tasks = [t \in Slots |-> IdleTask]
    /\ poll = IdlePoll
    /\ outbox = [c \in ArtifactCmds |-> "none"]
    /\ enqueues = [c \in Commands |-> 0]
    /\ retries = [c \in Commands |-> 0]
    /\ handled = {}
    /\ crashes = 0

-----------------------------------------------------------------------------
(* Registration *)

\* Mutant: the enqueue record does not reset the attempt count on replay.
RegisterKeepsAttempts(c) ==
    /\ order' = Append(order, c)
    /\ status' = [status EXCEPT ![c] = "PENDING"]
    /\ attempts' = [attempts EXCEPT ![c] = 0]
    /\ delayed' = delayed \ {c}
    /\ disk' = [order |-> IF disk.status[c] = "absent"
                          THEN Append(disk.order, c) ELSE disk.order,
                status |-> [disk.status EXCEPT ![c] = "PENDING"],
                attempts |-> disk.attempts]
    /\ enqueues' = [enqueues EXCEPT ![c] = @ + 1]
    /\ retries' = [retries EXCEPT ![c] = 0]
    /\ UNCHANGED <<claims, tasks, handled, crashes>>

\* _register_command_locked: the row is reset whatever it held, the id is
\* appended to the order again, and a claim that is still out is not touched.
RegisterCommand(c) ==
    /\ order' = Append(order, c)
    /\ status' = [status EXCEPT ![c] = "PENDING"]
    /\ attempts' = [attempts EXCEPT ![c] = 0]
    /\ delayed' = delayed \ {c}
    /\ disk' = [order |-> IF disk.status[c] = "absent"
                          THEN Append(disk.order, c) ELSE disk.order,
                status |-> [disk.status EXCEPT ![c] = "PENDING"],
                attempts |-> [disk.attempts EXCEPT ![c] = 0]]
    /\ enqueues' = [enqueues EXCEPT ![c] = @ + 1]
    /\ retries' = [retries EXCEPT ![c] = 0]
    /\ UNCHANGED <<claims, tasks, handled, crashes>>

\* enqueue_run, enqueue_cancel, ...: the id is a fresh uuid.
EnqueueFresh(c) ==
    /\ c \in RunCmds \cup ControlCmds
    /\ enqueues[c] = 0
    /\ RegisterCommand(c)
    /\ UNCHANGED <<poll, outbox>>

\* enqueue_effect_commit: the id is derived from the decision, and an id the
\* queue already holds is registered over the old row.
EnqueueEffectCommit(c) ==
    /\ c \in CommitCmds
    /\ enqueues[c] < MaxEnqueues
    /\ RegisterCommand(c)
    /\ UNCHANGED <<poll, outbox>>

\* enqueue_effect_reconcile: an id the queue holds, in any status, is left alone.
EnqueueEffectReconcile(c) ==
    /\ c \in ReconcileCmds
    /\ enqueues[c] < MaxEnqueues
    /\ status[c] = "absent"
    /\ RegisterCommand(c)
    /\ UNCHANGED <<poll, outbox>>

\* The artifact repository commits an event to its own outbox (external).
PublishArtifact(c) ==
    /\ outbox[c] = "none"
    /\ outbox' = [outbox EXCEPT ![c] = "pending"]
    /\ UNCHANGED <<memory, disk, tasks, poll, history, crashes>>

-----------------------------------------------------------------------------
(* run_forever: one pass bridges the outbox, then claims *)

\* _bridge_pending reads the rows that are pending now.
BeginPoll ==
    /\ ~poll.bridging
    /\ \E t \in Slots : tasks[t].phase = "idle"
    /\ poll' = [bridging |-> TRUE,
                todo |-> {c \in ArtifactCmds : outbox[c] = "pending"}]
    /\ UNCHANGED <<memory, disk, tasks, outbox, history, crashes>>

\* Mutant: any row the queue knows is acknowledged.
BridgeAcksKnown(c) ==
    /\ c \in poll.todo
    /\ poll' = [poll EXCEPT !.todo = @ \ {c}]
    /\ \/ /\ status[c] # "absent"
          /\ outbox' = [outbox EXCEPT ![c] = "acked"]
          /\ UNCHANGED <<memory, disk, tasks, history, crashes>>
       \/ /\ status[c] = "absent"
          /\ RegisterCommand(c)
          /\ UNCHANGED outbox

\* Mutant: a row the queue has settled is skipped without the acknowledgement.
BridgeNeverAcks(c) ==
    /\ c \in poll.todo
    /\ poll' = [poll EXCEPT !.todo = @ \ {c}]
    /\ \/ /\ status[c] # "absent"
          /\ UNCHANGED <<memory, disk, tasks, outbox, history, crashes>>
       \/ /\ status[c] = "absent"
          /\ RegisterCommand(c)
          /\ UNCHANGED outbox

\* One row of that list: acknowledged when the queue has already settled it,
\* otherwise mirrored into the queue by enqueue_artifact_event (idempotent).  A call of
\* its that raises ends the loop, which has no handler for it: that is CrashAndRestart.
BridgePending(c) ==
    /\ c \in poll.todo
    /\ poll' = [poll EXCEPT !.todo = @ \ {c}]
    /\ \/ /\ status[c] \in Settled
          /\ outbox' = [outbox EXCEPT ![c] = "acked"]
          /\ UNCHANGED <<memory, disk, tasks, history, crashes>>
       \/ /\ status[c] \in Claimable
          /\ UNCHANGED <<memory, disk, tasks, outbox, history, crashes>>
       \/ /\ status[c] = "absent"
          /\ RegisterCommand(c)
          /\ UNCHANGED outbox

\* Mutant: claim_next does not look at RETRY rows.
CanClaimNotRetry(c) ==
    /\ status[c] \in {"PENDING", "CLAIMED"}
    /\ c \notin delayed
    /\ claims[c] # "active"

CanClaim(c) ==
    /\ status[c] \in Claimable
    /\ c \notin delayed
    /\ claims[c] # "active"

\* Mutant: the scan starts at the newest registration.
IsNextNewest(c) ==
    \E i \in 1..Len(order) :
        /\ order[i] = c
        /\ CanClaim(c)
        /\ \A j \in (i + 1)..Len(order) : ~CanClaim(order[j])

\* The command claim_next returns: the first in order that can be claimed.
IsNext(c) ==
    \E i \in 1..Len(order) :
        /\ order[i] = c
        /\ CanClaim(c)
        /\ \A j \in 1..(i - 1) : ~CanClaim(order[j])

\* Mutant: the attempt count is not written to the ledger.
ClaimForgetsAttempt(t, c) ==
    /\ poll.bridging /\ poll.todo = {}
    /\ tasks[t].phase = "idle"
    /\ IsNext(c)
    /\ status' = [status EXCEPT ![c] = "CLAIMED"]
    /\ attempts' = [attempts EXCEPT ![c] = @ + 1]
    /\ claims' = [claims EXCEPT ![c] = "active"]
    /\ tasks' = [tasks EXCEPT ![t] =
                    [phase |-> IF c \in ControlCmds THEN "handling" ELSE "waiting",
                     cmd |-> c, attempts |-> attempts[c] + 1]]
    /\ poll' = IdlePoll
    /\ UNCHANGED <<order, delayed, disk, outbox, history, crashes>>

\* claim_next and create_task(_dispatch_claim). Only the attempt counter is
\* written to the ledger. A control command skips the semaphore; any other
\* waits for it in _handle_claim_with_limit.
ClaimNext(t, c) ==
    /\ poll.bridging /\ poll.todo = {}
    /\ tasks[t].phase = "idle"
    /\ IsNext(c)
    /\ status' = [status EXCEPT ![c] = "CLAIMED"]
    /\ attempts' = [attempts EXCEPT ![c] = @ + 1]
    /\ claims' = [claims EXCEPT ![c] = "active"]
    /\ disk' = [disk EXCEPT !.attempts[c] = attempts[c] + 1]
    /\ tasks' = [tasks EXCEPT ![t] =
                    [phase |-> IF c \in ControlCmds THEN "handling" ELSE "waiting",
                     cmd |-> c, attempts |-> attempts[c] + 1]]
    /\ poll' = IdlePoll
    /\ UNCHANGED <<order, delayed, outbox, history, crashes>>

\* claim_next returns None; the loop sleeps poll_interval_seconds.
ClaimNone ==
    /\ poll.bridging /\ poll.todo = {}
    /\ \A c \in Commands : ~IsNext(c)
    /\ poll' = IdlePoll
    /\ UNCHANGED <<memory, disk, tasks, outbox, history, crashes>>

Executing == {t \in Slots : tasks[t].phase = "handling" /\ tasks[t].cmd \notin ControlCmds}

\* async with self._semaphore
AcquireSemaphore(t) ==
    /\ tasks[t].phase = "waiting"
    /\ Cardinality(Executing) < MaxParallel
    /\ tasks' = [tasks EXCEPT ![t].phase = "handling"]
    /\ UNCHANGED <<memory, disk, poll, outbox, history, crashes>>

-----------------------------------------------------------------------------
(* Settling a claim. None of the three marks looks at who holds the claim. *)

\* Mutant: the ephemeral CLAIMED status is what reaches the ledger.
SetRowPersistsClaim(c, s) ==
    /\ status' = [status EXCEPT ![c] = s]
    /\ claims' = [claims EXCEPT ![c] = "none"]
    /\ disk' = [disk EXCEPT !.status[c] = status[c]]

SetRow(c, s) ==
    /\ status' = [status EXCEPT ![c] = s]
    /\ claims' = [claims EXCEPT ![c] = "none"]
    /\ disk' = [disk EXCEPT !.status[c] = s]

\* ArtifactAwareRuntimeQueue.mark_complete / mark_dead_letter acknowledge the
\* outbox after the queue row is written.
AfterSettle(t) ==
    tasks' = [tasks EXCEPT ![t] = IF tasks[t].cmd \in ArtifactCmds
                                  THEN [@ EXCEPT !.phase = "acking"] ELSE IdleTask]

MarkComplete(t) ==
    /\ SetRow(tasks[t].cmd, "COMPLETED")
    /\ handled' = handled \cup {tasks[t].cmd}
    /\ AfterSettle(t)
    /\ UNCHANGED <<delayed, retries>>

MarkDeadLetter(t) ==
    /\ SetRow(tasks[t].cmd, "DEAD_LETTER")
    /\ handled' = handled \cup {tasks[t].cmd}
    /\ AfterSettle(t)
    /\ UNCHANGED <<delayed, retries>>

MarkRetry(t) ==
    /\ SetRow(tasks[t].cmd, "RETRY")
    /\ delayed' = delayed \cup {tasks[t].cmd}
    /\ retries' = [retries EXCEPT ![tasks[t].cmd] = @ + 1]
    /\ tasks' = [tasks EXCEPT ![t] = IdleTask]
    /\ UNCHANGED handled

\* _mark_failure, with retryable = error.retryable and retry_permitted.
MarkFailure(t, retryable) ==
    IF retryable /\ tasks[t].attempts <= MaxRetries
    THEN MarkRetry(t) ELSE MarkDeadLetter(t)

\* The handler returns, or is cancelled by the cancel handler of this process.
HandlerSucceeds(t) ==
    /\ tasks[t].phase = "handling"
    /\ MarkComplete(t)
    /\ UNCHANGED <<order, attempts, poll, outbox, enqueues, crashes>>

\* The handler raises after it was entered: _retry_permitted refuses to replay
\* a run, and an error that is not an AgentRuntimeError counts as retryable.
HandlerFails(t, retryable) ==
    /\ tasks[t].phase = "handling"
    /\ MarkFailure(t, retryable /\ tasks[t].cmd \notin RunCmds)
    /\ UNCHANGED <<order, attempts, poll, outbox, enqueues, crashes>>

\* _prepare_dispatch raises: the handler was never entered, so a run too may
\* be retried.
DispatchFails(t, retryable) ==
    /\ tasks[t].phase = "handling"
    /\ MarkFailure(t, retryable)
    /\ UNCHANGED <<order, attempts, poll, outbox, enqueues, crashes>>

\* acknowledge_artifact_event succeeds, or raises out of the claim task.
Acknowledge(t) ==
    /\ tasks[t].phase = "acking"
    /\ outbox' = [outbox EXCEPT ![tasks[t].cmd] = "acked"]
    /\ tasks' = [tasks EXCEPT ![t] = IdleTask]
    /\ UNCHANGED <<memory, disk, poll, history, crashes>>

AcknowledgeFails(t) ==
    /\ tasks[t].phase = "acking"
    /\ tasks' = [tasks EXCEPT ![t] = IdleTask]
    /\ UNCHANGED <<memory, disk, poll, outbox, history, crashes>>

-----------------------------------------------------------------------------
(* The environment: time and crashes *)

\* lock_seconds pass; nothing renews a claim.
LockExpires(c) ==
    /\ claims[c] = "active"
    /\ claims' = [claims EXCEPT ![c] = "expired"]
    /\ UNCHANGED <<order, status, attempts, delayed, disk, tasks, poll, outbox, history, crashes>>

\* retry_delay_seconds pass.
BecomesAvailable(c) ==
    /\ c \in delayed
    /\ delayed' = delayed \ {c}
    /\ UNCHANGED <<order, status, attempts, claims, disk, tasks, poll, outbox, history, crashes>>

Live(c) == disk.status[c] \notin Settled \cup {"absent"}

\* The commands of s that are in L, in their order: the loop that picks the live ones.
Kept(s, L) ==
    LET kept[n \in 0..Len(s)] ==
            IF n = 0 THEN <<>>
            ELSE IF s[n] \in L THEN Append(kept[n - 1], s[n]) ELSE kept[n - 1]
    IN  kept[Len(s)]

\* _load_queue_from_disk, and _compact_queue_ledger when the log is long enough.
Reload(compact) ==
    /\ disk' = IF compact
               THEN [order |-> Kept(disk.order, {c \in Commands : Live(c)}),
                     status |-> [c \in Commands |->
                                    IF Live(c) THEN disk.status[c] ELSE "absent"],
                     attempts |-> [c \in Commands |->
                                    IF Live(c) THEN disk.attempts[c] ELSE 0]]
               ELSE disk
    /\ order' = disk'.order
    /\ status' = disk'.status
    /\ attempts' = disk'.attempts
    /\ claims' = [c \in Commands |-> "none"]
    /\ UNCHANGED delayed

\* The process dies, or run_forever is cancelled (_abandon_inflight), and boots
\* again: every claim task and every claim is gone.
CrashAndRestart(compact) ==
    /\ crashes < MaxCrashes
    /\ crashes' = crashes + 1
    /\ Reload(compact)
    /\ tasks' = [t \in Slots |-> IdleTask]
    /\ poll' = IdlePoll
    /\ UNCHANGED <<outbox, history>>

-----------------------------------------------------------------------------
Next ==
    \/ \E c \in Commands : EnqueueFresh(c) \/ EnqueueEffectCommit(c) \/ EnqueueEffectReconcile(c)
    \/ \E c \in ArtifactCmds : PublishArtifact(c) \/ BridgePending(c)
    \/ BeginPoll
    \/ \E t \in Slots, c \in Commands : ClaimNext(t, c)
    \/ ClaimNone
    \/ \E t \in Slots : \/ AcquireSemaphore(t)
                        \/ HandlerSucceeds(t)
                        \/ Acknowledge(t)
                        \/ AcknowledgeFails(t)
    \/ \E t \in Slots, retryable \in BOOLEAN : HandlerFails(t, retryable) \/ DispatchFails(t, retryable)
    \/ \E c \in Commands : LockExpires(c) \/ BecomesAvailable(c)
    \/ \E compact \in BOOLEAN : CrashAndRestart(compact)

HandlerEnds(t) ==
    HandlerSucceeds(t) \/ \E retryable \in BOOLEAN : HandlerFails(t, retryable)

\* The loop keeps polling, asyncio.Semaphore serves its waiters in order, and
\* time passes.
LoopFairness ==
    /\ WF_vars(BeginPoll)
    /\ \A c \in ArtifactCmds : WF_vars(BridgePending(c))
    /\ WF_vars(\E t \in Slots, c \in Commands : ClaimNext(t, c))
    /\ WF_vars(ClaimNone)
    /\ \A t \in Slots : /\ SF_vars(AcquireSemaphore(t))
                        /\ WF_vars(Acknowledge(t) \/ AcknowledgeFails(t))
    /\ \A c \in Commands : WF_vars(BecomesAvailable(c))

\* Every handler terminates: a run by its timeout, the others by construction.
HandlerFairness == \A t \in Slots : WF_vars(HandlerEnds(t))

Spec == Init /\ [][Next]_vars
LiveSpec == Spec /\ LoopFairness /\ HandlerFairness

-----------------------------------------------------------------------------
(* Properties *)

\* A restart neither loses nor resurrects work: a command is waiting to be
\* claimed after the boot exactly when it was unsettled in memory before it, with
\* the same attempt count and the same place in the order, whether or not the
\* ledger was compacted (_load_queue_from_disk, _compact_queue_ledger).
RestartKeepsWork ==
    [][crashes' # crashes =>
        /\ \A c \in Commands :
            /\ (status'[c] \in {"PENDING", "RETRY"}) <=> (status[c] \in Claimable)
            /\ status[c] \in Claimable => attempts'[c] = attempts[c]
        /\ \A c, d \in Commands :
            (status[c] \in Claimable /\ status[d] \in Claimable /\ c # d) =>
                (Before(c, d, order) <=> Before(c, d, order'))]_vars

\* Crashes, expired locks and late workers included, a command registered once is
\* put back for retry at most max_retries times (_mark_failure's attempt test).
RetryBudget ==
    \A c \in Commands : enqueues[c] <= 1 => retries[c] <= MaxRetries

\* The canonical outbox is acknowledged only for an event some claim settled:
\* neither the acknowledgement after mark_complete nor the one in
\* _bridge_pending may drop an event nobody published.
AckedOnlyIfHandled ==
    \A c \in ArtifactCmds : outbox[c] = "acked" => c \in handled

\* No command is stuck: whatever crashes, expires or fails, everything enqueued is
\* completed or dead-lettered in the end.
EventuallySettled ==
    \A c \in Commands : status[c] \in Claimable ~> status[c] \in Settled \cup {"absent"}

\* Every event of the canonical outbox is acknowledged in the end, also when the
\* process dies, or the acknowledgement fails, after mark_complete.
EventuallyAcked ==
    \A c \in ArtifactCmds : outbox[c] = "pending" ~> outbox[c] = "acked"
=============================================================================
