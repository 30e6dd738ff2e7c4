# A TLA+ model of the 0xCopilot agent runtime

0xCopilot is a monorepo: an agent runtime (`services/ai-backend`), a product backend, a
facade, a desktop and a web application, and shared packages. The runtime is where the
program's own protocols are: a run is created by an HTTP request, travels through a durable
queue to a worker, streams its events into a ledger, stops for approvals, stages external
effects that a person or a policy approves, executes each approved effect once, and shows all of
it to readers who follow the ledger; behind it, workers reclaim the storage of old artifacts. This
project models that core. Everything else is listed below with the reason it is left out.

Paths are relative to `src/services/ai-backend/src/` unless they start with `src/`.

## 1. Inventory

### The parts, their state and their operations

| part | state | operations |
|---|---|---|
| Run coordinator (`agent_runtime/api/run_coordinator.py`) | the run row | `create_run`, `cancel_run`, `steer_run` |
| Durable queue (`runtime_adapters/file/runtime_api_store.py`) | order, status, attempts, availability and lock of every command in memory; `queue.jsonl` on disk | `enqueue_*`, `claim_next`, `mark_complete`, `mark_retry`, `mark_dead_letter`, replay and compaction at boot |
| Artifact bridge (`runtime_adapters/artifact_queue.py`) | none; joins the artifact outbox to the queue | lease, register, acknowledge |
| Worker loop (`runtime_worker/loop.py`) | in-flight claim tasks, execution semaphore, registry of executing runs | claim, dispatch, retry or dead-letter, abandon at shutdown |
| Run handler (`runtime_worker/handlers/run.py`) | the run's execution | start, interrupt, complete, time out, fail |
| Approvals (`agent_runtime/api/approval_coordinator.py`, `runtime_worker/handlers/approval.py`, `runtime_worker/jobs/approval_expiry_sweeper.py`) | approval rows; one batch per interrupt with one item per action | decide, expire, lock the batch, resume |
| Cancellation (`runtime_worker/handlers/cancel.py`, `runtime_worker/run_cancellation.py`) | the task published for a run | stop it, wait a bounded time, terminate |
| Termination and seal (`agent_runtime/api/run_termination.py`, `ledger_seal.py`) | which runs this producer has sealed | append the terminal event, refuse causal events after it |
| Effect staging (`agent_runtime/effects/staging.py`, `fold.py`) | the effect's events, folded into a stage | stage, bind projection, revise, decide |
| Effect execution (`agent_runtime/effects/coordinator.py`, `dispatch.py`) | claims by idempotency key; effect events | check, prepare, claim, authorize, apply, settle, record |
| Effect repair (`agent_runtime/surfaces_v2/repair_reconciliation.py`, `runtime_worker/jobs/`) | planned reconcile commands | plan, reconcile |
| Event stream (`agent_runtime/api/events.py`, `runtime_api/sse/`, the web client's run stream) | the ledger, a seal per producer, a condition variable per run, a cursor per connection, the client's resume cursor | append behind the seal, notify, replay, wait, close on the seal or after quiet polls, resume |
| Artifact cleanup (`runtime_worker/jobs/artifact_cleanup_execution.py`, `runtime_adapters/file/artifact_cleanup_schedule_store.py`) | a lease with a fence token, a cursor over the tenants, deferrals, admission records, one lock file per tenant; per worker its cycle and the passes it still holds | reconcile, retry releases, lease, admit, run a pass, complete or defer, quarantine, release |
| Budgets, model invocation, stream mapping, steering | see section 7 | |

### How they interact

API requests write a row or an event and then enqueue a command; the two are separate awaits.
The worker claims commands under a lock of 60 seconds that nothing renews, so a command is
delivered *at least once*, and again while it still executes when it takes longer. Handlers
share the run row, the event ledger and the claim store. They run as asyncio tasks of one
process: between two awaits that suspend, a step is atomic (no operation modelled here holds the
file store's state lock across such an await; retention sweeps and the deletion of a conversation
do, and can make one of these operations wait: `SettleBlocks`). The cancel handler reaches a
run's task through the registry. Effects are joined to runs only by the ledger and by the
queue. A reader is woken by a notification of the process it is connected to, or else polls. The
workers that clean up are separate processes; they meet only in the schedule file, each change of
which is made under its lock, and in the tenants' lock files.

### What is hard

Interleaving of requests with each other and with handlers; redelivery during and after an
execution; crashes between a write and the enqueue, the claim and its event, the effect and
its result; answers that are lost and attempts that end after nobody waits for them; a drain with a
bound; seals that live in one producer; writes that fail half way; notifications nobody gets; a
destructive pass that outlives its deadline, its lease and the cycle
that started it.
`PROJECT.json` lists these hazards with their lines and the properties that cover them.

### What makes each part correct

* queue: a restart keeps exactly the unsettled work; commands are attempted in the order they
  were registered; retries are bounded; every command is settled; an artifact event is acknowledged only after it was handled;
* staging: one decision governs a revision; an approval is for what the approver saw;
* execution: one apply per key and one effect per revision, only when approved, claimed and
  published; a closed claim tells the truth, and so does the ledger of it;
* run: an interrupt is resumed once with all its decisions; a cancellation ends the run, for good
  (it does not, see `run_cancel`); a run that ended says so;
* event stream: a reader has every event once and in order, through broken connections and
  restarts; a stream that closes on the seal is whole (it is not, see `event_stream_seal`);
  streams go on, and end when the run does;
* artifact cleanup: one pass per tenant at a time; every pass counts against the capacity; the
  cursor moves only with work done; no failure takes a tenant out of the rotation, as long as its
  release is retried.

## 2. Modules

| module | models | composes |
|---|---|---|
| `RuntimeQueue` | file-store queue, artifact bridge, worker loop | |
| `EffectStage` | stager, fold, decision keys, the enqueue after an approval | |
| `EffectCommit` | coordinator, dispatch, claim store, recorder, seal, repair | extends `EffectStage`: its actions run interleaved with the staging actions, on the same stage and outbox |
| `RunLifecycle` | run, approval and cancel handlers, registry, terminal events, API calls | takes the queue's guarantee (at least once, possibly overlapping) as its delivery |
| `ApprovedEffect` | the promise of staging and execution together, as an abstract specification | |
| `EffectRefinement` | the mapping under which `EffectCommit` implements it | extends `EffectCommit`, instantiates `ApprovedEffect` |
| `DurableQueue` | the promise of the command queue, as an abstract specification | |
| `QueueRefinement` | the mapping under which `RuntimeQueue` implements it | extends `RuntimeQueue`, instantiates `DurableQueue` |
| `EventStream` | producers and seals, ledger, event bus, SSE adapter, client | the ending of a run is the one of `RunLifecycle`: status, then terminal event, per handler |
| `ArtifactCleanup` | cleanup runner and file schedule store of several workers | |
| `RuntimeQueueProofs`, `QueueRefinementProofs`, `EffectStageProofs`, `EffectCommitProofs`, `EffectRefinementProofs`, `RunLifecycleProofs`, `EventStreamProofs`, `ArtifactCleanupProofs` | the theorems | each extends the module it is about |
| `MCRuntimeQueue`, `MCEffectStage`, `MCEffectCommit`, `MCRunLifecycle`, `MCEventStream`, `MCArtifactCleanup` | what TLC needs: symmetry sets, model values, the tenants' order | |

Operators whose comment begins with *Mutant* are used by no specification. Each is a variant of
the definition that follows it, with a bug the code could plausibly have; put in its place it
makes TLC refute the property `PROJECT.json` names, which shows that the property depends on
that line of the code.

### RuntimeQueue

`order`, `status`, `attempts`, `delayed` and `claims` are the store's in-memory maps; `disk` is
the image that replaying `queue.jsonl` gives, so every `mark_*` writes both. Time is abstracted
to two facts that can become true at any moment: a retry becomes available and a lock expires.
`tasks` are the claim tasks of `run_forever`; a run waits for the semaphore, a control command
does not. `BeginPoll` and `BridgePending` are the outbox bridge, which precedes each claim. A call
of the bridge that raises ends the loop, which has no handler for it (`loop.py:854-895`); a process
that ends and begins again is `CrashAndRestart`.

### DurableQueue and QueueRefinement

`DurableQueue` has no ledger, claims, slots, bridge or boot. It says that what is registered waits
until somebody settles it; that its attempts are counted from the last registration; that a known
id keeps its place when it is registered again; that an attempt goes to a command all of whose
waiting predecessors are held back; and that a restart at most lets go of what is held and forgets
settled commands, all of them or none. It also says what the queue does not promise: a late worker
may put back what another one settled. `QueueRefinement` reads this state off the rows in memory:
a claimed row still waits, an active claim and a retry delay hold a command back, and the
predecessors of a command are those whose first place in the order is before its own.

### EffectStage

The fold is incremental, so `stage` is the folded state and each append applies one event to
it. A request reads the fold, is suspended, and appends; a decision is identified by lane,
revision and kind because its idempotency key is derived from them. `authority` is a history
variable: the decisions that ever governed a revision. A client may die in any step.

### EffectCommit

A command in the outbox is delivered any number of times, to any idle worker. The worker's
program counter follows `handle` and `dispatch`: load and check the stage, look the claim up,
prepare, claim, publish `effect.claimed`, ask for cancellation, authorize, apply, wait, settle,
record. `RunEnds` seals the ledger, `Restart` drops everything in memory.

`executor` is the kind the stage names: `browser`, `workspace`, `mcp` or `builtin`. It decides
how an attempt can end (`Ends`): only a row-set (`builtin`) can be applied in part, only a browser
action and a workspace change set check a precondition. `attempts` is the executor's own state and
survives the worker: `Apply` begins an attempt, `AttemptEnds` gives it an outcome and says whether
anything `landed` outside, and the worker hears of it (`HearAnswer`) or stops waiting
(`LoseAnswer`, an error or the timeout), in which case the attempt goes on. One assumption remains,
and it is about the connectors: an outcome they give is the true one; they may give none.

`effect.applied` is written in two places. A delivery that finds the precondition changed writes
it with the outcome `precondition_drift` and makes no claim (`PreconditionDrift`, the fact `drift`);
a delivery that has a claim writes it with the outcome of the claim (`applied`). The stage stays
approved after the first, so that a redelivery may claim and apply, and append a second one.

Repair follows the code for each kind. The planner asks only for browser and workspace claims
(`Reconcilable`) of a run that has ended, whose `effect.claimed` is in the ledger; its other
blockers, and the switch that turns it on, are the choice not to take the step. The browser answers
with the receipt of the attempt once there is one. The workspace authority is asked for the
coordinator's claim id, and its journal knows its own commit ids only: it raises, and the claim
stays undecided. A connector answers that it does not know. So nobody ever answers for an attempt
in progress, and no relation between the quiet period (120 seconds) and the execution timeout (180)
is needed.

The cancellation port is external. The composition in production passes none
(`runtime_worker/mcp_operation_storage.py`), which is the behaviour in which `CancelBeforeApply`
never happens.

### ApprovedEffect and EffectRefinement

`ApprovedEffect` has no clients, workers, claims, repair or crashes. It says that a revision is
approved at most once; that an approved effect is tried at most once, while it is open; that it is
settled once, as applied or partial exactly if a change was made, as cancelled only if it was never
tried; and that what the ledger announces is that outcome, or else a drift found before any claim,
which does not keep the effect from being tried when it is asked for again. `EffectRefinement`
reads this state off the folded authority, the apply counters, the outside world, the closed
claims and the result events. The mapping needs no auxiliary variable.

### RunLifecycle

`queue` records a command as absent, queued, claimed or done. `Claim` delivers it; a claimed
command can be delivered again once nobody executes it (a crash, a lock that ran out) or, with
`Overlap`, while it executes. A task waits for its slot, is published in the registry (`live`),
and follows its handler: it reads the run or takes the batch (`prepare`), makes the snapshot
(`start`), writes RUNNING, builds what the graph needs (`setup`), and only then enters the `try`
block (`exec` to `finish`), so that a failure before it is not cleaned up after; `stop` is a cancellation that its next step delivers (`Unwind`).
`status` is written without a check, as `update_run_status` of the file store does. A failed
handler keeps its registration until its claim is settled, a successful one does not, as in
`_handle_claim`. A cancel handler that fails after its terminal event is retried (`CancelFails`).
`Restart` is a kill, or a shutdown in which `finally` blocks run.

### EventStream

The store has three views of a run's ledger: `file` is the lines on disk, `index` the catalog row
for each sequence number, which replay reads, and `taken` the number of events in memory, from which
the next number is taken. `append_event` counts its event before it writes, and the write can fail
at each of its steps (`StoreFails`): the event may be counted and not written, be in the file and not
in the catalog, or be in both although the caller was told that it failed. A number can thus be
missing, and after a restart, which counts the lines of the file, be given a second time; the second
row then replaces the first. A line is in order (`InOrder`) when the catalog had it before any
higher number and no other line takes its number: every line is, until a write fails.

`producers` says how far each `RuntimeEventProducer` is in ending the run: the handler writes the
status (`EndRun`) and only later appends the terminal event (`AppendSeal`), which may fail with the
seal already set (`LoseSeal`). `condition`, `made` and `notices` are the bus: a notification goes to
the condition variable that was registered when it was scheduled, and a stream that returns drops the
one all readers share (`Return`). `pc` follows the generator of `RuntimeSseAdapter.stream` from
replay to yield to its decision: close on the seal, close after a second empty poll of a finished
run, close a snapshot, wait. A broken connection loses what is on the wire; the client reconnects
after the highest number it has. A restart forgets bus, seals and connections.

A seal belongs to a producer in a process, and each handler builds its own producer. `SealedStreamIsWhole`
is what `ledger_seal.py:3-5` and `adapter.py:58-60` say of it, without exceptions, and a run refutes it.

### ArtifactCleanup

`lease`, `cursor`, `deferred` and the `row`s of `exec` are the schedule file; `lock` is the lock
file of the tenant, which the operating system gives up with the process. `proc` is the runner of
each worker: its `pc` follows `run_once` and `_run_leased` from one call of the store to the next.
`task` is the destructive pass, which runs beside its runner and need never end; `kept` is the
entry of `_lifecycle_tasks` through which a pass or a failed release is still reached when the
cycle is over. `tracked` is the order of that dictionary. A cycle retries the releases due among its
first `max_quarantined_executions` entries (`Slice`, `due`); an entry whose record another worker
removed between the two halves of its release is popped by nobody (`None`) and keeps its place.
`StoreFails` is an exception of any call of the store; `UnlockTenant` and `DropRow`
are the two halves of a release, each of which may fail, as may the mark that records the failure.

A fence token is a Boolean: tokens are only compared with the stored one, and a lease that ran out
is never renewed, so all that matters is whether the token's lease is still active. `MaxMishaps`
bounds how often calls fail, leases are lost early and processes end. An exception of any store
call in a pass counts for it as a lost fence (`PassLosesFence`), and a reconciliation that tries a
tenant's lock can make another worker find the tenant busy (`TriedElsewhere`).

## 3. Runs

Passing runs:

| run | bounds | what it shows |
|---|---|---|
| `queue_durability` | a control and a commit command registered twice, 2 slots, 1 retry, 1 crash | `TypeOK`, `RetryBudget`, `RestartKeepsWork`, and the refinement `ImplementsDurableQueue` |
| `queue_liveness` | a reconcile command and an artifact event, 2 slots, 1 retry, 1 crash | `AckedOnlyIfHandled`, `EventuallySettled`, `EventuallyAcked` |
| `effect_stage` | 3 requests, 2 lanes, 2 revisions | `StageTypeOK`, `OneAuthorityPerRevision`, `ApprovalPinned`, `CancelledIsFinal` |
| `effect_commit` | 2 requests in 2 lanes, 2 workers, a reconciler, a browser action or a row-set, a restart | `CommitTypeOK`, `AtMostOneApply`, `HonestClaims`, `LedgerAgreesWithClaims`, `OneEffectPerRevision`, `AppliedOnlyIfApprovedAndClaimed`, and the refinement `ImplementsApprovedEffect` |
| `run_approvals` | 1 task, 2 items, each command delivered once, budgets, contended settling, a restart anywhere | `LifecycleTypeOK`, `ResumedOnceWithEveryDecision`, `DecisionsFrozen` |
| `run_liveness` | 2 tasks, 1 item, 2 deliveries, budgets | `ResumedOnceWithEveryDecision`, `CancelTakesEffect`, `TerminalIsAnnounced` |
| `event_stream` | a producer, a reader that follows and one that does not, 2 lines, batches of 2, 2 connections, a restart, any write failing | `StreamTypeOK`, `ReceivedInOrder`, `EventsReachFollowers`, `FinishedStreamsEnd` |
| `artifact_cleanup` | 2 workers on one tenant, capacity 2, 3 tokens, 2 mishaps | `TenantExclusive`, `RunningIsAdmitted`, `CursorFollowsWork` |
| `artifact_cleanup_liveness` | 2 workers on two tenants, capacity 1, 2 tokens, 1 mishap | `CleanupTypeOK`, `EveryTenantComesUp` |

Each protocol is between two parties and an environment (two deliveries, two deciders, a
worker and a reconciler, a run and a cancellation, two readers who share a condition variable, two
workers who share a tenant), so two of each make every race happen; two deliveries and one restart
make every redelivery happen. Where a bound leaves something out:

* The queue runs have no run command. Once its handler has been entered a run command is never
  retried and it waits for the semaphore; a commit command does all a run command does and more,
  and a control command exercises the bypass of the semaphore.
* `effect_commit` takes one executor that reconciles and checks a precondition and one that does
  neither but can apply in part. A connector has fewer outcomes than a row-set; a workspace change set
  those of a browser action, never an answer to a reconciliation, and a projection to bind, which
  `effect_stage` covers. All four, and a second revision under delivery, are in the theorems.
* `run_approvals` and `run_liveness` divide items, tasks and deliveries between them; overlapping
  deliveries, several interrupts and all of it at once are left to the theorems.
* `event_stream` has one producer and no lock that expires under an executing task
  (`Overlap = FALSE`). Several producers, both values of `Overlap` and longer ledgers are covered
  by the theorems for the safety properties. Two lines are an event and the seal, the seal and
  an amendment, a batch, or two lines with one number.
* The two cleanup runs divide the cases: capacity 1 admits no second execution, so it cannot put
  two workers on one tenant; rotation needs two tenants. The tokens are one per recorded execution
  and one for a worker that has locked a tenant and not yet recorded it; a second such worker waits.

Three runs end in a violation. Each states what a document or a comment says and is refuted by what
the code does; `PROJECT.json` quotes the lines.

| run | statement | what happens |
|---|---|---|
| `effect_stage_outbox` | `ApprovalReachesOutbox` | a crash after the decision event: the retry returns before the enqueue |
| `run_cancel` | `CancelledRunIsFinal`: of two writers of the status the loser raises | the run outlives its lock and is delivered again; the second task replaces the first in the registry, the cancellation stops that one only, and the first writes RUNNING over CANCELLED |
| `event_stream_seal` | `SealedStreamIsWhole`: a stream that closed on the seal had every causal event | the cancel handler seals with its own producer; the run's producer appends behind the seal |

`CancelledRunIsFinal` has other counterexamples: a late resumption, a budget rejection or a
redelivery after a restart also write over CANCELLED. A lock lasts 60 seconds and nothing renews it,
so an overlap is no rare case.

The models show further behaviour a maintainer should know of, which no run asks about:
`mark_retry` checks no ownership, so a worker that lost its lock revives a completed command;
compaction forgets a settled reconcile id, which can then be registered again; a run longer than
its lock takes another in-flight slot at every expiry, so a cancel can wait behind it; the stage
is checked once, several awaits before apply, so an edit made in between does not stop it; the seal
refuses `effect.claimed` of an effect approved after its run ended; each handler has its own seal,
so two can each append a terminal event; a run whose setup fails after RUNNING was written is dead-lettered and stays
RUNNING until it is cancelled. Furthermore:

* A delivery that finds drift records it in an `effect.applied` and makes no claim; a redelivery
  starts from the beginning and may apply and append a second `effect.applied`.
  `src/docs/plan/generative-surfaces-v2-1/prds/PRD-A5-commit-coordinator.md:128-132` calls the drift
  outcome terminal. A reader tells the two apart by the `effect.claimed` between them
  (`LedgerAgreesWithClaims`).
* Nothing makes an open claim end. The planner is off by default and supports two kinds of executor,
  the workspace authority does not know the id it is asked for, a known command id is not queued
  again, and a command that fails `max_retries` times is dead-lettered. No liveness is claimed of it.
* A write of an event that fails leaves memory, file and catalog apart (`StoreFails`). A number can be
  missing, and after a restart a new event can replace an old one under its number
  (`runtime_api_store.py:2193-2195`, `:2243`), which `streaming-sse.md:20`, "no events are lost",
  does not mention. `ReceivedInOrder` says what a reader keeps all the same.
* An exception between taking the batch and the `try` block of the approval handler
  (`approval.py:430`) leaves the batch in RESUMING, and every later delivery returns; `ports.py:556`
  says that the handler's `finally` prevents this.
* A termination that takes longer than two polls ends the streams of a finished run before the
  terminal event is appended, and the web client does not reconnect at the end of a stream.
* A second decision on an approval overwrites its row after the first one was used to resume, so
  the row shows what was not done (`approval_coordinator.py:300`); `DecisionsFrozen` keeps the graph
  from it.
* When unlocking a tenant fails and so does recording the failure, the tenant stays locked until
  the process ends (`Stranded`); the code's comment accepts it.
* A cleanup cycle retries only the first entries it retains. An entry whose record another worker
  removed between the two halves of a release stays for good and takes up one of these places: with
  room for one execution, one such race and one failed release lock a tenant until the worker is
  restarted. `EveryTenantComesUp` excepts it (`Stranded`); without the exception its run finds it.

### Deadlock

`RuntimeQueue` and `ArtifactCleanup` are checked for deadlock: their loops never end. The other
modules say `CHECK_DEADLOCK FALSE` because a finished run, effect or stream really has nothing left
to do.

### Fairness

* `RuntimeQueue`: weak fairness of the loop's own steps (it never stops polling), of timers (a
  retry becomes available, a lock expires) and of handlers, which run under a timeout; strong
  fairness of the semaphore, which wakes its waiters in order.
* `EffectStage`: a request that has begun is carried through or dies.
* `EffectCommit`: none, as nothing is claimed to happen eventually.
* `RunLifecycle`: every task goes on (an execution has a deadline, a drain a bound), queued
  commands are claimed, a begun request enqueues its command. `TerminalIsAnnounced` assumes that
  the store accepts the terminal event; `_emit_run_terminal` logs and drops it otherwise.
* `EventStream`: the event loop resumes every following generator that can go on, the timeout of
  the wait fires, an open connection carries its frames. Nothing is assumed of notifications or of
  producers.
* `ArtifactCleanup`: runners and release tasks go on, leases lapse and retries become due, a queued
  pass starts, a process that was told to stop is replaced. Nothing is assumed of a running pass:
  `EveryTenantComesUp` excepts one that never ends.

## 4. Proofs

TLC checks the instances above. TLAPS proves the following for every value of the constants.

**`RuntimeQueueProofs`** from `QueueAssumption`. `BudgetInv` makes the retry bound inductive, which is
about a command registered once (registering it again resets its count): the
retries a command has used, and those its present claims may still ask for (`Entitled`), are
together no more than its attempts, and no more than `MaxRetries`; the ledger on disk keeps the
attempts, so a restart gives no retry back. `HandledInv` says that a settled row, in memory or on
disk, and an acknowledgement under way are about a command some handler settled.
`Durable` says how memory and ledger agree: on which commands have a row, on which rows are
settled, and on which of two commands comes first, although a second registration appends to the
order in memory and not to the one a replay yields. `KeptIsOrder` is the lemma about compaction:
what it keeps of an order of any length stands in the same order. It is an induction over the
length. The library's induction theorems cannot be used here, so `Induct` states induction for
sets of numbers and proves it by the least number outside the set.
Theorems: `RetriesBounded`, `AcknowledgedIsHandled`, `QueueTypeCorrect`, `RestartPreservesWork`.

**`QueueRefinementProofs`** from the same invariant, with one lemma per kind of step. A registration
is about the first places in an extended order (`OrderAppended`); a claim is an attempt in order
because the scan stops at the first place of a command and nothing before it could be claimed; a
boot keeps places by `Durable` and, when it compacts, by `KeptIsOrder`; a late mark finds a row
because nobody holds a claim on a command without one (`Rows`).
Theorem: `QueueImplementsPromise`.

**`EffectStageProofs`** from `StageAssumption` and `NoDecisionAssumption`. The invariant
`StageInv` adds to the types: a stage carries a decision exactly while it is closed, the
decision is in the ledger, for the current revision, and is what the status says
(`DecisionInv`); no later revision has been governed, and the current one at most by the
decision the stage carries (`AuthorityInv`). The last is what makes `OneAuthorityPerRevision`
inductive: without it, a decision could be added to a revision that already has one.
Theorems: `StageTypeCorrect`, `OneAuthority`, `ApprovalIsPinned`, `CancelledStaysCancelled`.

**`EffectCommitProofs`** from those and `CommitAssumption`. `CommitInv` has a part for each
component. `KeyOK` relates claim, attempt, events and the outside world of one key: a closed claim
has no attempt in progress; `WorkerOK` says that a worker past the check has an approval, that one
that may still apply has not applied, owns an open claim and, past the observer, has published it;
`ReconcilerOK` that an answer in hand is the outcome of the attempt, which has ended, or none;
`SoleOwner` that a claim has one owner. At most one apply follows from the last and `WorkerOK`
together: applying needs ownership, ownership was given once, and it ends with the apply. That a
drift in the ledger is true unless an `effect.claimed` follows needs no more than that a claim is
published before its attempt begins.
Theorems: `CommitTypeCorrect`, `ApplyAtMostOnce`, `OneEffect`, `AppliedWasApproved`,
`ClaimsAreHonest`, `LedgerAgrees`.

**`EffectRefinementProofs`** from the same. Every action of `EffectCommit` is a step of the promise
or leaves all it speaks of unchanged; `CommitInv` supplies what a step relies on: that who applies
owns an open, approved claim not yet tried, that who settles knows the truth, that who announces
reads a closed claim. Theorem: `EffectImplementsPromise`.

**`RunLifecycleProofs`** from `LifecycleAssumption`. `BatchInv` says of each batch: while nobody
has taken it, it was not resumed and has no owner; it has one owner at most; until its owner
invokes the graph, it has not been resumed; once taken, it has every decision. `HandlerInv` says that only
a cancel handler drains, which keeps its steps from looking like a resumption's.
Theorems: `LifecycleTypeCorrect`, `ResumedOnce`, `DecisionsStayFrozen`: with overlap, restarts
and any number of interrupts at once, of which each run has only a part.

**`EventStreamProofs`** from `StreamAssumption`. The numbers a reader keeps and those on the wire to it
increase and end at its cursor (`Numbers`). That a follower misses no line in order is `Whole`: it has
those up to the last number it kept, and those after it up to the cursor are on the wire; `Remaining`
says of a replay under way that it has all lines in order after the cursor up to any it has, and
`Cataloged` that a line in order was in the catalog before any higher number, so that no cursor can
pass it unseen. Only a waiting reader is on a condition variable (`Waiting`); a snapshot reader's
heartbeat finds nothing before it (`Snapshot`).
Theorems: `StreamTypeCorrect`, `EventsInOrder`.

**`ArtifactCleanupProofs`** from `CleanupAssumption`. A tenant's lock has one holder (`Locks`); a
pass that has not stopped holds the lock, is on record and is reached by its runner (`Passes`); a
runner attends to an execution of its own from the lock to the release (`Runner`); an active token
means an active lease (`Fenced`); the records are no more than the capacity (`Room`). `Tasks`, the type of the retained
entries, is kept apart because no lock depends on them: they decide which releases are retried, not
which are made. Exclusion
follows from the first two alone: the deadline, the lease and the records play no part in it.
Theorems: `CleanupTypeCorrect`, `TenantsExclusive`, `RunningAdmitted`,
`CursorMovesWithWork`.

The proofs of invariance have one step per action. `TaskOnlyLeaves` and `OwnersOnlyLeave` of
`RunLifecycleProofs`, and the frame lemmas of `EffectCommitProofs`, do the actions that leave
the protected state alone.

## 5. Only model-checked

Liveness (`EventuallySettled`, `EventuallyAcked`, `CancelTakesEffect`, `TerminalIsAnnounced`,
`EventsReachFollowers`, `FinishedStreamsEnd`, `EveryTenantComesUp`) is outside what the prover handles. Every other property of a passing run
is also a theorem.

## 6. Abstractions

* Payloads, users, scopes and permission checks that only refuse a request are left out.
* Equal commands (the same decision on the same item, a second cancel) are on their way one at a
  time in `RunLifecycle`; that is a bound.
* The graph's execution is a choice between interrupting, completing, timing out and failing.
* Events other than the terminal one appear in `RunLifecycle` only as what a seal refuses.
* Fence tokens, backoff lengths, audit records and metrics of the cleanup are left out, and the
  inventory of tenants is constant. A pass is one step that may not end; its phases check the fence
  (`PassLosesFence`) and are otherwise idempotent deletions. A stopping runner's cancellation of its
  pass is the same step as a deadline.
* The file store's writes are durable when they return. A write that fails leaves whole lines or none:
  a torn last line, and the corruption the next append makes of it, is not modelled. A failing write
  is modelled for events (`EventStream`) and for the cleanup's schedule; in `RunLifecycle` a store that
  fails before the terminal event of a cancellation is not. The event files of a run's subagents are
  one file with its own.

## 7. Not modelled, and the plan

In this order:

1. `Budgets`: preflight, reservation, charge and release around crashes; the check and the
   reservation are separate awaits.
2. `ModelInvocation`: the attempt journal, retry schedule and circuit breaker.
3. Steering (a command put into the mailbox of a live run); forwarded approvals, suggested edits
   and undo; row decisions of a row-set effect; the flush order of the delta coalescer.
4. An abstract specification of a run's life that `RunLifecycle` implements where no late writer
   interferes.
5. The phases of a cleanup pass, and the storage, publication and references of artifacts.

Left out for good: the product backend and the facade (request handlers over a database, whose
concurrency control is the database's), the desktop and web applications, the shared packages
and deployment, and the assembly of prompts, tools and subagents, which has no protocol state of
its own.
