--------------------------- MODULE ArtifactCleanup ---------------------------
(***************************************************************************)
(* Physical reclamation of artifacts: the ArtifactCleanupExecutionRunner   *)
(* of each worker process, and the FileArtifactCleanupScheduleStore they   *)
(* share, with its fenced lease, its fair cursor over the tenants and one  *)
(* operating system lock per tenant.                                       *)
(*                                                                         *)
(* A destructive pass over a tenant may outlive everything that watches    *)
(* it: its deadline, its cancellation, the lease it was started under and  *)
(* the cycle that started it.  Two passes over one tenant must still never *)
(* overlap, and no failure may take a tenant out of the rotation for good. *)
(*                                                                         *)
(* A fence token is only ever compared with the stored one, and a lease    *)
(* that has run out is never renewed, so a token is a Boolean here: whether*)
(* the lease it came with is still active.  Time is the steps that make a  *)
(* lease lapse, a deadline pass and a retry due.  A step is one section    *)
(* under the store's lock file or one call of the operating system; reads  *)
(* whose answer a later step checks again are part of the step before it.  *)
(***************************************************************************)
EXTENDS Naturals, Sequences, FiniteSets

CONSTANTS
    Procs,          \* worker processes
    Inventory,      \* list_retention_orgs, sorted and without duplicates
    Execs,          \* execution tokens
    None,
    MaxActive,      \* max_quarantined_executions
    MaxOrgs,        \* max_orgs: tenants attempted in one cycle
    MaxMishaps      \* bound: leases lost, failing calls, processes that end

Orgs == {Inventory[i] : i \in DOMAIN Inventory}

ASSUME CleanupAssumption ==
    /\ Inventory \in Seq(Orgs)
    /\ \A i, j \in DOMAIN Inventory : Inventory[i] = Inventory[j] => i = j
    /\ None \notin Orgs \cup Procs \cup Execs
    /\ Execs \subseteq Nat /\ IsFiniteSet(Execs)
    /\ MaxActive \in Nat \ {0} /\ MaxOrgs \in Nat \ {0} /\ MaxMishaps \in Nat

VARIABLES
    lease,      \* the stored lease is active
    cursor,     \* the last tenant completed or deferred
    deferred,   \* tenants whose retry is not due
    proc,       \* per process: its runner
    tracked,    \* per process: its _lifecycle_tasks; None is one that stays for good
    exec,       \* per token: the execution of a tenant's pass
    mishaps

vars == <<lease, cursor, deferred, proc, tracked, exec, mishaps>>

Pcs == {"idle", "retry", "lease", "tenant", "register", "watch", "cancel", "defer",
        "release", "quit", "unlease"}

\* gen: its cycle's fence token is active; seen: the cursor as it knows it; page:
\* the tenants still to come; cur: the execution it attends to; hung: which it gave up
\* to quarantine; due: the releases it is about to retry.
Runners == [pc : Pcs, gen : BOOLEAN, seen : Orgs \cup {None}, page : Seq(Orgs),
            scanned : 0..MaxOrgs, cur : Execs \cup {None}, hung : BOOLEAN,
            stop : BOOLEAN, due : SUBSET Execs]
IdleRunner == [pc |-> "idle", gen |-> FALSE, seen |-> None, page |-> <<>>,
               scanned |-> 0, cur |-> None, hung |-> FALSE, stop |-> FALSE, due |-> {}]

\* row: the durable record; fence: its fence token is active; lock: its process holds
\* the tenant's lock file for it; task: the destructive pass; kept: its entry in the
\* runner's _lifecycle_tasks, "dropping" while its release is under way.
Executions == [org : Orgs \cup {None}, owner : Procs \cup {None},
               row : {"none", "active", "quarantined", "pending", "due"},
               fence : BOOLEAN, lock : BOOLEAN,
               task : {"none", "queued", "running", "completed", "failed", "lost"},
               kept : {"no", "watched", "quarantined", "dropping", "pending"}]
NoExecution == [org |-> None, owner |-> None, row |-> "none", fence |-> FALSE,
                lock |-> FALSE, task |-> "none", kept |-> "no"]

CleanupTypeOK ==
    /\ lease \in BOOLEAN
    /\ cursor \in Orgs \cup {None}
    /\ deferred \in SUBSET Orgs
    /\ proc \in [Procs -> Runners]
    /\ tracked \in [Procs -> Seq(Execs \cup {None})]
    /\ exec \in [Execs -> Executions]
    /\ mishaps \in 0..MaxMishaps

Init ==
    /\ lease = FALSE /\ cursor = None /\ deferred = {}
    /\ proc = [p \in Procs |-> IdleRunner]
    /\ tracked = [p \in Procs |-> <<>>]
    /\ exec = [e \in Execs |-> NoExecution]
    /\ mishaps = 0

-----------------------------------------------------------------------------
(* The store *)

\* The process's own calls of the store wait for each other, so its runner waits while
\* a release of its process is between its two parts.
Releasing(p) == \E e \in Execs : exec[e].owner = p /\ exec[e].kept = "dropping"

\* The runner p is about to make the call pc.
At(p, pc) == proc[p].pc = pc /\ ~Releasing(p)

\* _active_fence_matches for no token but that of process p, if any, from now on.
NoFenceBut(p, runners, executions) ==
    /\ proc' = [q \in Procs |-> [runners[q] EXCEPT !.gen = q = p]]
    /\ exec' = [e \in Execs |-> [executions[e] EXCEPT !.fence = FALSE]]

\* The tenant's lock file is locked by some process.
Locked(o) == \E e \in Execs : exec[e].lock /\ exec[e].org = o

\* Mutant: a pass given up to quarantine no longer keeps its tenant.
FreeOfWatched(o) == \A e \in Execs : exec[e].kept = "watched" => exec[e].org # o

\* try_acquire_exclusive on it succeeds.
Free(o) == ~Locked(o)

Recorded == {e \in Execs : exec[e].row # "none"}
Full == Cardinality(Recorded) >= MaxActive

\* A token that is not in use.
Fresh(e) ==
    /\ exec[e] = NoExecution
    /\ \A d \in Execs : exec[d] = NoExecution => e <= d

\* n calls fail, a lease is lost or a process ends.
Mishap(n) == mishaps + n <= MaxMishaps /\ mishaps' = mishaps + n

\* _fair_org_page: every tenant once, from the one after the cursor on.
FairOrgPage(c) ==
    IF c \in Orgs
    THEN LET k == CHOOSE i \in DOMAIN Inventory : Inventory[i] = c
         IN  SubSeq(Inventory, k + 1, Len(Inventory)) \o SubSeq(Inventory, 1, k)
    ELSE Inventory

\* The entries of _lifecycle_tasks that the first MaxActive places can ever hold: an
\* entry leaves only when its release succeeds, and those given as None never do.
Reach(tasks) ==
    LET inert(i) == {j \in 1..(i - 1) : tasks[j] = None}
    IN  SubSeq(tasks, 1, Cardinality({i \in DOMAIN tasks : Cardinality(inert(i)) < MaxActive}))

\* Entries whose record and lock are both gone: no release of theirs succeeds any more.
Inert(tasks, E) == Reach([i \in DOMAIN tasks |-> IF tasks[i] \in E THEN None ELSE tasks[i]])

Popped(tasks, e) ==
    IF \E i \in DOMAIN tasks : tasks[i] = e
    THEN LET k == CHOOSE i \in DOMAIN tasks : tasks[i] = e
         IN  SubSeq(tasks, 1, k - 1) \o SubSeq(tasks, k + 1, Len(tasks))
    ELSE tasks

\* A pass that has stopped, and whose result has been seen: nobody asks for it again.
Over(x) == [x EXCEPT !.task = "none", !.fence = FALSE]

\* release_tenant_execution fails and the runner marks the record for a retry, which
\* can fail as well.
MarkReleasePending(e) ==
    \E marked \in BOOLEAN :
        /\ Mishap(IF marked THEN 1 ELSE 2)
        /\ exec' = [exec EXCEPT
              ![e] = Over(@), ![e].kept = "pending",
              ![e].row = IF marked /\ @ # "none" THEN "pending" ELSE @]

\* release_tenant_execution of a pass that has stopped, first part: unlock the tenant.
UnlockTenant(e) ==
    \/ /\ exec' = [exec EXCEPT ![e] = Over(@), ![e].lock = FALSE, ![e].kept = "dropping"]
       /\ UNCHANGED mishaps
    \/ MarkReleasePending(e)

\* Second part: remove the record and pop the entry.  Another process may have taken
\* the record for an orphan since the unlock; the release has then failed, a retry of it
\* can no longer be recorded, and the entry stays for good.
DropRow(e) ==
    LET p == exec[e].owner IN
    /\ exec[e].kept = "dropping"
    /\ \/ /\ exec' = [exec EXCEPT ![e] = NoExecution]
          /\ tracked' = [tracked EXCEPT ![p] =
                IF exec[e].row # "none" THEN Popped(@, e) ELSE Inert(@, {e})]
          /\ UNCHANGED mishaps
       \/ exec[e].row # "none" /\ MarkReleasePending(e) /\ UNCHANGED tracked
    /\ UNCHANGED <<lease, cursor, deferred, proc>>

-----------------------------------------------------------------------------
(* run_once *)

\* The runner as the loop over the page leaves it, and as the cycle leaves it.
Done(runner) == [IdleRunner EXCEPT !.pc = "unlease", !.gen = runner.gen, !.stop = runner.stop]
Rest(p) == [IdleRunner EXCEPT !.stop = proc[p].stop]

Goto(p, pc) == proc' = [proc EXCEPT ![p].pc = pc]

\* Mutant: a pass given up to quarantine is taken for an orphan.
OrphansAndHung == {e \in Recorded : ~Locked(exec[e].org) \/ exec[e].row = "quarantined"}

\* Records whose tenant nobody has locked.
Orphans == {e \in Recorded : ~Locked(exec[e].org)}

\* Mutant: a release that failed is left to its process's end.
DueReleasesNone(p) == {}

\* The first max_quarantined_executions entries of _lifecycle_tasks.
Slice(p) == {tracked[p][i] : i \in {i \in DOMAIN tracked[p] : i <= MaxActive}} \ {None}

\* The executions _retry_due_release_pending finds due among them.  One whose handle is
\* gone would only be marked again, until reconciliation removes its record.
DueReleases(p) == {e \in Slice(p) : /\ exec[e].kept = "pending"
                                    /\ exec[e].row = "due" /\ exec[e].lock}

\* reconcile_orphaned_tenant_executions, when the interval has passed.  What the owner
\* still has in hand goes on without its record; a pending release has nothing left to
\* do.  The slice and the time of the retries are taken at once.
ReconcileOrphans(p) ==
    /\ At(p, "idle") /\ ~proc[p].stop
    /\ exec' = [e \in Execs |->
          IF e \notin Orphans THEN exec[e]
          ELSE IF exec[e].kept \in {"no", "pending"} THEN NoExecution
          ELSE [exec[e] EXCEPT !.row = "none"]]
    /\ tracked' = [q \in Procs |->
          Inert(tracked[q], {e \in Orphans : exec[e].owner = q /\ exec[e].kept = "pending"})]
    /\ proc' = [proc EXCEPT ![p].pc = "retry", ![p].due = DueReleases(p)]
    /\ UNCHANGED <<lease, cursor, deferred, mishaps>>

RetryRelease(p, e) ==
    /\ At(p, "retry") /\ e \in proc[p].due /\ exec[e].kept = "pending"
    /\ UnlockTenant(e)
    /\ proc' = [proc EXCEPT ![p].due = @ \ {e}]
    /\ UNCHANGED <<lease, cursor, deferred, tracked>>

\* _global_capacity_reached, once every one has been tried.
Admit(p) ==
    /\ At(p, "retry") /\ proc[p].due = {}
    /\ Goto(p, IF Full THEN "idle" ELSE "lease")
    /\ UNCHANGED <<lease, cursor, deferred, tracked, exec, mishaps>>

\* acquire_lease and, under it, the page of the cycle.
AcquireLease(p) ==
    /\ At(p, "lease")
    /\ \/ lease /\ Goto(p, "idle") /\ UNCHANGED <<lease, exec>>
       \/ /\ ~lease /\ lease' = TRUE
          /\ NoFenceBut(p, [proc EXCEPT ![p].pc = "tenant", ![p].seen = cursor,
                                        ![p].page = FairOrgPage(cursor)], exec)
    /\ UNCHANGED <<cursor, deferred, tracked, mishaps>>

\* acquire_tenant_execution returns None: the cycle ends for want of room, or goes on
\* to the next tenant.
Declined(runner) ==
    IF Full THEN Done(runner)
    ELSE [runner EXCEPT !.pc = "tenant", !.page = Tail(@)]

\* Mutant: the tenants of a cycle are not counted.
CycleOverUncounted(p) == proc[p].stop \/ proc[p].page = <<>> \/ ~proc[p].gen

CycleOver(p) ==
    proc[p].stop \/ proc[p].page = <<>> \/ proc[p].scanned = MaxOrgs \/ ~proc[p].gen

\* Another worker's reconciliation is trying the lock of o for a record it may remove.
TriedElsewhere(p, o) ==
    /\ \E e \in Recorded : exec[e].org = o
    /\ \E q \in Procs \ {p} : At(q, "idle") /\ ~proc[q].stop

\* The loop over the page: renew the lease, pass over tenants whose retry is not due,
\* and begin acquire_tenant_execution by trying the tenant's lock.
NextTenant(p) ==
    LET o == Head(proc[p].page) IN
    /\ At(p, "tenant")
    /\ \/ CycleOver(p) /\ proc' = [proc EXCEPT ![p] = Done(@)] /\ UNCHANGED exec
       \/ /\ ~CycleOver(p) /\ o \in deferred
          /\ proc' = [proc EXCEPT ![p].page = Tail(@)] /\ UNCHANGED exec
       \/ /\ ~CycleOver(p) /\ o \notin deferred
          /\ ~Free(o) \/ TriedElsewhere(p, o)
          /\ proc' = [proc EXCEPT ![p] = Declined(@)] /\ UNCHANGED exec
       \/ /\ ~CycleOver(p) /\ o \notin deferred /\ Free(o)
          /\ \E e \in Execs :
               /\ Fresh(e)
               /\ exec' = [exec EXCEPT ![e].org = o, ![e].owner = p, ![e].lock = TRUE]
               /\ proc' = [proc EXCEPT ![p].pc = "register", ![p].cur = e]
    /\ UNCHANGED <<lease, cursor, deferred, tracked, mishaps>>

\* Its second part: check the fence again, and record the execution while there is
\* room.  The pass is created at once.
Register(p) ==
    LET e == proc[p].cur IN
    /\ At(p, "register")
    /\ IF proc[p].gen /\ ~Full
       THEN /\ exec' = [exec EXCEPT ![e].row = "active", ![e].fence = TRUE,
                                    ![e].task = "queued", ![e].kept = "watched"]
            /\ tracked' = [tracked EXCEPT ![p] = Reach(Append(@, e))]
            /\ Goto(p, "watch")
       ELSE /\ exec' = [exec EXCEPT ![e] = NoExecution] /\ UNCHANGED tracked
            /\ proc' = [proc EXCEPT ![p] = Declined([@ EXCEPT !.cur = None])]
    /\ UNCHANGED <<lease, cursor, deferred, mishaps>>

-----------------------------------------------------------------------------
(* A tenant's pass *)

Running(e) == exec[e].task = "running"

\* execute_artifact_cleanup runs under the state lock of its process's store.
PassStarts(e) ==
    /\ exec[e].task = "queued" /\ proc[exec[e].owner].pc = "watch"
    /\ \A d \in Execs : ~(exec[d].owner = exec[e].owner /\ exec[d].task = "running")
    /\ exec' = [exec EXCEPT ![e].task = "running"]
    /\ UNCHANGED <<lease, cursor, deferred, proc, mishaps, tracked>>

\* assert_active before a destructive phase, which takes a failing call for a lost fence.
PassLosesFence(e) ==
    /\ exec[e].task = "running"
    /\ IF exec[e].fence THEN Mishap(1) ELSE UNCHANGED mishaps
    /\ exec' = [exec EXCEPT ![e].task = "lost"]
    /\ UNCHANGED <<lease, cursor, deferred, proc, tracked>>

\* It returns, or raises, its cancellation included, or never does either.  Once it has
\* been cancelled its result is discarded.
PassEnds(e, result) ==
    /\ exec[e].task = "running"
    /\ exec' = [exec EXCEPT ![e].task =
                  IF exec[e].kept = "watched" /\ proc[exec[e].owner].pc = "watch"
                  THEN result ELSE "failed"]
    /\ UNCHANGED <<lease, cursor, deferred, proc, mishaps, tracked>>

\* _run_lifecycle_task sees the stop, or the deadline, which a pass that can start at
\* once does not miss.
Deadline(p) ==
    /\ At(p, "watch")
    /\ \/ exec[proc[p].cur].task = "running"
       \/ /\ exec[proc[p].cur].task = "queued"
          /\ \/ proc[p].stop
             \/ \E d \in Execs : exec[d].owner = p /\ exec[d].task = "running"
    /\ Goto(p, "cancel")
    /\ UNCHANGED <<lease, cursor, deferred, exec, mishaps, tracked>>

\* The pass is not over within the grace after its cancellation: the runner goes on
\* without it, and its lock stays.
Quarantine(p) ==
    /\ At(p, "cancel") /\ exec[proc[p].cur].task = "running"
    /\ \E marked \in BOOLEAN :
        /\ Mishap(IF marked THEN 0 ELSE 1)
        /\ exec' = [exec EXCEPT ![proc[p].cur].kept = "quarantined",
                                ![proc[p].cur].row = IF marked THEN "quarantined" ELSE @]
    /\ proc' = [proc EXCEPT ![p].pc = "defer", ![p].hung = TRUE]
    /\ UNCHANGED <<lease, cursor, deferred, tracked>>

\* Mutant: only the cursor is compared.
MayMoveUnfenced(p) == cursor = proc[p].seen

\* complete_tenant and defer_failed_tenant: move the cursor this cycle has seen, under
\* its fence, or end the cycle.
MayMove(p) == proc[p].gen /\ cursor = proc[p].seen

MoveCursor(p, deferrals) ==
    LET o == Head(proc[p].page) IN
    /\ \/ /\ MayMove(p)
          /\ cursor' = o /\ deferred' = deferrals
          /\ proc' = [proc EXCEPT ![p].pc = "release", ![p].seen = o,
                                  ![p].scanned = @ + 1]
       \/ ~MayMove(p) /\ Goto(p, "quit") /\ UNCHANGED <<cursor, deferred>>
    /\ UNCHANGED <<lease, mishaps, tracked>>

\* A pass that still waits for the state lock stops at once when it is cancelled.
CancelQueued(p) ==
    [exec EXCEPT ![proc[p].cur].task = IF At(p, "cancel") /\ @ = "queued" THEN "failed" ELSE @]

\* The runner sees the pass done: completed, failed, or over within the grace after its
\* cancellation, which counts as a failure whatever its result.
Complete(p) ==
    /\ At(p, "watch") /\ exec[proc[p].cur].task = "completed"
    /\ MoveCursor(p, deferred \ {Head(proc[p].page)})
    /\ UNCHANGED exec

Defer(p) ==
    LET e == proc[p].cur IN
    /\ \/ At(p, "watch") /\ exec[e].task = "failed"
       \/ At(p, "cancel") /\ ~Running(e)
       \/ At(p, "defer")
    /\ MoveCursor(p, deferred \cup {Head(proc[p].page)})
    /\ exec' = CancelQueued(p)

\* It sees that the pass found its fence gone.
FenceLost(p) ==
    /\ At(p, "watch") /\ exec[proc[p].cur].task = "lost"
    /\ Goto(p, "quit")
    /\ UNCHANGED <<lease, cursor, deferred, exec, mishaps, tracked>>

\* The finally clause, and the loop's end or its next turn.
ReleaseTenant(p) ==
    /\ At(p, "release") \/ At(p, "quit")
    /\ IF proc[p].hung THEN UNCHANGED <<exec, mishaps>> ELSE UnlockTenant(proc[p].cur)
    /\ proc' = IF \/ At(p, "quit") \/ proc[p].stop
                  \/ proc[p].hung /\ Full
               THEN [proc EXCEPT ![p] = Done(@)]
               ELSE [proc EXCEPT ![p].pc = "tenant", ![p].cur = None, ![p].hung = FALSE,
                                 ![p].page = Tail(@)]
    /\ UNCHANGED <<lease, cursor, deferred, tracked>>

\* _release_quarantined_lifecycle_task, when the pass has stopped after all.
QuarantineEnds(e) ==
    /\ exec[e].kept = "quarantined" /\ exec[e].task # "running"
    /\ proc[exec[e].owner].pc # "register" /\ ~Releasing(exec[e].owner)
    /\ UnlockTenant(e)
    /\ UNCHANGED <<lease, cursor, deferred, proc, tracked>>

\* release_lease, which can fail.
Unlease(p) ==
    /\ At(p, "unlease")
    /\ \/ /\ proc[p].gen /\ lease' = FALSE
          /\ NoFenceBut(None, [proc EXCEPT ![p] = Rest(p)], exec)
          /\ UNCHANGED mishaps
       \/ /\ ~proc[p].gen
          /\ proc' = [proc EXCEPT ![p] = Rest(p)]
          /\ UNCHANGED <<lease, exec, mishaps>>
       \/ /\ proc[p].gen /\ Mishap(1)
          /\ proc' = [proc EXCEPT ![p] = Rest(p)]
          /\ UNCHANGED <<lease, exec>>
    /\ UNCHANGED <<cursor, deferred, tracked>>

-----------------------------------------------------------------------------
(* Failures and time *)

\* A call of the store, or the inventory's, raises.
StoreFails(p) ==
    /\ Mishap(1)
    /\ \/ /\ At(p, "retry") \/ At(p, "lease")
          /\ proc' = [proc EXCEPT ![p].pc = "idle", ![p].due = {}] /\ UNCHANGED exec
       \/ /\ At(p, "tenant")
          /\ proc' = [proc EXCEPT ![p] = Done(@)] /\ UNCHANGED exec
       \/ /\ At(p, "register")
          /\ exec' = [exec EXCEPT ![proc[p].cur] = NoExecution]
          /\ proc' = [proc EXCEPT ![p] = Done(@)]
       \/ /\ \/ At(p, "watch") /\ exec[proc[p].cur].task \in {"completed", "failed"}
             \/ At(p, "cancel") /\ ~Running(proc[p].cur)
             \/ At(p, "defer")
             \/ At(p, "release") /\ proc[p].hung
          /\ Goto(p, "quit") /\ exec' = CancelQueued(p)
    /\ UNCHANGED <<lease, cursor, deferred, tracked>>

\* The lease runs out: nobody renews it, or the heartbeat comes too late.
LeaseLapses ==
    /\ lease /\ \A p \in Procs : ~proc[p].gen
    /\ lease' = FALSE
    /\ NoFenceBut(None, proc, exec)
    /\ UNCHANGED <<cursor, deferred, mishaps, tracked>>
LeaseLost ==
    /\ lease /\ \E p \in Procs : proc[p].gen
    /\ Mishap(1) /\ lease' = FALSE
    /\ NoFenceBut(None, proc, exec)
    /\ UNCHANGED <<cursor, deferred, tracked>>

\* retry_not_before passes.
RetryDue(e) ==
    /\ exec[e].kept = "pending" /\ exec[e].row = "pending"
    /\ exec' = [exec EXCEPT ![e].row = "due"]
    /\ UNCHANGED <<lease, cursor, deferred, proc, mishaps, tracked>>

DeferralDue(o) ==
    /\ o \in deferred /\ deferred' = deferred \ {o}
    /\ UNCHANGED <<lease, cursor, proc, exec, mishaps, tracked>>

RequestStop(p) ==
    /\ ~proc[p].stop /\ Mishap(1)
    /\ proc' = [proc EXCEPT ![p].stop = TRUE]
    /\ UNCHANGED <<lease, cursor, deferred, exec, tracked>>

\* A process ends, its passes and locks with it, and another takes its place.
Replaced(p) ==
    /\ proc' = [proc EXCEPT ![p] = IdleRunner]
    /\ exec' = [e \in Execs |->
          IF exec[e].owner # p THEN exec[e]
          ELSE IF exec[e].row = "none" THEN NoExecution
          ELSE [NoExecution EXCEPT !.org = exec[e].org, !.row = exec[e].row]]
    /\ tracked' = [tracked EXCEPT ![p] = <<>>]
    /\ UNCHANGED <<lease, cursor, deferred>>
Exit(p) == proc[p].stop /\ Replaced(p) /\ UNCHANGED mishaps
Crash(p) == ~proc[p].stop /\ Mishap(1) /\ Replaced(p)

-----------------------------------------------------------------------------

RunnerStep(p) ==
    \/ ReconcileOrphans(p) \/ \E e \in Execs : RetryRelease(p, e)
    \/ Admit(p) \/ AcquireLease(p) \/ NextTenant(p) \/ Register(p)
    \/ Deadline(p) \/ Quarantine(p) \/ Complete(p) \/ Defer(p) \/ FenceLost(p)
    \/ ReleaseTenant(p) \/ Unlease(p)

Next ==
    \/ \E p \in Procs : RunnerStep(p) \/ StoreFails(p) \/ RequestStop(p) \/ Exit(p)
                        \/ Crash(p)
    \/ \E e \in Execs :
        \/ DropRow(e) \/ QuarantineEnds(e) \/ RetryDue(e)
        \/ PassStarts(e) \/ PassLosesFence(e)
        \/ \E result \in {"completed", "failed"} : PassEnds(e, result)
    \/ LeaseLapses \/ LeaseLost
    \/ \E o \in Orgs : DeferralDue(o)

Spec == Init /\ [][Next]_vars

\* Runners and release tasks go on, time passes, a process told to stop is replaced.
\* A pass need not end.
Fairness ==
    /\ \A p \in Procs : WF_vars(RunnerStep(p)) /\ WF_vars(Exit(p))
    /\ \A e \in Execs : /\ WF_vars(DropRow(e)) /\ WF_vars(QuarantineEnds(e))
                        /\ WF_vars(RetryDue(e)) /\ WF_vars(PassStarts(e))
    /\ WF_vars(LeaseLapses)
    /\ \A o \in Orgs : WF_vars(DeferralDue(o))

LiveSpec == Spec /\ Fairness

-----------------------------------------------------------------------------
(* Properties *)

\* No two destructive passes run over one tenant, whatever became of the deadline, the
\* lease or the process each was started under (acquire_tenant_execution's lock, and
\* _run_lifecycle_task, which releases it only once the pass is done).
TenantExclusive ==
    \A d, e \in Execs : Running(d) /\ Running(e) /\ exec[d].org = exec[e].org => d = e

\* A running pass is on record, so it counts against the capacity every worker admits
\* by, and the record never holds more than the capacity: neither reconciliation nor a
\* failed mark makes a live pass invisible.
RunningIsAdmitted ==
    /\ \A e \in Execs : Running(e) => exec[e].row # "none"
    /\ Cardinality(Recorded) <= MaxActive

\* The fair cursor moves only under an active lease, and past a tenant only if its pass
\* completed under that lease with the tenant still locked, or a retry of it is recorded
\* in the same step (complete_tenant and defer_failed_tenant compare and set).
CursorFollowsWork ==
    [][cursor' # cursor =>
         /\ lease
         /\ \/ cursor' \in deferred'
            \/ \E e \in Execs : /\ exec[e].org = cursor' /\ exec[e].lock
                                /\ exec[e].fence /\ exec[e].task = "completed"]_vars

\* A lock that neither a retry nor a reconciliation takes up: unlocking and recording the
\* failure both failed, or the entry is behind others in _lifecycle_tasks, of which those
\* that are there for good never make room.
Stranded == \E e \in Execs : /\ exec[e].lock /\ exec[e].kept = "pending"
                             /\ \/ exec[e].row \notin {"pending", "due"}
                                \/ e \notin Slice(exec[e].owner)

\* Every tenant's pass runs again and again, through lost leases, failed passes, failed
\* releases and processes that end, unless a pass never ends or a release is out of
\* reach of every retry.
EveryTenantComesUp ==
    \A o \in Orgs :
        \/ []<>(\E e \in Execs : Running(e) /\ exec[e].org = o)
        \/ \E e \in Execs : <>[]Running(e)
        \/ <>[]Stranded
=============================================================================
