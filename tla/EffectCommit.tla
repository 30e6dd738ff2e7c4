---------------------------- MODULE EffectCommit ----------------------------
(***************************************************************************)
(* Executing an approved effect: EffectCoordinator.handle and reconcile,   *)
(* EffectDispatchCoordinator.dispatch, the EffectClaimStore, the result    *)
(* events of EffectResultRecorder behind the ledger seal, and the repair   *)
(* planner that asks for a reconciliation.                                 *)
(*                                                                         *)
(* A command in the outbox can be delivered any number of times and to     *)
(* several workers at once (a retry, an expired lock, a crash before       *)
(* mark_complete).  An attempt is the executor's own: it ends when it      *)
(* ends, also long after the worker that asked for it gave up waiting, and *)
(* what it did to the outside world is `landed`.                           *)
(***************************************************************************)
EXTENDS EffectStage

CONSTANTS
    Workers,            \* tasks inside EffectCoordinator.handle
    Reconcilers,        \* tasks inside EffectCoordinator.reconcile
    Executors,          \* the kinds of executor a stage may name
    SharedProducer,     \* the worker's event producer is the one that ended the run
    MaxRestarts         \* bound: process restarts

ASSUME CommitAssumption ==
    /\ Executors \subseteq {"browser", "workspace", "mcp", "builtin"}
    /\ SharedProducer \in BOOLEAN
    /\ MaxRestarts \in Nat

VARIABLES
    executor,   \* the executor kind of the stage
    claims,     \* the claim store, by idempotency key
    workers,
    reconcilers,
    repairs,    \* reconcile commands enqueued
    facts,      \* effect.claimed, .applied, .indeterminate, .reconciled in the ledger
    attempts,   \* what became of executor.apply: nothing yet, pending, or its receipt
    applies,    \* history: calls of executor.apply
    landed,     \* history: external changes made
    runEnded,   \* the owning run is terminal
    sealed,     \* this producer has sealed the run's ledger
    restarts

commitVars == <<executor, claims, workers, reconcilers, repairs, facts, attempts, applies,
                landed, runEnded, sealed, restarts>>
runVars == <<runEnded, sealed, restarts>>
outside == <<executor, attempts, applies, landed>>
vars == <<stageVars, commitVars>>

ClaimStates == {"none", "CLAIMED", "COMPLETED", "INDETERMINATE", "CANCELLED"}
Answers == {"applied", "partial", "failed", "precondition_drift"}
Outcomes == Answers \cup {"cancelled"}
Changing == {"applied", "partial"}
Results == Answers \cup {"none", "indeterminate"}
Attempts == Results \cup {"pending"}
Claims == [state : ClaimStates, outcome : Outcomes \cup {"none", "indeterminate"}]
NoClaim == [state |-> "none", outcome |-> "none"]
Claimed == [state |-> "CLAIMED", outcome |-> "none"]
Indeterminate == [state |-> "INDETERMINATE", outcome |-> "indeterminate"]
Completed(o) == [state |-> "COMPLETED", outcome |-> o]
Cancelled == [state |-> "CANCELLED", outcome |-> "cancelled"]
Closed == {"COMPLETED", "CANCELLED"}

\* `drift` is the effect.applied with outcome precondition_drift of a delivery that
\* made no claim; `applied` is the effect.applied of the claim.
Facts == [claimed : BOOLEAN, indeterminate : BOOLEAN, drift : BOOLEAN,
          applied : Outcomes \cup {"none"}, reconciled : Outcomes \cup {"none"}]
NoFacts == [claimed |-> FALSE, indeterminate |-> FALSE, drift |-> FALSE,
            applied |-> "none", reconciled |-> "none"]

\* Between winning the claim and storing its result a worker owns the claim.
Unapplied == {"observe", "cancelcheck", "authorize", "apply"}
Owning == Unapplied \cup {"wait", "settle"}
WorkerPcs == {"idle", "lookup", "prepare", "claim", "record"} \cup Owning
Idle == [pc |-> "idle", cmd |-> NoDecision, seen |-> NoClaim, result |-> "none"]
WorkerStates == [pc : WorkerPcs, cmd : Commands \cup {NoDecision}, seen : Claims,
                 result : Results]
ReconcilerStates == [pc : {"idle", "ask", "store", "amend", "record"},
                     cmd : Commands \cup {NoDecision}, seen : Claims,
                     result : Results]

CommitTypeOK ==
    /\ StageTypeOK
    /\ executor \in Executors
    /\ claims \in [Commands -> Claims]
    /\ workers \in [Workers -> WorkerStates]
    /\ \A w \in Workers : workers[w].pc # "idle" => workers[w].cmd \in Commands
    /\ reconcilers \in [Reconcilers -> ReconcilerStates]
    /\ \A r \in Reconcilers : reconcilers[r].pc # "idle" => reconcilers[r].cmd \in Commands
    /\ repairs \in SUBSET Commands
    /\ facts \in [Commands -> Facts]
    /\ attempts \in [Commands -> Attempts]
    /\ applies \in [Commands -> Nat]
    /\ landed \in [Commands -> Nat]
    /\ runEnded \in BOOLEAN /\ sealed \in BOOLEAN
    /\ restarts \in Nat

\* A browser action asks for a human decision, and only a workspace change set has a
\* projection to bind.
Init ==
    /\ StageInit
    /\ executor \in Executors
    /\ executor = "browser" => stage.policy = "HOLD"
    /\ stage.required <=> executor = "workspace"
    /\ claims = [k \in Commands |-> NoClaim]
    /\ workers = [w \in Workers |-> Idle]
    /\ reconcilers = [r \in Reconcilers |-> Idle]
    /\ repairs = {}
    /\ facts = [k \in Commands |-> NoFacts]
    /\ attempts = [k \in Commands |-> "none"]
    /\ applies = [k \in Commands |-> 0]
    /\ landed = [k \in Commands |-> 0]
    /\ runEnded = FALSE
    /\ sealed = FALSE
    /\ restarts = 0

-----------------------------------------------------------------------------
(* The claim store and the ledger *)

\* Mutant: a completed claim may be replaced.
AllowedReopens(previous, replacement) ==
    previous.state # "CANCELLED" /\ replacement.state # "none"

\* validate_claim_transition, with updated_at making any two records differ.
Allowed(previous, replacement) ==
    \/ previous.state = "CLAIMED"
    \/ previous.state = "INDETERMINATE" /\ replacement.state = "COMPLETED"

\* Mutant: an indeterminate claim is published as effect.applied.
FactOfAnyResult(f, claim) ==
    IF claim.state = "CLAIMED" THEN [f EXCEPT !.claimed = TRUE]
    ELSE [f EXCEPT !.applied = claim.outcome]

\* record_claimed and record_completion: the fact a claim is published as.
FactOf(f, claim) ==
    CASE claim.state = "CLAIMED"       -> [f EXCEPT !.claimed = TRUE]
      [] claim.state = "INDETERMINATE" -> [f EXCEPT !.indeterminate = TRUE]
      [] OTHER                         -> [f EXCEPT !.applied = claim.outcome]

\* append_stage_event of a causal effect event: the seal refuses it, and so does
\* the redelivery check when the phase key is taken by another body.
Appendable(f, claim) ==
    /\ ~sealed
    /\ claim.state \in Closed => f.applied \in {"none", claim.outcome}

-----------------------------------------------------------------------------
(* EffectCoordinator.handle and EffectDispatchCoordinator.dispatch *)

Move(w, pc) == workers' = [workers EXCEPT ![w].pc = pc]
Stop(w) == workers' = [workers EXCEPT ![w] = Idle]
Result(w, claim) ==
    workers' = [workers EXCEPT ![w].pc = "record", ![w].seen = claim, ![w].result = "none"]

\* Mutant: the decision's identity is not compared with the command's.
AuthorisedByRevision(k) ==
    /\ stage.status = "APPROVED"
    /\ Ready(stage)
    /\ stage.rev = k.rev

\* _load_authorised_stage
Authorised(k) ==
    /\ stage.status = "APPROVED"
    /\ Ready(stage)
    /\ stage.decision = k
    /\ stage.rev = k.rev

\* A delivery of k passes _load_authorised_stage and _references_match; a
\* delivery that does not is refused and leaves no trace but an audit line.
LoadStage(w, k) ==
    /\ workers[w].pc = "idle"
    /\ k \in queued
    /\ Authorised(k)
    /\ workers' = [workers EXCEPT ![w] = [Idle EXCEPT !.pc = "lookup", !.cmd = k]]
    /\ UNCHANGED <<stageVars, claims, reconcilers, repairs, facts, outside, runVars>>

\* claims.get: an existing claim is reported, never applied.
LookupClaim(w) ==
    /\ workers[w].pc = "lookup"
    /\ IF claims[workers[w].cmd].state = "none"
       THEN Move(w, "prepare")
       ELSE Result(w, claims[workers[w].cmd])
    /\ UNCHANGED <<stageVars, claims, reconcilers, repairs, facts, outside, runVars>>

\* executor.prepare succeeds; WorkerStops covers the refusal when it fails.
Prepare(w) ==
    /\ workers[w].pc = "prepare"
    /\ Move(w, "claim")
    /\ UNCHANGED <<stageVars, claims, reconcilers, repairs, facts, outside, runVars>>

\* The precondition has drifted: record_preclaim_drift appends effect.applied with
\* outcome precondition_drift, under a key of its own; no claim, no apply.  The stage
\* stays approved, so that the next delivery of k may find the precondition restored.
PreconditionDrift(w) ==
    /\ workers[w].pc = "prepare"
    /\ executor \in {"browser", "workspace"}
    /\ facts' = IF sealed THEN facts ELSE [facts EXCEPT ![workers[w].cmd].drift = TRUE]
    /\ Stop(w)
    /\ UNCHANGED <<stageVars, claims, reconcilers, repairs, outside, runVars>>

\* Mutant: two workers that both found no claim both take it.
ClaimOverwrites(w) ==
    /\ workers[w].pc = "claim"
    /\ claims' = [claims EXCEPT ![workers[w].cmd] = Claimed]
    /\ Move(w, "observe")
    /\ UNCHANGED <<stageVars, reconcilers, repairs, facts, outside, runVars>>

\* claims.claim: create atomically, or load what another worker created.
Claim(w) ==
    /\ workers[w].pc = "claim"
    /\ LET k == workers[w].cmd IN
       IF claims[k].state = "none"
       THEN claims' = [claims EXCEPT ![k] = Claimed] /\ Move(w, "observe")
       ELSE Result(w, claims[k]) /\ UNCHANGED claims
    /\ UNCHANGED <<stageVars, reconcilers, repairs, facts, outside, runVars>>

\* Mutant: a failed publication of the claim does not prevent apply.
ObserveClaimIgnoresSeal(w) ==
    /\ workers[w].pc = "observe"
    /\ facts' = IF sealed THEN facts ELSE [facts EXCEPT ![workers[w].cmd].claimed = TRUE]
    /\ Move(w, "cancelcheck")
    /\ UNCHANGED <<stageVars, claims, reconcilers, repairs, outside, runVars>>

\* observer.claimed publishes effect.claimed; if that raises, nothing is applied
\* and the claim stays CLAIMED.
ObserveClaim(w) ==
    /\ workers[w].pc = "observe"
    /\ IF sealed
       THEN Stop(w) /\ UNCHANGED facts
       ELSE /\ facts' = [facts EXCEPT ![workers[w].cmd].claimed = TRUE]
            /\ Move(w, "cancelcheck")
    /\ UNCHANGED <<stageVars, claims, reconcilers, repairs, outside, runVars>>

\* claims.update; an illegal transition raises out of the handler.
StoreClaim(w, new) ==
    LET k == workers[w].cmd IN
    /\ IF Allowed(claims[k], new)
       THEN claims' = [claims EXCEPT ![k] = new] /\ Result(w, new)
       ELSE Stop(w) /\ UNCHANGED claims
    /\ UNCHANGED <<stageVars, reconcilers, repairs, facts, outside, runVars>>

\* The cancellation port answers that the execution was cancelled, or not.
CancelBeforeApply(w) ==
    /\ workers[w].pc = "cancelcheck"
    /\ StoreClaim(w, Cancelled)

NotCancelled(w) ==
    /\ workers[w].pc = "cancelcheck"
    /\ Move(w, "authorize")
    /\ UNCHANGED <<stageVars, claims, reconcilers, repairs, facts, outside, runVars>>

AuthorizationDenied(w) ==
    /\ workers[w].pc = "authorize"
    /\ StoreClaim(w, Completed("failed"))

Authorize(w) ==
    /\ workers[w].pc = "authorize"
    /\ Move(w, "apply")
    /\ UNCHANGED <<stageVars, claims, reconcilers, repairs, facts, outside, runVars>>

\* executor.apply is called.
Apply(w) ==
    /\ workers[w].pc = "apply"
    /\ applies' = [applies EXCEPT ![workers[w].cmd] = @ + 1]
    /\ attempts' = [attempts EXCEPT ![workers[w].cmd] = "pending"]
    /\ Move(w, "wait")
    /\ UNCHANGED <<stageVars, executor, claims, reconcilers, repairs, facts, landed, runVars>>

\* How an attempt of each executor can end: only a row-set has parts, and only the
\* browser and the workspace check a precondition.
Ends ==
    CASE executor = "builtin" -> {"applied", "partial", "failed", "indeterminate"}
      [] executor = "mcp"     -> {"applied", "failed", "indeterminate"}
      [] OTHER                -> {"applied", "failed", "precondition_drift", "indeterminate"}

\* The attempt ends, whether or not a worker still waits for it.  A connector that
\* gives an outcome gives the true one; it may know none, as after a send whose
\* answer was lost.
AttemptEnds(k, end) ==
    /\ attempts[k] = "pending"
    /\ end \in Ends
    /\ attempts' = [attempts EXCEPT ![k] = end]
    /\ \E lands \in BOOLEAN :
        /\ end # "indeterminate" => (lands <=> end \in Changing)
        /\ landed' = [landed EXCEPT ![k] = @ + IF lands THEN 1 ELSE 0]
    /\ UNCHANGED <<stageVars, executor, claims, workers, reconcilers, repairs, facts, applies, runVars>>

\* apply returns the outcome of the attempt.
HearAnswer(w) ==
    /\ workers[w].pc = "wait"
    /\ attempts[workers[w].cmd] # "pending"
    /\ workers' = [workers EXCEPT ![w].pc = "settle", ![w].result = attempts[workers[w].cmd]]
    /\ UNCHANGED <<stageVars, claims, reconcilers, repairs, facts, outside, runVars>>

\* Mutant: a lost answer counts as a failure.
LoseAnswerAsFailure(w) ==
    /\ workers[w].pc = "wait"
    /\ workers' = [workers EXCEPT ![w].pc = "settle", ![w].result = "failed"]
    /\ UNCHANGED <<stageVars, claims, reconcilers, repairs, facts, outside, runVars>>

\* apply raises or times out; the attempt may be in progress still.
LoseAnswer(w) ==
    /\ workers[w].pc = "wait"
    /\ workers' = [workers EXCEPT ![w].pc = "settle", ![w].result = "indeterminate"]
    /\ UNCHANGED <<stageVars, claims, reconcilers, repairs, facts, outside, runVars>>

Settle(w) ==
    /\ workers[w].pc = "settle"
    /\ StoreClaim(w, IF workers[w].result = "indeterminate"
                     THEN Indeterminate ELSE Completed(workers[w].result))

\* _result_from_dispatch publishes the claim the dispatch returned.
RecordResult(w) ==
    /\ workers[w].pc = "record"
    /\ LET k == workers[w].cmd IN
       facts' = IF Appendable(facts[k], workers[w].seen)
                THEN [facts EXCEPT ![k] = FactOf(@, workers[w].seen)] ELSE facts
    /\ Stop(w)
    /\ UNCHANGED <<stageVars, claims, reconcilers, repairs, outside, runVars>>

\* A refusal, a raised error, a cancelled task or a dying worker ends the delivery.
WorkerStops(w) ==
    /\ workers[w].pc # "idle"
    /\ Stop(w)
    /\ UNCHANGED <<stageVars, claims, reconcilers, repairs, facts, outside, runVars>>

-----------------------------------------------------------------------------
(* Repair: plan, then EffectCoordinator.reconcile *)

\* The executors a worker plans reconciliations for, if it plans any.
Reconcilable == executor \in {"browser", "workspace"}

\* RepairPlanner._blockers and the enqueue: the run is terminal, the claim is
\* uncertain, effect.claimed is in the ledger, the executor is supported, and the quiet
\* period is over; that is a fixed time, which an attempt in progress may well outlast.
\* A legal hold, an unknown reference, an incomplete run graph or the planner's switch,
\* off by default, withhold the command: the step is then not taken.  The command id is
\* derived from the claim record, and a known id is left alone in the queue.
PlanReconcile(k) ==
    /\ runEnded
    /\ Reconcilable
    /\ claims[k].state \in {"CLAIMED", "INDETERMINATE"}
    /\ facts[k].claimed
    /\ repairs' = repairs \cup {k}
    /\ UNCHANGED <<stageVars, claims, workers, reconcilers, facts, outside, runVars>>

MoveR(r, pc) == reconcilers' = [reconcilers EXCEPT ![r].pc = pc]
StopR(r) == reconcilers' = [reconcilers EXCEPT ![r] = Idle]

\* reconcile reads the claim; a closed one is only published again.
ReadClaim(r, k) ==
    /\ reconcilers[r].pc = "idle"
    /\ k \in repairs
    /\ reconcilers' = [reconcilers EXCEPT ![r] =
          [Idle EXCEPT !.pc = IF claims[k].state \in Closed THEN "record" ELSE "ask",
                       !.cmd = k, !.seen = claims[k]]]
    /\ UNCHANGED <<stageVars, claims, workers, repairs, facts, outside, runVars>>

\* executor.reconcile: the browser answers with the receipt it keeps of the prepared
\* action once that has ended, and with indeterminate when it has none, lost it, or
\* cannot be reached.  The workspace authority is asked for the coordinator's claim id,
\* which its journal does not know, and raises; a connector never tells.
AskExecutor(r, answer) ==
    /\ reconcilers[r].pc = "ask"
    /\ \/ answer = "indeterminate"
       \/ executor = "browser" /\ answer = attempts[reconcilers[r].cmd] /\ answer \in Answers
    /\ reconcilers' = [reconcilers EXCEPT ![r].pc = "store", ![r].result = answer]
    /\ UNCHANGED <<stageVars, claims, workers, repairs, facts, outside, runVars>>

\* _completed_claim and _indeterminate_claim.
ReconciledClaim(answer) ==
    IF answer = "indeterminate" THEN Indeterminate ELSE Completed(answer)

\* The update, or _mark_reconcile_indeterminate, which leaves a claim that was
\* already indeterminate alone.
StoreReconciled(r) ==
    /\ reconcilers[r].pc = "store"
    /\ LET k == reconcilers[r].cmd
           new == ReconciledClaim(reconcilers[r].result)
       IN IF new.state = "INDETERMINATE" /\ reconcilers[r].seen.state = "INDETERMINATE"
          THEN MoveR(r, "record") /\ UNCHANGED claims
          ELSE IF Allowed(claims[k], new)
          THEN /\ claims' = [claims EXCEPT ![k] = new]
               /\ reconcilers' = [reconcilers EXCEPT
                     ![r].pc = IF new.state = "COMPLETED" THEN "amend" ELSE "record",
                     ![r].seen = new]
          ELSE StopR(r) /\ UNCHANGED claims
    /\ UNCHANGED <<stageVars, workers, repairs, facts, outside, runVars>>

\* record_reconciled: an amendment, which the seal lets through.
AmendReconciled(r) ==
    /\ reconcilers[r].pc = "amend"
    /\ facts' = [facts EXCEPT ![reconcilers[r].cmd].reconciled = reconcilers[r].seen.outcome]
    /\ MoveR(r, "record")
    /\ UNCHANGED <<stageVars, claims, workers, repairs, outside, runVars>>

\* record_completion of a reconciliation is a causal event like any other.
RecordReconciled(r) ==
    /\ reconcilers[r].pc = "record"
    /\ LET k == reconcilers[r].cmd IN
       facts' = IF Appendable(facts[k], reconcilers[r].seen)
                THEN [facts EXCEPT ![k] = FactOf(@, reconcilers[r].seen)] ELSE facts
    /\ StopR(r)
    /\ UNCHANGED <<stageVars, claims, workers, repairs, outside, runVars>>

ReconcilerStops(r) ==
    /\ reconcilers[r].pc # "idle"
    /\ StopR(r)
    /\ UNCHANGED <<stageVars, claims, workers, repairs, facts, outside, runVars>>

-----------------------------------------------------------------------------
(* The environment *)

\* The owning run reaches a terminal event; if this worker's producer wrote it,
\* LedgerSeal.guard has sealed the run in this process.
RunEnds ==
    /\ ~runEnded
    /\ runEnded' = TRUE
    /\ sealed' = SharedProducer
    /\ UNCHANGED <<stageVars, claims, workers, reconcilers, repairs, facts, outside, restarts>>

\* The process restarts: every task is gone, and the in-memory seal with them; an
\* attempt the executor has begun is not.
Restart ==
    /\ restarts < MaxRestarts
    /\ restarts' = restarts + 1
    /\ workers' = [w \in Workers |-> Idle]
    /\ reconcilers' = [r \in Reconcilers |-> Idle]
    /\ sealed' = FALSE
    /\ UNCHANGED <<stageVars, claims, repairs, facts, outside, runEnded>>

-----------------------------------------------------------------------------
WorkerProceeds(w) ==
    \/ LookupClaim(w) \/ Prepare(w) \/ PreconditionDrift(w) \/ Claim(w) \/ ObserveClaim(w)
    \/ CancelBeforeApply(w) \/ NotCancelled(w) \/ Authorize(w) \/ AuthorizationDenied(w)
    \/ Apply(w) \/ HearAnswer(w) \/ LoseAnswer(w) \/ Settle(w) \/ RecordResult(w)

ReconcilerProceeds(r) ==
    \/ \E answer \in Answers \cup {"indeterminate"} : AskExecutor(r, answer)
    \/ StoreReconciled(r) \/ AmendReconciled(r) \/ RecordReconciled(r)

Next ==
    \/ StageNext /\ UNCHANGED commitVars
    \/ \E w \in Workers : \/ \E k \in Commands : LoadStage(w, k)
                          \/ WorkerProceeds(w)
                          \/ WorkerStops(w)
    \/ \E k \in Commands : \/ PlanReconcile(k)
                          \/ \E end \in Answers \cup {"indeterminate"} : AttemptEnds(k, end)
    \/ \E r \in Reconcilers : \/ \E k \in Commands : ReadClaim(r, k)
                              \/ ReconcilerProceeds(r)
                              \/ ReconcilerStops(r)
    \/ RunEnds \/ Restart

Spec == Init /\ [][Next]_vars

-----------------------------------------------------------------------------
(* Properties *)

\* However often a command is delivered, and whichever workers, retries, crashes
\* and reconciliations race, apply is called at most once for one idempotency key
\* (claim-before-effect: "duplicate delivery makes one apply call").
AtMostOneApply == \A k \in Commands : applies[k] <= 1

\* Two decisions for one revision, from two lanes, never both reach the outside
\* world: only the decision the fold let win can be executed.
OneEffectPerRevision ==
    \A j, k \in Commands :
        (landed[j] > 0 /\ landed[k] > 0 /\ j.rev = k.rev) => j = k

\* Nothing is applied without the approval that governed its revision, a durable
\* claim, and the published effect.claimed event that repair relies on.
AppliedOnlyIfApprovedAndClaimed ==
    \A k \in Commands :
        applies[k] > 0 => /\ k \in authority[k.rev] /\ k \in queued
                          /\ claims[k].state # "none"
                          /\ facts[k].claimed

\* A claim never lies about the outside world, whatever the executor does after the
\* worker stopped waiting and whatever a reconciliation is told of an attempt that has
\* not ended: completed as applied or partial means that something changed, completed
\* otherwise that nothing did, cancelled that nothing was and will be tried.
HonestClaims ==
    \A k \in Commands :
        /\ claims[k].state = "COMPLETED" => (claims[k].outcome \in Changing <=> landed[k] > 0)
        /\ claims[k].state = "CANCELLED" => applies[k] = 0

\* The outcomes that effect.applied and effect.reconciled announce of a claim.
ClaimResults(f) == {f.applied, f.reconciled} \ {"none"}

\* The ledger agrees with the claim store: the effect.applied and the reconciliation
\* that name a claim carry the outcome it was closed with, also after crashes between
\* the two writes.  The one other effect.applied is the drift a delivery found before
\* any claim, and a reader who finds it and no effect.claimed may believe it: apply
\* was never called.
LedgerAgreesWithClaims ==
    \A k \in Commands :
        /\ \A o \in ClaimResults(facts[k]) : claims[k].state \in Closed /\ claims[k].outcome = o
        /\ facts[k].drift /\ ~facts[k].claimed => applies[k] = 0 /\ landed[k] = 0
=============================================================================
