------------------------- MODULE EffectCommitProofs -------------------------
(***************************************************************************)
(* Proofs about EffectCommit: one apply per idempotency key and one effect *)
(* per revision, only with the approval in force when the command was      *)
(* checked, claims that tell the truth and a ledger that agrees with them, *)
(* for any number of requests, lanes, revisions, workers, reconcilers and  *)
(* restarts.                                                               *)
(***************************************************************************)
EXTENDS EffectCommit, EffectStageProofs

(* The inductive invariant, by component *)

\* An approval that governed its revision, and is in the outbox.
Approved(k) == k \in queued /\ k \in authority[k.rev]

\* An answer in hand is the outcome of the attempt, which has ended, or none.
Truth(result, k) == result = "indeterminate" \/ (result \in Answers /\ attempts[k] = result)

\* A claim that is being published: it has a state, and if it is closed it is the
\* stored one.
Publishes(t) ==
    /\ t.seen.state # "none"
    /\ t.seen.state \in Closed => claims[t.cmd] = t.seen

\* A worker past _load_authorised_stage has an approval; one that owns a claim has
\* published it before it applies, and has not applied before it settles; and what it
\* owns is not closed while it may still apply.
WorkerOK(w) ==
    /\ workers[w].pc # "idle" => workers[w].cmd \in Commands /\ Approved(workers[w].cmd)
    /\ workers[w].seen.state \in Closed => workers[w].seen.outcome \in Outcomes
    /\ workers[w].pc \in Owning => claims[workers[w].cmd].state # "none"
    /\ workers[w].pc \in Unapplied =>
        /\ applies[workers[w].cmd] = 0
        /\ claims[workers[w].cmd].state \notin Closed
    /\ workers[w].pc \in Owning \ {"observe"} => facts[workers[w].cmd].claimed
    /\ workers[w].pc = "wait" => attempts[workers[w].cmd] # "none"
    /\ workers[w].pc = "settle" => Truth(workers[w].result, workers[w].cmd)
    /\ workers[w].pc = "record" => Publishes(workers[w])

\* A reconciler works on an existing claim, and an answer in its hand is the truth.
ReconcilerOK(r) ==
    /\ reconcilers[r].pc # "idle" =>
        /\ reconcilers[r].cmd \in Commands
        /\ claims[reconcilers[r].cmd].state # "none"
    /\ reconcilers[r].seen.state \in Closed => reconcilers[r].seen.outcome \in Outcomes
    /\ reconcilers[r].pc = "store" => Truth(reconcilers[r].result, reconcilers[r].cmd)
    /\ reconcilers[r].pc \in {"amend", "record"} => Publishes(reconcilers[r])
    /\ reconcilers[r].pc = "amend" => reconcilers[r].seen.state \in Closed

\* What the claim store, the ledger and the outside world say of one key.
KeyOK(k) ==
    /\ claims[k].state # "none" => Approved(k)
    /\ claims[k].state = "none" => applies[k] = 0 /\ k \notin repairs
    /\ claims[k].state \in Closed => claims[k].outcome \in Outcomes
    /\ applies[k] <= 1 /\ landed[k] <= applies[k]
    /\ applies[k] > 0 => facts[k].claimed
    /\ attempts[k] = "none" <=> applies[k] = 0
    /\ attempts[k] \in Answers => (attempts[k] \in Changing <=> landed[k] > 0)
    /\ attempts[k] \in {"none", "pending"} => landed[k] = 0
    /\ claims[k].state \in Closed => attempts[k] # "pending"
    /\ claims[k].state = "COMPLETED" => (claims[k].outcome \in Changing <=> landed[k] > 0)
    /\ claims[k].state = "CANCELLED" => applies[k] = 0
    /\ \A o \in {facts[k].applied, facts[k].reconciled} :
        o # "none" => claims[k].state \in Closed /\ claims[k].outcome = o

\* A claim has one owner.
SoleOwner ==
    \A v, w \in Workers :
        (workers[v].pc \in Owning /\ workers[w].pc \in Owning
           /\ workers[v].cmd = workers[w].cmd) => v = w

CommitTypes ==
    /\ executor \in Executors
    /\ claims \in [Commands -> Claims]
    /\ workers \in [Workers -> WorkerStates]
    /\ reconcilers \in [Reconcilers -> ReconcilerStates]
    /\ repairs \in SUBSET Commands
    /\ facts \in [Commands -> Facts]
    /\ attempts \in [Commands -> Attempts]
    /\ applies \in [Commands -> Nat]
    /\ landed \in [Commands -> Nat]
    /\ runEnded \in BOOLEAN /\ sealed \in BOOLEAN
    /\ restarts \in Nat

CommitInv ==
    /\ StageInv
    /\ CommitTypes
    /\ \A w \in Workers : WorkerOK(w)
    /\ \A r \in Reconcilers : ReconcilerOK(r)
    /\ \A k \in Commands : KeyOK(k)
    /\ SoleOwner

-----------------------------------------------------------------------------
\* What the invariant says of the properties.
LEMMA InvImpliesProperties ==
    CommitInv => /\ CommitTypeOK /\ AtMostOneApply /\ AppliedOnlyIfApprovedAndClaimed
                 /\ OneEffectPerRevision /\ HonestClaims /\ LedgerAgreesWithClaims
<1> SUFFICES ASSUME CommitInv
             PROVE  /\ CommitTypeOK /\ AtMostOneApply /\ AppliedOnlyIfApprovedAndClaimed
                    /\ OneEffectPerRevision /\ HonestClaims /\ LedgerAgreesWithClaims
  OBVIOUS
<1>1. CommitTypeOK
  BY DEF CommitInv, CommitTypes, StageInv, CommitTypeOK, WorkerOK, ReconcilerOK
<1>2. AtMostOneApply
  BY DEF CommitInv, KeyOK, AtMostOneApply
<1>3. AppliedOnlyIfApprovedAndClaimed
  BY DEF CommitInv, CommitTypes, KeyOK, Approved, AppliedOnlyIfApprovedAndClaimed
<1>4. OneEffectPerRevision
  <2> SUFFICES ASSUME NEW j \in Commands, NEW k \in Commands,
                      landed[j] > 0, landed[k] > 0, j.rev = k.rev
               PROVE  j = k
    BY DEF OneEffectPerRevision
  <2>1. applies[j] > 0 /\ applies[k] > 0
    BY DEF CommitInv, CommitTypes, KeyOK
  <2>2. j \in authority[j.rev] /\ k \in authority[j.rev]
    BY <2>1, <1>3 DEF AppliedOnlyIfApprovedAndClaimed
  <2>3. j.rev \in Revisions
    BY DEF Commands, Decisions
  <2> QED BY <2>2, <2>3 DEF CommitInv, StageInv, AuthorityInv
<1>5. HonestClaims
  BY DEF CommitInv, KeyOK, HonestClaims
<1>6. LedgerAgreesWithClaims
  BY DEF CommitInv, KeyOK, CommitTypes, ClaimResults, LedgerAgreesWithClaims
<1> QED BY <1>1, <1>2, <1>3, <1>4, <1>5, <1>6

\* The records the steps build have their types.
LEMMA RecordTypes ==
    /\ NoClaim \in Claims /\ Claimed \in Claims /\ Indeterminate \in Claims
    /\ Cancelled \in Claims /\ \A o \in Answers : Completed(o) \in Claims
    /\ NoFacts \in Facts /\ Idle \in WorkerStates /\ Idle \in ReconcilerStates
    /\ \A k \in Commands : [Idle EXCEPT !.pc = "lookup", !.cmd = k] \in WorkerStates
<1>1. NoClaim \in Claims /\ Claimed \in Claims /\ Indeterminate \in Claims
      /\ Cancelled \in Claims /\ \A o \in Answers : Completed(o) \in Claims
  BY DEF NoClaim, Claimed, Indeterminate, Cancelled, Completed, Claims, ClaimStates, Outcomes, Answers
<1>2. NoFacts \in Facts
  BY DEF NoFacts, Facts
<1>3. Idle \in WorkerStates /\ Idle \in ReconcilerStates
  BY <1>1 DEF Idle, WorkerStates, ReconcilerStates, WorkerPcs, Results
<1>4. ASSUME NEW k \in Commands
      PROVE  [Idle EXCEPT !.pc = "lookup", !.cmd = k] \in WorkerStates
  BY <1>1 DEF Idle, WorkerStates, WorkerPcs, Results
<1> QED BY <1>1, <1>2, <1>3, <1>4

\* The empty claim store and ledger satisfy the invariant.
LEMMA CommitInit == Init => CommitInv
<1> SUFFICES ASSUME Init PROVE CommitInv
  OBVIOUS
<1>1. StageInv
  BY StageInitInv DEF Init
<1>2. CommitTypes
  BY RecordTypes, CommitAssumption DEF Init, CommitTypes, Attempts, Results
<1>3. \A w \in Workers : workers[w] = Idle
  BY DEF Init
<1>4. \A r \in Reconcilers : reconcilers[r] = Idle
  BY DEF Init
<1>5. Idle.pc = "idle" /\ Idle.seen.state \notin Closed
  BY DEF Idle, NoClaim, Closed
<1>6. \A w \in Workers : WorkerOK(w)
  BY <1>3, <1>5 DEF WorkerOK, Owning, Unapplied
<1>7. \A r \in Reconcilers : ReconcilerOK(r)
  BY <1>4, <1>5 DEF ReconcilerOK
<1>8. \A k \in Commands : KeyOK(k)
  BY DEF Init, KeyOK, NoClaim, NoFacts, Closed, Answers
<1>9. SoleOwner
  BY <1>3, <1>5 DEF SoleOwner, Owning, Unapplied
<1> QED BY <1>1, <1>2, <1>6, <1>7, <1>8, <1>9 DEF CommitInv

-----------------------------------------------------------------------------
(* What the small updates do *)

\* Only worker w changes.
OnlyWorker(w) == \A v \in Workers \ {w} : workers'[v] = workers[v]
OnlyReconciler(r) == \A q \in Reconcilers \ {r} : reconcilers'[q] = reconcilers[q]

\* A worker that moves on, field by field.
LEMMA MoveFacts ==
    ASSUME CommitTypes, NEW w \in Workers, NEW pc \in WorkerPcs, Move(w, pc)
    PROVE  /\ workers' \in [Workers -> WorkerStates] /\ OnlyWorker(w)
           /\ workers'[w].pc = pc /\ workers'[w].cmd = workers[w].cmd
           /\ workers'[w].seen = workers[w].seen /\ workers'[w].result = workers[w].result
<1>1. [workers[w] EXCEPT !.pc = pc] \in WorkerStates
  BY DEF CommitTypes, WorkerStates
<1> QED BY <1>1 DEF Move, CommitTypes, WorkerStates, OnlyWorker

\* A worker that stops, field by field.
LEMMA StopFacts ==
    ASSUME CommitTypes, NEW w \in Workers, Stop(w)
    PROVE  /\ workers' \in [Workers -> WorkerStates] /\ OnlyWorker(w)
           /\ workers'[w] = Idle
BY RecordTypes DEF Stop, CommitTypes, OnlyWorker

\* A worker that settles its claim, field by field.
LEMMA ResultFacts ==
    ASSUME CommitTypes, NEW w \in Workers, NEW claim \in Claims, Result(w, claim)
    PROVE  /\ workers' \in [Workers -> WorkerStates] /\ OnlyWorker(w)
           /\ workers'[w].pc = "record" /\ workers'[w].cmd = workers[w].cmd
           /\ workers'[w].seen = claim
<1>1. PICK x \in WorkerStates : x = [workers[w] EXCEPT !.pc = "record"]
  BY DEF CommitTypes, WorkerStates, WorkerPcs
<1>2. PICK y \in WorkerStates : y = [x EXCEPT !.seen = claim]
  BY DEF WorkerStates
<1>3. PICK z \in WorkerStates : z = [y EXCEPT !.result = "none"]
  BY DEF WorkerStates, Results
<1>4. workers' = [workers EXCEPT ![w] = z]
  BY <1>1, <1>2, <1>3 DEF Result, CommitTypes
<1> QED BY <1>1, <1>2, <1>3, <1>4 DEF CommitTypes, WorkerStates, OnlyWorker

\* A reconciler that stops, field by field.
LEMMA StopRFacts ==
    ASSUME CommitTypes, NEW r \in Reconcilers, StopR(r)
    PROVE  /\ reconcilers' \in [Reconcilers -> ReconcilerStates] /\ OnlyReconciler(r)
           /\ reconcilers'[r] = Idle
BY RecordTypes DEF StopR, CommitTypes, OnlyReconciler

\* A reconciler that moves on, field by field.
LEMMA MoveRFacts ==
    ASSUME CommitTypes, NEW r \in Reconcilers, NEW pc \in {"amend", "record"}, MoveR(r, pc)
    PROVE  /\ reconcilers' \in [Reconcilers -> ReconcilerStates] /\ OnlyReconciler(r)
           /\ reconcilers'[r].pc = pc /\ reconcilers'[r].cmd = reconcilers[r].cmd
           /\ reconcilers'[r].seen = reconcilers[r].seen
           /\ reconcilers'[r].result = reconcilers[r].result
<1>1. [reconcilers[r] EXCEPT !.pc = pc] \in ReconcilerStates
  BY DEF CommitTypes, ReconcilerStates
<1> QED BY <1>1 DEF MoveR, CommitTypes, ReconcilerStates, OnlyReconciler

\* An idle worker and an idle reconciler have their types.
LEMMA IdleFacts ==
    Idle.pc = "idle" /\ Idle.seen.state = "none" /\ "none" \notin Closed
    /\ "idle" \notin Owning /\ "idle" \notin Unapplied /\ Unapplied \subseteq Owning
    /\ "record" \notin Owning
BY DEF Idle, NoClaim, Closed, Owning, Unapplied

-----------------------------------------------------------------------------
(* Frames: what a step may do to the others *)

\* The step leaves key k alone, except that it may approve or publish it.
KeyKept(k) ==
    /\ claims'[k] = claims[k] /\ attempts'[k] = attempts[k]
    /\ applies'[k] = applies[k] /\ landed'[k] = landed[k]
    /\ facts[k].claimed => facts'[k].claimed
    /\ Approved(k) => Approved(k)'

\* A worker that did not move keeps its part of the invariant.
LEMMA WorkerFrame ==
    ASSUME NEW v \in Workers, WorkerOK(v), workers'[v] = workers[v],
           workers[v].pc # "idle" => KeyKept(workers[v].cmd)
    PROVE  WorkerOK(v)'
BY IdleFacts DEF WorkerOK, KeyKept, Truth, Publishes

\* A reconciler that did not move keeps its part of the invariant.
LEMMA ReconcilerFrame ==
    ASSUME NEW q \in Reconcilers, ReconcilerOK(q), reconcilers'[q] = reconcilers[q],
           \A k \in Commands : claims[k].state # "none" =>
             /\ claims'[k].state # "none"
             /\ claims[k].state \in Closed => claims'[k] = claims[k]
             /\ attempts[k] \in Answers => attempts'[k] = attempts[k]
    PROVE  ReconcilerOK(q)'
<1>1. CASE reconcilers[q].pc = "idle"
  BY <1>1 DEF ReconcilerOK
<1>2. CASE reconcilers[q].pc # "idle"
  <2>1. reconcilers[q].cmd \in Commands /\ claims[reconcilers[q].cmd].state # "none"
    BY <1>2 DEF ReconcilerOK
  <2> QED BY <1>2, <2>1 DEF ReconcilerOK, Truth, Publishes
<1> QED BY <1>1, <1>2

\* Ownership is only given up.
LEMMA OwnershipOnlyEnds ==
    ASSUME SoleOwner, NEW w \in Workers, OnlyWorker(w),
           workers'[w].pc \in Owning =>
               workers[w].pc \in Owning /\ workers'[w].cmd = workers[w].cmd
    PROVE  SoleOwner'
BY DEF OnlyWorker, SoleOwner

-----------------------------------------------------------------------------
(* The steps of a worker *)

\* A step that moves worker w and touches nothing else.
LEMMA WorkerStep ==
    ASSUME CommitInv, NEW w \in Workers, OnlyWorker(w),
           workers' \in [Workers -> WorkerStates], WorkerOK(w)',
           workers'[w].pc \in Owning =>
               workers[w].pc \in Owning /\ workers'[w].cmd = workers[w].cmd,
           UNCHANGED <<stageVars, claims, reconcilers, repairs, facts, outside, runVars>>
    PROVE  CommitInv'
<1>1. StageInv'
  BY StageNextInv DEF CommitInv
<1>2. CommitTypes'
  BY DEF CommitInv, CommitTypes, runVars, outside
<1>3. \A k : KeyKept(k)
  BY DEF KeyKept, Approved, stageVars, outside
<1>4. \A v \in Workers : WorkerOK(v)'
  BY <1>3, WorkerFrame DEF CommitInv, OnlyWorker
<1>5. \A q \in Reconcilers : ReconcilerOK(q)'
  BY <1>3, ReconcilerFrame DEF CommitInv, KeyKept
<1>6. \A k \in Commands : KeyOK(k)'
  BY DEF CommitInv, KeyOK, Approved, stageVars, outside
<1>7. SoleOwner'
  BY OwnershipOnlyEnds DEF CommitInv
<1> QED BY <1>1, <1>2, <1>4, <1>5, <1>6, <1>7 DEF CommitInv

\* handle, up to the checks on the stage.
LEMMA LoadStageInv ==
    ASSUME CommitInv, NEW w \in Workers, NEW k \in Commands, LoadStage(w, k)
    PROVE  CommitInv'
<1>1. /\ workers' = [workers EXCEPT ![w] = [Idle EXCEPT !.pc = "lookup", !.cmd = k]]
      /\ [Idle EXCEPT !.pc = "lookup", !.cmd = k] \in WorkerStates
  BY RecordTypes DEF LoadStage
<1>2. /\ workers' \in [Workers -> WorkerStates] /\ OnlyWorker(w)
      /\ workers'[w].pc = "lookup" /\ workers'[w].cmd = k /\ workers'[w].seen = NoClaim
  BY <1>1 DEF CommitInv, CommitTypes, OnlyWorker, Idle
<1>3. Approved(k)
  <2>1. stage.decision = k /\ stage.rev = k.rev /\ stage.decision # NoDecision
    BY NoDecisionAssumption DEF LoadStage, Authorised, Commands
  <2>2. k \in authority[k.rev]
    BY <2>1 DEF CommitInv, StageInv, AuthorityInv
  <2> QED BY <2>2 DEF LoadStage, Approved
<1>4. WorkerOK(w)'
  BY <1>2, <1>3 DEF WorkerOK, Approved, LoadStage, stageVars, NoClaim, Closed, Owning, Unapplied
<1> QED BY <1>2, <1>4, WorkerStep DEF LoadStage, runVars, outside, Owning, Unapplied

\* handle, on an error.
LEMMA WorkerStopsInv ==
    ASSUME CommitInv, NEW w \in Workers, Stop(w),
           UNCHANGED <<stageVars, claims, reconcilers, repairs, facts, outside, runVars>>
    PROVE  CommitInv'
<1>1. /\ workers' \in [Workers -> WorkerStates] /\ OnlyWorker(w) /\ workers'[w] = Idle
  BY StopFacts DEF CommitInv
<1>2. WorkerOK(w)'
  BY <1>1, IdleFacts DEF WorkerOK, Owning, Unapplied
<1> QED BY <1>1, <1>2, IdleFacts, WorkerStep

\* dispatch, reading the claim of the key.
LEMMA LookupClaimInv ==
    ASSUME CommitInv, NEW w \in Workers, LookupClaim(w)
    PROVE  CommitInv'
<1> DEFINE k == workers[w].cmd
<1>0. k \in Commands /\ claims[k] \in Claims /\ CommitTypes /\ WorkerOK(w) /\ Approved(k)
      /\ workers[w].pc = "lookup"
  BY DEF CommitInv, CommitTypes, WorkerOK, LookupClaim
<1>1. CASE claims[k].state = "none"
  <2>1. Move(w, "prepare")
    BY <1>1 DEF LookupClaim
  <2>2. /\ workers' \in [Workers -> WorkerStates] /\ OnlyWorker(w)
        /\ workers'[w].pc = "prepare" /\ workers'[w].cmd = k
        /\ workers'[w].seen = workers[w].seen
    BY <2>1, <1>0, MoveFacts DEF WorkerPcs
  <2>3. WorkerOK(w)'
    BY <1>0, <2>2 DEF WorkerOK, Approved, LookupClaim, stageVars, Owning, Unapplied
  <2> QED BY <2>2, <2>3, WorkerStep DEF LookupClaim, runVars, outside, Owning, Unapplied
<1>2. CASE claims[k].state # "none"
  <2>1. Result(w, claims[k])
    BY <1>2 DEF LookupClaim
  <2>2. /\ workers' \in [Workers -> WorkerStates] /\ OnlyWorker(w)
        /\ workers'[w].pc = "record" /\ workers'[w].cmd = k /\ workers'[w].seen = claims[k]
    BY <2>1, <1>0, ResultFacts
  <2>3. WorkerOK(w)'
    BY <1>0, <1>2, <2>2
    DEF WorkerOK, Approved, Publishes, LookupClaim, stageVars, Owning, Unapplied, CommitInv, KeyOK
  <2> QED BY <2>2, <2>3, WorkerStep DEF LookupClaim, runVars, outside, Owning, Unapplied
<1> QED BY <1>1, <1>2

\* Prepare, NotCancelled and Authorize only move on.
LEMMA MoveOnInv ==
    ASSUME CommitInv, NEW w \in Workers,
           Prepare(w) \/ NotCancelled(w) \/ Authorize(w)
    PROVE  CommitInv'
<1>1. PICK pc \in {"claim", "authorize", "apply"} :
        /\ Move(w, pc)
        /\ pc = "claim" => workers[w].pc = "prepare"
        /\ pc # "claim" => workers[w].pc \in {"cancelcheck", "authorize"}
  BY DEF Prepare, NotCancelled, Authorize
<1>2. UNCHANGED <<stageVars, claims, reconcilers, repairs, facts, outside, runVars>>
  BY DEF Prepare, NotCancelled, Authorize, runVars, outside
<1>3. /\ workers' \in [Workers -> WorkerStates] /\ OnlyWorker(w)
      /\ workers'[w].pc = pc /\ workers'[w].cmd = workers[w].cmd
      /\ workers'[w].seen = workers[w].seen
  BY <1>1, MoveFacts DEF CommitInv, WorkerPcs, Owning, Unapplied
<1>4. WorkerOK(w)
  BY DEF CommitInv
<1>5. WorkerOK(w)'
  BY <1>1, <1>2, <1>3, <1>4 DEF WorkerOK, Approved, stageVars, outside, Owning, Unapplied
<1> QED BY <1>1, <1>2, <1>3, <1>5, WorkerStep DEF Owning, Unapplied

\* Another worker is not disturbed by a new state of a claim that was not closed,
\* unless it could still apply to a claim that now is.
LEMMA ClaimFrame ==
    ASSUME CommitInv, NEW v \in Workers, workers'[v] = workers[v],
           NEW k \in Commands, NEW new \in Claims, new.state # "none",
           claims[k].state \notin Closed, claims' = [claims EXCEPT ![k] = new],
           (workers[v].pc \in Unapplied /\ workers[v].cmd = k) => new.state \notin Closed,
           UNCHANGED <<stageVars, facts, outside>>
    PROVE  WorkerOK(v)'
<1>1. WorkerOK(v) /\ \A j \in Commands : claims'[j] = IF j = k THEN new ELSE claims[j]
  BY DEF CommitInv, CommitTypes
<1>2. \A j \in Commands \ {k} : KeyKept(j)
  BY <1>1 DEF KeyKept, Approved, stageVars, outside
<1>3. CASE workers[v].cmd # k \/ workers[v].pc = "idle"
  BY <1>1, <1>2, <1>3, WorkerFrame DEF WorkerOK
<1>4. CASE workers[v].cmd = k /\ workers[v].pc # "idle"
  BY <1>1, <1>4 DEF WorkerOK, Approved, stageVars, outside, Truth, Publishes, Closed
<1> QED BY <1>3, <1>4

\* The keys when claim k moves from an open to a new, true state.
LEMMA KeysOnClaim ==
    ASSUME CommitInv, NEW k \in Commands, NEW new \in Claims, Approved(k),
           claims[k].state \notin Closed, claims' = [claims EXCEPT ![k] = new],
           new.state # "none",
           new.state \in Closed => new.outcome \in Outcomes /\ attempts[k] # "pending",
           new.state = "COMPLETED" => (new.outcome \in Changing <=> landed[k] > 0),
           new.state = "CANCELLED" => applies[k] = 0,
           UNCHANGED <<stageVars, facts, outside, repairs>>
    PROVE  \A j \in Commands : KeyOK(j)'
<1>1. \A j \in Commands : KeyOK(j) /\ claims'[j] = IF j = k THEN new ELSE claims[j]
  BY DEF CommitInv, CommitTypes
<1>2. ASSUME NEW j \in Commands PROVE KeyOK(j)'
  <2>1. CASE j # k
    BY <1>1, <2>1 DEF KeyOK, Approved, stageVars, outside
  <2>2. CASE j = k
    <3>1. facts[k].applied = "none" /\ facts[k].reconciled = "none"
      BY <1>1 DEF KeyOK
    <3> QED BY <1>1, <2>2, <3>1 DEF KeyOK, Approved, stageVars, outside
  <2> QED BY <2>1, <2>2
<1> QED BY <1>2

\* dispatch, making the claim: one worker gets it.
LEMMA ClaimStepInv ==
    ASSUME CommitInv, NEW w \in Workers, Claim(w)
    PROVE  CommitInv'
<1> DEFINE k == workers[w].cmd
<1>0. /\ k \in Commands /\ claims[k] \in Claims /\ CommitTypes /\ WorkerOK(w) /\ Approved(k)
      /\ workers[w].pc = "claim" /\ KeyOK(k)
  BY DEF CommitInv, CommitTypes, WorkerOK, Claim
<1>1. CASE claims[k].state = "none"
  <2>1. Move(w, "observe") /\ claims' = [claims EXCEPT ![k] = Claimed]
    BY <1>1 DEF Claim
  <2>2. /\ workers' \in [Workers -> WorkerStates] /\ OnlyWorker(w)
        /\ workers'[w].pc = "observe" /\ workers'[w].cmd = k
        /\ workers'[w].seen = workers[w].seen
    BY <2>1, <1>0, MoveFacts DEF WorkerPcs, Owning, Unapplied
  <2>3. Claimed \in Claims /\ Claimed.state = "CLAIMED" /\ "CLAIMED" \notin Closed
        /\ claims'[k] = Claimed /\ "none" \notin Closed
    BY <2>1, <1>0, RecordTypes DEF Claimed, Closed, CommitTypes
  <2>4. CommitTypes'
    BY <1>0, <2>1, <2>2, <2>3 DEF CommitTypes, Claim, outside, runVars
  <2>5. WorkerOK(w)'
    BY <1>0, <1>1, <2>2, <2>3
    DEF WorkerOK, KeyOK, Approved, Claim, stageVars, outside, Owning, Unapplied, Publishes
  <2>6. \A v \in Workers : WorkerOK(v)'
    <3>1. ASSUME NEW v \in Workers, v # w PROVE WorkerOK(v)'
      BY <3>1, <1>0, <1>1, <2>1, <2>2, <2>3, ClaimFrame DEF Claim, OnlyWorker
    <3> QED BY <3>1, <2>5
  <2>7. \A j \in Commands : KeyOK(j)'
    BY <1>0, <1>1, <2>1, <2>3, KeysOnClaim DEF Claim
  <2>9. \A q \in Reconcilers : ReconcilerOK(q)'
    <3>1. \A j \in Commands : claims[j].state # "none" => j # k /\ claims'[j] = claims[j]
      BY <1>0, <1>1, <2>1 DEF CommitTypes
    <3> QED BY <3>1, ReconcilerFrame DEF CommitInv, Claim, outside
  <2>10. SoleOwner'
    <3>1. \A v \in Workers : workers[v].pc \in Owning => workers[v].cmd # k
      BY <1>1 DEF CommitInv, WorkerOK
    <3> QED BY <3>1, <2>2 DEF CommitInv, SoleOwner, OnlyWorker
  <2>11. StageInv'
    BY StageNextInv DEF CommitInv, Claim
  <2> QED BY <2>4, <2>6, <2>7, <2>9, <2>10, <2>11 DEF CommitInv
<1>2. CASE claims[k].state # "none"
  <2>1. Result(w, claims[k]) /\ UNCHANGED claims
    BY <1>2 DEF Claim
  <2>2. /\ workers' \in [Workers -> WorkerStates] /\ OnlyWorker(w)
        /\ workers'[w].pc = "record" /\ workers'[w].cmd = k /\ workers'[w].seen = claims[k]
    BY <2>1, <1>0, ResultFacts
  <2>3. WorkerOK(w)'
    BY <1>0, <1>2, <2>1, <2>2
    DEF WorkerOK, Approved, Publishes, Claim, stageVars, Owning, Unapplied, KeyOK
  <2> QED BY <2>1, <2>2, <2>3, WorkerStep DEF Claim, runVars, outside, Owning, Unapplied
<1> QED BY <1>1, <1>2

\* A step that only publishes: the fields of facts other than claimed follow the
\* closed claim.
LEMMA KeysOnFacts ==
    ASSUME CommitInv, NEW k \in Commands, NEW f \in Facts, facts' = [facts EXCEPT ![k] = f],
           facts[k].claimed => f.claimed,
           \A o \in {f.applied, f.reconciled} :
               o # "none" => claims[k].state \in Closed /\ claims[k].outcome = o,
           UNCHANGED <<stageVars, claims, outside, repairs>>
    PROVE  /\ \A j \in Commands : KeyOK(j)' /\ KeyKept(j)
           /\ facts' \in [Commands -> Facts]
           /\ facts'[k] = f
<1>1. \A j \in Commands : KeyOK(j) /\ facts'[j] = IF j = k THEN f ELSE facts[j]
  BY DEF CommitInv, CommitTypes
<1>2. \A j \in Commands : KeyKept(j)
  BY <1>1 DEF KeyKept, Approved, stageVars, outside
<1>3. \A j \in Commands : KeyOK(j)'
  BY <1>1 DEF KeyOK, Approved, stageVars, outside
<1> QED BY <1>1, <1>2, <1>3 DEF CommitInv, CommitTypes

\* A step of worker w that publishes.
LEMMA PublishStep ==
    ASSUME CommitInv, NEW w \in Workers, OnlyWorker(w),
           workers' \in [Workers -> WorkerStates], WorkerOK(w)',
           workers'[w].pc \in Owning =>
               workers[w].pc \in Owning /\ workers'[w].cmd = workers[w].cmd,
           facts' \in [Commands -> Facts], \A j \in Commands : KeyOK(j)' /\ KeyKept(j),
           UNCHANGED <<stageVars, claims, reconcilers, repairs, outside, runVars>>
    PROVE  CommitInv'
<1>1. StageInv'
  BY StageNextInv DEF CommitInv
<1>2. CommitTypes'
  BY DEF CommitInv, CommitTypes, runVars, outside
<1>3. \A v \in Workers : WorkerOK(v)'
  <2>1. ASSUME NEW v \in Workers, v # w PROVE WorkerOK(v)'
    <3>1. WorkerOK(v) /\ workers'[v] = workers[v]
      BY <2>1 DEF CommitInv, OnlyWorker
    <3>2. workers[v].pc # "idle" => KeyKept(workers[v].cmd)
      BY <3>1 DEF WorkerOK
    <3> QED BY <3>1, <3>2, WorkerFrame
  <2> QED BY <2>1
<1>4. \A q \in Reconcilers : ReconcilerOK(q)'
  BY ReconcilerFrame DEF CommitInv, outside
<1>5. SoleOwner'
  BY OwnershipOnlyEnds DEF CommitInv
<1> QED BY <1>1, <1>2, <1>3, <1>4, <1>5 DEF CommitInv

\* dispatch, on drift.
LEMMA PreconditionDriftInv ==
    ASSUME CommitInv, NEW w \in Workers, PreconditionDrift(w)
    PROVE  CommitInv'
<1> DEFINE k == workers[w].cmd
<1>0. k \in Commands /\ CommitTypes /\ KeyOK(k) /\ facts[k] \in Facts
  BY DEF CommitInv, CommitTypes, WorkerOK, PreconditionDrift
<1>1. CASE sealed
  BY <1>1, WorkerStopsInv DEF PreconditionDrift, runVars, outside
<1>2. CASE ~sealed
  <2>1. PICK f \in Facts : f = [facts[k] EXCEPT !.drift = TRUE]
    BY <1>0 DEF Facts
  <2>2. facts' = [facts EXCEPT ![k] = f]
    BY <1>2, <2>1 DEF PreconditionDrift
  <2>3. f.claimed = facts[k].claimed /\ f.applied = facts[k].applied
        /\ f.reconciled = facts[k].reconciled
    BY <1>0, <2>1 DEF Facts
  <2>4. \A o \in {f.applied, f.reconciled} :
          o # "none" => claims[k].state \in Closed /\ claims[k].outcome = o
    BY <1>0, <2>3 DEF KeyOK
  <2>5. facts' \in [Commands -> Facts] /\ \A j \in Commands : KeyOK(j)' /\ KeyKept(j)
    BY <1>0, <2>2, <2>3, <2>4, KeysOnFacts DEF PreconditionDrift
  <2>6. workers' \in [Workers -> WorkerStates] /\ OnlyWorker(w) /\ workers'[w] = Idle
    BY <1>0, StopFacts DEF PreconditionDrift
  <2>7. WorkerOK(w)'
    BY <2>6, IdleFacts DEF WorkerOK, Owning, Unapplied
  <2> QED BY <2>5, <2>6, <2>7, IdleFacts, PublishStep DEF PreconditionDrift, runVars, outside
<1> QED BY <1>1, <1>2

\* The observer publishing effect.claimed.
LEMMA ObserveClaimInv ==
    ASSUME CommitInv, NEW w \in Workers, ObserveClaim(w)
    PROVE  CommitInv'
<1> DEFINE k == workers[w].cmd
<1>0. k \in Commands /\ CommitTypes /\ KeyOK(k) /\ facts[k] \in Facts /\ WorkerOK(w)
      /\ workers[w].pc = "observe"
  BY DEF CommitInv, CommitTypes, WorkerOK, ObserveClaim
<1>1. CASE sealed
  BY <1>1, WorkerStopsInv DEF ObserveClaim, runVars, outside
<1>2. CASE ~sealed
  <2>1. PICK f \in Facts : f = [facts[k] EXCEPT !.claimed = TRUE]
    BY <1>0 DEF Facts
  <2>2. facts' = [facts EXCEPT ![k] = f] /\ Move(w, "cancelcheck")
    BY <1>2, <2>1 DEF ObserveClaim
  <2>3. f.claimed /\ f.applied = facts[k].applied /\ f.reconciled = facts[k].reconciled
    BY <1>0, <2>1 DEF Facts
  <2>4. \A o \in {f.applied, f.reconciled} :
          o # "none" => claims[k].state \in Closed /\ claims[k].outcome = o
    BY <1>0, <2>3 DEF KeyOK
  <2>5. /\ facts' \in [Commands -> Facts] /\ facts'[k] = f
        /\ \A j \in Commands : KeyOK(j)' /\ KeyKept(j)
    BY <1>0, <2>2, <2>3, <2>4, KeysOnFacts DEF ObserveClaim
  <2>6. /\ workers' \in [Workers -> WorkerStates] /\ OnlyWorker(w)
        /\ workers'[w].pc = "cancelcheck" /\ workers'[w].cmd = k
        /\ workers'[w].seen = workers[w].seen
    BY <1>0, <2>2, MoveFacts DEF WorkerPcs, Owning, Unapplied
  <2>7. WorkerOK(w)'
    BY <1>0, <2>3, <2>5, <2>6
    DEF WorkerOK, Approved, ObserveClaim, stageVars, outside, Owning, Unapplied
  <2> QED BY <1>0, <2>5, <2>6, <2>7, PublishStep
          DEF ObserveClaim, runVars, outside, Owning, Unapplied
<1> QED BY <1>1, <1>2

\* The owner stores a true result.
LEMMA StoreClaimInv ==
    ASSUME CommitInv, NEW w \in Workers, workers[w].pc \in Owning,
           NEW new \in Claims, StoreClaim(w, new), new.state # "none",
           new.state \in Closed =>
               new.outcome \in Outcomes /\ attempts[workers[w].cmd] # "pending",
           new.state = "COMPLETED" => (new.outcome \in Changing <=> landed[workers[w].cmd] > 0),
           new.state = "CANCELLED" => applies[workers[w].cmd] = 0
    PROVE  CommitInv'
<1> DEFINE k == workers[w].cmd
<1>0. /\ k \in Commands /\ claims[k] \in Claims /\ CommitTypes /\ WorkerOK(w) /\ Approved(k)
      /\ workers[w].pc # "idle"
  BY IdleFacts DEF CommitInv, CommitTypes, WorkerOK
<1>1. CASE ~Allowed(claims[k], new)
  <2>1. Stop(w) /\ UNCHANGED claims
    BY <1>1 DEF StoreClaim
  <2> QED BY <2>1, WorkerStopsInv DEF StoreClaim, runVars, outside
<1>2. CASE Allowed(claims[k], new)
  <2>1. claims' = [claims EXCEPT ![k] = new] /\ Result(w, new)
    BY <1>2 DEF StoreClaim
  <2>2. claims[k].state \notin Closed
    BY <1>2 DEF Allowed, Closed
  <2>3. /\ workers' \in [Workers -> WorkerStates] /\ OnlyWorker(w)
        /\ workers'[w].pc = "record" /\ workers'[w].cmd = k /\ workers'[w].seen = new
    BY <2>1, <1>0, ResultFacts
  <2>4. CommitTypes'
    BY <1>0, <2>1, <2>3 DEF CommitTypes, StoreClaim, outside, runVars
  <2>5. WorkerOK(w)'
    <3>1. claims'[k] = new
      BY <1>0, <2>1 DEF CommitTypes
    <3> QED BY <1>0, <2>3, <3>1
            DEF WorkerOK, Approved, StoreClaim, stageVars, Owning, Unapplied, Publishes
  <2>6. \A v \in Workers : WorkerOK(v)'
    <3>1. ASSUME NEW v \in Workers, v # w PROVE WorkerOK(v)'
      <4>1. workers'[v] = workers[v]
        BY <3>1, <2>3 DEF OnlyWorker
      <4>2. ~(workers[v].pc \in Unapplied /\ workers[v].cmd = k)
        BY <3>1, IdleFacts DEF CommitInv, SoleOwner
      <4> QED BY <4>1, <4>2, <1>0, <2>1, <2>2, ClaimFrame DEF StoreClaim
    <3> QED BY <3>1, <2>5
  <2>7. \A j \in Commands : KeyOK(j)'
    BY <1>0, <2>1, <2>2, KeysOnClaim DEF StoreClaim
  <2>9. \A q \in Reconcilers : ReconcilerOK(q)'
    <3>1. \A j \in Commands : claims'[j] = IF j = k THEN new ELSE claims[j]
      BY <1>0, <2>1 DEF CommitTypes
    <3> QED BY <3>1, <2>2, ReconcilerFrame DEF CommitInv, StoreClaim, outside
  <2>10. SoleOwner'
    BY <2>3, IdleFacts, OwnershipOnlyEnds DEF CommitInv
  <2>11. StageInv'
    BY StageNextInv DEF CommitInv, StoreClaim
  <2> QED BY <2>4, <2>6, <2>7, <2>9, <2>10, <2>11 DEF CommitInv
<1> QED BY <1>1, <1>2

\* dispatch, ending a claim without an apply.
LEMMA SettlingInv ==
    ASSUME CommitInv, NEW w \in Workers,
           CancelBeforeApply(w) \/ AuthorizationDenied(w) \/ Settle(w)
    PROVE  CommitInv'
<1> DEFINE k == workers[w].cmd
<1>0. /\ CommitTypes /\ WorkerOK(w) /\ workers[w].pc \in Owning /\ k \in Commands /\ KeyOK(k)
  BY IdleFacts DEF CommitInv, WorkerOK, CancelBeforeApply, AuthorizationDenied, Settle,
                   Owning, Unapplied
<1>1. CASE CancelBeforeApply(w)
  <2>1. applies[k] = 0 /\ attempts[k] # "pending"
    BY <1>0, <1>1 DEF WorkerOK, CancelBeforeApply, Unapplied, KeyOK
  <2>2. Cancelled \in Claims /\ Cancelled.state = "CANCELLED" /\ Cancelled.outcome \in Outcomes
    BY RecordTypes DEF Cancelled, Outcomes
  <2> QED BY <1>0, <1>1, <2>1, <2>2, StoreClaimInv DEF CancelBeforeApply
<1>2. CASE AuthorizationDenied(w)
  <2>1. landed[k] = 0 /\ attempts[k] # "pending"
    BY <1>0, <1>2 DEF WorkerOK, AuthorizationDenied, Unapplied, KeyOK
  <2>2. /\ Completed("failed") \in Claims /\ Completed("failed").state = "COMPLETED"
        /\ Completed("failed").outcome = "failed" /\ "failed" \in Outcomes
        /\ "failed" \notin Changing
    BY RecordTypes DEF Completed, Outcomes, Answers, Changing
  <2> QED BY <1>0, <1>2, <2>1, <2>2, StoreClaimInv DEF AuthorizationDenied
<1>3. CASE Settle(w)
  <2>1. Truth(workers[w].result, k)
    BY <1>0, <1>3 DEF WorkerOK, Settle
  <2>2. CASE workers[w].result = "indeterminate"
    <3>1. Indeterminate \in Claims /\ Indeterminate.state = "INDETERMINATE"
          /\ "INDETERMINATE" \notin Closed
      BY RecordTypes DEF Indeterminate, Closed
    <3> QED BY <1>0, <1>3, <2>2, <3>1, StoreClaimInv DEF Settle
  <2>3. CASE workers[w].result # "indeterminate"
    <3> DEFINE o == workers[w].result
    <3>1. o \in Answers /\ attempts[k] = o /\ (o \in Changing <=> landed[k] > 0) /\ o # "pending"
      BY <1>0, <2>1, <2>3 DEF Truth, KeyOK, Answers
    <3>2. /\ Completed(o) \in Claims /\ Completed(o).state = "COMPLETED"
          /\ Completed(o).outcome = o /\ o \in Outcomes
      BY <3>1, RecordTypes DEF Completed, Outcomes
    <3> QED BY <1>0, <1>3, <2>3, <3>1, <3>2, StoreClaimInv DEF Settle
  <2> QED BY <2>2, <2>3
<1> QED BY <1>1, <1>2, <1>3

\* dispatch, calling apply: the attempt begins.
LEMMA ApplyInv ==
    ASSUME CommitInv, NEW w \in Workers, Apply(w)
    PROVE  CommitInv'
<1> DEFINE k == workers[w].cmd
<1>0. /\ k \in Commands /\ CommitTypes /\ WorkerOK(w) /\ KeyOK(k) /\ workers[w].pc = "apply"
  BY DEF CommitInv, CommitTypes, WorkerOK, Apply
<1>1. /\ applies[k] = 0 /\ landed[k] = 0 /\ claims[k].state \notin Closed
      /\ claims[k].state # "none" /\ facts[k].claimed /\ Approved(k) /\ attempts[k] = "none"
  BY <1>0 DEF WorkerOK, KeyOK, Unapplied, Owning, CommitTypes
<1>2. /\ applies' = [applies EXCEPT ![k] = 1] /\ attempts' = [attempts EXCEPT ![k] = "pending"]
      /\ Move(w, "wait")
  BY <1>0, <1>1 DEF Apply
<1>3. \A j \in Commands : /\ applies'[j] = IF j = k THEN 1 ELSE applies[j]
                          /\ attempts'[j] = IF j = k THEN "pending" ELSE attempts[j]
  BY <1>0, <1>2 DEF CommitTypes
<1>4. /\ workers' \in [Workers -> WorkerStates] /\ OnlyWorker(w)
      /\ workers'[w].pc = "wait" /\ workers'[w].cmd = k /\ workers'[w].seen = workers[w].seen
  BY <1>0, <1>2, MoveFacts DEF WorkerPcs, Owning
<1>5. CommitTypes'
  BY <1>0, <1>2, <1>4 DEF CommitTypes, Apply, runVars, Attempts
<1>6. WorkerOK(w)'
  BY <1>0, <1>1, <1>3, <1>4 DEF WorkerOK, Approved, Apply, stageVars, Owning, Unapplied
<1>7. \A j \in Commands \ {k} : KeyKept(j)
  BY <1>3 DEF KeyKept, Approved, stageVars, Apply
<1>8. \A v \in Workers : WorkerOK(v)'
  <2>1. ASSUME NEW v \in Workers, v # w PROVE WorkerOK(v)'
    <3>0. WorkerOK(v) /\ workers'[v] = workers[v]
      BY <2>1, <1>4 DEF CommitInv, OnlyWorker
    <3>1. CASE workers[v].pc = "idle" \/ workers[v].cmd # k
      BY <3>0, <3>1, <1>7, WorkerFrame DEF WorkerOK
    <3>2. CASE workers[v].pc # "idle" /\ workers[v].cmd = k
      <4>1. workers[v].pc \notin Owning
        BY <2>1, <3>2, <1>0 DEF CommitInv, SoleOwner, Owning, Unapplied
      <4> QED BY <3>0, <4>1, <1>1 DEF WorkerOK, Approved, Publishes, Apply, stageVars,
                                      Owning, Unapplied
    <3> QED BY <3>1, <3>2
  <2> QED BY <2>1, <1>6
<1>9. \A j \in Commands : KeyOK(j)'
  <2>1. ASSUME NEW j \in Commands, j # k PROVE KeyOK(j)'
    BY <2>1, <1>3 DEF CommitInv, KeyOK, Approved, Apply, stageVars
  <2>2. ASSUME NEW j \in Commands, j = k PROVE KeyOK(j)'
    BY <2>2, <1>0, <1>1, <1>3 DEF KeyOK, Approved, Apply, stageVars, Closed, Answers
  <2> QED BY <2>1, <2>2
<1>10. \A q \in Reconcilers : ReconcilerOK(q)'
  <2>1. \A j \in Commands : attempts[j] \in Answers => attempts'[j] = attempts[j]
    BY <1>1, <1>3 DEF Answers
  <2> QED BY <2>1, ReconcilerFrame DEF CommitInv, Apply
<1>11. SoleOwner'
  BY <1>0, <1>4, OwnershipOnlyEnds DEF CommitInv, Owning, Unapplied
<1>12. StageInv'
  BY StageNextInv DEF CommitInv, Apply
<1> QED BY <1>5, <1>8, <1>9, <1>10, <1>11, <1>12 DEF CommitInv

\* The attempt ending, while its caller waits or long after.
LEMMA AttemptEndsInv ==
    ASSUME CommitInv, NEW k \in Commands, NEW end \in Answers \cup {"indeterminate"},
           AttemptEnds(k, end)
    PROVE  CommitInv'
<1>0. CommitTypes /\ KeyOK(k) /\ attempts[k] = "pending"
  BY DEF CommitInv, AttemptEnds
<1>1. applies[k] = 1 /\ landed[k] = 0 /\ claims[k].state \notin Closed
  BY <1>0 DEF KeyOK, CommitTypes
<1>2. PICK gain \in {0, 1} :
        /\ landed' = [landed EXCEPT ![k] = gain]
        /\ end # "indeterminate" => (gain = 1 <=> end \in Changing)
  <2>1. PICK lands \in BOOLEAN :
          /\ end # "indeterminate" => (lands <=> end \in Changing)
          /\ landed' = [landed EXCEPT ![k] = @ + IF lands THEN 1 ELSE 0]
    BY DEF AttemptEnds
  <2>2. landed' = [landed EXCEPT ![k] = IF lands THEN 1 ELSE 0]
    BY <1>0, <1>1, <2>1 DEF CommitTypes
  <2>3. CASE lands
    <3>1. landed' = [landed EXCEPT ![k] = 1] /\ (end # "indeterminate" => end \in Changing)
      BY <2>1, <2>2, <2>3, Zenon
    <3> QED BY <3>1
  <2>4. CASE ~lands
    <3>1. landed' = [landed EXCEPT ![k] = 0] /\ (end # "indeterminate" => end \notin Changing)
      BY <2>1, <2>2, <2>4, Zenon
    <3> QED BY <3>1
  <2> QED BY <2>3, <2>4
<1>3. \A j \in Commands : /\ landed'[j] = IF j = k THEN gain ELSE landed[j]
                          /\ attempts'[j] = IF j = k THEN end ELSE attempts[j]
  BY <1>0, <1>2 DEF CommitTypes, AttemptEnds
<1>u. UNCHANGED <<stageVars, executor, claims, workers, reconcilers, repairs, facts, applies, runVars>>
  BY DEF AttemptEnds
<1>4. CommitTypes'
  <2>1. end \in Attempts /\ gain \in Nat
    BY DEF Attempts, Results
  <2>2. attempts' \in [Commands -> Attempts] /\ landed' \in [Commands -> Nat]
    BY <1>0, <1>2, <2>1 DEF CommitTypes, AttemptEnds
  <2> QED BY <1>0, <1>u, <2>2 DEF CommitTypes, runVars
<1>5. \A j \in Commands : attempts[j] \in Answers => attempts'[j] = attempts[j]
  BY <1>0, <1>3 DEF Answers
<1>6. \A v \in Workers : WorkerOK(v)'
  <2>1. ASSUME NEW v \in Workers PROVE WorkerOK(v)'
    <3>1. WorkerOK(v)
      BY DEF CommitInv
    <3> QED BY <1>3, <1>5, <1>u, <3>1, end # "none"
            DEF WorkerOK, Approved, stageVars, Truth, Publishes, Owning, Unapplied, Answers
  <2> QED BY <2>1
<1>7. \A q \in Reconcilers : ReconcilerOK(q)'
  BY <1>5, <1>u, ReconcilerFrame DEF CommitInv
<1>8. \A j \in Commands : KeyOK(j)'
  <2>1. ASSUME NEW j \in Commands, j # k PROVE KeyOK(j)'
    BY <1>3, <1>u, <2>1 DEF CommitInv, KeyOK, Approved, stageVars
  <2>2. KeyOK(k)'
    <3>1. end \notin {"none", "pending"}
      BY DEF Answers
    <3>2. end \in Answers => end # "indeterminate"
      BY DEF Answers
    <3> QED BY <1>0, <1>1, <1>2, <1>3, <1>u, <3>1, <3>2 DEF KeyOK, Approved, stageVars, Closed
  <2> QED BY <2>1, <2>2
<1>9. SoleOwner' /\ StageInv'
  BY StageNextInv, <1>u DEF CommitInv, SoleOwner
<1> QED BY <1>4, <1>6, <1>7, <1>8, <1>9 DEF CommitInv

\* The answer of the attempt, heard or lost.
LEMMA AnswerInv ==
    ASSUME CommitInv, NEW w \in Workers, HearAnswer(w) \/ LoseAnswer(w)
    PROVE  CommitInv'
<1> DEFINE k == workers[w].cmd
<1>0. /\ k \in Commands /\ CommitTypes /\ WorkerOK(w) /\ workers[w].pc = "wait"
      /\ attempts[k] \in Attempts
  BY DEF CommitInv, CommitTypes, WorkerOK, HearAnswer, LoseAnswer
<1>1. PICK res \in Results :
        /\ workers' = [workers EXCEPT ![w].pc = "settle", ![w].result = res]
        /\ Truth(res, k)
  <2>1. CASE HearAnswer(w)
    <3>1. Truth(attempts[k], k)
      BY <1>0, <2>1 DEF HearAnswer, WorkerOK, Truth, Attempts, Results
    <3>2. attempts[k] \in Results
      BY <1>0, <2>1 DEF HearAnswer, Attempts
    <3> QED BY <2>1, <3>1, <3>2 DEF HearAnswer
  <2>2. CASE LoseAnswer(w)
    <3>1. "indeterminate" \in Results /\ Truth("indeterminate", k)
      BY DEF Results, Truth
    <3> QED BY <2>2, <3>1 DEF LoseAnswer
  <2> QED BY <2>1, <2>2
<1>2. UNCHANGED <<stageVars, claims, reconcilers, repairs, facts, outside, runVars>>
  BY DEF HearAnswer, LoseAnswer
<1>3. /\ workers' \in [Workers -> WorkerStates] /\ OnlyWorker(w)
      /\ workers'[w].pc = "settle" /\ workers'[w].cmd = k
      /\ workers'[w].seen = workers[w].seen /\ workers'[w].result = res
  <2>1. PICK x \in WorkerStates : x = [workers[w] EXCEPT !.pc = "settle"]
    BY <1>0 DEF CommitTypes, WorkerStates, WorkerPcs, Owning
  <2>2. PICK y \in WorkerStates : y = [x EXCEPT !.result = res]
    BY DEF WorkerStates
  <2>3. workers' = [workers EXCEPT ![w] = y]
    BY <1>0, <1>1, <2>1, <2>2 DEF CommitTypes
  <2> QED BY <1>0, <2>1, <2>2, <2>3 DEF CommitTypes, WorkerStates, OnlyWorker
<1>4. WorkerOK(w)'
  <2>1. res = "indeterminate" \/ (res \in Answers /\ attempts'[k] = res)
    BY <1>1, <1>2 DEF Truth, outside
  <2> QED BY <1>0, <1>2, <1>3, <2>1 DEF WorkerOK, Approved, stageVars, outside, Truth, Owning, Unapplied
<1> QED BY <1>0, <1>2, <1>3, <1>4, WorkerStep DEF Owning

\* What FactOf publishes of a claim that is the stored one if it is closed.
LEMMA FactOfFacts ==
    ASSUME CommitInv, NEW k \in Commands, NEW claim \in Claims,
           claim.state # "none", claim.state \in Closed => claims[k] = claim
    PROVE  LET f == FactOf(facts[k], claim) IN
           /\ f \in Facts
           /\ facts[k].claimed => f.claimed
           /\ \A o \in {f.applied, f.reconciled} :
                o # "none" => claims[k].state \in Closed /\ claims[k].outcome = o
<1> DEFINE f == FactOf(facts[k], claim)
<1>0. facts[k] \in Facts /\ KeyOK(k) /\ CommitTypes
  BY DEF CommitInv, CommitTypes
<1>1. CASE claim.state = "CLAIMED"
  <2>1. f = [facts[k] EXCEPT !.claimed = TRUE]
    BY <1>1 DEF FactOf
  <2> QED BY <1>0, <2>1 DEF Facts, KeyOK
<1>2. CASE claim.state = "INDETERMINATE"
  <2>1. f = [facts[k] EXCEPT !.indeterminate = TRUE]
    BY <1>2 DEF FactOf
  <2> QED BY <1>0, <2>1 DEF Facts, KeyOK
<1>3. CASE claim.state \in Closed
  <2>1. f = [facts[k] EXCEPT !.applied = claim.outcome]
    BY <1>3 DEF FactOf, Closed
  <2>2. claims[k] = claim /\ claim.outcome \in Outcomes
    BY <1>0, <1>3 DEF KeyOK
  <2> QED BY <1>0, <1>3, <2>1, <2>2 DEF Facts, KeyOK
<1> QED BY <1>1, <1>2, <1>3 DEF Claims, ClaimStates, Closed

\* The recorder appending the result.
LEMMA RecordResultInv ==
    ASSUME CommitInv, NEW w \in Workers, RecordResult(w)
    PROVE  CommitInv'
<1> DEFINE k == workers[w].cmd
           seen == workers[w].seen
<1>0. /\ k \in Commands /\ seen \in Claims /\ seen.state # "none"
      /\ (seen.state \in Closed => claims[k] = seen)
  BY DEF CommitInv, CommitTypes, WorkerOK, WorkerStates, RecordResult, Publishes
<1>1. CASE ~Appendable(facts[k], seen)
  BY <1>1, WorkerStopsInv DEF RecordResult, runVars, outside
<1>2. CASE Appendable(facts[k], seen)
  <2>1. PICK f \in Facts :
          /\ f = FactOf(facts[k], seen)
          /\ facts[k].claimed => f.claimed
          /\ \A o \in {f.applied, f.reconciled} :
               o # "none" => claims[k].state \in Closed /\ claims[k].outcome = o
    BY <1>0, FactOfFacts
  <2>2. facts' = [facts EXCEPT ![k] = f]
    BY <1>2, <2>1 DEF RecordResult
  <2>3. facts' \in [Commands -> Facts] /\ \A j \in Commands : KeyOK(j)' /\ KeyKept(j)
    BY <1>0, <2>1, <2>2, KeysOnFacts DEF RecordResult
  <2>4. workers' \in [Workers -> WorkerStates] /\ OnlyWorker(w) /\ workers'[w] = Idle
    BY StopFacts DEF RecordResult, CommitInv
  <2>5. WorkerOK(w)'
    BY <2>4, IdleFacts DEF WorkerOK, Owning, Unapplied
  <2> QED BY <2>3, <2>4, <2>5, IdleFacts, PublishStep DEF RecordResult, runVars, outside
<1> QED BY <1>1, <1>2

-----------------------------------------------------------------------------
(* The steps of repair *)

\* A step that moves reconciler r and touches nothing else.
LEMMA ReconcilerStep ==
    ASSUME CommitInv, NEW r \in Reconcilers, OnlyReconciler(r),
           reconcilers' \in [Reconcilers -> ReconcilerStates], ReconcilerOK(r)',
           UNCHANGED <<stageVars, claims, workers, repairs, facts, outside, runVars>>
    PROVE  CommitInv'
<1>1. StageInv'
  BY StageNextInv DEF CommitInv
<1>2. CommitTypes'
  BY DEF CommitInv, CommitTypes, runVars, outside
<1>3. \A k : KeyKept(k)
  BY DEF KeyKept, Approved, stageVars, outside
<1>4. \A v \in Workers : WorkerOK(v)'
  BY <1>3, WorkerFrame DEF CommitInv
<1>5. \A q \in Reconcilers : ReconcilerOK(q)'
  BY <1>3, ReconcilerFrame DEF CommitInv, OnlyReconciler, KeyKept
<1>6. \A k \in Commands : KeyOK(k)'
  BY DEF CommitInv, KeyOK, Approved, stageVars, outside
<1>7. SoleOwner'
  BY DEF CommitInv, SoleOwner
<1> QED BY <1>1, <1>2, <1>4, <1>5, <1>6, <1>7 DEF CommitInv

\* reconcile, on an error.
LEMMA ReconcilerStopsInv ==
    ASSUME CommitInv, NEW r \in Reconcilers, StopR(r),
           UNCHANGED <<stageVars, claims, workers, repairs, facts, outside, runVars>>
    PROVE  CommitInv'
<1>1. /\ reconcilers' \in [Reconcilers -> ReconcilerStates] /\ OnlyReconciler(r)
      /\ reconcilers'[r] = Idle
  BY StopRFacts DEF CommitInv
<1>2. ReconcilerOK(r)'
  BY <1>1, IdleFacts DEF ReconcilerOK
<1> QED BY <1>1, <1>2, ReconcilerStep

\* reconcile, reading the claim.
LEMMA ReadClaimInv ==
    ASSUME CommitInv, NEW r \in Reconcilers, NEW k \in Commands, ReadClaim(r, k)
    PROVE  CommitInv'
<1> DEFINE pc == IF claims[k].state \in Closed THEN "record" ELSE "ask"
<1>0. CommitTypes /\ KeyOK(k) /\ claims[k] \in Claims /\ claims[k].state # "none"
  BY DEF CommitInv, CommitTypes, KeyOK, ReadClaim
<1>1. PICK x \in ReconcilerStates :
        /\ x.pc = pc /\ x.cmd = k /\ x.seen = claims[k]
        /\ reconcilers' = [reconcilers EXCEPT ![r] = x]
  <2>1. PICK x \in ReconcilerStates : x = [Idle EXCEPT !.pc = pc]
    BY RecordTypes DEF ReconcilerStates
  <2>2. PICK y \in ReconcilerStates : y = [x EXCEPT !.cmd = k]
    BY DEF ReconcilerStates
  <2>3. PICK z \in ReconcilerStates : z = [y EXCEPT !.seen = claims[k]]
    BY <1>0 DEF ReconcilerStates
  <2>4. z.pc = pc /\ z.cmd = k /\ z.seen = claims[k]
    <3> HIDE DEF pc
    <3> QED BY <2>1, <2>2, <2>3, RecordTypes DEF ReconcilerStates
  <2> QED BY <2>1, <2>2, <2>3, <2>4 DEF ReadClaim
<1>2. /\ reconcilers' \in [Reconcilers -> ReconcilerStates] /\ OnlyReconciler(r)
      /\ reconcilers'[r] = x
  BY <1>0, <1>1 DEF CommitTypes, OnlyReconciler
<1>3. ReconcilerOK(r)'
  BY <1>0, <1>1, <1>2 DEF ReconcilerOK, KeyOK, Publishes, ReadClaim
<1> QED BY <1>2, <1>3, ReconcilerStep DEF ReadClaim, runVars, outside

\* reconcile, asking the executor what happened.
LEMMA AskExecutorInv ==
    ASSUME CommitInv, NEW r \in Reconcilers,
           NEW answer \in Answers \cup {"indeterminate"}, AskExecutor(r, answer)
    PROVE  CommitInv'
<1> DEFINE k == reconcilers[r].cmd
<1>0. /\ CommitTypes /\ ReconcilerOK(r) /\ k \in Commands /\ claims[k].state # "none"
      /\ reconcilers[r] \in ReconcilerStates
  BY DEF CommitInv, CommitTypes, ReconcilerOK, AskExecutor
<1>1. PICK x \in ReconcilerStates : x = [reconcilers[r] EXCEPT !.pc = "store"]
  BY <1>0 DEF ReconcilerStates
<1>2. PICK y \in ReconcilerStates : y = [x EXCEPT !.result = answer]
  <2>1. answer \in Results
    BY DEF Results
  <2> QED BY <2>1 DEF ReconcilerStates
<1>3. reconcilers' = [reconcilers EXCEPT ![r] = y]
  BY <1>0, <1>1, <1>2 DEF AskExecutor, CommitTypes
<1>4. /\ reconcilers' \in [Reconcilers -> ReconcilerStates] /\ OnlyReconciler(r)
      /\ reconcilers'[r].pc = "store" /\ reconcilers'[r].cmd = k
      /\ reconcilers'[r].seen = reconcilers[r].seen /\ reconcilers'[r].result = answer
  BY <1>0, <1>1, <1>2, <1>3 DEF CommitTypes, ReconcilerStates, OnlyReconciler
<1>5. ReconcilerOK(r)'
  BY <1>0, <1>4 DEF ReconcilerOK, Truth, AskExecutor, outside
<1> QED BY <1>4, <1>5, ReconcilerStep DEF AskExecutor, runVars, outside

\* reconcile, closing the claim.
LEMMA StoreReconciledInv ==
    ASSUME CommitInv, NEW r \in Reconcilers, StoreReconciled(r)
    PROVE  CommitInv'
<1> DEFINE k == reconcilers[r].cmd
           seen == reconcilers[r].seen
           new == ReconciledClaim(reconcilers[r].result)
<1>0. /\ CommitTypes /\ ReconcilerOK(r) /\ k \in Commands /\ claims[k].state # "none"
      /\ reconcilers[r] \in ReconcilerStates /\ reconcilers[r].pc = "store"
      /\ Truth(reconcilers[r].result, k) /\ KeyOK(k) /\ Approved(k)
  BY DEF CommitInv, CommitTypes, ReconcilerOK, StoreReconciled, KeyOK
<1>1. CASE new.state = "INDETERMINATE" /\ seen.state = "INDETERMINATE"
  <2>1. MoveR(r, "record") /\ UNCHANGED claims
    BY <1>1 DEF StoreReconciled
  <2>2. /\ reconcilers' \in [Reconcilers -> ReconcilerStates] /\ OnlyReconciler(r)
        /\ reconcilers'[r].pc = "record" /\ reconcilers'[r].cmd = k
        /\ reconcilers'[r].seen = seen
    BY <1>0, <2>1, MoveRFacts
  <2>3. ReconcilerOK(r)'
    BY <1>0, <1>1, <2>1, <2>2 DEF ReconcilerOK, Publishes, Closed
  <2> QED BY <2>1, <2>2, <2>3, ReconcilerStep DEF StoreReconciled, runVars, outside
<1>2. CASE /\ ~(new.state = "INDETERMINATE" /\ seen.state = "INDETERMINATE")
           /\ ~Allowed(claims[k], new)
  <2>1. StopR(r) /\ UNCHANGED claims
    BY <1>2 DEF StoreReconciled
  <2> QED BY <2>1, ReconcilerStopsInv DEF StoreReconciled, runVars, outside
<1>3. CASE /\ ~(new.state = "INDETERMINATE" /\ seen.state = "INDETERMINATE")
           /\ Allowed(claims[k], new)
  <2>0. claims[k].state \notin Closed
    BY <1>3 DEF Allowed, Closed
  <2>1. PICK c \in Claims :
          /\ c = new /\ c.state \in {"COMPLETED", "INDETERMINATE"}
          /\ c.state \in Closed => /\ c.outcome \in Outcomes /\ attempts[k] # "pending"
                                   /\ applies[k] # 0
          /\ c.state = "COMPLETED" => (c.outcome \in Changing <=> landed[k] > 0)
    <3>1. CASE reconcilers[r].result = "indeterminate"
      <4>1. new = Indeterminate /\ Indeterminate \in Claims
        BY <3>1, RecordTypes DEF ReconciledClaim
      <4>2. Indeterminate.state = "INDETERMINATE"
        BY DEF Indeterminate
      <4> QED BY <4>1, <4>2 DEF Closed
    <3>2. CASE reconcilers[r].result # "indeterminate"
      <4> DEFINE o == reconcilers[r].result
      <4>1. /\ o \in Answers /\ attempts[k] = o /\ (o \in Changing <=> landed[k] > 0)
            /\ o # "pending" /\ applies[k] # 0
        BY <1>0, <3>2 DEF Truth, KeyOK, Answers
      <4>2. new = Completed(o) /\ Completed(o) \in Claims
        BY <3>2, <4>1, RecordTypes DEF ReconciledClaim
      <4>3. Completed(o).state = "COMPLETED" /\ Completed(o).outcome = o /\ o \in Outcomes
        BY <4>1 DEF Completed, Outcomes
      <4> HIDE DEF new
      <4> QED BY <1>0, <4>1, <4>2, <4>3
    <3> QED BY <3>1, <3>2
  <2> DEFINE pc == IF c.state = "COMPLETED" THEN "amend" ELSE "record"
  <2>2. /\ claims' = [claims EXCEPT ![k] = c]
        /\ reconcilers' = [reconcilers EXCEPT ![r].pc = pc, ![r].seen = c]
    BY <1>3, <2>1 DEF StoreReconciled
  <2>3. /\ reconcilers' \in [Reconcilers -> ReconcilerStates] /\ OnlyReconciler(r)
        /\ reconcilers'[r].pc = pc /\ reconcilers'[r].cmd = k /\ reconcilers'[r].seen = c
    <3>1. PICK x \in ReconcilerStates : x = [reconcilers[r] EXCEPT !.pc = pc]
      BY <1>0 DEF ReconcilerStates
    <3>2. PICK y \in ReconcilerStates : y = [x EXCEPT !.seen = c]
      BY DEF ReconcilerStates
    <3>3. reconcilers' = [reconcilers EXCEPT ![r] = y]
      BY <1>0, <2>2, <3>1, <3>2 DEF CommitTypes
    <3> HIDE DEF pc
    <3> QED BY <1>0, <3>1, <3>2, <3>3 DEF CommitTypes, ReconcilerStates, OnlyReconciler
  <2>4. CommitTypes'
    BY <1>0, <2>2, <2>3 DEF CommitTypes, StoreReconciled, outside, runVars
  <2>5. \A j \in Commands : claims'[j] = IF j = k THEN c ELSE claims[j]
    BY <1>0, <2>2 DEF CommitTypes
  <2>6. ReconcilerOK(r)'
    BY <1>0, <2>1, <2>3, <2>5 DEF ReconcilerOK, Publishes, Closed
  <2>8. \A q \in Reconcilers : ReconcilerOK(q)'
    <3>1. ASSUME NEW q \in Reconcilers, q # r PROVE ReconcilerOK(q)'
      <4>1. reconcilers'[q] = reconcilers[q] /\ ReconcilerOK(q)
        BY <3>1, <2>3 DEF OnlyReconciler, CommitInv
      <4> QED BY <4>1, <2>0, <2>1, <2>5, ReconcilerFrame DEF StoreReconciled, outside
    <3> QED BY <3>1, <2>6
  <2>9. \A v \in Workers : WorkerOK(v)'
    <3>1. ASSUME NEW v \in Workers PROVE WorkerOK(v)'
      <4>1. (workers[v].pc \in Unapplied /\ workers[v].cmd = k) => c.state \notin Closed
        <5>1. WorkerOK(v)
          BY DEF CommitInv
        <5> QED BY <5>1, <2>1 DEF WorkerOK
      <4> QED BY <4>1, <1>0, <2>0, <2>1, <2>2, ClaimFrame DEF StoreReconciled
    <3> QED BY <3>1
  <2>10. \A j \in Commands : KeyOK(j)'
    BY <1>0, <2>0, <2>1, <2>2, KeysOnClaim DEF StoreReconciled
  <2>11. SoleOwner' /\ StageInv'
    BY StageNextInv DEF CommitInv, SoleOwner, StoreReconciled
  <2> QED BY <2>4, <2>8, <2>9, <2>10, <2>11 DEF CommitInv
<1> QED BY <1>1, <1>2, <1>3

\* A step of reconciler r that publishes.
LEMMA ReconcilerPublishStep ==
    ASSUME CommitInv, NEW r \in Reconcilers, OnlyReconciler(r),
           reconcilers' \in [Reconcilers -> ReconcilerStates], ReconcilerOK(r)',
           facts' \in [Commands -> Facts], \A j \in Commands : KeyOK(j)' /\ KeyKept(j),
           UNCHANGED <<stageVars, claims, workers, repairs, outside, runVars>>
    PROVE  CommitInv'
<1>1. StageInv'
  BY StageNextInv DEF CommitInv
<1>2. CommitTypes'
  BY DEF CommitInv, CommitTypes, runVars, outside
<1>3. \A v \in Workers : WorkerOK(v)'
  <2>1. ASSUME NEW v \in Workers PROVE WorkerOK(v)'
    <3>1. WorkerOK(v) /\ workers'[v] = workers[v]
      BY DEF CommitInv
    <3>2. workers[v].pc # "idle" => KeyKept(workers[v].cmd)
      BY <3>1 DEF WorkerOK
    <3> QED BY <3>1, <3>2, WorkerFrame
  <2> QED BY <2>1
<1>4. \A q \in Reconcilers : ReconcilerOK(q)'
  BY ReconcilerFrame DEF CommitInv, OnlyReconciler, outside
<1>5. SoleOwner'
  BY DEF CommitInv, SoleOwner
<1> QED BY <1>1, <1>2, <1>3, <1>4, <1>5 DEF CommitInv

\* reconcile, appending effect.reconciled.
LEMMA AmendReconciledInv ==
    ASSUME CommitInv, NEW r \in Reconcilers, AmendReconciled(r)
    PROVE  CommitInv'
<1> DEFINE k == reconcilers[r].cmd
           seen == reconcilers[r].seen
<1>0. /\ CommitTypes /\ ReconcilerOK(r) /\ k \in Commands /\ reconcilers[r].pc = "amend"
      /\ facts[k] \in Facts /\ KeyOK(k) /\ claims[k] = seen
      /\ seen.state \in Closed /\ seen.outcome \in Outcomes
  BY DEF CommitInv, CommitTypes, ReconcilerOK, AmendReconciled, Publishes
<1>1. PICK f \in Facts : f = [facts[k] EXCEPT !.reconciled = seen.outcome]
  BY <1>0 DEF Facts
<1>2. facts' = [facts EXCEPT ![k] = f]
  BY <1>1 DEF AmendReconciled
<1>3. /\ facts[k].claimed => f.claimed
      /\ \A o \in {f.applied, f.reconciled} :
           o # "none" => claims[k].state \in Closed /\ claims[k].outcome = o
  BY <1>0, <1>1 DEF Facts, KeyOK
<1>u. UNCHANGED <<stageVars, claims, outside, repairs>>
  BY DEF AmendReconciled
<1>4. facts' \in [Commands -> Facts] /\ \A j \in Commands : KeyOK(j)' /\ KeyKept(j)
  BY <1>0, <1>2, <1>3, <1>u, KeysOnFacts
<1>5. /\ reconcilers' \in [Reconcilers -> ReconcilerStates] /\ OnlyReconciler(r)
      /\ reconcilers'[r].pc = "record" /\ reconcilers'[r].cmd = k
      /\ reconcilers'[r].seen = seen
  BY <1>0, MoveRFacts DEF AmendReconciled
<1>6. ReconcilerOK(r)'
  BY <1>0, <1>5 DEF ReconcilerOK, Publishes, AmendReconciled
<1> QED BY <1>4, <1>5, <1>6, ReconcilerPublishStep DEF AmendReconciled, runVars, outside

\* reconcile, appending the result.
LEMMA RecordReconciledInv ==
    ASSUME CommitInv, NEW r \in Reconcilers, RecordReconciled(r)
    PROVE  CommitInv'
<1> DEFINE k == reconcilers[r].cmd
           seen == reconcilers[r].seen
<1>0. /\ k \in Commands /\ seen \in Claims /\ seen.state # "none"
      /\ (seen.state \in Closed => claims[k] = seen)
  BY DEF CommitInv, CommitTypes, ReconcilerOK, ReconcilerStates, RecordReconciled, Publishes
<1>1. CASE ~Appendable(facts[k], seen)
  BY <1>1, ReconcilerStopsInv DEF RecordReconciled, runVars, outside
<1>2. CASE Appendable(facts[k], seen)
  <2>1. PICK f \in Facts :
          /\ f = FactOf(facts[k], seen)
          /\ facts[k].claimed => f.claimed
          /\ \A o \in {f.applied, f.reconciled} :
               o # "none" => claims[k].state \in Closed /\ claims[k].outcome = o
    BY <1>0, FactOfFacts
  <2>2. facts' = [facts EXCEPT ![k] = f]
    BY <1>2, <2>1 DEF RecordReconciled
  <2>3. facts' \in [Commands -> Facts] /\ \A j \in Commands : KeyOK(j)' /\ KeyKept(j)
    BY <1>0, <2>1, <2>2, KeysOnFacts DEF RecordReconciled
  <2>4. /\ reconcilers' \in [Reconcilers -> ReconcilerStates] /\ OnlyReconciler(r)
        /\ reconcilers'[r] = Idle
    BY StopRFacts DEF RecordReconciled, CommitInv
  <2>5. ReconcilerOK(r)'
    BY <2>4, IdleFacts DEF ReconcilerOK
  <2> QED BY <2>3, <2>4, <2>5, ReconcilerPublishStep DEF RecordReconciled, runVars, outside
<1> QED BY <1>1, <1>2

\* The repair planner enqueueing a reconcile command.
LEMMA PlanReconcileInv ==
    ASSUME CommitInv, NEW k \in Commands, PlanReconcile(k)
    PROVE  CommitInv'
<1>1. StageInv' /\ CommitTypes' /\ SoleOwner'
  BY StageNextInv DEF CommitInv, CommitTypes, SoleOwner, PlanReconcile, runVars, outside
<1>2. \A j : KeyKept(j)
  BY DEF KeyKept, Approved, stageVars, PlanReconcile, outside
<1>3. \A v \in Workers : WorkerOK(v)'
  BY <1>2, WorkerFrame DEF CommitInv, PlanReconcile
<1>4. \A q \in Reconcilers : ReconcilerOK(q)'
  BY <1>2, ReconcilerFrame DEF CommitInv, PlanReconcile, KeyKept
<1>5. \A j \in Commands : KeyOK(j)'
  BY DEF CommitInv, KeyOK, Approved, stageVars, PlanReconcile, outside
<1> QED BY <1>1, <1>3, <1>4, <1>5 DEF CommitInv

-----------------------------------------------------------------------------
(* The environment and the stage *)

\* A restart with workers and reconcilers in it.
LEMMA RestartInv ==
    ASSUME CommitInv, Restart
    PROVE  CommitInv'
<1>1. StageInv'
  BY StageNextInv DEF CommitInv, Restart
<1>2. /\ \A w \in Workers : workers'[w] = Idle
      /\ \A r \in Reconcilers : reconcilers'[r] = Idle
  BY DEF Restart
<1>3. CommitTypes'
  <2>1. /\ workers' \in [Workers -> WorkerStates]
        /\ reconcilers' \in [Reconcilers -> ReconcilerStates]
    BY RecordTypes DEF Restart
  <2>2. restarts' \in Nat
    BY DEF Restart, CommitInv, CommitTypes
  <2>3. sealed' \in BOOLEAN
    BY DEF Restart
  <2> QED BY <2>1, <2>2, <2>3 DEF CommitInv, CommitTypes, Restart, outside
<1>4. (\A w \in Workers : WorkerOK(w)') /\ SoleOwner'
  BY <1>2, IdleFacts DEF WorkerOK, SoleOwner, Owning, Unapplied
<1>5. \A r \in Reconcilers : ReconcilerOK(r)'
  BY <1>2, IdleFacts DEF ReconcilerOK
<1>6. \A k \in Commands : KeyOK(k)'
  BY DEF CommitInv, KeyOK, Approved, stageVars, Restart, outside
<1> QED BY <1>1, <1>3, <1>4, <1>5, <1>6 DEF CommitInv

\* A step of the stage can only add approvals and commands.
LEMMA StageGrows ==
    ASSUME StageInv, [StageNext]_stageVars
    PROVE  \A k \in Commands : Approved(k) => Approved(k)'
<1>1. queued \subseteq queued'
  BY DEF StageNext, stageVars, BeginDecide, BeginRevise, BeginBind, AppendDecision,
         ConflictingDecision, EnqueueAfterDecision, AppendRevision, AppendBinding, ClientFails
<1>2. \A st \in Stages : Fold(st) => \A r \in Revisions : authority[r] \subseteq authority'[r]
  BY DEF Fold, StageInv, StageTypeOK, Stages
<1>3. \A r \in Revisions : authority[r] \subseteq authority'[r]
  <2>1. CASE UNCHANGED authority
    BY <2>1
  <2>2. CASE \E st \in Stages : Fold(st)
    BY <1>2, <2>2
  <2>3. (\E st : Fold(st)) \/ UNCHANGED authority
    BY DEF StageNext, stageVars, BeginDecide, BeginRevise, BeginBind, AppendDecision,
           ConflictingDecision, EnqueueAfterDecision, AppendRevision, AppendBinding, ClientFails
  <2>4. \A st : Fold(st) => st \in Stages
    BY StageNextInv DEF Fold, StageInv, StageTypeOK
  <2> QED BY <2>1, <2>2, <2>3, <2>4
<1> QED BY <1>1, <1>3 DEF Approved, Commands, Decisions

\* A staging step under the commit invariant.
LEMMA StageStepInv ==
    ASSUME CommitInv, [StageNext]_stageVars,
           UNCHANGED <<claims, workers, reconcilers, repairs, facts, outside>>,
           runEnded' \in BOOLEAN, sealed' \in BOOLEAN, restarts' \in Nat
    PROVE  CommitInv'
<1>1. StageInv' /\ \A k \in Commands : Approved(k) => Approved(k)'
  BY StageNextInv, StageGrows DEF CommitInv
<1>2. CommitTypes' /\ SoleOwner'
  BY DEF CommitInv, CommitTypes, SoleOwner, outside
<1>3. \A k \in Commands : KeyKept(k)
  BY <1>1 DEF KeyKept, outside
<1>4. \A v \in Workers : WorkerOK(v)'
  <2>1. ASSUME NEW v \in Workers PROVE WorkerOK(v)'
    <3>1. WorkerOK(v) /\ workers'[v] = workers[v]
      BY DEF CommitInv
    <3>2. workers[v].pc # "idle" => KeyKept(workers[v].cmd)
      BY <3>1, <1>3 DEF WorkerOK
    <3> QED BY <3>1, <3>2, WorkerFrame
  <2> QED BY <2>1
<1>5. \A q \in Reconcilers : ReconcilerOK(q)'
  BY ReconcilerFrame DEF CommitInv, outside
<1>6. \A k \in Commands : KeyOK(k)'
  BY <1>1 DEF CommitInv, KeyOK, outside
<1> QED BY <1>1, <1>2, <1>4, <1>5, <1>6 DEF CommitInv

\* Every step keeps the invariant.
LEMMA CommitNext == CommitInv /\ [Next]_vars => CommitInv'
<1> SUFFICES ASSUME CommitInv, [Next]_vars PROVE CommitInv'
  OBVIOUS
<1>0. CommitTypes
  BY DEF CommitInv
<1>1. CASE UNCHANGED vars
  BY <1>0, <1>1, StageStepInv DEF vars, commitVars, CommitTypes, outside
<1>2. CASE StageNext /\ UNCHANGED commitVars
  BY <1>0, <1>2, StageStepInv DEF commitVars, CommitTypes, outside
<1>3. ASSUME NEW w \in Workers, NEW k \in Commands, LoadStage(w, k) PROVE CommitInv'
  BY <1>3, LoadStageInv
<1>4. ASSUME NEW w \in Workers, WorkerProceeds(w) PROVE CommitInv'
  <2>1. CASE LookupClaim(w)
    BY <2>1, LookupClaimInv
  <2>2. CASE Prepare(w) \/ NotCancelled(w) \/ Authorize(w)
    BY <2>2, MoveOnInv
  <2>3. CASE PreconditionDrift(w)
    BY <2>3, PreconditionDriftInv
  <2>4. CASE Claim(w)
    BY <2>4, ClaimStepInv
  <2>5. CASE ObserveClaim(w)
    BY <2>5, ObserveClaimInv
  <2>6. CASE CancelBeforeApply(w) \/ AuthorizationDenied(w) \/ Settle(w)
    BY <2>6, SettlingInv
  <2>7. CASE Apply(w)
    BY <2>7, ApplyInv
  <2>8. CASE RecordResult(w)
    BY <2>8, RecordResultInv
  <2>9. CASE HearAnswer(w) \/ LoseAnswer(w)
    BY <2>9, AnswerInv
  <2> QED BY <1>4, <2>1, <2>2, <2>3, <2>4, <2>5, <2>6, <2>7, <2>8, <2>9 DEF WorkerProceeds
<1>5. ASSUME NEW w \in Workers, WorkerStops(w) PROVE CommitInv'
  BY <1>5, WorkerStopsInv DEF WorkerStops, runVars, outside
<1>6. ASSUME NEW k \in Commands, PlanReconcile(k) PROVE CommitInv'
  BY <1>6, PlanReconcileInv
<1>7. ASSUME NEW r \in Reconcilers, NEW k \in Commands, ReadClaim(r, k) PROVE CommitInv'
  BY <1>7, ReadClaimInv
<1>8. ASSUME NEW r \in Reconcilers, ReconcilerProceeds(r) PROVE CommitInv'
  BY <1>8, AskExecutorInv, StoreReconciledInv, AmendReconciledInv, RecordReconciledInv
  DEF ReconcilerProceeds
<1>9. ASSUME NEW r \in Reconcilers, ReconcilerStops(r) PROVE CommitInv'
  BY <1>9, ReconcilerStopsInv DEF ReconcilerStops, runVars, outside
<1>10. CASE RunEnds
  BY <1>0, <1>10, CommitAssumption, StageStepInv DEF RunEnds, CommitTypes
<1>11. CASE Restart
  BY <1>11, RestartInv
<1>12. ASSUME NEW k \in Commands, NEW end \in Answers \cup {"indeterminate"},
              AttemptEnds(k, end)
       PROVE  CommitInv'
  BY <1>12, AttemptEndsInv
<1> QED BY <1>1, <1>2, <1>3, <1>4, <1>5, <1>6, <1>7, <1>8, <1>9, <1>10, <1>11, <1>12 DEF Next

-----------------------------------------------------------------------------
(* The theorems *)

\* Every record of the commit protocol is well formed in every reachable state.
THEOREM CommitTypeCorrect == Spec => []CommitTypeOK
BY CommitInit, CommitNext, InvImpliesProperties, PTL DEF Spec

\* "duplicate delivery makes one apply call": for any number of deliveries, workers,
\* crashes and reconciliations, apply is called at most once per idempotency key.
THEOREM ApplyAtMostOnce == Spec => []AtMostOneApply
BY CommitInit, CommitNext, InvImpliesProperties, PTL DEF Spec

\* Of all the decisions recorded for one revision at most one reaches the outside
\* world, whichever lanes they came through.
THEOREM OneEffect == Spec => []OneEffectPerRevision
BY CommitInit, CommitNext, InvImpliesProperties, PTL DEF Spec

\* What was applied had been approved for its revision, claimed and published.
THEOREM AppliedWasApproved == Spec => []AppliedOnlyIfApprovedAndClaimed
BY CommitInit, CommitNext, InvImpliesProperties, PTL DEF Spec

\* A closed claim is true of the outside world, and stays true although a repair may
\* overtake an attempt in progress.
THEOREM ClaimsAreHonest == Spec => []HonestClaims
BY CommitInit, CommitNext, InvImpliesProperties, PTL DEF Spec

\* The effect events in the ledger and the claim store never contradict each other,
\* also between the two writes and after a crash there.
THEOREM LedgerAgrees == Spec => []LedgerAgreesWithClaims
BY CommitInit, CommitNext, InvImpliesProperties, PTL DEF Spec
=============================================================================
