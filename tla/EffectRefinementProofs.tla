----------------------- MODULE EffectRefinementProofs -----------------------
(***************************************************************************)
(* Staging and committing an effect implement the promise ApprovedEffect,  *)
(* for any number of requests, lanes, revisions, workers, reconcilers and  *)
(* restarts: under the invariant of EffectCommitProofs every step of the   *)
(* code is a step of the promise or changes nothing it speaks of.          *)
(***************************************************************************)
EXTENDS EffectRefinement, EffectCommitProofs

\* What the promise speaks of.
Promised == <<Governing, applies, landed, [k \in Commands |-> OutcomeOf(claims[k])],
              [k \in Commands |-> Announced(facts[k])]>>

\* A step of the promise, or of nothing it speaks of.
Keeps == Effect!EffectNext \/ UNCHANGED Promised

-----------------------------------------------------------------------------
\* The empty claim store and ledger promise nothing yet.
LEMMA PromiseInit == Init => Effect!EffectInit
<1> SUFFICES ASSUME Init PROVE Effect!EffectInit
  OBVIOUS
<1>1. Governing = {}
  BY DEF Init, StageInit, Governing, Commands, Decisions
<1>2. \A k \in Commands : OutcomeOf(claims[k]) = "open" /\ Announced(facts[k]) = {}
  BY DEF Init, OutcomeOf, Announced, ClaimResults, NoClaim, NoFacts, Closed
<1> QED BY <1>1, <1>2 DEF Init, Effect!EffectInit

\* A step that neither approves, applies, closes a claim nor announces an outcome.
LEMMA QuietKeeps ==
    ASSUME UNCHANGED <<authority, applies, landed>>,
           \A k \in Commands : /\ OutcomeOf(claims'[k]) = OutcomeOf(claims[k])
                               /\ Announced(facts'[k]) = Announced(facts[k])
    PROVE  UNCHANGED Promised
BY DEF Promised, Governing

\* Storing a claim over one that is not closed settles the key, and with the truth.
LEMMA ClaimKeeps ==
    ASSUME CommitInv, CommitInv', NEW k \in Commands, NEW c,
           claims[k].state \notin Closed, claims' = [claims EXCEPT ![k] = c],
           c.state = "COMPLETED" => c.outcome # "cancelled",
           c.state = "CANCELLED" => c.outcome = "cancelled",
           UNCHANGED <<authority, applies, landed, facts>>
    PROVE  Keeps
<1>1. claims'[k] = c /\ \A j \in Commands : j # k => claims'[j] = claims[j]
  BY DEF CommitInv, CommitTypes
<1>2. CASE c.state \notin Closed
  BY <1>1, <1>2, QuietKeeps DEF Keeps, OutcomeOf
<1>3. CASE c.state \in Closed
  <2>1. KeyOK(k)' /\ CommitTypes
    BY DEF CommitInv
  <2>2. c.outcome \in Effect!EffectOutcomes
    BY <1>1, <1>3, <2>1 DEF KeyOK, Outcomes, Answers, Effect!EffectOutcomes
  <2>3. k \in Governing
    BY <1>1, <1>3, <2>1 DEF KeyOK, Approved, Governing, Closed
  <2>4. /\ c.outcome \in Changing <=> landed[k] = 1
        /\ c.outcome = "cancelled" => applies[k] = 0
    <3>1. applies[k] \in Nat /\ landed[k] \in Nat /\ applies[k] <= 1 /\ landed[k] <= applies[k]
      BY <2>1 DEF KeyOK, CommitTypes
    <3>2. /\ c.state = "COMPLETED" => (c.outcome \in Changing <=> landed[k] > 0)
          /\ c.state = "CANCELLED" => applies[k] = 0
      BY <1>1, <2>1 DEF KeyOK
    <3>3. "cancelled" \notin Changing
      BY DEF Changing
    <3> QED BY <1>3, <3>1, <3>2, <3>3 DEF Closed
  <2>5. [j \in Commands |-> OutcomeOf(claims'[j])] =
        [[j \in Commands |-> OutcomeOf(claims[j])] EXCEPT ![k] = c.outcome]
    <3>1. \A j \in Commands : OutcomeOf(claims'[j]) =
                              IF j = k THEN c.outcome ELSE OutcomeOf(claims[j])
      BY <1>1, <1>3 DEF OutcomeOf
    <3> QED BY <3>1, Zenon
  <2>6. OutcomeOf(claims[k]) = "open"
    BY DEF OutcomeOf
  <2>7. Effect!SettleAs(k, c.outcome)
    BY <2>3, <2>4, <2>5, <2>6 DEF Effect!SettleAs, Governing, Changing
  <2> QED BY <2>2, <2>7 DEF Keeps, Effect!EffectNext
<1> QED BY <1>2, <1>3

\* Publishing a fact of a claim that withdraws none announces the outcome of record.
LEMMA PublishKeeps ==
    ASSUME CommitInv, CommitInv', NEW k \in Commands, NEW f,
           facts' = [facts EXCEPT ![k] = f],
           facts[k].applied # "none" => f.applied # "none",
           facts[k].reconciled # "none" => f.reconciled # "none",
           f.drift = facts[k].drift,
           UNCHANGED <<authority, applies, landed, claims>>
    PROVE  Keeps
<1>1. facts'[k] = f /\ \A j \in Commands : j # k => facts'[j] = facts[j]
  BY DEF CommitInv, CommitTypes
<1>2. CASE f.applied = "none" /\ f.reconciled = "none"
  <2>1. Announced(f) = Announced(facts[k])
    BY <1>2 DEF Announced, ClaimResults
  <2> QED BY <1>1, <2>1, QuietKeeps DEF Keeps
<1>3. CASE f.applied # "none" \/ f.reconciled # "none"
  <2>1. /\ claims[k].state \in Closed /\ claims[k].outcome \in Outcomes
        /\ f.applied \in {"none", claims[k].outcome}
        /\ f.reconciled \in {"none", claims[k].outcome}
        /\ facts[k].applied \in {"none", claims[k].outcome}
        /\ facts[k].reconciled \in {"none", claims[k].outcome}
    BY <1>1, <1>3 DEF CommitInv, KeyOK
  <2>2. OutcomeOf(claims[k]) = claims[k].outcome /\ OutcomeOf(claims[k]) \notin {"open", "none"}
    BY <2>1 DEF OutcomeOf, Outcomes, Answers
  <2>3. Announced(f) = Announced(facts[k]) \cup {OutcomeOf(claims[k])}
    <3>1. ClaimResults(f) = {OutcomeOf(claims[k])}
      BY <1>3, <2>1, <2>2 DEF ClaimResults
    <3>2. ClaimResults(facts[k]) \subseteq {OutcomeOf(claims[k])}
      BY <2>1, <2>2 DEF ClaimResults
    <3> QED BY <3>1, <3>2 DEF Announced
  <2>4. [j \in Commands |-> Announced(facts'[j])] =
        [[j \in Commands |-> Announced(facts[j])]
           EXCEPT ![k] = @ \cup {OutcomeOf(claims[k])}]
    <3>1. \A j \in Commands : Announced(facts'[j]) =
            IF j = k THEN Announced(facts[k]) \cup {OutcomeOf(claims[k])} ELSE Announced(facts[j])
      BY <1>1, <2>3
    <3> QED BY <3>1, Zenon
  <2>5. Effect!Tell(k)
    BY <2>2, <2>4 DEF Effect!Tell, Governing
  <2> QED BY <2>5 DEF Keeps, Effect!EffectNext
<1> QED BY <1>2, <1>3

\* A drift found before any claim is reported of an approved effect.
LEMMA DriftKeeps ==
    ASSUME CommitInv, NEW k \in Commands, Approved(k),
           facts' = [facts EXCEPT ![k].drift = TRUE],
           UNCHANGED <<authority, applies, landed, claims>>
    PROVE  Keeps
<1>0. facts \in [Commands -> Facts] /\ facts[k] \in Facts
  BY DEF CommitInv, CommitTypes
<1>1. PICK f : f = [facts[k] EXCEPT !.drift = TRUE]
  OBVIOUS
<1>2. facts'[k] = f /\ \A j \in Commands : j # k => facts'[j] = facts[j]
  BY <1>0, <1>1
<1>3. f.applied = facts[k].applied /\ f.reconciled = facts[k].reconciled /\ f.drift
  BY <1>0, <1>1 DEF Facts
<1>4. Announced(f) = Announced(facts[k]) \cup {"precondition_drift"}
  BY <1>3 DEF Announced, ClaimResults
<1>5. [j \in Commands |-> Announced(facts'[j])] =
      [[j \in Commands |-> Announced(facts[j])] EXCEPT ![k] = @ \cup {"precondition_drift"}]
  <2>1. PICK drift : drift = {"precondition_drift"}
    OBVIOUS
  <2>2. \A j \in Commands : Announced(facts'[j]) =
          IF j = k THEN Announced(facts[k]) \cup drift ELSE Announced(facts[j])
    <3>1. Announced(facts'[k]) = Announced(facts[k]) \cup drift
      BY <1>2, <1>4, <2>1, Zenon
    <3>2. \A j \in Commands : j # k => Announced(facts'[j]) = Announced(facts[j])
      BY <1>2, Zenon
    <3> QED BY <3>1, <3>2, Zenon
  <2>3. [j \in Commands |-> Announced(facts'[j])] =
        [[j \in Commands |-> Announced(facts[j])] EXCEPT ![k] = @ \cup drift]
    BY <2>2, Zenon
  <2> QED BY <2>1, <2>3
<1>6. k \in Governing
  BY DEF Approved, Governing
<1>7. Effect!ReportDrift(k)
  BY <1>5, <1>6 DEF Effect!ReportDrift, Governing
<1> QED BY <1>7 DEF Keeps, Effect!EffectNext

\* executor.apply is the one try of an approved effect that is not settled.
LEMMA ApplyKeeps ==
    ASSUME CommitInv, NEW w \in Workers, Apply(w)
    PROVE  Keeps
<1> DEFINE k == workers[w].cmd
<1>0. /\ k \in Commands /\ CommitTypes /\ WorkerOK(w) /\ KeyOK(k) /\ workers[w].pc = "apply"
  BY DEF CommitInv, CommitTypes, WorkerOK, Apply
<1>1. /\ applies[k] = 0 /\ claims[k].state \notin Closed /\ Approved(k)
  BY <1>0 DEF WorkerOK, KeyOK, Unapplied, Owning, CommitTypes
<1>2. applies' = [applies EXCEPT ![k] = 1]
  BY <1>0, <1>1 DEF Apply, CommitTypes
<1>3. k \in Governing /\ OutcomeOf(claims[k]) = "open"
  BY <1>0, <1>1 DEF Approved, Governing, OutcomeOf
<1>4. UNCHANGED <<authority, claims, facts, landed>>
  BY DEF Apply, stageVars
<1>5. Effect!Try(k)
  BY <1>0, <1>1, <1>2, <1>3, <1>4 DEF Effect!Try, Governing
<1> QED BY <1>0, <1>5 DEF Keeps, Effect!EffectNext

\* The end of the attempt makes the change, of a key not settled, or changes nothing.
LEMMA AttemptKeeps ==
    ASSUME CommitInv, NEW k \in Commands, NEW end \in Answers \cup {"indeterminate"},
           AttemptEnds(k, end)
    PROVE  Keeps
<1>0. CommitTypes /\ KeyOK(k) /\ attempts[k] = "pending"
  BY DEF CommitInv, AttemptEnds
<1>1. applies[k] = 1 /\ landed[k] = 0 /\ claims[k].state \notin Closed
  BY <1>0 DEF KeyOK, CommitTypes
<1>2. landed' = [landed EXCEPT ![k] = 1] \/ landed' = [landed EXCEPT ![k] = 0]
  <2>1. PICK lands \in BOOLEAN : landed' = [landed EXCEPT ![k] = @ + IF lands THEN 1 ELSE 0]
    BY DEF AttemptEnds
  <2>2. landed' = [landed EXCEPT ![k] = IF lands THEN 1 ELSE 0]
    BY <1>0, <1>1, <2>1 DEF CommitTypes
  <2> QED BY <2>2, Zenon
<1>3. UNCHANGED <<authority, applies, claims, facts>>
  BY DEF AttemptEnds, stageVars
<1>4. CASE landed' = [landed EXCEPT ![k] = 1]
  <2>1. OutcomeOf(claims[k]) = "open"
    BY <1>1 DEF OutcomeOf
  <2>2. Effect!Land(k)
    BY <1>1, <1>3, <1>4, <2>1 DEF Effect!Land, Governing
  <2> QED BY <2>2 DEF Keeps, Effect!EffectNext
<1>5. CASE landed' = [landed EXCEPT ![k] = 0]
  <2>1. landed' = landed
    BY <1>0, <1>1, <1>5 DEF CommitTypes
  <2> QED BY <1>3, <2>1, QuietKeeps DEF Keeps
<1> QED BY <1>2, <1>4, <1>5

\* An event folded into the stage approves a revision that no approval governed.
LEMMA StageKeeps ==
    ASSUME StageInv, StageInv', StageNext, UNCHANGED <<applies, landed, claims, facts>>
    PROVE  Keeps
<1>1. CASE UNCHANGED authority
  BY <1>1, QuietKeeps DEF Keeps
<1>2. ASSUME NEW st, Fold(st), authority' # authority
      PROVE  Keeps
  <2> DEFINE d == st.decision
  <2>1. /\ st \in Stages /\ st = stage' /\ authority \in [Revisions -> SUBSET Decisions]
        /\ st.rev \in Revisions
    BY <1>2 DEF Fold, StageInv, StageTypeOK, Stages
  <2>2. /\ d # NoDecision /\ d \in Decisions
        /\ authority' = [authority EXCEPT ![st.rev] = @ \cup {d}]
    BY <1>2, <2>1 DEF Fold, Stages
  <2>3. d.rev = st.rev
    BY <2>1, <2>2 DEF StageInv, DecisionInv
  <2>4. authority[st.rev] = {}
    <3>1. d \notin authority[st.rev]
      BY <1>2, <2>1, <2>2
    <3>2. authority'[st.rev] = authority[st.rev] \cup {d}
      BY <2>1, <2>2
    <3>3. \A e \in authority'[st.rev] : e = d
      BY <3>2, <2>1 DEF StageInv, AuthorityInv
    <3> QED BY <3>1, <3>2, <3>3
  <2>5. \A r \in Revisions : authority'[r] = IF r = st.rev THEN {d} ELSE authority[r]
    BY <2>1, <2>2, <2>4
  <2>6. \A j \in Commands : j.rev \in Revisions
    BY DEF Commands, Decisions
  <2>7. CASE d \in Commands
    <3>1. Governing' = Governing \cup {d}
      BY <2>3, <2>4, <2>5, <2>6, <2>7 DEF Governing
    <3>2. \A j \in Governing : j \in Commands /\ j.rev # d.rev
      BY <2>3, <2>4 DEF Governing
    <3>3. Effect!Approve(d)
      BY <2>7, <3>1, <3>2 DEF Effect!Approve
    <3> QED BY <2>7, <3>3 DEF Keeps, Effect!EffectNext
  <2>8. CASE d \notin Commands
    <3>1. Governing' = Governing
      BY <2>4, <2>5, <2>6, <2>8 DEF Governing
    <3> QED BY <3>1 DEF Keeps, Promised
  <2> QED BY <2>7, <2>8
<1>3. (\E st : Fold(st)) \/ UNCHANGED authority
  BY DEF StageNext, stageVars, BeginDecide, BeginRevise, BeginBind, AppendDecision,
         ConflictingDecision, EnqueueAfterDecision, AppendRevision, AppendBinding, ClientFails
<1> QED BY <1>1, <1>2, <1>3

-----------------------------------------------------------------------------
\* claims.update by the worker that owns the claim.
LEMMA SettlingKeeps ==
    ASSUME CommitInv, CommitInv', NEW w \in Workers,
           CancelBeforeApply(w) \/ AuthorizationDenied(w) \/ Settle(w)
    PROVE  Keeps
<1> DEFINE k == workers[w].cmd
<1>0. /\ WorkerOK(w) /\ k \in Commands
  BY IdleFacts DEF CommitInv, WorkerOK, CancelBeforeApply, AuthorizationDenied, Settle
<1>1. PICK new :
        /\ StoreClaim(w, new)
        /\ new.state = "COMPLETED" => new.outcome # "cancelled"
        /\ new.state = "CANCELLED" => new.outcome = "cancelled"
  <2>1. CASE CancelBeforeApply(w)
    BY <2>1 DEF CancelBeforeApply, Cancelled
  <2>2. CASE AuthorizationDenied(w)
    BY <2>2 DEF AuthorizationDenied, Completed
  <2>3. CASE Settle(w)
    BY <1>0, <2>3 DEF Settle, WorkerOK, Truth, Indeterminate, Completed, Answers
  <2> QED BY <2>1, <2>2, <2>3
<1>2. UNCHANGED <<authority, applies, landed, facts>>
  BY <1>1 DEF StoreClaim, stageVars, outside
<1>3. CASE Allowed(claims[k], new)
  <2>1. claims' = [claims EXCEPT ![k] = new] /\ claims[k].state \notin Closed
    BY <1>1, <1>3 DEF StoreClaim, Allowed, Closed
  <2> QED BY <1>0, <1>1, <1>2, <2>1, ClaimKeeps
<1>4. CASE ~Allowed(claims[k], new)
  <2>1. UNCHANGED claims
    BY <1>1, <1>4 DEF StoreClaim
  <2> QED BY <1>2, <2>1, QuietKeeps DEF Keeps
<1> QED BY <1>3, <1>4

\* claims.claim settles nothing.
LEMMA TakingKeeps ==
    ASSUME CommitInv, CommitInv', NEW w \in Workers, Claim(w)
    PROVE  Keeps
<1> DEFINE k == workers[w].cmd
<1>0. k \in Commands /\ UNCHANGED <<authority, applies, landed, facts>>
  BY DEF CommitInv, WorkerOK, Claim, stageVars, outside
<1>1. CASE claims[k].state = "none"
  <2>1. claims' = [claims EXCEPT ![k] = Claimed] /\ claims[k].state \notin Closed
    BY <1>1 DEF Claim, Closed
  <2>2. Claimed.state = "CLAIMED"
    BY DEF Claimed
  <2> QED BY <1>0, <2>1, <2>2, ClaimKeeps
<1>2. CASE claims[k].state # "none"
  <2>1. UNCHANGED claims
    BY <1>2 DEF Claim
  <2> QED BY <1>0, <2>1, QuietKeeps DEF Keeps
<1> QED BY <1>1, <1>2

\* The update of a reconciliation.
LEMMA StoreReconciledKeeps ==
    ASSUME CommitInv, CommitInv', NEW r \in Reconcilers, StoreReconciled(r)
    PROVE  Keeps
<1> DEFINE k == reconcilers[r].cmd
           new == ReconciledClaim(reconcilers[r].result)
<1>0. /\ k \in Commands /\ Truth(reconcilers[r].result, k)
      /\ UNCHANGED <<authority, applies, landed, facts>>
  BY DEF CommitInv, ReconcilerOK, StoreReconciled, stageVars, outside
<1>1. new.state \in {"COMPLETED", "INDETERMINATE"} /\ new.outcome # "cancelled"
  BY <1>0 DEF ReconciledClaim, Completed, Indeterminate, Truth, Answers
<1>2. UNCHANGED claims \/ (Allowed(claims[k], new) /\ claims' = [claims EXCEPT ![k] = new])
  BY DEF StoreReconciled
<1>3. CASE UNCHANGED claims
  BY <1>0, <1>3, QuietKeeps DEF Keeps
<1>4. CASE Allowed(claims[k], new) /\ claims' = [claims EXCEPT ![k] = new]
  <2>1. claims[k].state \notin Closed
    BY <1>4 DEF Allowed, Closed
  <2> HIDE DEF new
  <2> QED BY <1>0, <1>1, <1>4, <2>1, ClaimKeeps
<1> QED BY <1>2, <1>3, <1>4

\* No published fact withdraws an outcome.
LEMMA FactsOnlyGrow ==
    ASSUME NEW f \in Facts, NEW claim \in Claims,
           claim.state \in Closed => claim.outcome # "none", claim.state # "none"
    PROVE  LET g == FactOf(f, claim) IN
           /\ f.applied # "none" => g.applied # "none"
           /\ f.reconciled # "none" => g.reconciled # "none"
           /\ g.drift = f.drift
BY DEF FactOf, Facts, Claims, ClaimStates, Closed

\* A worker that publishes its claim, its result or a drift.
LEMMA WorkerPublishKeeps ==
    ASSUME CommitInv, CommitInv', NEW w \in Workers,
           PreconditionDrift(w) \/ ObserveClaim(w) \/ RecordResult(w)
    PROVE  Keeps
<1> DEFINE k == workers[w].cmd
           seen == workers[w].seen
<1>0. /\ k \in Commands /\ WorkerOK(w) /\ facts[k] \in Facts /\ seen \in Claims
      /\ UNCHANGED <<authority, applies, landed, claims>>
  BY DEF CommitInv, CommitTypes, WorkerOK, WorkerStates, PreconditionDrift, ObserveClaim,
         RecordResult, stageVars, outside
<1>1. CASE UNCHANGED facts
  BY <1>0, <1>1, QuietKeeps DEF Keeps
<1>2. CASE facts' = [facts EXCEPT ![k].claimed = TRUE]
  <2>1. PICK f : f = [facts[k] EXCEPT !.claimed = TRUE]
    OBVIOUS
  <2>2. /\ facts' = [facts EXCEPT ![k] = f] /\ f.drift = facts[k].drift
        /\ f.applied = facts[k].applied /\ f.reconciled = facts[k].reconciled
    BY <1>0, <1>2, <2>1 DEF Facts
  <2> QED BY <1>0, <2>2, PublishKeeps
<1>d. CASE PreconditionDrift(w) /\ facts' = [facts EXCEPT ![k].drift = TRUE]
  <2>1. Approved(k)
    BY <1>0, <1>d DEF PreconditionDrift, WorkerOK
  <2> QED BY <1>0, <1>d, <2>1, DriftKeeps
<1>3. CASE RecordResult(w) /\ facts' = [facts EXCEPT ![k] = FactOf(@, seen)]
  <2>1. /\ seen.state # "none"
        /\ seen.state \in Closed => seen.outcome # "none"
    BY <1>0, <1>3 DEF RecordResult, WorkerOK, Publishes, Outcomes, Answers
  <2>2. PICK f : f = FactOf(facts[k], seen)
    OBVIOUS
  <2>3. /\ facts' = [facts EXCEPT ![k] = f]
        /\ facts[k].applied # "none" => f.applied # "none"
        /\ facts[k].reconciled # "none" => f.reconciled # "none"
        /\ f.drift = facts[k].drift
    BY <1>0, <1>3, <2>1, <2>2, FactsOnlyGrow
  <2> QED BY <1>0, <2>3, PublishKeeps
<1>4. PreconditionDrift(w) =>
        UNCHANGED facts \/ facts' = [facts EXCEPT ![k].drift = TRUE]
  BY DEF PreconditionDrift
<1>5. ObserveClaim(w) =>
        UNCHANGED facts \/ facts' = [facts EXCEPT ![k].claimed = TRUE]
  BY DEF ObserveClaim
<1>6. RecordResult(w) =>
        UNCHANGED facts \/ facts' = [facts EXCEPT ![k] = FactOf(@, seen)]
  BY DEF RecordResult
<1> QED BY <1>1, <1>2, <1>d, <1>3, <1>4, <1>5, <1>6

\* A reconciler that amends the ledger or publishes the result.
LEMMA ReconcilerPublishKeeps ==
    ASSUME CommitInv, CommitInv', NEW r \in Reconcilers,
           AmendReconciled(r) \/ RecordReconciled(r)
    PROVE  Keeps
<1> DEFINE k == reconcilers[r].cmd
           seen == reconcilers[r].seen
<1>0. /\ k \in Commands /\ ReconcilerOK(r) /\ facts[k] \in Facts /\ seen \in Claims
      /\ UNCHANGED <<authority, applies, landed, claims>>
      /\ seen.state # "none" /\ (seen.state \in Closed => seen.outcome # "none")
  BY DEF CommitInv, CommitTypes, ReconcilerOK, ReconcilerStates, AmendReconciled,
         RecordReconciled, stageVars, outside, Publishes, Outcomes, Answers
<1>1. CASE UNCHANGED facts
  BY <1>0, <1>1, QuietKeeps DEF Keeps
<1>2. CASE AmendReconciled(r)
  <2>1. seen.outcome # "none" /\ facts' = [facts EXCEPT ![k].reconciled = seen.outcome]
    BY <1>0, <1>2 DEF AmendReconciled, ReconcilerOK
  <2>2. PICK f : f = [facts[k] EXCEPT !.reconciled = seen.outcome]
    OBVIOUS
  <2>3. facts' = [facts EXCEPT ![k] = f]
    BY <2>1, <2>2
  <2>4. f.applied = facts[k].applied /\ f.reconciled = seen.outcome /\ f.drift = facts[k].drift
    BY <1>0, <2>2 DEF Facts
  <2> QED BY <1>0, <2>1, <2>3, <2>4, PublishKeeps
<1>3. CASE facts' = [facts EXCEPT ![k] = FactOf(@, seen)]
  <2>1. PICK f : f = FactOf(facts[k], seen)
    OBVIOUS
  <2>2. /\ facts' = [facts EXCEPT ![k] = f]
        /\ facts[k].applied # "none" => f.applied # "none"
        /\ facts[k].reconciled # "none" => f.reconciled # "none"
        /\ f.drift = facts[k].drift
    BY <1>0, <1>3, <2>1, FactsOnlyGrow
  <2> QED BY <1>0, <2>2, PublishKeeps
<1>4. RecordReconciled(r) =>
        UNCHANGED facts \/ facts' = [facts EXCEPT ![k] = FactOf(@, seen)]
  BY DEF RecordReconciled
<1> QED BY <1>1, <1>2, <1>3, <1>4

-----------------------------------------------------------------------------
\* Every step keeps the promise.
LEMMA StepKeeps ==
    ASSUME CommitInv, CommitInv', [Next]_vars
    PROVE  Keeps
<1>1. CASE UNCHANGED <<authority, applies, landed, claims, facts>>
  BY <1>1, QuietKeeps DEF Keeps
<1>2. CASE StageNext /\ UNCHANGED commitVars
  BY <1>2, StageKeeps DEF CommitInv, commitVars
<1>3. ASSUME NEW w \in Workers, WorkerProceeds(w) PROVE Keeps
  <2>1. CASE \/ LookupClaim(w) \/ Prepare(w) \/ NotCancelled(w) \/ Authorize(w)
             \/ HearAnswer(w) \/ LoseAnswer(w)
    BY <2>1, <1>1 DEF LookupClaim, Prepare, NotCancelled, Authorize, HearAnswer, LoseAnswer,
                      stageVars, outside
  <2>2. CASE PreconditionDrift(w) \/ ObserveClaim(w) \/ RecordResult(w)
    BY <2>2, WorkerPublishKeeps
  <2>3. CASE Claim(w)
    BY <2>3, TakingKeeps
  <2>4. CASE CancelBeforeApply(w) \/ AuthorizationDenied(w) \/ Settle(w)
    BY <2>4, SettlingKeeps
  <2>5. CASE Apply(w)
    BY <2>5, ApplyKeeps
  <2> QED BY <1>3, <2>1, <2>2, <2>3, <2>4, <2>5 DEF WorkerProceeds
<1>4. ASSUME NEW r \in Reconcilers, ReconcilerProceeds(r) PROVE Keeps
  <2>1. CASE \E answer \in Answers \cup {"indeterminate"} : AskExecutor(r, answer)
    BY <2>1, <1>1 DEF AskExecutor, stageVars, outside
  <2>2. CASE StoreReconciled(r)
    BY <2>2, StoreReconciledKeeps
  <2>3. CASE AmendReconciled(r) \/ RecordReconciled(r)
    BY <2>3, ReconcilerPublishKeeps
  <2> QED BY <1>4, <2>1, <2>2, <2>3 DEF ReconcilerProceeds
<1>5. CASE \/ UNCHANGED vars \/ RunEnds \/ Restart
           \/ \E w \in Workers : WorkerStops(w) \/ \E k \in Commands : LoadStage(w, k)
           \/ \E k \in Commands : PlanReconcile(k)
           \/ \E r \in Reconcilers : ReconcilerStops(r) \/ \E k \in Commands : ReadClaim(r, k)
  BY <1>5, <1>1 DEF vars, stageVars, outside, commitVars, RunEnds, Restart, WorkerStops,
     LoadStage, PlanReconcile, ReconcilerStops, ReadClaim
<1>6. ASSUME NEW k \in Commands, NEW end \in Answers \cup {"indeterminate"},
             AttemptEnds(k, end)
      PROVE  Keeps
  BY <1>6, AttemptKeeps
<1> QED BY <1>2, <1>3, <1>4, <1>5, <1>6 DEF Next

\* Staging, executing and repairing an effect, with every crash, redelivery, lost
\* answer, attempt that outlives its worker and race between them, implement the promise
\* ApprovedEffect: one approval per revision, one try per approval, one true outcome,
\* and nothing announced but that outcome and a drift found before any claim.
THEOREM EffectImplementsPromise == Spec => ImplementsApprovedEffect
<1>1. Init => CommitInv /\ Effect!EffectInit
  BY CommitInit, PromiseInit
<1>2. CommitInv /\ [Next]_vars => CommitInv'
  BY CommitNext
<1>3. CommitInv /\ CommitInv' /\ [Next]_vars => [Effect!EffectNext]_(Effect!effectVars)
  BY StepKeeps DEF Keeps, Promised, Effect!effectVars
<1> QED BY <1>1, <1>2, <1>3, PTL DEF Spec, ImplementsApprovedEffect, Effect!EffectSpec
=============================================================================
