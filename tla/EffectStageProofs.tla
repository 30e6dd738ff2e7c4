-------------------------- MODULE EffectStageProofs --------------------------
(***************************************************************************)
(* Proofs about EffectStage, for any number of clients, lanes and          *)
(* revisions.                                                              *)
(***************************************************************************)
EXTENDS EffectStage, TLAPS

(* The inductive invariant *)

\* A revision is only asked for below the bound, a command enqueued for an approval.
RequestInv ==
    \A c \in Clients :
        /\ clients[c].op = "revise" => clients[c].rev < MaxRevision
        /\ clients[c].pc = "enqueue" => clients[c].op = "approve"

\* A stage carries a decision exactly while it is closed, and the decision is the
\* ledger's, for this revision, and what the status says.
DecisionInv ==
    /\ stage.decision = NoDecision <=> stage.status \in Open
    /\ stage.decision # NoDecision =>
        /\ stage.decision \in ledger
        /\ stage.decision.rev = stage.rev
        /\ stage.status = StatusOf(stage.decision.kind)
        /\ stage.decision.lane = PolicyLane => stage.policy = "AUTO"
    /\ stage.status = "APPROVED" => Ready(stage)

\* Nothing has governed a revision to come; the current one is governed by the
\* decision the stage carries; no revision was governed by two.
AuthorityInv ==
    /\ \A r \in Revisions : r > stage.rev => authority[r] = {}
    /\ \A d \in authority[stage.rev] : d = stage.decision
    /\ stage.decision # NoDecision => stage.decision \in authority[stage.rev]
    /\ \A r \in Revisions : \A d, e \in authority[r] : d = e

StageInv == StageTypeOK /\ RequestInv /\ DecisionInv /\ AuthorityInv

-----------------------------------------------------------------------------
\* A command is queued for a decision.
LEMMA CommandsAreDecisions == Commands \subseteq Decisions
BY DEF Commands

\* The decision the policy makes when it stages is one the outbox can hold.
LEMMA PolicyDecision == [lane |-> PolicyLane, rev |-> 1, kind |-> "approve"] \in Commands
BY StageAssumption DEF Commands, Decisions, Lanes, Revisions, Kinds

\* What a fold step returns is a stage again.
LEMMA FoldTypes ==
    ASSUME NEW st \in Stages, NEW d \in Decisions, NEW r \in Revisions
    PROVE  /\ ApplyDecision(st, d) \in Stages
           /\ ApplyRevision(st, r) \in Stages
           /\ ApplyBinding(st, r) \in Stages
<1>1. StatusOf(d.kind) \in StageStatuses
  BY DEF Decisions, Kinds, StatusOf, StageStatuses
<1>2. ApplyDecision(st, d) \in Stages
  BY <1>1 DEF ApplyDecision, Stages
<1>3. ApplyRevision(st, r) \in Stages
  <2>1. \A s \in StageStatuses :
          [st EXCEPT !.rev = r, !.decision = NoDecision, !.bound = 0, !.status = s] \in Stages
    <3> SUFFICES ASSUME NEW s \in StageStatuses
                 PROVE [[[[st EXCEPT !.rev = r] EXCEPT !.decision = NoDecision]
                              EXCEPT !.bound = 0] EXCEPT !.status = s] \in Stages
      OBVIOUS
    <3>1. PICK x \in Stages : x = [st EXCEPT !.rev = r]
      BY DEF Stages
    <3>2. PICK y \in Stages : y = [x EXCEPT !.decision = NoDecision]
      BY DEF Stages
    <3>b. 0 \in 0..MaxRevision
      BY StageAssumption
    <3>3. PICK z \in Stages : z = [y EXCEPT !.bound = 0]
      BY <3>b DEF Stages
    <3>4. [z EXCEPT !.status = s] \in Stages
      BY DEF Stages
    <3> QED BY <3>1, <3>2, <3>3, <3>4
  <2>2. (IF st.status = "APPROVED" THEN "HELD" ELSE "REVISED") \in StageStatuses
    BY DEF StageStatuses, Open
  <2> QED BY <2>1, <2>2 DEF ApplyRevision
<1>4. ApplyBinding(st, r) \in Stages
  BY StageAssumption DEF ApplyBinding, Stages, Revisions
<1> QED BY <1>2, <1>3, <1>4

\* stage() leaves the invariant.
LEMMA StageInitInv == StageInit => StageInv
<1> SUFFICES ASSUME StageInit PROVE StageInv
  OBVIOUS
<1> USE StageAssumption, NoDecisionAssumption
<1>1. stage \in Stages /\ stage.rev = 1 /\ stage.decision = NoDecision
      /\ stage.status \in {"PROPOSED", "HELD"}
  BY DEF StageInit
<1>2. IdleClient \in ClientStates
  BY DEF IdleClient, ClientStates, Revisions, Lanes
<1>3. StageTypeOK
  BY <1>1, <1>2 DEF StageInit, StageTypeOK
<1>4. RequestInv
  BY DEF StageInit, RequestInv, IdleClient
<1>5. DecisionInv
  BY <1>1 DEF DecisionInv, Open
<1>6. AuthorityInv
  BY <1>1 DEF StageInit, AuthorityInv, Revisions
<1> QED BY <1>3, <1>4, <1>5, <1>6 DEF StageInv

-----------------------------------------------------------------------------
\* Appending an event keeps the invariant when the stage it folds to carries a
\* decision that the ledger holds, and overrides none.
LEMMA FoldKeepsAuthority ==
    ASSUME StageInv, NEW st \in Stages, Fold(st), st.rev >= stage.rev,
           st.rev = stage.rev /\ stage.decision # NoDecision => st.decision = stage.decision
    PROVE  AuthorityInv' /\ authority' \in [Revisions -> SUBSET Decisions]
<1> USE StageAssumption, NoDecisionAssumption
<1>1. /\ stage \in Stages /\ stage' = st /\ st.rev \in Revisions /\ stage.rev \in Revisions
      /\ authority \in [Revisions -> SUBSET Decisions]
      /\ st.decision \in Decisions \cup {NoDecision}
      /\ \A r \in Revisions : r \in Nat
  BY DEF StageInv, StageTypeOK, Stages, Fold, Revisions
<1>2. \A d \in authority[st.rev] : d = st.decision
  <2>1. CASE st.rev = stage.rev
    <3>1. ASSUME NEW d \in authority[st.rev] PROVE d = st.decision
      <4>1. d = stage.decision /\ d \in Decisions
        BY <2>1, <1>1 DEF StageInv, AuthorityInv
      <4> QED BY <4>1, <2>1
    <3> QED BY <3>1
  <2>2. CASE st.rev # stage.rev
    BY <2>2, <1>1 DEF StageInv, AuthorityInv
  <2> QED BY <2>1, <2>2
<1>3. CASE st.decision = NoDecision
  BY <1>1, <1>2, <1>3 DEF Fold, StageInv, AuthorityInv
<1>4. CASE st.decision # NoDecision
  <2>1. authority' = [authority EXCEPT ![st.rev] = @ \cup {st.decision}]
    BY <1>4 DEF Fold
  <2>2. authority'[st.rev] = authority[st.rev] \cup {st.decision}
        /\ \A r \in Revisions : r # st.rev => authority'[r] = authority[r]
    BY <2>1, <1>1
  <2> QED BY <1>1, <1>2, <1>4, <2>1, <2>2 DEF StageInv, AuthorityInv
<1> QED BY <1>3, <1>4

\* A decision event that is in the ledger once it is appended.
LEMMA ApplyDecisionInv ==
    ASSUME NEW d \in Decisions, StageInv, d \in ledger', ledger \subseteq ledger',
           Fold(ApplyDecision(stage, d))
    PROVE  DecisionInv' /\ AuthorityInv' /\ stage' \in Stages
           /\ authority' \in [Revisions -> SUBSET Decisions]
<1> USE StageAssumption, NoDecisionAssumption
<1> DEFINE st == ApplyDecision(stage, d)
<1>1. stage \in Stages /\ st \in Stages /\ stage' = st
  BY FoldTypes, 1 \in Revisions DEF StageInv, StageTypeOK, Fold, Revisions
<1>2. CASE /\ stage.status \in Open /\ d.rev = stage.rev
           /\ (d.lane = PolicyLane => stage.policy = "AUTO")
           /\ (d.kind = "approve" => Ready(stage))
  <2>1. /\ st.status = StatusOf(d.kind) /\ st.decision = d /\ st.rev = stage.rev
        /\ st.policy = stage.policy /\ st.required = stage.required /\ st.bound = stage.bound
    BY <1>1, <1>2 DEF ApplyDecision, Stages
  <2>2. stage.decision = NoDecision
    BY <1>2 DEF StageInv, DecisionInv
  <2>3. AuthorityInv' /\ authority' \in [Revisions -> SUBSET Decisions]
    <3>1. st.rev >= stage.rev
      BY <2>1, <1>1 DEF Stages, Revisions
    <3> HIDE DEF st
    <3> QED BY <1>1, <2>1, <2>2, <3>1, FoldKeepsAuthority DEF st
  <2>4. StatusOf(d.kind) \notin Open /\ (StatusOf(d.kind) = "APPROVED" => d.kind = "approve")
    BY DEF Decisions, Kinds, StatusOf, Open
  <2>5. DecisionInv'
    <3> HIDE DEF st
    <3> QED BY <1>1, <1>2, <2>1, <2>4 DEF DecisionInv, Ready
  <2> QED BY <1>1, <2>3, <2>5
<1>3. CASE ~(/\ stage.status \in Open /\ d.rev = stage.rev
             /\ (d.lane = PolicyLane => stage.policy = "AUTO")
             /\ (d.kind = "approve" => Ready(stage)))
  <2>1. st = stage
    BY <1>3 DEF ApplyDecision
  <2>2. AuthorityInv' /\ authority' \in [Revisions -> SUBSET Decisions]
    BY <1>1, <2>1, FoldKeepsAuthority DEF Stages, Revisions
  <2> HIDE DEF st
  <2> QED BY <1>1, <2>1, <2>2 DEF StageInv, DecisionInv, Ready
<1> QED BY <1>2, <1>3

\* _apply_revision reopens a stage at a revision nothing has governed.
LEMMA ApplyRevisionInv ==
    ASSUME NEW r \in Revisions, StageInv, ledger' = ledger, Fold(ApplyRevision(stage, r))
    PROVE  DecisionInv' /\ AuthorityInv' /\ stage' \in Stages
           /\ authority' \in [Revisions -> SUBSET Decisions]
<1> USE StageAssumption, NoDecisionAssumption
<1> DEFINE st == ApplyRevision(stage, r)
<1>1. stage \in Stages /\ st \in Stages /\ stage' = st
  <2>1. stage \in Stages /\ stage' = st
    BY DEF StageInv, StageTypeOK, Fold
  <2>2. st \in Stages
    <3>1. PICK d \in Decisions : TRUE
      BY PolicyDecision DEF Commands
    <3> QED BY <2>1, <3>1, FoldTypes
  <2> QED BY <2>1, <2>2
<1>2. CASE stage.status # "CANCELLED" /\ r = stage.rev + 1
  <2>1. /\ st.rev = stage.rev + 1 /\ st.decision = NoDecision
        /\ st.status \in Open
    BY <1>1, <1>2 DEF ApplyRevision, Stages, Open
  <2>2. stage.rev \in Nat
    BY <1>1 DEF Stages, Revisions
  <2>3. AuthorityInv' /\ authority' \in [Revisions -> SUBSET Decisions]
    <3> HIDE DEF st
    <3> QED BY <1>1, <2>1, <2>2, FoldKeepsAuthority DEF st
  <2>4. DecisionInv'
    <3> HIDE DEF st
    <3> QED BY <1>1, <2>1 DEF DecisionInv, Open
  <2> QED BY <1>1, <2>3, <2>4
<1>3. CASE ~(stage.status # "CANCELLED" /\ r = stage.rev + 1)
  <2>1. st = stage
    BY <1>3 DEF ApplyRevision
  <2>2. AuthorityInv' /\ authority' \in [Revisions -> SUBSET Decisions]
    BY <1>1, <2>1, FoldKeepsAuthority DEF Stages, Revisions
  <2> HIDE DEF st
  <2> QED BY <1>1, <2>1, <2>2 DEF StageInv, DecisionInv, Ready
<1> QED BY <1>2, <1>3

\* _apply_projection_binding changes what is bound and nothing of the decision.
LEMMA ApplyBindingInv ==
    ASSUME NEW r \in Revisions, StageInv, ledger' = ledger, Fold(ApplyBinding(stage, r))
    PROVE  DecisionInv' /\ AuthorityInv' /\ stage' \in Stages
           /\ authority' \in [Revisions -> SUBSET Decisions]
<1> USE StageAssumption, NoDecisionAssumption
<1> DEFINE st == ApplyBinding(stage, r)
<1>1. stage \in Stages /\ stage' = st
  BY DEF StageInv, StageTypeOK, Fold
<1>2. /\ st \in Stages /\ st.rev = stage.rev /\ st.decision = stage.decision
      /\ st.status = stage.status /\ st.policy = stage.policy
      /\ st.required = stage.required /\ (Ready(stage) => Ready(st))
  BY <1>1 DEF ApplyBinding, Stages, Revisions, Ready
<1>3. AuthorityInv' /\ authority' \in [Revisions -> SUBSET Decisions]
  <2>1. stage.rev \in Nat
    BY <1>1 DEF Stages, Revisions
  <2> HIDE DEF st
  <2> QED BY <1>1, <1>2, <2>1, FoldKeepsAuthority DEF st
<1>4. DecisionInv'
  <2> HIDE DEF st
  <2> QED BY <1>1, <1>2 DEF StageInv, DecisionInv, Ready
<1> QED BY <1>1, <1>2, <1>3, <1>4

-----------------------------------------------------------------------------
\* A request that finishes, or begins at the stage's revision, keeps the requests
\* well formed.
LEMMA FinishKeeps ==
    ASSUME StageInv, NEW c \in Clients, Finish(c)
    PROVE  clients' \in [Clients -> ClientStates] /\ RequestInv'
<1>1. IdleClient \in ClientStates /\ IdleClient.op # "revise" /\ IdleClient.pc # "enqueue"
  BY StageAssumption DEF IdleClient, ClientStates, Revisions, Lanes
<1> QED BY <1>1 DEF Finish, StageInv, StageTypeOK, RequestInv

\* What decide, revise and bind_projection check before they append is only noted.
LEMMA BeginKeeps ==
    ASSUME StageInv, NEW c \in Clients, NEW op \in Kinds \cup {"revise", "bind"},
           NEW lane \in Lanes, Begin(c, op, lane), op = "revise" => stage.rev < MaxRevision
    PROVE  clients' \in [Clients -> ClientStates] /\ RequestInv'
<1>1. [pc |-> "append", op |-> op, rev |-> stage.rev, lane |-> lane] \in ClientStates
  BY DEF StageInv, StageTypeOK, Stages, ClientStates
<1> QED BY <1>1 DEF Begin, StageInv, StageTypeOK, RequestInv

\* What a request appends or enqueues is a decision.
LEMMA RequestTypes ==
    ASSUME StageTypeOK, NEW c \in Clients, clients[c].op \in Kinds
    PROVE  Request(c) \in Decisions /\ Request(c).kind = clients[c].op
BY DEF StageTypeOK, ClientStates, Request, Decisions

\* A step that leaves fold, ledger and outbox alone.
LEMMA QuietStep ==
    ASSUME StageInv, UNCHANGED <<stage, ledger, authority>>,
           queued' \in SUBSET Commands, clients' \in [Clients -> ClientStates], RequestInv'
    PROVE  StageInv'
BY DEF StageInv, StageTypeOK, DecisionInv, AuthorityInv, Ready

\* Every step of staging keeps the invariant.
LEMMA StageNextInv == StageInv /\ [StageNext]_stageVars => StageInv'
<1> SUFFICES ASSUME StageInv, [StageNext]_stageVars PROVE StageInv'
  OBVIOUS
<1>0. StageTypeOK
  BY DEF StageInv
<1>1. CASE UNCHANGED stageVars
  <2>1. queued' \in SUBSET Commands /\ clients' \in [Clients -> ClientStates] /\ RequestInv'
    BY <1>1 DEF stageVars, StageInv, StageTypeOK, RequestInv
  <2> QED BY <1>1, <2>1, QuietStep DEF stageVars
<1>2. CASE StageNext
  <2>0. PICK c \in Clients :
          \/ \E kind \in Kinds, lane \in Lanes : BeginDecide(c, kind, lane)
          \/ BeginRevise(c) \/ BeginBind(c)
          \/ AppendDecision(c) \/ ConflictingDecision(c) \/ EnqueueAfterDecision(c)
          \/ AppendRevision(c) \/ AppendBinding(c)
          \/ ClientFails(c)
    BY <1>2 DEF StageNext
  <2>1. ASSUME NEW kind \in Kinds, NEW lane \in Lanes, BeginDecide(c, kind, lane)
        PROVE  StageInv'
    <3>1. clients' \in [Clients -> ClientStates] /\ RequestInv'
      BY <2>1, BeginKeeps DEF BeginDecide, Kinds
    <3> QED BY <2>1, <3>1, <1>0, QuietStep DEF BeginDecide, StageTypeOK
  <2>2. CASE BeginRevise(c)
    <3>1. clients' \in [Clients -> ClientStates] /\ RequestInv'
      BY <2>2, BeginKeeps DEF BeginRevise, Lanes
    <3> QED BY <2>2, <3>1, <1>0, QuietStep DEF BeginRevise, StageTypeOK
  <2>3. CASE BeginBind(c)
    <3>1. clients' \in [Clients -> ClientStates] /\ RequestInv'
      BY <2>3, BeginKeeps DEF BeginBind, Lanes
    <3> QED BY <2>3, <3>1, <1>0, QuietStep DEF BeginBind, StageTypeOK
  <2>4. CASE AppendDecision(c)
    <3>1. Request(c) \in Decisions
      BY <2>4, <1>0, RequestTypes DEF AppendDecision
    <3>2. DecisionInv' /\ AuthorityInv' /\ stage' \in Stages
          /\ authority' \in [Revisions -> SUBSET Decisions]
      BY <2>4, <3>1, ApplyDecisionInv DEF AppendDecision
    <3>3. clients' \in [Clients -> ClientStates] /\ RequestInv'
      <4>1. CASE clients[c].op = "approve"
        <5>1. clients' = [clients EXCEPT ![c].pc = "enqueue"]
          BY <2>4, <4>1 DEF AppendDecision
        <5>2. [clients[c] EXCEPT !.pc = "enqueue"] \in ClientStates
          BY <1>0 DEF StageTypeOK, ClientStates
        <5>3. clients' \in [Clients -> ClientStates]
          BY <5>1, <5>2, <1>0 DEF StageTypeOK
        <5>4. \A b \in Clients : clients'[b].op = clients[b].op /\ clients'[b].rev = clients[b].rev
                                 /\ (b # c => clients'[b].pc = clients[b].pc)
          BY <5>1, <1>0 DEF StageTypeOK, ClientStates
        <5> QED BY <4>1, <5>3, <5>4 DEF StageInv, RequestInv
      <4>2. CASE clients[c].op # "approve"
        BY <2>4, <4>2, FinishKeeps DEF AppendDecision
      <4> QED BY <4>1, <4>2
    <3>4. ledger' \in SUBSET Decisions /\ queued' \in SUBSET Commands
      BY <2>4, <3>1, <1>0 DEF AppendDecision, StageTypeOK
    <3> QED BY <3>2, <3>3, <3>4 DEF StageInv, StageTypeOK
  <2>5. CASE ConflictingDecision(c)
    BY <2>5, <1>0, FinishKeeps, QuietStep DEF ConflictingDecision, StageTypeOK
  <2>6. CASE EnqueueAfterDecision(c)
    <3>1. Request(c) \in Commands
      BY <2>6, <1>0, RequestTypes DEF EnqueueAfterDecision, Commands, Kinds, StageInv, RequestInv
    <3>2. queued' \in SUBSET Commands
      BY <2>6, <3>1, <1>0 DEF EnqueueAfterDecision, StageTypeOK
    <3> QED BY <2>6, <3>2, FinishKeeps, QuietStep DEF EnqueueAfterDecision
  <2>7. CASE AppendRevision(c)
    <3>1. clients[c].rev + 1 \in Revisions
      BY <2>7, StageAssumption
      DEF AppendRevision, StageInv, StageTypeOK, RequestInv, ClientStates, Revisions
    <3>2. DecisionInv' /\ AuthorityInv' /\ stage' \in Stages
          /\ authority' \in [Revisions -> SUBSET Decisions]
      BY <2>7, <3>1, ApplyRevisionInv DEF AppendRevision
    <3>3. clients' \in [Clients -> ClientStates] /\ RequestInv'
      BY <2>7, FinishKeeps DEF AppendRevision
    <3> QED BY <2>7, <3>2, <3>3, <1>0 DEF AppendRevision, StageInv, StageTypeOK
  <2>8. CASE AppendBinding(c)
    <3>1. clients[c].rev \in Revisions
      BY <1>0 DEF StageTypeOK, ClientStates
    <3>2. DecisionInv' /\ AuthorityInv' /\ stage' \in Stages
          /\ authority' \in [Revisions -> SUBSET Decisions]
      BY <2>8, <3>1, ApplyBindingInv DEF AppendBinding
    <3>3. clients' \in [Clients -> ClientStates] /\ RequestInv'
      BY <2>8, FinishKeeps DEF AppendBinding
    <3> QED BY <2>8, <3>2, <3>3, <1>0 DEF AppendBinding, StageInv, StageTypeOK
  <2>9. CASE ClientFails(c)
    BY <2>9, <1>0, FinishKeeps, QuietStep DEF ClientFails, StageTypeOK
  <2> QED BY <2>0, <2>1, <2>2, <2>3, <2>4, <2>5, <2>6, <2>7, <2>8, <2>9
<1> QED BY <1>1, <1>2

-----------------------------------------------------------------------------
\* The state of the stage, its ledger and its requests is well formed in every
\* reachable state, for any clients, lanes and revision bound.
THEOREM StageTypeCorrect == StageSpec => []StageTypeOK
<1>1. StageInv => StageTypeOK
  BY DEF StageInv
<1> QED BY StageInitInv, StageNextInv, <1>1, PTL DEF StageSpec

\* "concurrent approve/reject yields one winner": EffectStageFold lets at most one
\* decision govern a revision, whatever order requests append in.
THEOREM OneAuthority == StageSpec => []OneAuthorityPerRevision
<1>1. StageInv => OneAuthorityPerRevision
  BY DEF StageInv, AuthorityInv, OneAuthorityPerRevision
<1> QED BY StageInitInv, StageNextInv, <1>1, PTL DEF StageSpec

\* An approval in force is an approve event of the current revision and its bound
\* projection, so no edit is ever committed on the approval of what it replaced.
THEOREM ApprovalIsPinned == StageSpec => []ApprovalPinned
<1>1. StageInv => ApprovalPinned
  <2> SUFFICES ASSUME StageInv, stage.status = "APPROVED" PROVE ApprovalPinned
    BY DEF ApprovalPinned
  <2>1. stage.decision # NoDecision /\ stage.decision \in Decisions
    BY DEF StageInv, StageTypeOK, Stages, DecisionInv, Open
  <2>2. stage.decision.kind = "approve"
    BY <2>1 DEF StageInv, DecisionInv, StatusOf, Decisions, Kinds
  <2> QED BY <2>1, <2>2 DEF StageInv, DecisionInv, ApprovalPinned, Commands
<1> QED BY StageInitInv, StageNextInv, <1>1, PTL DEF StageSpec

\* No step of any request changes a cancelled stage.
THEOREM CancelledStaysCancelled == StageSpec => CancelledIsFinal
<1>1. StageInv /\ [StageNext]_stageVars => (stage.status = "CANCELLED" => stage' = stage)
  <2> SUFFICES ASSUME StageInv, [StageNext]_stageVars, stage.status = "CANCELLED"
               PROVE stage' = stage
    OBVIOUS
  <2>1. \A d : ApplyDecision(stage, d) = stage
    BY DEF ApplyDecision, Open
  <2>2. \A r : ApplyRevision(stage, r) = stage /\ ApplyBinding(stage, r) = stage
    BY DEF ApplyRevision, ApplyBinding
  <2> QED BY <2>1, <2>2
          DEF StageNext, stageVars, BeginDecide, BeginRevise, BeginBind, AppendDecision,
              ConflictingDecision, EnqueueAfterDecision, AppendRevision, AppendBinding,
              ClientFails, Fold
<1> QED BY StageInitInv, StageNextInv, <1>1, PTL DEF StageSpec, CancelledIsFinal
=============================================================================
