----------------------------- MODULE EffectStage -----------------------------
(***************************************************************************)
(* One staged external effect: EffectStager (stage, bind_projection,       *)
(* revise, decide) over the append-only run ledger, and EffectStageFold,   *)
(* which every reader runs over that ledger.                               *)
(*                                                                         *)
(* The fold is incremental, so the model keeps the folded state and        *)
(* applies to it each event as it is appended.  Every stager method reads  *)
(* the fold, awaits, and appends; two requests interleave between the two. *)
(* The idempotency key of a decision is derived from the lane it came      *)
(* through, the revision and the kind (EffectStageDecisionService.         *)
(* _decision_key), so a decision event is identified with that triple, and *)
(* so are the commit command and the claim that carry the key.             *)
(***************************************************************************)
EXTENDS Naturals, FiniteSets

CONSTANTS
    Clients,        \* concurrent API requests and policy calls
    UserLanes,      \* the routes a user's decision comes through
    PolicyLane,     \* decisions the AUTO policy records
    MaxRevision,    \* bound: revisions of the stage
    NoDecision

ASSUME StageAssumption ==
    /\ MaxRevision \in Nat \ {0}
    /\ PolicyLane \notin UserLanes

Lanes == UserLanes \cup {PolicyLane}
Revisions == 1..MaxRevision
Kinds == {"approve", "reject", "cancel"}
Decisions == [lane : Lanes, rev : Revisions, kind : Kinds]
Commands == {d \in Decisions : d.kind = "approve"}

ASSUME NoDecisionAssumption == NoDecision \notin Decisions

VARIABLES
    stage,      \* EffectStageFold.fold of the ledger
    ledger,     \* the decision events appended
    clients,    \* what each request is doing
    queued,     \* commit commands in the outbox; delivery is at least once
    authority   \* history: the decisions that ever governed each revision

stageVars == <<stage, ledger, clients, queued, authority>>

Open == {"PROPOSED", "HELD", "REVISED"}
StageStatuses == Open \cup {"APPROVED", "REJECTED", "CANCELLED"}
Stages == [rev : Revisions, status : StageStatuses, policy : {"AUTO", "HOLD"},
           required : BOOLEAN, bound : 0..MaxRevision, decision : Decisions \cup {NoDecision}]

IdleClient == [pc |-> "idle", op |-> "none", rev |-> 1, lane |-> PolicyLane]
ClientStates == [pc : {"idle", "append", "enqueue"},
                 op : Kinds \cup {"none", "revise", "bind"},
                 rev : Revisions, lane : Lanes]

StageTypeOK ==
    /\ stage \in Stages
    /\ ledger \in SUBSET Decisions
    /\ clients \in [Clients -> ClientStates]
    /\ queued \in SUBSET Commands
    /\ authority \in [Revisions -> SUBSET Decisions]

\* EffectStager.stage: revision one of a policy that is not BLOCK.
StageInit ==
    /\ stage \in {s \in Stages : /\ s.rev = 1 /\ s.bound = 0 /\ s.decision = NoDecision
                                 /\ s.status = IF s.policy = "AUTO" THEN "PROPOSED" ELSE "HELD"}
    /\ ledger = {}
    /\ clients = [c \in Clients |-> IdleClient]
    /\ queued = {}
    /\ authority = [r \in Revisions |-> {}]

-----------------------------------------------------------------------------
(* EffectStageFold *)

\* EffectStageState.approval_ready
Ready(st) == st.required => st.bound = st.rev

StatusOf(kind) ==
    CASE kind = "approve" -> "APPROVED"
      [] kind = "reject"  -> "REJECTED"
      [] kind = "cancel"  -> "CANCELLED"

\* Mutant: a later decision of the same revision overrides the first.
ApplyDecisionLast(st, d) ==
    IF d.rev = st.rev
    THEN [st EXCEPT !.status = StatusOf(d.kind), !.decision = d]
    ELSE st

\* _apply_decision: the first decision of the current revision wins.
ApplyDecision(st, d) ==
    IF /\ st.status \in Open
       /\ d.rev = st.rev
       /\ (d.lane = PolicyLane => st.policy = "AUTO")
       /\ (d.kind = "approve" => Ready(st))
    THEN [st EXCEPT !.status = StatusOf(d.kind), !.decision = d]
    ELSE st

\* Mutant: a revision that raced a cancellation reopens the stage.
ApplyRevisionReopens(st, r) ==
    IF r = st.rev + 1
    THEN [st EXCEPT !.rev = r, !.decision = NoDecision, !.bound = 0,
                    !.status = IF st.status = "APPROVED" THEN "HELD" ELSE "REVISED"]
    ELSE st

\* Mutant: an edit leaves the approval of the old content standing.
ApplyRevisionKeepsApproval(st, r) ==
    IF st.status # "CANCELLED" /\ r = st.rev + 1
    THEN [st EXCEPT !.rev = r,
                    !.status = IF st.status = "APPROVED" THEN "APPROVED" ELSE "REVISED"]
    ELSE st

\* _apply_revision: the next revision clears decision and binding, and withdraws
\* an approval.
ApplyRevision(st, r) ==
    IF st.status # "CANCELLED" /\ r = st.rev + 1
    THEN [st EXCEPT !.rev = r, !.decision = NoDecision, !.bound = 0,
                    !.status = IF st.status = "APPROVED" THEN "HELD" ELSE "REVISED"]
    ELSE st

\* _apply_projection_binding
ApplyBinding(st, r) ==
    IF st.required /\ st.status # "CANCELLED" /\ r = st.rev /\ st.bound = 0
    THEN [st EXCEPT !.bound = r] ELSE st

\* Appends one event's effect on the fold and remembers what governed.
Fold(st) ==
    /\ stage' = st
    /\ authority' = IF st.decision = NoDecision THEN authority
                    ELSE [authority EXCEPT ![st.rev] = @ \cup {st.decision}]

-----------------------------------------------------------------------------
(* EffectStager: read the fold, then append *)

Begin(c, op, lane) ==
    clients' = [clients EXCEPT ![c] =
                   [pc |-> "append", op |-> op, rev |-> stage.rev, lane |-> lane]]
Finish(c) == clients' = [clients EXCEPT ![c] = IdleClient]

\* decide, up to the append.  A stage that is already decided is returned or
\* refused without a new event, and without a command.
BeginDecide(c, kind, lane) ==
    /\ clients[c].pc = "idle"
    /\ stage.status \in Open
    /\ kind = "approve" => Ready(stage)
    /\ lane = PolicyLane => stage.policy = "AUTO" /\ kind = "approve"
    /\ Begin(c, kind, lane)
    /\ UNCHANGED <<stage, ledger, queued, authority>>

BeginRevise(c) ==
    /\ clients[c].pc = "idle"
    /\ stage.status # "CANCELLED"
    /\ stage.rev < MaxRevision
    /\ \E lane \in UserLanes : Begin(c, "revise", lane)
    /\ UNCHANGED <<stage, ledger, queued, authority>>

BeginBind(c) ==
    /\ clients[c].pc = "idle"
    /\ stage.required /\ stage.bound = 0 /\ stage.status \in Open
    /\ Begin(c, "bind", PolicyLane)
    /\ UNCHANGED <<stage, ledger, queued, authority>>

Request(c) == [lane |-> clients[c].lane, rev |-> clients[c].rev, kind |-> clients[c].op]

\* Mutant: every decision is followed by a commit command.
AppendDecisionEnqueuesAll(c) ==
    /\ clients[c].pc = "append" /\ clients[c].op \in Kinds
    /\ Request(c) \notin ledger
    /\ ledger' = ledger \cup {Request(c)}
    /\ Fold(ApplyDecision(stage, Request(c)))
    /\ clients' = [clients EXCEPT ![c].pc = "enqueue"]
    /\ UNCHANGED queued

\* The append of decide.  A key that is already in the ledger carries another
\* decided_at, so the redelivery check answers it with a conflict.
AppendDecision(c) ==
    /\ clients[c].pc = "append" /\ clients[c].op \in Kinds
    /\ Request(c) \notin ledger
    /\ ledger' = ledger \cup {Request(c)}
    /\ Fold(ApplyDecision(stage, Request(c)))
    /\ IF clients[c].op = "approve"
       THEN clients' = [clients EXCEPT ![c].pc = "enqueue"]
       ELSE Finish(c)
    /\ UNCHANGED queued

ConflictingDecision(c) ==
    /\ clients[c].pc = "append" /\ clients[c].op \in Kinds
    /\ Request(c) \in ledger
    /\ Finish(c)
    /\ UNCHANGED <<stage, ledger, queued, authority>>

\* The command is enqueued for the event that was appended, whether or not the
\* fold let that event win.
EnqueueAfterDecision(c) ==
    /\ clients[c].pc = "enqueue"
    /\ queued' = queued \cup {Request(c)}
    /\ Finish(c)
    /\ UNCHANGED <<stage, ledger, authority>>

AppendRevision(c) ==
    /\ clients[c].pc = "append" /\ clients[c].op = "revise"
    /\ Fold(ApplyRevision(stage, clients[c].rev + 1))
    /\ Finish(c)
    /\ UNCHANGED <<ledger, queued>>

AppendBinding(c) ==
    /\ clients[c].pc = "append" /\ clients[c].op = "bind"
    /\ Fold(ApplyBinding(stage, clients[c].rev))
    /\ Finish(c)
    /\ UNCHANGED <<ledger, queued>>

\* The request dies between two of its steps.
ClientFails(c) ==
    /\ clients[c].pc # "idle"
    /\ Finish(c)
    /\ UNCHANGED <<stage, ledger, queued, authority>>

ClientProceeds(c) ==
    \/ AppendDecision(c) \/ ConflictingDecision(c) \/ EnqueueAfterDecision(c)
    \/ AppendRevision(c) \/ AppendBinding(c)

StageNext ==
    \E c \in Clients :
        \/ \E kind \in Kinds, lane \in Lanes : BeginDecide(c, kind, lane)
        \/ BeginRevise(c) \/ BeginBind(c)
        \/ AppendDecision(c) \/ ConflictingDecision(c) \/ EnqueueAfterDecision(c)
        \/ AppendRevision(c) \/ AppendBinding(c)
        \/ ClientFails(c)

StageSpec == StageInit /\ [][StageNext]_stageVars

\* A request that is not killed goes on to its next step.
StageLiveSpec == StageSpec /\ \A c \in Clients : WF_stageVars(ClientProceeds(c))

-----------------------------------------------------------------------------
(* Properties *)

\* However approve, reject, cancel, revise and bind interleave, one revision is
\* governed by at most one decision (_apply_decision: first decision wins).
OneAuthorityPerRevision ==
    \A r \in Revisions : \A d, e \in authority[r] : d = e

\* An approval in force is an approve event in the ledger for the current revision
\* and, where a projection is required, for the projection bound to that revision:
\* an edit after the approval withdraws it (_apply_revision).
ApprovalPinned ==
    stage.status = "APPROVED" =>
        /\ stage.decision \in ledger \cap Commands
        /\ stage.decision.rev = stage.rev
        /\ Ready(stage)
        /\ stage.decision.lane = PolicyLane => stage.policy = "AUTO"

\* A cancelled stage is never reopened, also by an edit or a binding that read the
\* fold before the cancellation landed.
CancelledIsFinal == [][stage.status = "CANCELLED" => stage' = stage]_stageVars

\* "decision/outbox crash injection never produces an unqueued durable approval":
\* an approval in force reaches the outbox unless an edit withdraws it.
ApprovalReachesOutbox ==
    \A d \in Commands :
        (stage.status = "APPROVED" /\ stage.decision = d) ~>
            (d \in queued \/ stage.status # "APPROVED" \/ stage.decision # d)
=============================================================================
