-------------------------- MODULE EffectRefinement --------------------------
(* EffectCommit implements ApprovedEffect: the state of the promise, read off *)
(* the fold, the claim store, the ledger and the outside world.               *)
EXTENDS EffectCommit

\* The keys whose decision the fold let govern its revision.
Governing == {k \in Commands : k \in authority[k.rev]}

\* The outcome a claim puts on record, and the outcomes of every effect.applied and
\* effect.reconciled in the ledger, those of a claim and that of a drift before it.
OutcomeOf(claim) == IF claim.state \in Closed THEN claim.outcome ELSE "open"
Announced(f) == ClaimResults(f) \cup (IF f.drift THEN {"precondition_drift"} ELSE {})

Effect == INSTANCE ApprovedEffect WITH
    Keys <- Commands,
    Rev <- [k \in Commands |-> k.rev],
    approved <- Governing,
    tried <- applies,
    world <- landed,
    settled <- [k \in Commands |-> OutcomeOf(claims[k])],
    told <- [k \in Commands |-> Announced(facts[k])]

\* Every step of the stager, the workers, the reconcilers, the planner and their
\* failures is one step of the promise or invisible to it: no approval of a revision
\* that has one, no second try, no try of what is settled, no settled outcome revised
\* or contrary to the outside world also when the attempt outlives its worker, nothing
\* announced but the outcome and a drift found before any claim.
ImplementsApprovedEffect == Effect!EffectSpec
=============================================================================
