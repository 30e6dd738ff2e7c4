--------------------------- MODULE ApprovedEffect ---------------------------
(***************************************************************************)
(* What staging and committing an effect promise, without the stager, the  *)
(* workers, the claim store, the repair jobs and their failures: content   *)
(* is approved at most once per revision, an approved effect is tried at   *)
(* most once, it is settled once and with the truth, and readers of the    *)
(* ledger are told that outcome and no other, except that an effect whose  *)
(* precondition was found changed before it was tried may be reported so,  *)
(* and be tried all the same when it is asked for again.                   *)
(***************************************************************************)
EXTENDS Naturals

CONSTANTS
    Keys,       \* idempotency keys, one per approving decision
    Rev         \* the revision of the content a key approves

VARIABLES
    approved,   \* keys whose approval governed its revision
    tried,      \* how often the executor was asked to apply a key
    world,      \* how often its change was made
    settled,    \* the outcome of record, or "open"
    told        \* the outcomes the ledger announces of a key

effectVars == <<approved, tried, world, settled, told>>

EffectInit ==
    /\ approved = {}
    /\ tried = [k \in Keys |-> 0]
    /\ world = [k \in Keys |-> 0]
    /\ settled = [k \in Keys |-> "open"]
    /\ told = [k \in Keys |-> {}]

Approve(k) ==
    /\ k \notin approved /\ \A j \in approved : Rev[j] # Rev[k]
    /\ approved' = approved \cup {k}
    /\ UNCHANGED <<tried, world, settled, told>>

Try(k) ==
    /\ tried[k] = 0 /\ settled[k] = "open" /\ k \in approved
    /\ tried' = [tried EXCEPT ![k] = 1]
    /\ UNCHANGED <<approved, world, settled, told>>

\* The change is made, once, and never after the key was settled.
Land(k) ==
    /\ tried[k] = 1 /\ world[k] = 0 /\ settled[k] = "open"
    /\ world' = [world EXCEPT ![k] = 1]
    /\ UNCHANGED <<approved, tried, settled, told>>

SettleAs(k, outcome) ==
    /\ k \in approved /\ settled[k] = "open"
    /\ outcome \in {"applied", "partial"} <=> world[k] = 1
    /\ outcome = "cancelled" => tried[k] = 0
    /\ settled' = [settled EXCEPT ![k] = outcome]
    /\ UNCHANGED <<approved, tried, world, told>>

Tell(k) ==
    /\ settled[k] # "open"
    /\ told' = [told EXCEPT ![k] = @ \cup {settled[k]}]
    /\ UNCHANGED <<approved, tried, world, settled>>

ReportDrift(k) ==
    /\ k \in approved
    /\ told' = [told EXCEPT ![k] = @ \cup {"precondition_drift"}]
    /\ UNCHANGED <<approved, tried, world, settled>>

EffectOutcomes == {"applied", "partial", "failed", "precondition_drift", "cancelled"}

EffectNext ==
    \E k \in Keys :
        \/ Approve(k) \/ Try(k) \/ Land(k)
        \/ \E outcome \in EffectOutcomes : SettleAs(k, outcome)
        \/ Tell(k) \/ ReportDrift(k)

EffectSpec == EffectInit /\ [][EffectNext]_effectVars
=============================================================================
