---------------------------- MODULE DurableQueue ----------------------------
(***************************************************************************)
(* What the command queue promises its callers and its workers, without    *)
(* the ledger, the claims, the slots, the outbox bridge and the boot: what *)
(* is enqueued waits until somebody settles it, attempts are counted from  *)
(* the last registration, an attempt goes to the oldest waiting command    *)
(* that is not held back, and a restart forgets settled commands at most.  *)
(***************************************************************************)
EXTENDS Naturals

CONSTANT Ids    \* command ids

VARIABLES
    work,       \* "absent", "waiting" or "settled"
    tries,      \* attempts since the last registration
    ahead,      \* the ids registered before this one, while it is known
    held        \* ids nobody may attempt now: claimed, or delayed by a retry

queueVars == <<work, tries, ahead, held>>

Known == {d \in Ids : work[d] # "absent"}
Waiting == {d \in Ids : work[d] = "waiting"}

QueueStart ==
    /\ work = [c \in Ids |-> "absent"]
    /\ tries = [c \in Ids |-> 0]
    /\ ahead = [c \in Ids |-> {}]
    /\ held = {}

\* A known id starts over and keeps its place.
Register(c) ==
    /\ work' = [work EXCEPT ![c] = "waiting"]
    /\ tries' = [tries EXCEPT ![c] = 0]
    /\ ahead' = [ahead EXCEPT ![c] = IF c \in Known THEN @ ELSE Known]
    /\ held' \in {held, held \ {c}}

\* In order: what waits longer is held back.
Attempt(c) ==
    /\ c \in Waiting \ held
    /\ ahead[c] \cap Waiting \subseteq held
    /\ tries' = [tries EXCEPT ![c] = @ + 1]
    /\ held' = held \cup {c}
    /\ UNCHANGED <<work, ahead>>

Settle(c) ==
    /\ c \in Known
    /\ work' = [work EXCEPT ![c] = "settled"]
    /\ held' \in {held, held \ {c}}
    /\ UNCHANGED <<tries, ahead>>

\* Put back for a retry, if need be over what a later attempt settled.
Return(c) ==
    /\ c \in Known
    /\ work' = [work EXCEPT ![c] = "waiting"]
    /\ held' = held \cup {c}
    /\ UNCHANGED <<tries, ahead>>

\* A lock or a delay runs out.
Release(c) ==
    /\ held' = held \ {c}
    /\ UNCHANGED <<work, tries, ahead>>

Restart ==
    /\ held' \subseteq held
    /\ UNCHANGED <<work, tries, ahead>>

RestartForgettingSettled ==
    /\ held' \subseteq held
    /\ work' = [c \in Ids |-> IF c \in Waiting THEN "waiting" ELSE "absent"]
    /\ tries' = [c \in Ids |-> IF c \in Waiting THEN tries[c] ELSE 0]
    /\ ahead' = [c \in Ids |-> IF c \in Waiting THEN ahead[c] \cap Waiting ELSE {}]

QueueNext ==
    \/ \E c \in Ids : Register(c) \/ Attempt(c) \/ Settle(c) \/ Return(c) \/ Release(c)
    \/ Restart \/ RestartForgettingSettled

QueueSpec == QueueStart /\ [][QueueNext]_queueVars
=============================================================================
