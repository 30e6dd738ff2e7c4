-------------------------- MODULE QueueRefinement --------------------------
(* RuntimeQueue implements DurableQueue: the state of the promise, read off *)
(* the rows, the claims and the order that the process holds in memory.     *)
EXTENDS RuntimeQueue

\* What a row's status says of the command: a claim leaves it waiting.
WorkOf(s) ==
    CASE s \in Claimable -> "waiting" [] s \in Settled -> "settled" [] OTHER -> "absent"

\* The commands that registered before c and still have a row, as c has.
AheadOf(c) ==
    {d \in Commands : /\ status[c] # "absent" /\ status[d] # "absent"
                      /\ Before(d, c, order)}

WorkNow == [c \in Commands |-> WorkOf(status[c])]
AheadNow == [c \in Commands |-> AheadOf(c)]
HeldBack == {c \in Commands : claims[c] = "active" \/ c \in delayed}

Promise == INSTANCE DurableQueue WITH
    Ids <- Commands,
    work <- WorkNow,
    tries <- attempts,
    ahead <- AheadNow,
    held <- HeldBack

\* Every step of the callers, the worker loop, late workers, time and crashes is one
\* step of the promise or invisible to it: nothing enqueued disappears before it is
\* settled, attempts are never lost, claim_next serves in the order of registration
\* whatever was registered twice, compacted or reloaded, and a boot changes nothing
\* but to drop settled rows and to let go of claims.
ImplementsDurableQueue == Promise!QueueSpec
=============================================================================
