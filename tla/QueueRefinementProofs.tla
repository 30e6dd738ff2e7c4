----------------------- MODULE QueueRefinementProofs -----------------------
(***************************************************************************)
(* The queue, its ledger, its claims and its boot implement the promise    *)
(* DurableQueue, for any commands, slots, retries, registrations and       *)
(* crashes: under the invariant of RuntimeQueueProofs every step of the    *)
(* code is a step of the promise or changes nothing it speaks of.          *)
(***************************************************************************)
EXTENDS QueueRefinement, RuntimeQueueProofs

\* What the promise speaks of.
Promised == <<WorkNow, attempts, AheadNow, HeldBack>>

\* A step of the promise, or of nothing it speaks of.
KeepsPromise == Promise!QueueNext \/ UNCHANGED Promised

-----------------------------------------------------------------------------
(* The view of a state *)

\* What a status says of the command.
LEMMA WorkOfIs ==
    ASSUME NEW s \in Statuses
    PROVE  /\ WorkOf(s) = "waiting" <=> s \in Claimable
           /\ WorkOf(s) = "settled" <=> s \in Settled
           /\ WorkOf(s) = "absent" <=> s = "absent"
<1>1. CASE s \in Claimable
  <2>1. WorkOf(s) = "waiting"
    BY <1>1 DEF WorkOf, Claimable, Settled
  <2>. QED
    BY <1>1, <2>1 DEF Claimable, Settled
<1>2. CASE s \in Settled
  <2>1. WorkOf(s) = "settled"
    BY <1>2 DEF WorkOf, Claimable, Settled
  <2>. QED
    BY <1>2, <2>1 DEF Claimable, Settled
<1>3. CASE s = "absent"
  <2>1. WorkOf(s) = "absent"
    BY <1>3 DEF WorkOf, Claimable, Settled
  <2>. QED
    BY <1>3, <2>1 DEF Claimable, Settled
<1>. QED
  BY <1>1, <1>2, <1>3 DEF Statuses

\* The sets the promise is about, in terms of the rows.
LEMMA View ==
    ASSUME RowTypes
    PROVE  /\ Promise!Known = {d \in Commands : status[d] # "absent"}
           /\ Promise!Waiting = {d \in Commands : status[d] \in Claimable}
           /\ WorkNow \in [Commands -> {"absent", "waiting", "settled"}]
           /\ AheadNow \in [Commands -> SUBSET Commands]
<1>1. \A d \in Commands : status[d] \in Statuses
  BY DEF RowTypes
<1>2. \A d \in Commands : WorkNow[d] = WorkOf(status[d])
  BY DEF WorkNow
<1>3. \A d \in Commands : /\ WorkNow[d] = "waiting" <=> status[d] \in Claimable
                          /\ WorkNow[d] = "settled" <=> status[d] \in Settled
                          /\ WorkNow[d] = "absent" <=> status[d] = "absent"
  BY <1>1, <1>2, WorkOfIs
<1>4. Promise!Known = {d \in Commands : status[d] # "absent"}
  BY <1>3 DEF Promise!Known
<1>5. Promise!Waiting = {d \in Commands : status[d] \in Claimable}
  BY <1>3 DEF Promise!Waiting
<1>6. WorkNow \in [Commands -> {"absent", "waiting", "settled"}]
  <2>1. \A d \in Commands : WorkNow[d] \in {"absent", "waiting", "settled"}
    BY <1>1, <1>3 DEF Statuses
  <2>. QED
    BY <2>1 DEF WorkNow
<1>7. AheadNow \in [Commands -> SUBSET Commands]
  BY DEF AheadNow, AheadOf
<1>. QED
  BY <1>4, <1>5, <1>6, <1>7

\* One row gets a status.
LEMMA WorkSet ==
    ASSUME RowTypes, NEW c \in Commands, NEW s \in Statuses, status' = [status EXCEPT ![c] = s]
    PROVE  WorkNow' = [WorkNow EXCEPT ![c] = WorkOf(s)]
<1>1. \A d \in Commands : status'[d] = IF d = c THEN s ELSE status[d]
  BY DEF RowTypes
<1>2. WorkNow' = [d \in Commands |-> IF d = c THEN WorkOf(s) ELSE WorkOf(status[d])]
  BY <1>1 DEF WorkNow
<1>. QED
  BY <1>2 DEF WorkNow

\* No row appears or disappears and the order stands.
LEMMA AheadStays ==
    ASSUME order' = order, \A d \in Commands : status'[d] = "absent" <=> status[d] = "absent"
    PROVE  AheadNow' = AheadNow
<1>1. \A c, d : Before(d, c, order)' <=> Before(d, c, order)
  BY DEF Before
<1>2. ASSUME NEW c \in Commands PROVE AheadOf(c)' = AheadOf(c)
  BY <1>1 DEF AheadOf
<1>. QED
  BY <1>2 DEF AheadNow

\* A command is held back.
LEMMA HeldAfter ==
    ASSUME OtherTypes, NEW c \in Commands, NEW v, claims' = [claims EXCEPT ![c] = v],
           v = "active" \/ c \in delayed',
           \A d \in Commands : d # c => (d \in delayed' <=> d \in delayed)
    PROVE  HeldBack' = HeldBack \cup {c}
<1>1. claims'[c] = v /\ \A d \in Commands : d # c => claims'[d] = claims[d]
  BY DEF OtherTypes
<1>. QED
  BY <1>1 DEF HeldBack

\* A command whose claim ends is let go of, but for a delay.
LEMMA LetGo ==
    ASSUME OtherTypes, NEW c \in Commands, delayed' = delayed,
           \/ claims' = [claims EXCEPT ![c] = "none"]
           \/ claims' = [claims EXCEPT ![c] = "expired"]
    PROVE  HeldBack' \in {HeldBack, HeldBack \ {c}}
<1>1. claims'[c] # "active" /\ \A d \in Commands : d # c => claims'[d] = claims[d]
  BY DEF OtherTypes
<1>2. CASE c \in delayed
  BY <1>1, <1>2 DEF HeldBack
<1>3. CASE c \notin delayed
  BY <1>1, <1>3 DEF HeldBack
<1>. QED
  BY <1>2, <1>3

\* The empty queue promises nothing yet.
LEMMA PromiseStart == Init => Promise!QueueStart
<1> SUFFICES ASSUME Init PROVE Promise!QueueStart
  OBVIOUS
<1>1. \A c \in Commands : status[c] = "absent"
  BY DEF Init
<1>2. "absent" \in Statuses
  BY DEF Statuses
<1>3. WorkOf("absent") = "absent"
  BY <1>2, WorkOfIs
<1>4. WorkNow = [c \in Commands |-> "absent"]
  BY <1>1, <1>3 DEF WorkNow
<1>5. AheadNow = [c \in Commands |-> {}]
  BY <1>1 DEF AheadNow, AheadOf
<1>6. HeldBack = {}
  BY DEF Init, HeldBack
<1>. QED
  BY <1>4, <1>5, <1>6 DEF Init, Promise!QueueStart

-----------------------------------------------------------------------------
(* The steps *)

\* A registration: a known command keeps its place, a new one gets the last.
LEMMA RegisterRefines ==
    ASSUME QueueInv, NEW c \in Commands, RegisterCommand(c)
    PROVE  Promise!Register(c)
<1>1. /\ RowTypes /\ OtherTypes /\ Durable /\ order \in Seq(Commands)
      /\ status \in [Commands -> Statuses]
  BY DEF QueueInv, BudgetInv, RowTypes, Durable
<1>2. /\ status' = [status EXCEPT ![c] = "PENDING"] /\ attempts' = [attempts EXCEPT ![c] = 0]
      /\ order' = Append(order, c) /\ delayed' = delayed \ {c} /\ claims' = claims
  BY DEF RegisterCommand
<1>3. "PENDING" \in Statuses /\ WorkOf("PENDING") = "waiting"
  BY WorkOfIs DEF Statuses, Claimable
<1>4. WorkNow' = [WorkNow EXCEPT ![c] = "waiting"]
  BY <1>1, <1>2, <1>3, WorkSet
<1>5. HeldBack' \in {HeldBack, HeldBack \ {c}}
  <2>1. CASE claims[c] = "active"
    BY <1>2, <2>1 DEF HeldBack
  <2>2. CASE claims[c] # "active"
    BY <1>2, <2>2 DEF HeldBack
  <2>. QED
    BY <2>1, <2>2
<1>6. /\ \A a : Queued(a, order') <=> Queued(a, order) \/ c = a
      /\ \A a, b : Before(a, b, order') <=>
           Before(a, b, order) \/ (c = a /\ a # b /\ ~Queued(b, order))
  BY <1>1, <1>2, OrderAppended
<1>7. \A d \in Commands : /\ status'[d] # "absent" <=> status[d] # "absent" \/ d = c
                          /\ Queued(d, order) <=> status[d] # "absent"
  BY <1>1, <1>2 DEF Durable
<1>8. \A a, b : Before(a, b, order)' <=> Before(a, b, order')
  BY DEF Before
<1>9. ASSUME NEW d \in Commands, d # c PROVE AheadOf(d)' = AheadOf(d)
  <2>1. CASE status[d] = "absent"
    BY <1>7, <1>9, <2>1 DEF AheadOf
  <2>2. CASE status[d] # "absent"
    <3>1. \A a \in Commands : Before(a, d, order') <=> Before(a, d, order)
      BY <1>6, <1>7, <2>2
    <3>2. \A a \in Commands : Before(a, d, order) => status[a] # "absent"
      BY <1>7 DEF Before, Queued, Occurs
    <3>. QED
      BY <1>7, <1>8, <1>9, <2>2, <3>1, <3>2 DEF AheadOf
  <2>. QED
    BY <2>1, <2>2
<1>10. AheadOf(c)' = IF c \in Promise!Known THEN AheadOf(c) ELSE Promise!Known
  <2>0. Promise!Known = {d \in Commands : status[d] # "absent"}
    BY <1>1, View
  <2>1. \A a \in Commands : Before(a, c, order') <=> Before(a, c, order)
    BY <1>6
  <2>2. \A a \in Commands : Before(a, c, order) => status[a] # "absent"
    BY <1>7 DEF Before, Queued, Occurs
  <2>3. CASE status[c] # "absent"
    BY <1>7, <1>8, <2>0, <2>1, <2>2, <2>3 DEF AheadOf
  <2>4. CASE status[c] = "absent"
    <3>1. Len(order) \in Nat /\ ~Queued(c, order)
      BY <1>1, <1>7, <2>4
    <3>2. \A a \in Commands : status[a] # "absent" => Before(a, c, order)
      BY <1>7, <3>1, AloneIsFirst
    <3>3. AheadOf(c)' = {d \in Commands : status[d] # "absent"}
      BY <1>7, <1>8, <2>1, <2>2, <3>2 DEF AheadOf
    <3>. QED
      BY <2>0, <2>4, <3>3
  <2>. QED
    BY <2>3, <2>4
<1>11. AheadNow' = [AheadNow EXCEPT ![c] = IF c \in Promise!Known THEN AheadNow[c] ELSE Promise!Known]
  <2>1. AheadNow' = [d \in Commands |-> IF d = c
                       THEN IF c \in Promise!Known THEN AheadOf(c) ELSE Promise!Known
                       ELSE AheadOf(d)]
    BY <1>9, <1>10 DEF AheadNow
  <2>. QED
    BY <2>1 DEF AheadNow
<1>. QED
  BY <1>2, <1>4, <1>5, <1>11 DEF Promise!Register

\* A claim is an attempt at the oldest command that is not held back: the scan returns
\* its first place in the order, and what has a place before that cannot be claimed.
LEMMA ClaimRefines ==
    ASSUME QueueInv, NEW t \in Slots, NEW c \in Commands, ClaimNext(t, c)
    PROVE  Promise!Attempt(c)
<1>1. RowTypes /\ OtherTypes /\ Durable /\ order \in Seq(Commands) /\ status \in [Commands -> Statuses]
  BY DEF QueueInv, BudgetInv, RowTypes, Durable
<1>2. /\ status' = [status EXCEPT ![c] = "CLAIMED"] /\ order' = order /\ delayed' = delayed
      /\ attempts' = [attempts EXCEPT ![c] = @ + 1] /\ claims' = [claims EXCEPT ![c] = "active"]
  BY DEF ClaimNext
<1>3. PICK i \in 1..Len(order) : /\ order[i] = c /\ CanClaim(c)
                                 /\ \A j \in 1..(i - 1) : ~CanClaim(order[j])
  BY DEF ClaimNext, IsNext
<1>4. status[c] \in Claimable /\ c \notin HeldBack
  BY <1>3 DEF CanClaim, HeldBack
<1>5. c \in Promise!Waiting \ HeldBack
  BY <1>1, <1>4, View
<1>6. AheadNow[c] \cap Promise!Waiting \subseteq HeldBack
  <2> SUFFICES ASSUME NEW d \in Commands, Before(d, c, order), status[d] \in Claimable
               PROVE  d \in HeldBack
    BY <1>1, View DEF AheadNow, AheadOf
  <2>1. PICK k \in 1..Len(order) : order[k] = d /\ \A j \in 1..k : order[j] # c
    BY DEF Before
  <2>2. k \in 1..(i - 1)
    BY <1>1, <1>3, <2>1
  <2>3. ~CanClaim(d)
    BY <1>3, <2>1, <2>2
  <2>. QED
    BY <2>3 DEF CanClaim, HeldBack
<1>7. WorkNow' = WorkNow
  <2>1. "CLAIMED" \in Statuses /\ WorkOf("CLAIMED") = "waiting"
    BY WorkOfIs DEF Statuses, Claimable
  <2>2. WorkNow' = [WorkNow EXCEPT ![c] = "waiting"]
    BY <1>1, <1>2, <2>1, WorkSet
  <2>3. WorkNow[c] = "waiting"
    BY <1>1, <1>4, WorkOfIs DEF WorkNow
  <2>. QED
    BY <2>2, <2>3 DEF WorkNow
<1>8. AheadNow' = AheadNow
  <2>1. \A d \in Commands : status'[d] = "absent" <=> status[d] = "absent"
    BY <1>1, <1>2, <1>4 DEF Claimable
  <2>. QED
    BY <1>2, <2>1, AheadStays
<1>9. HeldBack' = HeldBack \cup {c}
  BY <1>1, <1>2, HeldAfter
<1>. QED
  BY <1>2, <1>5, <1>6, <1>7, <1>8, <1>9 DEF Promise!Attempt

\* A claim, in time or late, is settled or put back.
LEMMA SettleRefines ==
    ASSUME QueueInv, NEW t \in Slots,
           \/ HandlerSucceeds(t)
           \/ \E retryable \in BOOLEAN : HandlerFails(t, retryable) \/ DispatchFails(t, retryable)
    PROVE  Promise!QueueNext
<1>1. RowTypes /\ OtherTypes /\ status \in [Commands -> Statuses]
  BY DEF QueueInv, BudgetInv, RowTypes
<1>2. /\ MarkComplete(t) \/ MarkDeadLetter(t) \/ MarkRetry(t)
      /\ order' = order /\ attempts' = attempts /\ tasks[t].phase = "handling"
  BY DEF HandlerSucceeds, HandlerFails, DispatchFails, MarkFailure
<1>3. PICK c \in Commands : c = tasks[t].cmd
  BY <1>2 DEF QueueInv, BudgetInv, Rows
<1>4. status[c] # "absent"
  BY <1>2, <1>3 DEF QueueInv, BudgetInv, Rows, Holds
<1>5. c \in Promise!Known
  BY <1>1, <1>4, View
<1>6. ASSUME NEW s \in Statuses \ {"absent"}, SetRow(c, s)
      PROVE  WorkNow' = [WorkNow EXCEPT ![c] = WorkOf(s)] /\ AheadNow' = AheadNow
  <2>1. status' = [status EXCEPT ![c] = s]
    BY <1>6 DEF SetRow
  <2>2. \A d \in Commands : status'[d] = "absent" <=> status[d] = "absent"
    BY <1>1, <1>4, <1>6, <2>1
  <2>. QED
    BY <1>1, <1>2, <2>1, <2>2, WorkSet, AheadStays
<1>7. CASE MarkComplete(t) \/ MarkDeadLetter(t)
  <2>1. PICK s \in Settled : SetRow(c, s)
    BY <1>3, <1>7 DEF MarkComplete, MarkDeadLetter, Settled
  <2>2. claims' = [claims EXCEPT ![c] = "none"] /\ delayed' = delayed
    BY <1>7, <2>1 DEF SetRow, MarkComplete, MarkDeadLetter
  <2>3. HeldBack' \in {HeldBack, HeldBack \ {c}}
    BY <1>1, <2>2, LetGo
  <2>4. s \in Statuses \ {"absent"} /\ WorkOf(s) = "settled"
    BY DEF WorkOf, Statuses, Settled, Claimable
  <2>5. Promise!Settle(c)
    BY <1>2, <1>5, <1>6, <2>1, <2>3, <2>4 DEF Promise!Settle
  <2>. QED
    BY <2>5 DEF Promise!QueueNext
<1>8. CASE MarkRetry(t)
  <2>1. /\ SetRow(c, "RETRY") /\ claims' = [claims EXCEPT ![c] = "none"]
        /\ delayed' = delayed \cup {c}
    BY <1>3, <1>8 DEF SetRow, MarkRetry
  <2>2. HeldBack' = HeldBack \cup {c}
    BY <1>1, <2>1, HeldAfter
  <2>3. "RETRY" \in Statuses \ {"absent"} /\ WorkOf("RETRY") = "waiting"
    BY WorkOfIs DEF Statuses, Claimable
  <2>4. Promise!Return(c)
    BY <1>2, <1>5, <1>6, <2>1, <2>2, <2>3 DEF Promise!Return
  <2>. QED
    BY <2>4 DEF Promise!QueueNext
<1>. QED
  BY <1>2, <1>7, <1>8

\* A step that writes no row and no order.
LEMMA RowsStay ==
    ASSUME UNCHANGED <<order, status, attempts>>
    PROVE  UNCHANGED <<WorkNow, attempts, AheadNow>>
<1>1. AheadNow' = AheadNow
  BY AheadStays
<1>. QED
  BY <1>1 DEF WorkNow

\* A lock or a delay that runs out lets go of a command.
LEMMA TimeRefines ==
    ASSUME QueueInv, NEW c \in Commands, LockExpires(c) \/ BecomesAvailable(c)
    PROVE  KeepsPromise
<1>1. UNCHANGED <<WorkNow, attempts, AheadNow>> /\ OtherTypes
  BY RowsStay DEF QueueInv, LockExpires, BecomesAvailable
<1>2. HeldBack' = HeldBack \/ HeldBack' = HeldBack \ {c}
  <2>1. CASE LockExpires(c)
    <3>1. claims' = [claims EXCEPT ![c] = "expired"] /\ delayed' = delayed
      BY <2>1 DEF LockExpires
    <3>. QED
      BY <1>1, <3>1, LetGo
  <2>2. CASE BecomesAvailable(c)
    <3>1. claims' = claims /\ delayed' = delayed \ {c}
      BY <2>2 DEF BecomesAvailable
    <3>. QED
      BY <3>1 DEF HeldBack
  <2>. QED
    BY <2>1, <2>2
<1>3. CASE HeldBack' = HeldBack
  BY <1>1, <1>3 DEF KeepsPromise, Promised
<1>4. CASE HeldBack' = HeldBack \ {c}
  BY <1>1, <1>4 DEF KeepsPromise, Promise!QueueNext, Promise!Release
<1>. QED
  BY <1>2, <1>3, <1>4

\* A boot drops settled rows at most: what waits keeps its attempts and its place.
LEMMA RestartRefines ==
    ASSUME QueueInv, NEW compact \in BOOLEAN, CrashAndRestart(compact)
    PROVE  Promise!QueueNext
<1>1. RowTypes /\ Durable /\ BudgetInv /\ Ledger
  BY DEF QueueInv, BudgetInv
<1>2. HeldBack' \subseteq HeldBack
  BY DEF CrashAndRestart, Reload, HeldBack
<1>3. /\ order' = disk'.order /\ status' = disk'.status /\ attempts' = disk'.attempts
      /\ disk'.status \in [Commands -> Statuses \ {"CLAIMED"}]
      /\ \A c \in Commands : /\ Live(c) => /\ disk'.status[c] = disk.status[c]
                                           /\ disk'.attempts[c] = attempts[c]
                             /\ disk'.status[c] \notin Settled \cup {"absent"} => Live(c)
      /\ \A c, d \in Commands : Live(c) /\ Live(d) =>
           (Before(c, d, disk'.order) <=> Before(c, d, disk.order))
  BY <1>1, Booted
<1>4. \A c \in Commands : /\ status[c] \in Statuses /\ disk.status[c] \in Statuses
                          /\ status[c] \in Settled <=> disk.status[c] \in Settled
                          /\ disk.status[c] = "absent" <=> status[c] = "absent"
  BY <1>1 DEF RowTypes, Ledger, Durable
<1>5. \A c \in Commands : Live(c) <=> status[c] \in Claimable
  BY <1>4 DEF Live, Statuses, Claimable, Settled
<1>6. \A a, b : Before(a, b, order)' <=> Before(a, b, order')
  BY DEF Before
<1>7. \A a, b \in Commands : Before(a, b, order) <=> Before(a, b, disk.order)
  <2>1. \A a \in Commands : ~Before(a, a, order) /\ ~Before(a, a, disk.order)
    BY <1>1 DEF Before, Durable
  <2>. QED
    BY <1>1, <2>1 DEF Durable
<1>8. CASE ~compact
  <2>1. disk' = disk /\ disk.attempts = attempts
    BY <1>1, <1>8 DEF CrashAndRestart, Reload, Ledger
  <2>2. WorkNow' = WorkNow
    <3>1. \A c \in Commands : WorkOf(status'[c]) = WorkOf(status[c])
      BY <1>3, <1>4, <2>1 DEF WorkOf, Statuses, Claimable, Settled
    <3>. QED
      BY <3>1 DEF WorkNow
  <2>3. ASSUME NEW c \in Commands PROVE AheadOf(c)' = AheadOf(c)
    BY <1>3, <1>4, <1>6, <1>7, <2>1 DEF AheadOf
  <2>4. AheadNow' = AheadNow
    BY <2>3 DEF AheadNow
  <2>5. Promise!Restart
    BY <1>2, <1>3, <2>1, <2>2, <2>4 DEF Promise!Restart
  <2>. QED
    BY <2>5 DEF Promise!QueueNext
<1>9. CASE compact
  <2>1. /\ disk'.status = [c \in Commands |-> IF Live(c) THEN disk.status[c] ELSE "absent"]
        /\ disk'.attempts = [c \in Commands |-> IF Live(c) THEN disk.attempts[c] ELSE 0]
        /\ disk.attempts = attempts
    BY <1>1, <1>9 DEF CrashAndRestart, Reload, Ledger
  <2>2. \A c \in Commands : c \in Promise!Waiting <=> Live(c)
    BY <1>1, <1>5, View
  <2>3. WorkNow' = [c \in Commands |-> IF c \in Promise!Waiting THEN "waiting" ELSE "absent"]
    <3>1. \A c \in Commands : WorkOf(status'[c]) = IF Live(c) THEN "waiting" ELSE "absent"
      <4> TAKE c \in Commands
      <4>1. CASE Live(c)
        <5>1. status'[c] \in Claimable
          BY <1>3, <1>4, <4>1 DEF Live, Statuses, Claimable, Settled
        <5>. QED
          BY <4>1, <5>1, WorkOfIs DEF Statuses
      <4>2. CASE ~Live(c)
        <5>1. status'[c] = "absent"
          BY <1>3, <2>1, <4>2
        <5>. QED
          BY <4>2, <5>1 DEF WorkOf, Claimable, Settled
      <4>. QED
        BY <4>1, <4>2
    <3>. QED
      BY <2>2, <3>1 DEF WorkNow
  <2>4. attempts' = [c \in Commands |-> IF c \in Promise!Waiting THEN attempts[c] ELSE 0]
    BY <1>3, <2>1, <2>2
  <2>5. \A c \in Commands : status'[c] # "absent" <=> Live(c)
    BY <1>3, <2>1 DEF Live
  <2>6. ASSUME NEW c \in Commands
        PROVE  AheadOf(c)' = IF Live(c) THEN AheadOf(c) \cap Promise!Waiting ELSE {}
    <3>1. CASE ~Live(c)
      BY <2>5, <3>1 DEF AheadOf
    <3>2. CASE Live(c)
      <4>1. AheadOf(c)' = {d \in Commands : Live(d) /\ Before(d, c, order)}
        BY <1>3, <1>6, <1>7, <2>5, <3>2 DEF AheadOf
      <4>2. AheadOf(c) \cap Promise!Waiting = {d \in Commands : Live(d) /\ Before(d, c, order)}
        BY <1>4, <2>2, <3>2 DEF AheadOf, Live
      <4>. QED
        BY <3>2, <4>1, <4>2
    <3>. QED
      BY <3>1, <3>2
  <2>7. AheadNow' = [c \in Commands |->
                       IF c \in Promise!Waiting THEN AheadNow[c] \cap Promise!Waiting ELSE {}]
    BY <2>2, <2>6 DEF AheadNow
  <2>8. Promise!RestartForgettingSettled
    BY <1>2, <2>3, <2>4, <2>7 DEF Promise!RestartForgettingSettled
  <2>. QED
    BY <2>8 DEF Promise!QueueNext
<1>. QED
  BY <1>8, <1>9

-----------------------------------------------------------------------------
\* Every step keeps the promise.
LEMMA StepKeepsPromise ==
    ASSUME QueueInv, [Next]_vars
    PROVE  KeepsPromise
<1>1. CASE UNCHANGED memory
  <2>1. UNCHANGED <<WorkNow, attempts, AheadNow>>
    BY <1>1, RowsStay DEF memory
  <2>2. HeldBack' = HeldBack
    BY <1>1 DEF memory, HeldBack
  <2>. QED
    BY <2>1, <2>2 DEF KeepsPromise, Promised
<1>2. ASSUME NEW c \in Commands, RegisterCommand(c) PROVE KeepsPromise
  BY <1>2, RegisterRefines DEF KeepsPromise, Promise!QueueNext
<1>3. ASSUME NEW c \in Commands,
             EnqueueFresh(c) \/ EnqueueEffectCommit(c) \/ EnqueueEffectReconcile(c)
      PROVE  KeepsPromise
  BY <1>2, <1>3 DEF EnqueueFresh, EnqueueEffectCommit, EnqueueEffectReconcile
<1>4. ASSUME NEW c \in ArtifactCmds, BridgePending(c) PROVE KeepsPromise
  <2>1. c \in Commands
    BY DEF Commands
  <2>. QED
    BY <1>1, <1>2, <1>4, <2>1 DEF BridgePending
<1>5. CASE \E t \in Slots, c \in Commands : ClaimNext(t, c)
  BY <1>5, ClaimRefines DEF KeepsPromise, Promise!QueueNext
<1>6. CASE \/ \E t \in Slots : HandlerSucceeds(t)
           \/ \E t \in Slots, retryable \in BOOLEAN :
                HandlerFails(t, retryable) \/ DispatchFails(t, retryable)
  BY <1>6, SettleRefines DEF KeepsPromise
<1>7. CASE \E c \in Commands : LockExpires(c) \/ BecomesAvailable(c)
  BY <1>7, TimeRefines
<1>8. CASE \E compact \in BOOLEAN : CrashAndRestart(compact)
  BY <1>8, RestartRefines DEF KeepsPromise
<1>9. CASE \/ \E c \in ArtifactCmds : PublishArtifact(c)
           \/ BeginPoll \/ ClaimNone \/ UNCHANGED vars
           \/ \E t \in Slots : AcquireSemaphore(t) \/ Acknowledge(t) \/ AcknowledgeFails(t)
  BY <1>1, <1>9 DEF PublishArtifact, BeginPoll, ClaimNone, AcquireSemaphore, Acknowledge,
     AcknowledgeFails, memory, vars
<1>. QED
  BY <1>3, <1>4, <1>5, <1>6, <1>7, <1>8, <1>9 DEF Next

\* The queue, its ledger, its claims and its boot, with callers that register twice,
\* workers that answer after their lock expired and crashes at any point, implement the
\* promise DurableQueue: work waits until it is settled, attempts are counted, claims
\* go in the order of registration, a restart forgets settled rows at most.
THEOREM QueueImplementsPromise == Spec => ImplementsDurableQueue
<1>1. QueueInv /\ [Next]_vars => [Promise!QueueNext]_(Promise!queueVars)
  BY StepKeepsPromise DEF KeepsPromise, Promised, Promise!queueVars
<1>. QED
  BY <1>1, PromiseStart, QueueInvariant, PTL DEF Spec, ImplementsDurableQueue, Promise!QueueSpec
=============================================================================
