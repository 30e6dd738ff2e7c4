------------------------- MODULE RuntimeQueueProofs -------------------------
(***************************************************************************)
(* The retry budget of the queue, the safety of the outbox bridge and what *)
(* survives a restart, for any commands, slots, retries, registrations and *)
(* crashes.  What compaction makes of an order of any length is proved by  *)
(* induction, stated for sets of numbers: what such a set with 0 and every  *)
(* successor misses would have a least element.                            *)
(***************************************************************************)
EXTENDS RuntimeQueue, FiniteSetTheorems, WellFoundedInduction, TLAPS

TaskStates == [phase : {"idle", "waiting", "handling", "acking"},
               cmd : Commands \cup {NoCommand}, attempts : Nat]

\* TypeOK, but for the order of the queue and for what no argument needs.
RowTypes ==
    /\ status \in [Commands -> Statuses]
    /\ attempts \in [Commands -> Nat]
    /\ enqueues \in [Commands -> Nat] /\ retries \in [Commands -> Nat]
    /\ tasks \in [Slots -> TaskStates]

\* The ledger holds what memory holds, but for claims.
Ledger ==
    /\ disk = [order |-> disk.order, status |-> disk.status, attempts |-> attempts]
    /\ disk.status \in [Commands -> Statuses]
    /\ \A c \in Commands : disk.status[c] = "absent" <=> status[c] = "absent"

\* Slot t has claimed c and not settled it.
Holds(t, c) == tasks[t].phase \in {"waiting", "handling"} /\ tasks[t].cmd = c

\* A command without a row was either never registered or lost its row at a boot, and
\* no slot has it.
Rows ==
    /\ \A t \in Slots : tasks[t].phase # "idle" => tasks[t].cmd \in Commands
    /\ \A c \in Commands : enqueues[c] = 0 => status[c] = "absent"
    /\ \A c \in Commands : status[c] = "absent" => \A t \in Slots : ~Holds(t, c)

\* The slots that may still put c back for a retry.
Entitled(c) == {t \in Slots : Holds(t, c) /\ tasks[t].attempts <= MaxRetries}
Charged(c) == retries[c] + Cardinality(Entitled(c))

\* Every retry used, or still to come, is paid for by a claim of its own.
Budget(c) ==
    enqueues[c] <= 1 =>
        /\ retries[c] <= MaxRetries
        /\ status[c] # "absent" => Charged(c) <= attempts[c] /\ Charged(c) <= MaxRetries

BudgetInv == RowTypes /\ Ledger /\ Rows /\ \A c \in Commands : Budget(c)

-----------------------------------------------------------------------------

\* They can be counted.
LEMMA EntitledFinite ==
    ASSUME NEW c
    PROVE  IsFiniteSet(Entitled(c)) /\ Cardinality(Entitled(c)) \in Nat
BY FS_Subset, FS_CardinalityType, QueueAssumption DEF Entitled

\* Slots that let go of c only lighten its charge.
LEMMA FewerEntitled ==
    ASSUME NEW c \in Commands, Entitled(c)' \subseteq Entitled(c)
    PROVE  /\ Cardinality(Entitled(c))' <= Cardinality(Entitled(c))
           /\ Cardinality(Entitled(c))' \in Nat
BY EntitledFinite, FS_Subset, FS_CardinalityType

\* No row, count or claim of a command changes, but for slots letting go of it.
LEMMA BudgetKept ==
    ASSUME RowTypes, NEW c \in Commands, Budget(c), Entitled(c)' \subseteq Entitled(c),
           enqueues'[c] = enqueues[c], retries'[c] = retries[c], attempts'[c] = attempts[c],
           status'[c] # "absent" => status[c] # "absent"
    PROVE  Budget(c)'
<1>1. /\ Cardinality(Entitled(c))' <= Cardinality(Entitled(c))
      /\ Cardinality(Entitled(c))' \in Nat /\ Cardinality(Entitled(c)) \in Nat
  BY FewerEntitled, EntitledFinite
<1>2. retries[c] \in Nat /\ attempts[c] \in Nat /\ MaxRetries \in Nat
  BY QueueAssumption DEF RowTypes
<1>3. Charged(c)' <= Charged(c) /\ Charged(c)' \in Nat /\ Charged(c) \in Nat
  BY <1>1, <1>2 DEF Charged
<1> HIDE DEF Charged
<1>. QED
  BY <1>2, <1>3 DEF Budget

\* A slot without a claim is a task.
LEMMA IdleTaskType == IdleTask \in TaskStates
BY DEF IdleTask, TaskStates

\* Which slots hold a command after a step that changes one slot.
LEMMA SlotSet ==
    ASSUME RowTypes, NEW t \in Slots, NEW k \in TaskStates, tasks' = [tasks EXCEPT ![t] = k]
    PROVE  /\ tasks' \in [Slots -> TaskStates] /\ tasks'[t] = k
           /\ \A s \in Slots \ {t} : tasks'[s] = tasks[s]
BY DEF RowTypes

\* A row is written and the ledger with it.
LEMMA SetRowLedger ==
    ASSUME RowTypes, Ledger, NEW c \in Commands, NEW s \in Statuses \ {"absent"},
           SetRow(c, s), attempts' = attempts, status[c] # "absent"
    PROVE  /\ status' \in [Commands -> Statuses] /\ Ledger'
           /\ \A d \in Commands : status'[d] = "absent" <=> status[d] = "absent"
<1>1. status \in [Commands -> Statuses] /\ disk.status \in [Commands -> Statuses]
  BY DEF RowTypes, Ledger
<1>2. status' = [status EXCEPT ![c] = s]
  BY DEF SetRow
<1>3. disk' = [order |-> disk.order, status |-> [disk.status EXCEPT ![c] = s],
               attempts |-> attempts]
  BY DEF SetRow, Ledger
<1>4. /\ disk'.status = [disk.status EXCEPT ![c] = s] /\ disk'.order = disk.order
  BY <1>3
<1>5. status' \in [Commands -> Statuses] /\ disk'.status \in [Commands -> Statuses]
  BY <1>1, <1>2, <1>4
<1>6. \A d \in Commands : status'[d] = "absent" <=> status[d] = "absent"
  BY <1>1, <1>2
<1>7. \A d \in Commands : disk'.status[d] = "absent" <=> status'[d] = "absent"
  BY <1>1, <1>2, <1>4 DEF Ledger
<1>. QED
  BY <1>3, <1>4, <1>5, <1>6, <1>7 DEF Ledger

-----------------------------------------------------------------------------
(* The steps *)

\* A step that writes no row: slots keep what they hold, or let go of it.
LEMMA QuietKeeps ==
    ASSUME BudgetInv, UNCHANGED <<status, attempts, disk, enqueues, retries>>,
           tasks' \in [Slots -> TaskStates],
           \A t \in Slots : /\ tasks'[t].phase # "idle" => tasks'[t].cmd \in Commands
                            /\ tasks'[t].attempts = tasks[t].attempts \/ tasks'[t].phase = "idle"
                            /\ \A c \in Commands : Holds(t, c)' => Holds(t, c)
    PROVE  BudgetInv'
<1>1. RowTypes'
  BY DEF BudgetInv, RowTypes
<1>2. Ledger'
  BY DEF BudgetInv, Ledger
<1>3. Rows'
  BY DEF BudgetInv, Rows
<1>4. ASSUME NEW c \in Commands PROVE Budget(c)'
  <2>1. Entitled(c)' \subseteq Entitled(c)
    <3> SUFFICES ASSUME NEW t \in Slots, Holds(t, c)', tasks'[t].attempts <= MaxRetries
                 PROVE  Holds(t, c) /\ tasks[t].attempts <= MaxRetries
      BY DEF Entitled
    <3>1. tasks'[t].phase # "idle"
      BY DEF Holds
    <3>. QED
      BY <3>1
  <2>. QED
    BY <2>1, BudgetKept DEF BudgetInv
<1>. QED
  BY <1>1, <1>2, <1>3, <1>4 DEF BudgetInv

\* The steps of that kind: the poll, the semaphore, the acknowledgement, and time.
LEMMA QuietStepKeeps ==
    ASSUME BudgetInv,
           \/ \E c \in ArtifactCmds : PublishArtifact(c)
           \/ BeginPoll \/ ClaimNone
           \/ \E c \in Commands : LockExpires(c) \/ BecomesAvailable(c)
           \/ \E t \in Slots : AcquireSemaphore(t) \/ Acknowledge(t) \/ AcknowledgeFails(t)
           \/ UNCHANGED vars
    PROVE  BudgetInv'
<1>1. UNCHANGED <<status, attempts, disk, enqueues, retries>>
  BY DEF PublishArtifact, BeginPoll, ClaimNone, LockExpires, BecomesAvailable,
     AcquireSemaphore, Acknowledge, AcknowledgeFails, memory, history, vars
<1>2. tasks \in [Slots -> TaskStates] /\ RowTypes
      /\ \A t \in Slots : tasks[t].phase # "idle" => tasks[t].cmd \in Commands
  BY DEF BudgetInv, RowTypes, Rows
<1>3. CASE tasks' = tasks
  BY <1>1, <1>2, <1>3, QuietKeeps DEF Holds
<1>4. ASSUME NEW t \in Slots, tasks' = [tasks EXCEPT ![t] = IdleTask] PROVE BudgetInv'
  <2>1. /\ tasks' \in [Slots -> TaskStates] /\ tasks'[t] = IdleTask
        /\ \A s \in Slots \ {t} : tasks'[s] = tasks[s]
    BY <1>2, <1>4, SlotSet, IdleTaskType
  <2>2. tasks'[t].phase = "idle"
    BY <2>1 DEF IdleTask
  <2>3. \A s \in Slots : /\ tasks'[s].phase # "idle" => tasks'[s].cmd \in Commands
                         /\ tasks'[s].attempts = tasks[s].attempts \/ tasks'[s].phase = "idle"
                         /\ \A c \in Commands : Holds(s, c)' => Holds(s, c)
    BY <1>2, <2>1, <2>2 DEF Holds
  <2>. QED
    BY <1>1, <2>1, <2>3, QuietKeeps
<1>5. ASSUME NEW t \in Slots, AcquireSemaphore(t) PROVE BudgetInv'
  <2> DEFINE k == [tasks[t] EXCEPT !.phase = "handling"]
  <2>1. tasks' = [tasks EXCEPT ![t] = k] /\ tasks[t].phase = "waiting"
    BY <1>2, <1>5 DEF AcquireSemaphore
  <2>2. /\ k \in TaskStates /\ k.phase = "handling" /\ k.cmd = tasks[t].cmd
        /\ k.attempts = tasks[t].attempts
    BY <1>2 DEF TaskStates
  <2> HIDE DEF k
  <2>3. /\ tasks' \in [Slots -> TaskStates] /\ tasks'[t] = k
        /\ \A s \in Slots \ {t} : tasks'[s] = tasks[s]
    BY <1>2, <2>1, <2>2, SlotSet
  <2>4. \A s \in Slots : /\ tasks'[s].phase # "idle" => tasks'[s].cmd \in Commands
                         /\ tasks'[s].attempts = tasks[s].attempts \/ tasks'[s].phase = "idle"
                         /\ \A c \in Commands : Holds(s, c)' => Holds(s, c)
    BY <1>2, <2>1, <2>2, <2>3 DEF Holds
  <2>. QED
    BY <1>1, <2>3, <2>4, QuietKeeps
<1>. QED
  BY <1>3, <1>4, <1>5 DEF PublishArtifact, BeginPoll, ClaimNone, LockExpires,
     BecomesAvailable, Acknowledge, AcknowledgeFails, vars

\* A registration starts the count over, and only the first is bounded.
LEMMA RegisterKeeps ==
    ASSUME BudgetInv, NEW c \in Commands, RegisterCommand(c)
    PROVE  BudgetInv'
<1>1. /\ status \in [Commands -> Statuses] /\ attempts \in [Commands -> Nat]
      /\ enqueues \in [Commands -> Nat] /\ retries \in [Commands -> Nat]
      /\ tasks \in [Slots -> TaskStates] /\ disk.status \in [Commands -> Statuses]
  BY DEF BudgetInv, RowTypes, Ledger
<1>2. /\ status' = [status EXCEPT ![c] = "PENDING"]
      /\ attempts' = [attempts EXCEPT ![c] = 0]
      /\ enqueues' = [enqueues EXCEPT ![c] = enqueues[c] + 1]
      /\ retries' = [retries EXCEPT ![c] = 0] /\ tasks' = tasks
  BY DEF RegisterCommand
<1>3. RowTypes'
  BY <1>1, <1>2 DEF RowTypes, Statuses, Claimable
<1>4. Ledger'
  <2>1. disk.attempts = attempts
    BY DEF BudgetInv, Ledger
  <2>2. /\ disk'.status = [disk.status EXCEPT ![c] = "PENDING"]
        /\ disk'.attempts = attempts'
        /\ disk' = [order |-> disk'.order, status |-> disk'.status, attempts |-> disk'.attempts]
    BY <1>2, <2>1 DEF RegisterCommand
  <2>3. disk'.status \in [Commands -> Statuses]
    BY <1>1, <2>2 DEF Statuses, Claimable
  <2>4. \A d \in Commands : disk'.status[d] = "absent" <=> status'[d] = "absent"
    BY <1>1, <1>2, <2>2 DEF BudgetInv, Ledger
  <2>. QED
    BY <2>2, <2>3, <2>4 DEF Ledger
<1>5. Rows'
  BY <1>1, <1>2 DEF BudgetInv, Rows, Holds
<1>6. ASSUME NEW d \in Commands \ {c} PROVE Budget(d)'
  <2>1. Entitled(d)' \subseteq Entitled(d)
    BY <1>2 DEF Entitled, Holds
  <2>2. /\ enqueues'[d] = enqueues[d] /\ retries'[d] = retries[d]
        /\ attempts'[d] = attempts[d] /\ status'[d] = status[d]
    BY <1>1, <1>2
  <2>. QED
    BY <2>1, <2>2, BudgetKept DEF BudgetInv
<1>7. Budget(c)'
  <2> SUFFICES ASSUME enqueues'[c] <= 1
               PROVE  /\ retries'[c] <= MaxRetries
                      /\ Charged(c)' <= attempts'[c] /\ Charged(c)' <= MaxRetries
    BY DEF Budget
  <2>1. enqueues[c] = 0
    BY <1>1, <1>2
  <2>2. \A t \in Slots : ~Holds(t, c)
    BY <2>1 DEF BudgetInv, Rows
  <2>3. Entitled(c)' = {}
    BY <1>2, <2>2 DEF Entitled, Holds
  <2>4. Cardinality(Entitled(c)') = 0 /\ retries'[c] = 0 /\ attempts'[c] = 0
    BY <1>1, <1>2, <2>3, FS_EmptySet
  <2>. QED
    BY <2>4, QueueAssumption DEF Charged
<1>. QED
  BY <1>3, <1>4, <1>5, <1>6, <1>7 DEF BudgetInv

\* A claim pays for the retry it may lead to.
LEMMA ClaimKeeps ==
    ASSUME BudgetInv, NEW t \in Slots, NEW c \in Commands, ClaimNext(t, c)
    PROVE  BudgetInv'
<1> DEFINE k == [phase |-> IF c \in ControlCmds THEN "handling" ELSE "waiting",
                 cmd |-> c, attempts |-> attempts[c] + 1]
<1>1. /\ status \in [Commands -> Statuses] /\ attempts \in [Commands -> Nat]
      /\ enqueues \in [Commands -> Nat] /\ retries \in [Commands -> Nat] /\ RowTypes
      /\ tasks \in [Slots -> TaskStates] /\ disk.status \in [Commands -> Statuses]
      /\ MaxRetries \in Nat
  BY QueueAssumption DEF BudgetInv, RowTypes, Ledger
<1>2. /\ status' = [status EXCEPT ![c] = "CLAIMED"]
      /\ attempts' = [attempts EXCEPT ![c] = attempts[c] + 1]
      /\ enqueues' = enqueues /\ retries' = retries
      /\ tasks' = [tasks EXCEPT ![t] = k] /\ tasks[t].phase = "idle"
  BY DEF ClaimNext, history
<1>3. status[c] # "absent"
  BY DEF ClaimNext, IsNext, CanClaim, Claimable
<1>4. /\ k \in TaskStates /\ k.phase \in {"waiting", "handling"} /\ k.cmd = c
      /\ k.attempts = attempts[c] + 1
  BY <1>1 DEF TaskStates
<1> HIDE DEF k
<1>5. /\ tasks' \in [Slots -> TaskStates] /\ tasks'[t] = k
      /\ \A s \in Slots \ {t} : tasks'[s] = tasks[s]
  BY <1>1, <1>2, <1>4, SlotSet
<1>6. RowTypes'
  BY <1>1, <1>2, <1>5 DEF RowTypes, Statuses, Claimable
<1>7. Ledger'
  <2>1. disk = [order |-> disk.order, status |-> disk.status, attempts |-> attempts]
    BY DEF BudgetInv, Ledger
  <2>2. disk' = [disk EXCEPT !.attempts = [disk.attempts EXCEPT ![c] = attempts[c] + 1]]
    BY <2>1 DEF ClaimNext
  <2>3. disk' = [order |-> disk.order, status |-> disk.status, attempts |-> attempts']
    BY <1>2, <2>1, <2>2
  <2>4. disk'.status = disk.status /\ disk'.order = disk.order
    BY <2>3
  <2>5. \A d \in Commands : disk.status[d] = "absent" <=> status'[d] = "absent"
    BY <1>1, <1>2, <1>3 DEF BudgetInv, Ledger
  <2>. QED
    BY <1>1, <2>3, <2>4, <2>5 DEF Ledger
<1>8. \A d \in Commands : status'[d] = "absent" <=> status[d] = "absent"
  BY <1>1, <1>2, <1>3
<1>9. Rows'
  <2>1. \A s \in Slots : tasks'[s].phase # "idle" => tasks'[s].cmd \in Commands
    BY <1>4, <1>5 DEF BudgetInv, Rows
  <2>2. \A d \in Commands : enqueues'[d] = 0 => status'[d] = "absent"
    BY <1>2, <1>8 DEF BudgetInv, Rows
  <2>3. ASSUME NEW d \in Commands, status'[d] = "absent", NEW s \in Slots PROVE ~Holds(s, d)'
    <3>1. status[d] = "absent" /\ d # c /\ ~Holds(s, d)
      BY <1>3, <1>8, <2>3 DEF BudgetInv, Rows
    <3>. QED
      BY <1>4, <1>5, <3>1 DEF Holds
  <2>. QED
    BY <2>1, <2>2, <2>3 DEF Rows
<1>10. ASSUME NEW d \in Commands \ {c} PROVE Budget(d)'
  <2>1. Entitled(d)' \subseteq Entitled(d)
    BY <1>4, <1>5 DEF Entitled, Holds
  <2>2. /\ enqueues'[d] = enqueues[d] /\ retries'[d] = retries[d]
        /\ attempts'[d] = attempts[d] /\ status'[d] = status[d]
    BY <1>1, <1>2
  <2>. QED
    BY <1>1, <2>1, <2>2, BudgetKept DEF BudgetInv
<1>11. Budget(c)'
  <2> SUFFICES ASSUME enqueues'[c] <= 1
               PROVE  /\ retries'[c] <= MaxRetries
                      /\ Charged(c)' <= attempts'[c] /\ Charged(c)' <= MaxRetries
    BY DEF Budget
  <2>1. /\ retries[c] <= MaxRetries /\ Charged(c) <= attempts[c] /\ Charged(c) <= MaxRetries
        /\ retries'[c] = retries[c] /\ attempts'[c] = attempts[c] + 1
        /\ retries[c] \in Nat /\ attempts[c] \in Nat
    BY <1>1, <1>2, <1>3 DEF BudgetInv, Budget
  <2>2. IsFiniteSet(Entitled(c)) /\ Cardinality(Entitled(c)) \in Nat /\ t \notin Entitled(c)
    BY <1>2, EntitledFinite DEF Entitled, Holds
  <2>3. CASE attempts[c] + 1 <= MaxRetries
    <3>1. Entitled(c)' = Entitled(c) \cup {t}
      BY <1>4, <1>5, <2>3 DEF Entitled, Holds
    <3>2. Cardinality(Entitled(c)') = Cardinality(Entitled(c)) + 1
      BY <2>2, <3>1, FS_AddElement
    <3>. QED
      BY <1>1, <2>1, <2>2, <2>3, <3>2 DEF Charged
  <2>4. CASE ~(attempts[c] + 1 <= MaxRetries)
    <3>1. Entitled(c)' = Entitled(c)
      BY <1>2, <1>4, <1>5, <2>4 DEF Entitled, Holds
    <3>. QED
      BY <1>1, <2>1, <2>2, <3>1 DEF Charged
  <2>. QED
    BY <2>3, <2>4
<1>. QED
  BY <1>6, <1>7, <1>9, <1>10, <1>11 DEF BudgetInv

\* A slot settles its claim: it lets go of the command, and a retry is one it was
\* entitled to.
LEMMA SettleKeeps ==
    ASSUME BudgetInv, NEW t \in Slots,
           \/ HandlerSucceeds(t)
           \/ \E retryable \in BOOLEAN : HandlerFails(t, retryable) \/ DispatchFails(t, retryable)
    PROVE  BudgetInv'
<1>1. /\ status \in [Commands -> Statuses] /\ attempts \in [Commands -> Nat]
      /\ enqueues \in [Commands -> Nat] /\ retries \in [Commands -> Nat] /\ RowTypes
      /\ tasks \in [Slots -> TaskStates] /\ MaxRetries \in Nat
  BY QueueAssumption DEF BudgetInv, RowTypes
<1>2. tasks[t].phase = "handling" /\ attempts' = attempts /\ enqueues' = enqueues
  BY DEF HandlerSucceeds, HandlerFails, DispatchFails
<1>c. PICK c \in Commands : c = tasks[t].cmd
  BY <1>2 DEF BudgetInv, Rows
<1>3. c \in Commands /\ Holds(t, c) /\ status[c] # "absent"
  BY <1>2, <1>c DEF BudgetInv, Rows, Holds
<1>4. \/ MarkComplete(t) \/ MarkDeadLetter(t)
      \/ MarkRetry(t) /\ tasks[t].attempts <= MaxRetries
  BY DEF HandlerSucceeds, HandlerFails, DispatchFails, MarkFailure
<1>5. PICK s \in Statuses \ {"absent"} : SetRow(c, s)
  BY <1>4, <1>c DEF MarkComplete, MarkDeadLetter, MarkRetry, Statuses, Claimable, Settled
<1>6. /\ status' \in [Commands -> Statuses] /\ Ledger'
      /\ \A d \in Commands : status'[d] = "absent" <=> status[d] = "absent"
  BY <1>1, <1>2, <1>3, <1>5, SetRowLedger DEF BudgetInv
<1>7. PICK k \in TaskStates :
        /\ tasks' = [tasks EXCEPT ![t] = k]
        /\ k = IdleTask \/ (k.phase = "acking" /\ k.cmd = c)
  <2>1. [tasks[t] EXCEPT !.phase = "acking"] \in TaskStates
        /\ [tasks[t] EXCEPT !.phase = "acking"].phase = "acking"
        /\ [tasks[t] EXCEPT !.phase = "acking"].cmd = c
    BY <1>1, <1>c DEF TaskStates
  <2>2. \/ tasks' = [tasks EXCEPT ![t] = IdleTask]
        \/ tasks' = [tasks EXCEPT ![t] = [tasks[t] EXCEPT !.phase = "acking"]]
    BY <1>1, <1>4 DEF MarkComplete, MarkDeadLetter, MarkRetry, AfterSettle
  <2>. QED
    BY <2>1, <2>2, IdleTaskType
<1>8. k.phase \notin {"waiting", "handling"} /\ (k.phase # "idle" => k.cmd = c)
  BY <1>7 DEF IdleTask
<1>9. /\ tasks' \in [Slots -> TaskStates] /\ tasks'[t] = k
      /\ \A s1 \in Slots \ {t} : tasks'[s1] = tasks[s1]
  BY <1>1, <1>7, SlotSet
<1>10. /\ retries' \in [Commands -> Nat] /\ \A d \in Commands \ {c} : retries'[d] = retries[d]
       /\ \/ retries'[c] = retries[c]
          \/ retries'[c] = retries[c] + 1 /\ tasks[t].attempts <= MaxRetries
  BY <1>1, <1>c, <1>4 DEF MarkComplete, MarkDeadLetter, MarkRetry
<1>11. RowTypes'
  BY <1>1, <1>2, <1>6, <1>9, <1>10 DEF RowTypes
<1>12. ~Holds(t, c)' /\ \A s1 \in Slots, d \in Commands : Holds(s1, d)' => Holds(s1, d) /\ s1 # t
  BY <1>8, <1>9 DEF Holds
<1>13. Rows'
  <2>1. \A s1 \in Slots : tasks'[s1].phase # "idle" => tasks'[s1].cmd \in Commands
    BY <1>3, <1>8, <1>9 DEF BudgetInv, Rows
  <2>2. \A d \in Commands : enqueues'[d] = 0 => status'[d] = "absent"
    BY <1>2, <1>6 DEF BudgetInv, Rows
  <2>3. \A d \in Commands : status'[d] = "absent" => \A s1 \in Slots : ~Holds(s1, d)'
    BY <1>6, <1>12 DEF BudgetInv, Rows
  <2>. QED
    BY <2>1, <2>2, <2>3 DEF Rows
<1>14. \A d \in Commands : Entitled(d)' \subseteq Entitled(d) \ {t}
  BY <1>9, <1>12 DEF Entitled
<1>15. ASSUME NEW d \in Commands, retries'[d] = retries[d] PROVE Budget(d)'
  BY <1>1, <1>2, <1>6, <1>14, <1>15, BudgetKept DEF BudgetInv
<1>16. CASE retries'[c] = retries[c] + 1 /\ tasks[t].attempts <= MaxRetries
  <2> SUFFICES ASSUME enqueues'[c] <= 1
               PROVE  /\ retries'[c] <= MaxRetries
                      /\ Charged(c)' <= attempts'[c] /\ Charged(c)' <= MaxRetries
    <3>1. \A d \in Commands \ {c} : Budget(d)'
      BY <1>10, <1>15
    <3>2. ASSUME Budget(c)' PROVE BudgetInv'
      BY <1>6, <1>11, <1>13, <3>1, <3>2 DEF BudgetInv
    <3>. QED
      BY <3>2 DEF Budget
  <2>1. /\ Charged(c) <= attempts[c] /\ Charged(c) <= MaxRetries
        /\ retries[c] \in Nat /\ attempts[c] \in Nat
    BY <1>1, <1>2, <1>3 DEF BudgetInv, Budget
  <2>2. t \in Entitled(c) /\ IsFiniteSet(Entitled(c)) /\ Cardinality(Entitled(c)) \in Nat
    BY <1>3, <1>16, EntitledFinite DEF Entitled
  <2>3. /\ Cardinality(Entitled(c) \ {t}) = Cardinality(Entitled(c)) - 1
        /\ IsFiniteSet(Entitled(c) \ {t})
    BY <2>2, FS_RemoveElement
  <2>4. /\ Cardinality(Entitled(c)') <= Cardinality(Entitled(c)) - 1
        /\ Cardinality(Entitled(c)') \in Nat
    BY <1>3, <1>14, <2>3, FS_Subset, FS_CardinalityType
  <2>5. Charged(c)' = retries'[c] + Cardinality(Entitled(c)')
    BY DEF Charged
  <2>6. Charged(c) = retries[c] + Cardinality(Entitled(c))
    BY DEF Charged
  <2>7. attempts'[c] = attempts[c]
    BY <1>2
  <2>. QED
    BY <1>1, <1>16, <2>1, <2>2, <2>4, <2>5, <2>6, <2>7
<1>. QED
  BY <1>6, <1>10, <1>11, <1>13, <1>15, <1>16 DEF BudgetInv

\* A boot keeps the count of every command that keeps its row.
LEMMA CrashKeeps ==
    ASSUME BudgetInv, NEW compact \in BOOLEAN, CrashAndRestart(compact)
    PROVE  BudgetInv'
<1>1. /\ enqueues' = enqueues /\ retries' = retries /\ tasks' = [t \in Slots |-> IdleTask]
      /\ status' = disk'.status /\ attempts' = disk'.attempts
  BY DEF CrashAndRestart, Reload, history
<1>2. /\ status \in [Commands -> Statuses] /\ attempts \in [Commands -> Nat]
      /\ enqueues \in [Commands -> Nat] /\ retries \in [Commands -> Nat] /\ RowTypes
      /\ disk.status \in [Commands -> Statuses] /\ disk.attempts = attempts
  BY DEF BudgetInv, RowTypes, Ledger
<1>3. /\ disk' = [order |-> disk'.order, status |-> disk'.status, attempts |-> disk'.attempts]
      /\ disk'.status \in [Commands -> Statuses]
      /\ disk'.attempts \in [Commands -> Nat]
      /\ \A c \in Commands : disk'.status[c] # "absent" =>
             disk.status[c] # "absent" /\ disk'.attempts[c] = attempts[c]
  <2>1. CASE ~compact
    <3>1. disk' = disk
      BY <2>1 DEF CrashAndRestart, Reload
    <3>. QED
      BY <1>2, <3>1 DEF BudgetInv, Ledger
  <2>2. CASE compact
    <3> DEFINE st == [c \in Commands |-> IF Live(c) THEN disk.status[c] ELSE "absent"]
               at == [c \in Commands |-> IF Live(c) THEN disk.attempts[c] ELSE 0]
               or == Kept(disk.order, {c \in Commands : Live(c)})
    <3>1. disk' = [order |-> or, status |-> st, attempts |-> at]
      BY <2>2 DEF CrashAndRestart, Reload
    <3>2. /\ st \in [Commands -> Statuses] /\ at \in [Commands -> Nat]
          /\ \A c \in Commands : st[c] # "absent" => disk.status[c] # "absent" /\ at[c] = attempts[c]
      BY <1>2 DEF Statuses
    <3> HIDE DEF st, at, or
    <3>3. disk'.status = st /\ disk'.attempts = at /\ disk'.order = or
      BY <3>1
    <3>. QED
      BY <3>1, <3>2, <3>3
  <2>. QED
    BY <2>1, <2>2
<1>4. \A t \in Slots : tasks'[t].phase = "idle"
  BY <1>1 DEF IdleTask
<1>5. RowTypes'
  BY <1>1, <1>2, <1>3, IdleTaskType DEF RowTypes
<1>6. Ledger'
  BY <1>1, <1>3 DEF Ledger
<1>7. \A c \in Commands : status'[c] # "absent" => status[c] # "absent" /\ attempts'[c] = attempts[c]
  BY <1>1, <1>3 DEF BudgetInv, Ledger
<1>8. Rows'
  BY <1>1, <1>4, <1>7 DEF BudgetInv, Rows, Holds
<1>9. ASSUME NEW c \in Commands PROVE Budget(c)'
  <2>1. Entitled(c)' = {}
    BY <1>4 DEF Entitled, Holds
  <2>2. CASE status'[c] = "absent"
    BY <1>1, <2>2 DEF BudgetInv, Budget
  <2>3. CASE status'[c] # "absent"
    BY <1>1, <1>2, <1>7, <2>1, <2>3, BudgetKept DEF BudgetInv
  <2>. QED
    BY <2>2, <2>3
<1>. QED
  BY <1>5, <1>6, <1>8, <1>9 DEF BudgetInv

\* An event is bridged: registered, left alone or acknowledged.
LEMMA BridgeKeeps ==
    ASSUME BudgetInv, NEW c \in ArtifactCmds, BridgePending(c)
    PROVE  BudgetInv'
<1>1. c \in Commands
  BY DEF Commands
<1>2. CASE RegisterCommand(c)
  BY <1>1, <1>2, RegisterKeeps
<1>3. CASE UNCHANGED <<memory, disk, tasks, history>>
  <2>1. UNCHANGED <<status, attempts, disk, enqueues, retries>> /\ tasks' = tasks
    BY <1>3 DEF memory, history
  <2>2. /\ tasks \in [Slots -> TaskStates]
        /\ \A t \in Slots : tasks[t].phase # "idle" => tasks[t].cmd \in Commands
    BY DEF BudgetInv, RowTypes, Rows
  <2>. QED
    BY <2>1, <2>2, QuietKeeps DEF Holds
<1>. QED
  BY <1>2, <1>3 DEF BridgePending

\* An empty queue owes nothing.
LEMMA BudgetInit == Init => BudgetInv
<1> SUFFICES ASSUME Init PROVE BudgetInv
  OBVIOUS
<1>1. \A t \in Slots : tasks[t].phase = "idle"
  BY DEF Init, IdleTask
<1>2. RowTypes
  <2>1. tasks \in [Slots -> TaskStates]
    BY IdleTaskType DEF Init
  <2>. QED
    BY <2>1 DEF Init, RowTypes, Statuses
<1>3. Ledger
  BY DEF Init, Ledger, Statuses
<1>4. Rows
  BY <1>1 DEF Init, Rows, Holds
<1>5. \A c \in Commands : Budget(c)
  BY QueueAssumption DEF Init, Budget
<1>. QED
  BY <1>2, <1>3, <1>4, <1>5 DEF BudgetInv

\* One case per action.
LEMMA BudgetNext == ASSUME BudgetInv, [Next]_vars PROVE BudgetInv'
<1>1. ASSUME NEW c \in Commands,
             EnqueueFresh(c) \/ EnqueueEffectCommit(c) \/ EnqueueEffectReconcile(c)
      PROVE  BudgetInv'
  BY <1>1, RegisterKeeps DEF EnqueueFresh, EnqueueEffectCommit, EnqueueEffectReconcile
<1>2. CASE \E t \in Slots, c \in Commands : ClaimNext(t, c)
  BY <1>2, ClaimKeeps
<1>3. CASE \/ \E t \in Slots : HandlerSucceeds(t)
           \/ \E t \in Slots, retryable \in BOOLEAN :
                HandlerFails(t, retryable) \/ DispatchFails(t, retryable)
  BY <1>3, SettleKeeps
<1>4. CASE \E compact \in BOOLEAN : CrashAndRestart(compact)
  BY <1>4, CrashKeeps
<1>5. CASE \E c \in ArtifactCmds : BridgePending(c)
  BY <1>5, BridgeKeeps
<1>. QED
  BY <1>1, <1>2, <1>3, <1>4, <1>5, QuietStepKeeps DEF Next

\* A command registered once is put back for retry at most max_retries times, however
\* many crashes, expired locks and late workers there are: _mark_failure compares the
\* attempt number of its own claim, and every claim has paid one attempt, in memory and
\* in the ledger, before its handler can fail.
THEOREM RetriesBounded == Spec => []RetryBudget
<1>1. BudgetInv /\ [Next]_vars => BudgetInv'
  BY BudgetNext
<1>2. BudgetInv => RetryBudget
  BY DEF BudgetInv, Budget, RetryBudget
<1>. QED
  BY <1>1, <1>2, BudgetInit, PTL DEF Spec

-----------------------------------------------------------------------------
(* The outbox *)

\* A settled row, in memory or in the ledger, an acknowledgement under way and one that
\* was made are all about a command some handler settled.
HandledInv ==
    /\ outbox \in [ArtifactCmds -> {"none", "pending", "acked"}]
    /\ \A c \in Commands : status[c] \in Settled \/ disk.status[c] \in Settled => c \in handled
    /\ \A t \in Slots : tasks[t].phase = "acking" => tasks[t].cmd \in handled
    /\ AckedOnlyIfHandled

OutboxInv == BudgetInv /\ HandledInv

\* What a step leaves alone: rows that become settled, acknowledgements that begin and
\* acknowledgements that are made are about handled commands.
LEMMA HandledKept ==
    ASSUME HandledInv, handled \subseteq handled',
           outbox' \in [ArtifactCmds -> {"none", "pending", "acked"}],
           \A c \in Commands : status'[c] \in Settled => c \in handled' \/ status[c] \in Settled
                                                           \/ disk.status[c] \in Settled,
           \A c \in Commands : disk'.status[c] \in Settled =>
                                   c \in handled' \/ disk.status[c] \in Settled,
           \A t \in Slots : tasks'[t].phase = "acking" =>
                                tasks'[t].cmd \in handled' \/ tasks'[t] = tasks[t],
           \A c \in ArtifactCmds : outbox'[c] = "acked" => outbox[c] = "acked" \/ c \in handled
    PROVE  HandledInv'
<1>1. \A c \in Commands : status'[c] \in Settled \/ disk'.status[c] \in Settled => c \in handled'
  BY DEF HandledInv
<1>2. \A t \in Slots : tasks'[t].phase = "acking" => tasks'[t].cmd \in handled'
  BY DEF HandledInv
<1>3. AckedOnlyIfHandled'
  BY DEF HandledInv, AckedOnlyIfHandled
<1>. QED
  BY <1>1, <1>2, <1>3 DEF HandledInv

\* A registration makes a row unsettled.
LEMMA RegisterHandled ==
    ASSUME BudgetInv, HandledInv, NEW c \in Commands, RegisterCommand(c), outbox' = outbox
    PROVE  HandledInv'
<1>1. status \in [Commands -> Statuses] /\ disk.status \in [Commands -> Statuses]
  BY DEF BudgetInv, RowTypes, Ledger
<1>2. /\ status' = [status EXCEPT ![c] = "PENDING"]
      /\ disk'.status = [disk.status EXCEPT ![c] = "PENDING"]
      /\ tasks' = tasks /\ handled' = handled
  BY DEF RegisterCommand
<1>3. \A d \in Commands : /\ status'[d] \in Settled => status[d] \in Settled
                          /\ disk'.status[d] \in Settled => disk.status[d] \in Settled
  BY <1>1, <1>2 DEF Settled
<1>. QED
  BY <1>2, <1>3, HandledKept DEF HandledInv

\* A settled row is a handled one.
LEMMA SettleHandled ==
    ASSUME BudgetInv, HandledInv, NEW t \in Slots,
           \/ HandlerSucceeds(t)
           \/ \E retryable \in BOOLEAN : HandlerFails(t, retryable) \/ DispatchFails(t, retryable)
    PROVE  HandledInv'
<1>1. /\ status \in [Commands -> Statuses] /\ disk.status \in [Commands -> Statuses]
      /\ tasks \in [Slots -> TaskStates]
      /\ disk = [order |-> disk.order, status |-> disk.status, attempts |-> attempts]
  BY DEF BudgetInv, RowTypes, Ledger
<1>2. /\ MarkComplete(t) \/ MarkDeadLetter(t) \/ MarkRetry(t)
      /\ outbox' = outbox /\ tasks[t].phase = "handling"
  BY DEF HandlerSucceeds, HandlerFails, DispatchFails, MarkFailure
<1>3. PICK c \in Commands : c = tasks[t].cmd
  BY <1>2 DEF BudgetInv, Rows
<1>4. PICK s \in Statuses : /\ SetRow(c, s) /\ handled \subseteq handled'
                            /\ s \in Settled => c \in handled'
                            /\ ~(s \in Settled) => tasks' = [tasks EXCEPT ![t] = IdleTask]
  BY <1>2, <1>3 DEF MarkComplete, MarkDeadLetter, MarkRetry, Statuses, Claimable, Settled
<1>5. /\ status' = [status EXCEPT ![c] = s]
      /\ disk'.status = [disk.status EXCEPT ![c] = s]
  BY <1>1, <1>4 DEF SetRow
<1>6. \A d \in Commands :
          /\ status'[d] \in Settled => d \in handled' \/ status[d] \in Settled
          /\ disk'.status[d] \in Settled => d \in handled' \/ disk.status[d] \in Settled
  BY <1>1, <1>4, <1>5
<1>7. \/ tasks' = [tasks EXCEPT ![t] = IdleTask]
      \/ tasks' = [tasks EXCEPT ![t] = [tasks[t] EXCEPT !.phase = "acking"]] /\ c \in handled'
  BY <1>1, <1>2, <1>3 DEF MarkComplete, MarkDeadLetter, MarkRetry, AfterSettle
<1>8. IdleTask.phase = "idle" /\ [tasks[t] EXCEPT !.phase = "acking"].cmd = c
  BY <1>1, <1>3 DEF IdleTask, TaskStates
<1>9. \A u \in Slots : tasks'[u].phase = "acking" =>
                           tasks'[u].cmd \in handled' \/ tasks'[u] = tasks[u]
  BY <1>1, <1>7, <1>8
<1>. QED
  BY <1>2, <1>4, <1>6, <1>9, HandledKept DEF HandledInv

\* One case per action.
LEMMA OutboxNext == ASSUME OutboxInv, [Next]_vars PROVE HandledInv'
<1>1. /\ BudgetInv /\ HandledInv /\ tasks \in [Slots -> TaskStates]
      /\ outbox \in [ArtifactCmds -> {"none", "pending", "acked"}]
      /\ status \in [Commands -> Statuses] /\ disk.status \in [Commands -> Statuses]
      /\ disk = [order |-> disk.order, status |-> disk.status, attempts |-> attempts]
  BY DEF OutboxInv, BudgetInv, HandledInv, RowTypes, Ledger
<1>2. ASSUME NEW c \in Commands,
             EnqueueFresh(c) \/ EnqueueEffectCommit(c) \/ EnqueueEffectReconcile(c)
      PROVE  HandledInv'
  BY <1>1, <1>2, RegisterHandled DEF EnqueueFresh, EnqueueEffectCommit, EnqueueEffectReconcile
<1>3. ASSUME NEW c \in ArtifactCmds, BridgePending(c) PROVE HandledInv'
  <2>1. c \in Commands
    BY DEF Commands
  <2>2. CASE RegisterCommand(c) /\ outbox' = outbox
    BY <1>1, <2>1, <2>2, RegisterHandled
  <2>3. CASE /\ UNCHANGED <<memory, disk, tasks, history>>
             /\ \/ outbox' = outbox
                \/ status[c] \in Settled /\ outbox' = [outbox EXCEPT ![c] = "acked"]
    <3>1. status' = status /\ disk' = disk /\ tasks' = tasks /\ handled' = handled
      BY <2>3 DEF memory, history
    <3>2. status[c] \in Settled => c \in handled
      BY <1>1, <2>1 DEF HandledInv
    <3>3. /\ outbox' \in [ArtifactCmds -> {"none", "pending", "acked"}]
          /\ \A d \in ArtifactCmds : outbox'[d] = "acked" => outbox[d] = "acked" \/ d \in handled
      BY <1>1, <2>3, <3>2
    <3>. QED
      BY <1>1, <3>1, <3>3, HandledKept
  <2>. QED
    BY <1>3, <2>2, <2>3 DEF BridgePending
<1>4. ASSUME NEW t \in Slots, NEW c \in Commands, ClaimNext(t, c) PROVE HandledInv'
  <2>1. /\ status' = [status EXCEPT ![c] = "CLAIMED"] /\ handled' = handled /\ outbox' = outbox
        /\ disk'.status = disk.status
    BY <1>1, <1>4 DEF ClaimNext, history
  <2>2. \A d \in Commands : status'[d] \in Settled => status[d] \in Settled
    BY <1>1, <2>1 DEF Settled
  <2>3. \A u \in Slots : tasks'[u].phase = "acking" => tasks'[u] = tasks[u]
    BY <1>1, <1>4 DEF ClaimNext
  <2>. QED
    BY <1>1, <2>1, <2>2, <2>3, HandledKept
<1>5. CASE \/ \E t \in Slots : HandlerSucceeds(t)
           \/ \E t \in Slots, retryable \in BOOLEAN :
                HandlerFails(t, retryable) \/ DispatchFails(t, retryable)
  BY <1>1, <1>5, SettleHandled
<1>6. ASSUME NEW t \in Slots, AcquireSemaphore(t) \/ Acknowledge(t) \/ AcknowledgeFails(t)
      PROVE  HandledInv'
  <2>1. status' = status /\ disk' = disk /\ handled' = handled
    BY <1>6 DEF AcquireSemaphore, Acknowledge, AcknowledgeFails, memory, history
  <2>2. \A u \in Slots : tasks'[u].phase = "acking" => tasks'[u] = tasks[u]
    BY <1>1, <1>6 DEF AcquireSemaphore, Acknowledge, AcknowledgeFails, IdleTask, TaskStates
  <2>3. /\ outbox' \in [ArtifactCmds -> {"none", "pending", "acked"}]
        /\ \A d \in ArtifactCmds : outbox'[d] = "acked" => outbox[d] = "acked" \/ d \in handled
    <3>1. CASE outbox' = outbox
      BY <1>1, <3>1
    <3>2. CASE Acknowledge(t)
      <4>1. tasks[t].cmd \in handled /\ outbox' = [outbox EXCEPT ![tasks[t].cmd] = "acked"]
        BY <1>1, <3>2 DEF Acknowledge, HandledInv
      <4>. QED
        BY <1>1, <4>1
    <3>. QED
      BY <1>6, <3>1, <3>2 DEF AcquireSemaphore, AcknowledgeFails
  <2>. QED
    BY <1>1, <2>1, <2>2, <2>3, HandledKept
<1>7. ASSUME NEW c \in ArtifactCmds, PublishArtifact(c) PROVE HandledInv'
  <2>1. status' = status /\ disk' = disk /\ tasks' = tasks /\ handled' = handled
    BY <1>7 DEF PublishArtifact, memory, history
  <2>2. /\ outbox' \in [ArtifactCmds -> {"none", "pending", "acked"}]
        /\ \A d \in ArtifactCmds : outbox'[d] = "acked" => outbox[d] = "acked"
    BY <1>1, <1>7 DEF PublishArtifact
  <2>. QED
    BY <1>1, <2>1, <2>2, HandledKept
<1>8. CASE \/ BeginPoll \/ ClaimNone \/ UNCHANGED vars
           \/ \E c \in Commands : LockExpires(c) \/ BecomesAvailable(c)
  <2>1. /\ status' = status /\ disk' = disk /\ tasks' = tasks /\ handled' = handled
        /\ outbox' = outbox
    BY <1>8 DEF BeginPoll, ClaimNone, LockExpires, BecomesAvailable, memory, history, vars
  <2>. QED
    BY <1>1, <2>1, HandledKept
<1>9. ASSUME NEW compact \in BOOLEAN, CrashAndRestart(compact) PROVE HandledInv'
  <2>1. /\ status' = disk'.status /\ handled' = handled /\ outbox' = outbox
        /\ \A t \in Slots : tasks'[t].phase = "idle"
    BY <1>9 DEF CrashAndRestart, Reload, history, IdleTask
  <2>2. \A c \in Commands : disk'.status[c] \in Settled => disk.status[c] \in Settled
    BY <1>9 DEF CrashAndRestart, Reload, Live, Settled
  <2>. QED
    BY <1>1, <2>1, <2>2, HandledKept
<1>. QED
  BY <1>2, <1>3, <1>4, <1>5, <1>6, <1>7, <1>8, <1>9 DEF Next

\* The canonical outbox is acknowledged only for an event some claim settled, whether
\* mark_complete's acknowledgement or a later pass of _bridge_pending does it, and
\* whatever a crash or a compaction did to the row in between.
THEOREM AcknowledgedIsHandled == Spec => []AckedOnlyIfHandled
<1>1. Init => HandledInv
  BY DEF Init, HandledInv, AckedOnlyIfHandled, Settled, IdleTask
<1>2. Init => OutboxInv
  BY <1>1, BudgetInit DEF OutboxInv
<1>3. OutboxInv /\ [Next]_vars => OutboxInv'
  BY BudgetNext, OutboxNext DEF OutboxInv
<1>4. OutboxInv => AckedOnlyIfHandled
  BY DEF OutboxInv, HandledInv
<1>. QED
  BY <1>2, <1>3, <1>4, PTL DEF Spec

-----------------------------------------------------------------------------
(* Induction over the length of the order *)

\* A minimal element of a set of numbers is its least.
LEMMA LeastOf ==
    ASSUME NEW R, NEW T \in SUBSET Nat,
           \E x \in T : \A y \in T : ~ (<<y, x>> \in R),
           \A x, y \in Nat : x < y => <<x, y>> \in R
    PROVE  \E x \in T : \A y \in T : x <= y
<1>1. PICK x \in T : \A y \in T : ~ (<<y, x>> \in R)
  OBVIOUS
<1>2. ASSUME NEW y \in T PROVE x <= y
  <2>1. y \in Nat /\ x \in Nat
    OBVIOUS
  <2>2. ~(y < x)
    BY <1>1, <2>1
  <2>. QED BY <2>1, <2>2
<1>. QED
  BY <1>2

\* A set of numbers has a least element, from the well-foundedness of the order.
LEMMA Least ==
    ASSUME NEW T \in SUBSET Nat, T # {}
    PROVE  \E x \in T : \A y \in T : x <= y
<1>. DEFINE R == OpToRel(<, Nat)
<1>1. \E x \in T : \A y \in T : ~ (<<y, x>> \in R)
  BY NatLessThanWellFounded, WFMin
<1>2. \A x, y \in Nat : x < y => <<x, y>> \in R
  BY DEF OpToRel
<1>. HIDE DEF R
<1>. QED
  BY <1>1, <1>2, LeastOf

\* Induction, for a set of numbers.
LEMMA Induct ==
    ASSUME NEW S, 0 \in S, \A n \in Nat : n \in S => n + 1 \in S
    PROVE  \A n \in Nat : n \in S
<1>. SUFFICES ASSUME Nat \ S # {} PROVE FALSE
  OBVIOUS
<1>1. PICK x \in Nat \ S : \A y \in Nat \ S : x <= y
  BY Least
<1>2. x # 0 /\ x - 1 \in Nat /\ ~(x <= x - 1)
  BY <1>1
<1>3. x - 1 \in S
  BY <1>1, <1>2
<1>4. (x - 1) + 1 \in S
  BY <1>2, <1>3
<1>. QED
  BY <1>1, <1>4

\* f gives what is kept of the first n commands of s, for n up to m.
Filter(f, s, L, m) ==
    f = [n \in 0..m |->
            IF n = 0 THEN <<>>
            ELSE IF s[n] \in L THEN Append(f[n - 1], s[n]) ELSE f[n - 1]]

\* The value of such a function at a place.
LEMMA FilterAt ==
    ASSUME NEW f, NEW s, NEW L, NEW m \in Nat, Filter(f, s, L, m)
    PROVE  /\ f[0] = <<>>
           /\ \A n \in 0..m : n # 0 =>
                f[n] = IF s[n] \in L THEN Append(f[n - 1], s[n]) ELSE f[n - 1]
<1>1. \A n \in 0..m : f[n] = IF n = 0 THEN <<>>
                              ELSE IF s[n] \in L THEN Append(f[n - 1], s[n]) ELSE f[n - 1]
  BY Zenon DEF Filter
<1>2. 0 \in 0..m
  OBVIOUS
<1>. QED
  BY <1>1, <1>2

\* There is such a function for every length.
LEMMA FilterExists ==
    ASSUME NEW s, NEW L, NEW m \in Nat
    PROVE  \E f : Filter(f, s, L, m)
<1> DEFINE S == {k \in Nat : \E f : Filter(f, s, L, k)}
<1>1. 0 \in S
  <2> DEFINE f == [n \in 0..0 |-> <<>>]
  <2>1. Filter(f, s, L, 0)
    BY DEF Filter
  <2>. QED
    BY <2>1
<1>2. ASSUME NEW k \in Nat, k \in S PROVE k + 1 \in S
  <2>1. PICK f : Filter(f, s, L, k)
    BY <1>2
  <2> DEFINE e == IF s[k + 1] \in L THEN Append(f[k], s[k + 1]) ELSE f[k]
  <2> DEFINE g == [n \in 0..(k + 1) |-> IF n = k + 1 THEN e ELSE f[n]]
  <2>2. ASSUME NEW n \in 0..(k + 1)
        PROVE  g[n] = IF n = 0 THEN <<>>
                      ELSE IF s[n] \in L THEN Append(g[n - 1], s[n]) ELSE g[n - 1]
    <3>1. CASE n = k + 1
      BY <3>1
    <3>2. CASE n # k + 1
      <4>1. n \in 0..k /\ (n # 0 => n - 1 \in 0..k)
        BY <3>2
      <4>2. g[n] = f[n] /\ (n # 0 => g[n - 1] = f[n - 1])
        BY <3>2, <4>1
      <4>. HIDE DEF g
      <4>3. f[0] = <<>> /\ (n # 0 => f[n] = IF s[n] \in L THEN Append(f[n - 1], s[n]) ELSE f[n - 1])
        BY <2>1, <4>1, FilterAt
      <4>. QED
        BY <4>2, <4>3
    <3>. QED
      BY <3>1, <3>2
  <2>3. Filter(g, s, L, k + 1)
    BY <2>2 DEF Filter
  <2>. QED
    BY <2>3
<1>. HIDE DEF S
<1>3. m \in S
  BY <1>1, <1>2, Induct
<1>. QED
  BY <1>3 DEF S

\* It is what Kept evaluates.
LEMMA KeptIs ==
    ASSUME NEW C, NEW s \in Seq(C), NEW L
    PROVE  \E f : Filter(f, s, L, Len(s)) /\ Kept(s, L) = f[Len(s)]
<1> DEFINE kept == CHOOSE f : Filter(f, s, L, Len(s))
<1>1. Filter(kept, s, L, Len(s))
  BY FilterExists
<1>2. Kept(s, L) = kept[Len(s)]
  BY DEF Kept, Filter
<1>. QED
  BY <1>1, <1>2

-----------------------------------------------------------------------------
(* Orders *)

\* c is among the first n of s, and among them comes before d.
Occurs(c, s, n) == \E i \in 1..n : s[i] = c
Precedes(c, d, s, n) == \E i \in 1..n : s[i] = c /\ \A j \in 1..i : s[j] # d

\* One more command of an order.
LEMMA OneMore ==
    ASSUME NEW s, NEW n \in Nat, NEW c, NEW d
    PROVE  /\ ~Occurs(c, s, 0) /\ ~Precedes(c, d, s, 0)
           /\ Occurs(c, s, n + 1) <=> Occurs(c, s, n) \/ s[n + 1] = c
           /\ Precedes(c, d, s, n + 1) <=>
                Precedes(c, d, s, n) \/ (s[n + 1] = c /\ c # d /\ ~Occurs(d, s, n))
<1>1. 1..(n + 1) = 1..n \cup {n + 1} /\ 1..0 = {}
  OBVIOUS
<1>2. Occurs(c, s, n + 1) <=> Occurs(c, s, n) \/ s[n + 1] = c
  BY <1>1 DEF Occurs
<1>3. (\A j \in 1..(n + 1) : s[j] # d) <=> ~Occurs(d, s, n) /\ s[n + 1] # d
  BY <1>1 DEF Occurs
<1>4. Precedes(c, d, s, n + 1) <=>
        Precedes(c, d, s, n) \/ (s[n + 1] = c /\ \A j \in 1..(n + 1) : s[j] # d)
  BY <1>1 DEF Precedes
<1>. QED
  BY <1>1, <1>2, <1>3, <1>4 DEF Occurs, Precedes

\* What comes first in a sequence that is extended.
LEMMA Extended ==
    ASSUME NEW s, NEW z, NEW n \in Nat, NEW e, z[n + 1] = e, \A i \in 1..n : z[i] = s[i]
    PROVE  /\ \A c : Occurs(c, z, n + 1) <=> Occurs(c, s, n) \/ e = c
           /\ \A c, d : Precedes(c, d, z, n + 1) <=>
                Precedes(c, d, s, n) \/ (e = c /\ c # d /\ ~Occurs(d, s, n))
<1>2. \A x : Occurs(x, z, n) <=> Occurs(x, s, n)
  BY DEF Occurs
<1>3. \A c, d : Precedes(c, d, z, n) <=> Precedes(c, d, s, n)
  <2>1. \A i \in 1..n : \A j \in 1..i : j \in 1..n
    OBVIOUS
  <2>. QED
    BY <2>1 DEF Precedes
<1>4. \A c, d : /\ Occurs(c, z, n + 1) <=> Occurs(c, z, n) \/ z[n + 1] = c
                /\ Precedes(c, d, z, n + 1) <=>
                     Precedes(c, d, z, n) \/ (z[n + 1] = c /\ c # d /\ ~Occurs(d, z, n))
  BY OneMore
<1>. QED
  BY <1>2, <1>3, <1>4

\* The same for Append.
LEMMA Appended ==
    ASSUME NEW C, NEW s \in Seq(C), NEW e \in C
    PROVE  /\ Append(s, e) \in Seq(C)
           /\ \A c : Occurs(c, Append(s, e), Len(Append(s, e))) <=> Occurs(c, s, Len(s)) \/ e = c
           /\ \A c, d : Precedes(c, d, Append(s, e), Len(Append(s, e))) <=>
                Precedes(c, d, s, Len(s)) \/ (e = c /\ c # d /\ ~Occurs(d, s, Len(s)))
<1> DEFINE z == Append(s, e)
           n == Len(s)
<1>1. /\ z \in Seq(C) /\ n \in Nat /\ Len(z) = n + 1 /\ z[n + 1] = e
      /\ \A i \in 1..n : z[i] = s[i]
  OBVIOUS
<1>. HIDE DEF z, n
<1>2. /\ \A c : Occurs(c, z, n + 1) <=> Occurs(c, s, n) \/ e = c
      /\ \A c, d : Precedes(c, d, z, n + 1) <=>
           Precedes(c, d, s, n) \/ (e = c /\ c # d /\ ~Occurs(d, s, n))
  BY <1>1, Extended
<1>. QED
  BY <1>1, <1>2, Zenon DEF z, n

\* Compaction keeps the live commands, in their order.
LEMMA KeptIsOrder ==
    ASSUME NEW C, NEW s \in Seq(C), NEW L
    PROVE  /\ Kept(s, L) \in Seq(C)
           /\ \A c : Occurs(c, Kept(s, L), Len(Kept(s, L))) <=> c \in L /\ Occurs(c, s, Len(s))
           /\ \A c, d \in L : Before(c, d, Kept(s, L)) <=> Before(c, d, s)
<1>1. PICK f : Filter(f, s, L, Len(s)) /\ Kept(s, L) = f[Len(s)]
  BY KeptIs
<1>2. Len(s) \in Nat /\ \A n \in 1..Len(s) : s[n] \in C
  OBVIOUS
<1> DEFINE Good(n) ==
      /\ f[n] \in Seq(C)
      /\ \A c : Occurs(c, f[n], Len(f[n])) <=> c \in L /\ Occurs(c, s, n)
      /\ \A c, d \in L : Precedes(c, d, f[n], Len(f[n])) <=> Precedes(c, d, s, n)
<1> DEFINE S == {n \in Nat : n <= Len(s) => Good(n)}
<1>3. 0 \in S
  <2>1. f[0] = <<>> /\ Len(<<>>) = 0 /\ <<>> \in Seq(C)
    BY <1>1, <1>2, FilterAt
  <2>2. \A c : ~Occurs(c, <<>>, 0) /\ ~Occurs(c, s, 0)
    BY OneMore
  <2>3. \A c, d : ~Precedes(c, d, <<>>, 0) /\ ~Precedes(c, d, s, 0)
    BY OneMore
  <2>4. Good(0)
    BY <2>1, <2>2, <2>3
  <2>. QED
    BY <2>4
<1>4. ASSUME NEW n \in Nat, n \in S PROVE n + 1 \in S
  <2> SUFFICES ASSUME n + 1 <= Len(s) PROVE Good(n + 1)
    OBVIOUS
  <2>1. Good(n) /\ n + 1 \in 0..Len(s) /\ n + 1 \in 1..Len(s) /\ n + 1 # 0 /\ (n + 1) - 1 = n
    BY <1>2, <1>4
  <2> DEFINE e == s[n + 1]
  <2>2. e \in C /\ f[n + 1] = IF e \in L THEN Append(f[n], e) ELSE f[n]
    BY <1>1, <1>2, <2>1, FilterAt
  <2>3. \A c : Occurs(c, s, n + 1) <=> Occurs(c, s, n) \/ e = c
    BY OneMore
  <2>4. \A c, d : Precedes(c, d, s, n + 1) <=>
                    Precedes(c, d, s, n) \/ (e = c /\ c # d /\ ~Occurs(d, s, n))
    BY OneMore
  <2>5. CASE e \in L
    <3> DEFINE q == f[n]
               z == f[n + 1]
    <3>1. q \in Seq(C) /\ z = Append(q, e) /\ e \in C
      BY <2>1, <2>2, <2>5
    <3>3. /\ \A c : Occurs(c, q, Len(q)) <=> c \in L /\ Occurs(c, s, n)
          /\ \A c, d \in L : Precedes(c, d, q, Len(q)) <=> Precedes(c, d, s, n)
      BY <2>1
    <3>. HIDE DEF q, z, e, Good
    <3>2. /\ z \in Seq(C)
          /\ \A c : Occurs(c, z, Len(z)) <=> Occurs(c, q, Len(q)) \/ e = c
          /\ \A c, d : Precedes(c, d, z, Len(z)) <=>
               Precedes(c, d, q, Len(q)) \/ (e = c /\ c # d /\ ~Occurs(d, q, Len(q)))
      BY <3>1, Appended, Zenon
    <3>4. \A c : Occurs(c, z, Len(z)) <=> c \in L /\ Occurs(c, s, n + 1)
      BY <2>3, <2>5, <3>2, <3>3
    <3>5. \A c, d \in L : Precedes(c, d, z, Len(z)) <=> Precedes(c, d, s, n + 1)
      BY <2>4, <3>2, <3>3
    <3>. QED
      BY <3>2, <3>4, <3>5 DEF Good, z
  <2>6. CASE e \notin L
    <3>1. f[n + 1] = f[n]
      BY <2>2, <2>6
    <3>2. \A c \in L : c # e
      BY <2>6
    <3>. QED
      BY <2>1, <2>3, <2>4, <3>1, <3>2
  <2>. QED
    BY <2>5, <2>6
<1>. HIDE DEF S
<1>5. Len(s) \in S
  BY <1>2, <1>3, <1>4, Induct
<1>6. Good(Len(s))
  BY <1>2, <1>5 DEF S
<1>. QED
  BY <1>1, <1>6 DEF Before, Precedes

-----------------------------------------------------------------------------
(* A restart *)

\* c has a place in the order s.
Queued(c, s) == Occurs(c, s, Len(s))

\* TypeOK, but for what RowTypes and Ledger say and for the orders.
OtherTypes ==
    /\ delayed \in SUBSET Commands
    /\ claims \in [Commands -> {"none", "active", "expired"}]
    /\ poll \in [bridging : BOOLEAN, todo : SUBSET ArtifactCmds]
    /\ outbox \in [ArtifactCmds -> {"none", "pending", "acked"}]
    /\ handled \in SUBSET Commands
    /\ crashes \in Nat

\* Memory and ledger agree on which commands there are, which of them are settled and
\* which comes first: a registration appends a command to the order it already has a
\* place in, a replay does not.
Durable ==
    /\ order \in Seq(Commands) /\ disk.order \in Seq(Commands)
    /\ disk.status \in [Commands -> Statuses \ {"CLAIMED"}]
    /\ \A c \in Commands : status[c] \in Settled <=> disk.status[c] \in Settled
    /\ \A c \in Commands : /\ Queued(c, order) <=> status[c] # "absent"
                           /\ Queued(c, disk.order) <=> status[c] # "absent"
    /\ \A c, d \in Commands : c # d => (Before(c, d, order) <=> Before(c, d, disk.order))

\* A command that is in an order where the other is not comes before it.
LEMMA AloneIsFirst ==
    ASSUME NEW s, NEW c, NEW d, Queued(c, s), ~Queued(d, s), Len(s) \in Nat
    PROVE  Before(c, d, s)
<1>1. PICK i \in 1..Len(s) : s[i] = c
  BY DEF Queued, Occurs
<1>2. \A j \in 1..i : j \in 1..Len(s)
  OBVIOUS
<1>. QED
  BY <1>1, <1>2 DEF Queued, Occurs, Before

\* The order after a registration.
LEMMA OrderAppended ==
    ASSUME NEW s \in Seq(Commands), NEW e \in Commands
    PROVE  /\ Append(s, e) \in Seq(Commands)
           /\ \A c : Queued(c, Append(s, e)) <=> Queued(c, s) \/ e = c
           /\ \A c, d : Before(c, d, Append(s, e)) <=>
                Before(c, d, s) \/ (e = c /\ c # d /\ ~Queued(d, s))
<1>1. \A c, d, z : Before(c, d, z) <=> Precedes(c, d, z, Len(z))
  BY DEF Before, Precedes
<1>2. /\ Append(s, e) \in Seq(Commands)
      /\ \A c : Occurs(c, Append(s, e), Len(Append(s, e))) <=> Occurs(c, s, Len(s)) \/ e = c
      /\ \A c, d : Precedes(c, d, Append(s, e), Len(Append(s, e))) <=>
           Precedes(c, d, s, Len(s)) \/ (e = c /\ c # d /\ ~Occurs(d, s, Len(s)))
  BY Appended
<1>. QED
  BY <1>1, <1>2, Zenon DEF Queued

\* A step that writes neither the orders nor the ledger, and settles nothing.
LEMMA QuietDurable ==
    ASSUME Durable, UNCHANGED <<order, disk>>,
           \A c \in Commands : /\ status'[c] \in Settled <=> status[c] \in Settled
                               /\ status'[c] = "absent" <=> status[c] = "absent"
    PROVE  Durable'
<1>1. \A c, d : /\ Before(c, d, order)' <=> Before(c, d, order)
                /\ Before(c, d, disk.order)' <=> Before(c, d, disk.order)
                /\ Queued(c, order)' <=> Queued(c, order)
                /\ Queued(c, disk.order)' <=> Queued(c, disk.order)
  BY DEF Before, Queued, Occurs
<1>. QED
  BY <1>1 DEF Durable

\* A registration: a command with a place keeps it.
LEMMA RegisterDurable ==
    ASSUME BudgetInv, Durable, NEW c \in Commands, RegisterCommand(c)
    PROVE  Durable'
<1>1. /\ status \in [Commands -> Statuses] /\ order \in Seq(Commands) /\ disk.order \in Seq(Commands)
      /\ disk.status \in [Commands -> Statuses \ {"CLAIMED"}]
  BY DEF BudgetInv, RowTypes, Durable
<1> DEFINE o == Append(order, c)
           d0 == Append(disk.order, c)
<1>2. /\ status' = [status EXCEPT ![c] = "PENDING"]
      /\ disk'.status = [disk.status EXCEPT ![c] = "PENDING"]
      /\ order' = o
      /\ disk'.order = IF disk.status[c] = "absent" THEN d0 ELSE disk.order
  BY DEF RegisterCommand
<1>3. /\ o \in Seq(Commands)
      /\ \A a : Queued(a, o) <=> Queued(a, order) \/ c = a
      /\ \A a, b : Before(a, b, o) <=> Before(a, b, order) \/ (c = a /\ a # b /\ ~Queued(b, order))
  BY <1>1, OrderAppended
<1>4. /\ d0 \in Seq(Commands)
      /\ \A a : Queued(a, d0) <=> Queued(a, disk.order) \/ c = a
      /\ \A a, b : Before(a, b, d0) <=>
           Before(a, b, disk.order) \/ (c = a /\ a # b /\ ~Queued(b, disk.order))
  BY <1>1, OrderAppended
<1>. HIDE DEF o, d0
<1>5. /\ disk'.status \in [Commands -> Statuses \ {"CLAIMED"}]
      /\ order' \in Seq(Commands) /\ disk'.order \in Seq(Commands)
  BY <1>1, <1>2, <1>3, <1>4 DEF Statuses, Claimable
<1>6. \A a \in Commands : /\ status'[a] \in Settled <=> disk'.status[a] \in Settled
                          /\ status'[a] # "absent" <=> status[a] # "absent" \/ a = c
  BY <1>1, <1>2 DEF Durable, Settled
<1>7. \A a \in Commands : Queued(a, order') <=> status'[a] # "absent"
  BY <1>2, <1>3, <1>6 DEF Durable
<1>8. disk.status[c] = "absent" <=> status[c] = "absent"
  BY DEF BudgetInv, Ledger
<1>9. \A a \in Commands : Queued(a, disk'.order) <=> status'[a] # "absent"
  BY <1>2, <1>4, <1>6, <1>8 DEF Durable
<1>10. ASSUME NEW a \in Commands, NEW b \in Commands, a # b
       PROVE  Before(a, b, order') <=> Before(a, b, disk'.order)
  <2>1. CASE disk.status[c] = "absent"
    BY <1>2, <1>3, <1>4, <1>10, <2>1 DEF Durable
  <2>2. CASE disk.status[c] # "absent"
    <3>1. Queued(c, order) /\ Len(order) \in Nat
      BY <1>1, <1>8, <2>2 DEF Durable
    <3>2. Before(a, b, o) <=> Before(a, b, order)
      BY <1>3, <3>1, AloneIsFirst
    <3>. QED
      BY <1>2, <1>10, <2>2, <3>2 DEF Durable
  <2>. QED
    BY <2>1, <2>2
<1>11. \A a, b : /\ Before(a, b, order)' <=> Before(a, b, order')
                 /\ Before(a, b, disk.order)' <=> Before(a, b, disk'.order)
                 /\ Queued(a, order)' <=> Queued(a, order')
                 /\ Queued(a, disk.order)' <=> Queued(a, disk'.order)
  BY DEF Before, Queued, Occurs
<1>. QED
  BY <1>5, <1>6, <1>7, <1>9, <1>10, <1>11 DEF Durable

\* A claim writes no row to the ledger.
LEMMA ClaimDurable ==
    ASSUME BudgetInv, Durable, NEW t \in Slots, NEW c \in Commands, ClaimNext(t, c)
    PROVE  Durable'
<1>1. /\ status \in [Commands -> Statuses]
      /\ disk = [order |-> disk.order, status |-> disk.status, attempts |-> attempts]
  BY DEF BudgetInv, RowTypes, Ledger
<1>2. /\ status' = [status EXCEPT ![c] = "CLAIMED"] /\ order' = order
      /\ disk'.status = disk.status /\ disk'.order = disk.order
  BY <1>1 DEF ClaimNext
<1>3. status[c] \in Claimable
  BY DEF ClaimNext, IsNext, CanClaim
<1>4. \A a \in Commands : /\ status'[a] \in Settled <=> status[a] \in Settled
                          /\ status'[a] = "absent" <=> status[a] = "absent"
  BY <1>1, <1>2, <1>3 DEF Claimable, Settled
<1>5. \A a, b : /\ Before(a, b, order)' <=> Before(a, b, order)
                /\ Before(a, b, disk.order)' <=> Before(a, b, disk.order)
                /\ Queued(a, order)' <=> Queued(a, order)
                /\ Queued(a, disk.order)' <=> Queued(a, disk.order)
  BY <1>2 DEF Before, Queued, Occurs
<1>. QED
  BY <1>2, <1>4, <1>5 DEF Durable

\* A settled claim, or one put back, is written to both.
LEMMA SettleDurable ==
    ASSUME BudgetInv, Durable, NEW t \in Slots,
           \/ HandlerSucceeds(t)
           \/ \E retryable \in BOOLEAN : HandlerFails(t, retryable) \/ DispatchFails(t, retryable)
    PROVE  Durable'
<1>1. /\ status \in [Commands -> Statuses] /\ disk.status \in [Commands -> Statuses \ {"CLAIMED"}]
      /\ disk = [order |-> disk.order, status |-> disk.status, attempts |-> attempts]
  BY DEF BudgetInv, RowTypes, Ledger, Durable
<1>2. /\ MarkComplete(t) \/ MarkDeadLetter(t) \/ MarkRetry(t)
      /\ order' = order /\ tasks[t].phase = "handling"
  BY DEF HandlerSucceeds, HandlerFails, DispatchFails, MarkFailure
<1>3. PICK c \in Commands : c = tasks[t].cmd
  BY <1>2 DEF BudgetInv, Rows
<1>4. status[c] # "absent"
  BY <1>2, <1>3 DEF BudgetInv, Rows, Holds
<1>5. PICK s \in Statuses \ {"CLAIMED", "absent"} : SetRow(c, s)
  BY <1>2, <1>3 DEF MarkComplete, MarkDeadLetter, MarkRetry, Statuses, Claimable, Settled
<1>6. /\ status' = [status EXCEPT ![c] = s]
      /\ disk'.status = [disk.status EXCEPT ![c] = s] /\ disk'.order = disk.order
  BY <1>1, <1>5 DEF SetRow
<1>7. /\ disk'.status \in [Commands -> Statuses \ {"CLAIMED"}]
      /\ \A a \in Commands : /\ status'[a] \in Settled <=> disk'.status[a] \in Settled
                             /\ status'[a] = "absent" <=> status[a] = "absent"
  BY <1>1, <1>4, <1>6 DEF Durable
<1>8. \A a, b : /\ Before(a, b, order)' <=> Before(a, b, order)
                /\ Before(a, b, disk.order)' <=> Before(a, b, disk.order)
                /\ Queued(a, order)' <=> Queued(a, order)
                /\ Queued(a, disk.order)' <=> Queued(a, disk.order)
  BY <1>2, <1>6 DEF Before, Queued, Occurs
<1>. QED
  BY <1>2, <1>6, <1>7, <1>8 DEF Durable

\* What a boot makes of a row.
LEMMA Booted ==
    ASSUME BudgetInv, Durable, NEW compact \in BOOLEAN, CrashAndRestart(compact)
    PROVE  /\ order' = disk'.order /\ status' = disk'.status /\ attempts' = disk'.attempts
           /\ disk'.order \in Seq(Commands)
           /\ disk'.status \in [Commands -> Statuses \ {"CLAIMED"}]
           /\ \A c \in Commands : /\ Queued(c, disk'.order) <=> disk'.status[c] # "absent"
                                  /\ Live(c) => /\ disk'.status[c] = disk.status[c]
                                                /\ disk'.attempts[c] = attempts[c]
                                  /\ disk'.status[c] \notin Settled \cup {"absent"} => Live(c)
           /\ \A c, d \in Commands : Live(c) /\ Live(d) =>
                (Before(c, d, disk'.order) <=> Before(c, d, disk.order))
<1>1. order' = disk'.order /\ status' = disk'.status /\ attempts' = disk'.attempts
  BY DEF CrashAndRestart, Reload
<1>2. /\ disk.order \in Seq(Commands) /\ disk.status \in [Commands -> Statuses \ {"CLAIMED"}]
      /\ disk.attempts = attempts
      /\ \A c \in Commands : Queued(c, disk.order) <=> disk.status[c] # "absent"
  BY DEF BudgetInv, Ledger, Durable
<1>3. CASE ~compact
  <2>1. disk' = disk
    BY <1>3 DEF CrashAndRestart, Reload
  <2>. QED
    BY <1>1, <1>2, <2>1 DEF Live
<1>4. CASE compact
  <2> DEFINE st == [c \in Commands |-> IF Live(c) THEN disk.status[c] ELSE "absent"]
             at == [c \in Commands |-> IF Live(c) THEN disk.attempts[c] ELSE 0]
             L == {c \in Commands : Live(c)}
             or == Kept(disk.order, L)
  <2>1. disk' = [order |-> or, status |-> st, attempts |-> at]
    BY <1>4 DEF CrashAndRestart, Reload
  <2>2. /\ st \in [Commands -> Statuses \ {"CLAIMED"}]
        /\ \A c \in Commands : /\ Live(c) => st[c] = disk.status[c] /\ at[c] = attempts[c]
                               /\ st[c] # "absent" <=> Live(c)
    BY <1>2 DEF Statuses, Claimable, Live
  <2>3. \A c \in Commands : (c \in L) <=> Live(c)
    OBVIOUS
  <2> HIDE DEF st, at, L
  <2>4. /\ or \in Seq(Commands)
        /\ \A c : Occurs(c, or, Len(or)) <=> c \in L /\ Occurs(c, disk.order, Len(disk.order))
        /\ \A c, d \in L : Before(c, d, or) <=> Before(c, d, disk.order)
    BY <1>2, KeptIsOrder
  <2> HIDE DEF or
  <2>5. disk'.status = st /\ disk'.attempts = at /\ disk'.order = or
    BY <2>1
  <2>6. \A c \in Commands : Queued(c, or) <=> st[c] # "absent"
    BY <1>2, <2>2, <2>3, <2>4 DEF Queued, Live
  <2>7. \A c, d \in Commands : Live(c) /\ Live(d) => (Before(c, d, or) <=> Before(c, d, disk.order))
    BY <2>3, <2>4
  <2>. QED
    BY <1>1, <2>2, <2>4, <2>5, <2>6, <2>7
<1>. QED
  BY <1>3, <1>4

\* After a boot memory is what the ledger holds.
LEMMA CrashDurable ==
    ASSUME BudgetInv, Durable, NEW compact \in BOOLEAN, CrashAndRestart(compact)
    PROVE  Durable'
<1>1. /\ order' = disk'.order /\ status' = disk'.status
      /\ disk'.order \in Seq(Commands)
      /\ disk'.status \in [Commands -> Statuses \ {"CLAIMED"}]
      /\ \A c \in Commands : Queued(c, disk'.order) <=> disk'.status[c] # "absent"
  BY Booted
<1>2. \A a, b : /\ Before(a, b, order)' <=> Before(a, b, disk'.order)
                /\ Before(a, b, disk.order)' <=> Before(a, b, disk'.order)
                /\ Queued(a, order)' <=> Queued(a, disk'.order)
                /\ Queued(a, disk.order)' <=> Queued(a, disk'.order)
  BY <1>1 DEF Before, Queued, Occurs
<1>. QED
  BY <1>1, <1>2 DEF Durable

\* Every step keeps memory and ledger in agreement.
LEMMA DurableNext == ASSUME BudgetInv, Durable, [Next]_vars PROVE Durable'
<1>1. ASSUME NEW c \in Commands,
             EnqueueFresh(c) \/ EnqueueEffectCommit(c) \/ EnqueueEffectReconcile(c)
      PROVE  Durable'
  BY <1>1, RegisterDurable DEF EnqueueFresh, EnqueueEffectCommit, EnqueueEffectReconcile
<1>2. CASE UNCHANGED <<order, status, disk>>
  BY <1>2, QuietDurable
<1>3. ASSUME NEW c \in ArtifactCmds, BridgePending(c) PROVE Durable'
  <2>1. c \in Commands
    BY DEF Commands
  <2>2. RegisterCommand(c) \/ UNCHANGED <<order, status, disk>>
    BY <1>3 DEF BridgePending, memory
  <2>. QED
    BY <1>2, <2>1, <2>2, RegisterDurable
<1>4. CASE \E t \in Slots, c \in Commands : ClaimNext(t, c)
  BY <1>4, ClaimDurable
<1>5. CASE \/ \E t \in Slots : HandlerSucceeds(t)
           \/ \E t \in Slots, retryable \in BOOLEAN :
                HandlerFails(t, retryable) \/ DispatchFails(t, retryable)
  BY <1>5, SettleDurable
<1>6. CASE \E compact \in BOOLEAN : CrashAndRestart(compact)
  BY <1>6, CrashDurable
<1>. QED
  BY <1>1, <1>2, <1>3, <1>4, <1>5, <1>6 DEF Next, PublishArtifact, BeginPoll, ClaimNone,
     AcquireSemaphore, Acknowledge, AcknowledgeFails, LockExpires, BecomesAvailable, memory, vars

\* Every step keeps the other types.
LEMMA OtherTypesNext == ASSUME BudgetInv, OtherTypes, [Next]_vars PROVE OtherTypes'
<1>0. /\ delayed \in SUBSET Commands
      /\ claims \in [Commands -> {"none", "active", "expired"}]
      /\ poll \in [bridging : BOOLEAN, todo : SUBSET ArtifactCmds]
      /\ outbox \in [ArtifactCmds -> {"none", "pending", "acked"}]
      /\ handled \in SUBSET Commands /\ crashes \in Nat
      /\ ArtifactCmds \subseteq Commands
  BY DEF OtherTypes, Commands
<1>i. IdlePoll \in [bridging : BOOLEAN, todo : SUBSET ArtifactCmds]
  BY DEF IdlePoll
<1>1. ASSUME NEW c \in Commands, RegisterCommand(c), poll' = poll, outbox' = outbox PROVE OtherTypes'
  BY <1>0, <1>1 DEF RegisterCommand, OtherTypes
<1>2. ASSUME NEW c \in Commands,
             EnqueueFresh(c) \/ EnqueueEffectCommit(c) \/ EnqueueEffectReconcile(c)
      PROVE  OtherTypes'
  BY <1>1, <1>2 DEF EnqueueFresh, EnqueueEffectCommit, EnqueueEffectReconcile
<1>3. ASSUME NEW c \in ArtifactCmds, BridgePending(c) PROVE OtherTypes'
  <2>1. poll' = [poll EXCEPT !.todo = poll.todo \ {c}]
    BY <1>3 DEF BridgePending
  <2>2. poll' \in [bridging : BOOLEAN, todo : SUBSET ArtifactCmds]
    BY <1>0, <2>1
  <2>3. /\ outbox' \in [ArtifactCmds -> {"none", "pending", "acked"}]
        /\ delayed' \subseteq delayed /\ UNCHANGED <<claims, handled, crashes>>
    BY <1>0, <1>3 DEF BridgePending, RegisterCommand, memory, history
  <2>. QED
    BY <1>0, <2>2, <2>3 DEF OtherTypes
<1>4. CASE \E t \in Slots, c \in Commands : ClaimNext(t, c)
  BY <1>0, <1>i, <1>4 DEF ClaimNext, OtherTypes, history
<1>5. ASSUME NEW t \in Slots,
             \/ HandlerSucceeds(t)
             \/ \E retryable \in BOOLEAN : HandlerFails(t, retryable) \/ DispatchFails(t, retryable)
      PROVE  OtherTypes'
  <2>1. /\ MarkComplete(t) \/ MarkDeadLetter(t) \/ MarkRetry(t)
        /\ UNCHANGED <<poll, outbox, crashes>> /\ tasks[t].phase = "handling"
    BY <1>5 DEF HandlerSucceeds, HandlerFails, DispatchFails, MarkFailure
  <2>2. PICK c \in Commands : c = tasks[t].cmd
    BY <2>1 DEF BudgetInv, Rows
  <2>3. /\ claims' = [claims EXCEPT ![c] = "none"]
        /\ delayed' \subseteq delayed \cup {c} /\ handled' \subseteq handled \cup {c}
    BY <2>1, <2>2 DEF MarkComplete, MarkDeadLetter, MarkRetry, SetRow
  <2>4. claims' \in [Commands -> {"none", "active", "expired"}]
    BY <1>0, <2>3
  <2>. QED
    BY <1>0, <2>1, <2>3, <2>4 DEF OtherTypes
<1>6. CASE \E compact \in BOOLEAN : CrashAndRestart(compact)
  BY <1>0, <1>i, <1>6 DEF CrashAndRestart, Reload, OtherTypes, history
<1>7. CASE \/ \E c \in ArtifactCmds : PublishArtifact(c)
           \/ \E t \in Slots : AcquireSemaphore(t) \/ Acknowledge(t) \/ AcknowledgeFails(t)
           \/ \E c \in Commands : LockExpires(c) \/ BecomesAvailable(c)
  BY <1>0, <1>7 DEF PublishArtifact, AcquireSemaphore, Acknowledge, AcknowledgeFails,
     LockExpires, BecomesAvailable, OtherTypes, memory, history
<1>8. CASE BeginPoll
  <2>1. poll' \in [bridging : BOOLEAN, todo : SUBSET ArtifactCmds]
    BY <1>8 DEF BeginPoll
  <2>. QED
    BY <1>0, <1>8, <2>1 DEF BeginPoll, OtherTypes, memory, history
<1>9. CASE ClaimNone \/ UNCHANGED vars
  BY <1>0, <1>i, <1>9 DEF ClaimNone, OtherTypes, memory, history, vars
<1>. QED
  BY <1>2, <1>3, <1>4, <1>5, <1>6, <1>7, <1>8, <1>9 DEF Next

\* The inductive invariant.
QueueInv == BudgetInv /\ Durable /\ OtherTypes

\* An empty queue.
LEMMA QueueInit == Init => QueueInv
<1> SUFFICES ASSUME Init PROVE Durable /\ OtherTypes
  BY BudgetInit DEF QueueInv
<1>1. /\ order = <<>> /\ disk.order = <<>> /\ Len(<<>>) = 0 /\ <<>> \in Seq(Commands)
  BY DEF Init
<1>2. \A c : ~Queued(c, order) /\ ~Queued(c, disk.order)
  BY <1>1, OneMore DEF Queued
<1>3. Durable
  BY <1>1, <1>2 DEF Init, Durable, Statuses, Claimable, Settled
<1>4. OtherTypes
  BY DEF Init, OtherTypes, IdlePoll
<1>. QED
  BY <1>3, <1>4

\* It holds throughout.
LEMMA QueueInvariant == Spec => []QueueInv
<1>1. QueueInv /\ [Next]_vars => QueueInv'
  BY BudgetNext, DurableNext, OtherTypesNext DEF QueueInv
<1>. QED
  BY <1>1, QueueInit, PTL DEF Spec

\* The queue, the ledger's image, the slots and the outbox keep their types; in
\* particular no row is ever CLAIMED in the ledger.
THEOREM QueueTypeCorrect == Spec => []TypeOK
<1>1. QueueInv => TypeOK
  <2> SUFFICES ASSUME QueueInv PROVE TypeOK
    OBVIOUS
  <2>1. /\ disk = [order |-> disk.order, status |-> disk.status, attempts |-> attempts]
        /\ disk.order \in Seq(Commands) /\ attempts \in [Commands -> Nat]
        /\ disk.status \in [Commands -> Statuses \ {"CLAIMED"}]
    BY DEF QueueInv, BudgetInv, RowTypes, Ledger, Durable
  <2>2. disk \in [order : Seq(Commands), status : [Commands -> Statuses \ {"CLAIMED"}],
                  attempts : [Commands -> Nat]]
    BY <2>1
  <2>. QED
    BY <2>2 DEF TypeOK, QueueInv, BudgetInv, RowTypes, Durable, OtherTypes, TaskStates
<1>. QED
  BY <1>1, QueueInvariant, PTL

\* A restart neither loses nor resurrects work, and keeps attempts and order, for any
\* commands, slots, registrations, late workers and earlier crashes, compaction or not:
\* replaying the ledger gives what memory held but for the claims
\* (_load_queue_from_disk, _compact_queue_ledger).
THEOREM RestartPreservesWork == Spec => RestartKeepsWork
<1> DEFINE Kept1 == crashes' # crashes =>
        /\ \A c \in Commands :
            /\ (status'[c] \in {"PENDING", "RETRY"}) <=> (status[c] \in Claimable)
            /\ status[c] \in Claimable => attempts'[c] = attempts[c]
        /\ \A c, d \in Commands :
            (status[c] \in Claimable /\ status[d] \in Claimable /\ c # d) =>
                (Before(c, d, order) <=> Before(c, d, order'))
<1>1. ASSUME QueueInv, Next PROVE Kept1
  <2> SUFFICES ASSUME crashes' # crashes PROVE Kept1
    OBVIOUS
  <2>1. PICK compact \in BOOLEAN : CrashAndRestart(compact)
    BY <1>1 DEF Next, EnqueueFresh, EnqueueEffectCommit, EnqueueEffectReconcile, RegisterCommand,
       PublishArtifact, BridgePending, BeginPoll, ClaimNext, ClaimNone, AcquireSemaphore,
       HandlerSucceeds, HandlerFails, DispatchFails, Acknowledge, AcknowledgeFails, LockExpires,
       BecomesAvailable
  <2>2. BudgetInv /\ Durable
    BY <1>1 DEF QueueInv
  <2>3. /\ order' = disk'.order /\ status' = disk'.status /\ attempts' = disk'.attempts
        /\ disk'.status \in [Commands -> Statuses \ {"CLAIMED"}]
        /\ \A c \in Commands : /\ Live(c) => /\ disk'.status[c] = disk.status[c]
                                             /\ disk'.attempts[c] = attempts[c]
                               /\ disk'.status[c] \notin Settled \cup {"absent"} => Live(c)
        /\ \A c, d \in Commands : Live(c) /\ Live(d) =>
             (Before(c, d, disk'.order) <=> Before(c, d, disk.order))
    BY <2>1, <2>2, Booted
  <2>4. \A c \in Commands : Live(c) <=> status[c] \in Claimable
    <3>1. \A c \in Commands : /\ status[c] \in Settled <=> disk.status[c] \in Settled
                              /\ disk.status[c] = "absent" <=> status[c] = "absent"
                              /\ status[c] \in Statuses
      BY <2>2 DEF BudgetInv, RowTypes, Ledger, Durable
    <3>. QED
      BY <3>1 DEF Live, Statuses, Claimable, Settled
  <2>5. \A c \in Commands : disk'.status[c] \notin Settled \cup {"absent"}
                              <=> disk'.status[c] \in {"PENDING", "RETRY"}
    BY <2>3 DEF Statuses, Claimable, Settled
  <2>6. \A c \in Commands : Live(c) => disk.status[c] \notin Settled \cup {"absent"}
    BY DEF Live
  <2>7. \A c \in Commands : /\ (status'[c] \in {"PENDING", "RETRY"}) <=> (status[c] \in Claimable)
                            /\ status[c] \in Claimable => attempts'[c] = attempts[c]
    BY <2>3, <2>4, <2>5, <2>6
  <2>8. \A c, d \in Commands : (status[c] \in Claimable /\ status[d] \in Claimable /\ c # d) =>
                                 (Before(c, d, order) <=> Before(c, d, order'))
    BY <2>2, <2>3, <2>4 DEF Durable
  <2>. QED
    BY <2>7, <2>8
<1>2. QueueInv /\ [Next]_vars => [Kept1]_vars
  BY <1>1
<1>. QED
  BY <1>2, QueueInvariant, PTL DEF Spec, RestartKeepsWork
=============================================================================
