------------------------ MODULE ArtifactCleanupProofs ------------------------
(***************************************************************************)
(* The safety of ArtifactCleanup for any number of workers, tenants,       *)
(* executions and mishaps.                                                 *)
(***************************************************************************)
EXTENDS ArtifactCleanup, FiniteSetTheorems, SequenceTheorems, TLAPS

\* The types, without those of the retained entries, on which no lock depends.
TypesOK ==
    /\ lease \in BOOLEAN
    /\ cursor \in Orgs \cup {None}
    /\ deferred \in SUBSET Orgs
    /\ proc \in [Procs -> Runners]
    /\ exec \in [Execs -> Executions]
    /\ mishaps \in 0..MaxMishaps

Entries == Execs \cup {None}
Tasks == tracked \in [Procs -> Seq(Entries)]

\* One holder per tenant's lock file.
Locks ==
    \A d, e \in Execs : exec[d].lock /\ exec[e].lock /\ exec[d].org = exec[e].org => d = e

\* A pass that has not stopped is locked, recorded and in its runner's hands.
Passes ==
    \A e \in Execs :
        exec[e].task \in {"queued", "running"} =>
            /\ exec[e].lock /\ exec[e].row # "none"
            /\ exec[e].kept \in {"watched", "quarantined"}
            /\ exec[e].task = "queued" => exec[e].kept = "watched"

Stopped == {"completed", "failed", "lost"}

\* The execution the runner of p attends to is its own, from locking the tenant until
\* it has released it or given it up.
Attends(p) ==
    LET r == proc[p]
        e == r.cur
    IN  /\ r.pc \in {"register", "watch", "cancel", "release", "quit"} /\ ~r.hung =>
             /\ e \in Execs /\ exec[e].owner = p /\ exec[e].lock
             /\ exec[e].kept = IF r.pc = "register" THEN "no" ELSE "watched"
        /\ r.pc = "register" => exec[e].row = "none" /\ exec[e].task = "none"
        /\ r.pc \in {"register", "watch"} => exec[e].org = Head(r.page)
        /\ r.pc \in {"watch", "cancel"} => exec[e].task # "none"
        /\ r.pc = "watch" /\ r.gen => exec[e].fence
        /\ r.pc \in {"release", "quit"} /\ ~r.hung => exec[e].task \in Stopped
        /\ r.hung => r.pc \in {"defer", "release", "quit"}
        /\ r.pc = "defer" => r.hung

\* Where the runner of p is in its page.
Paging(p) ==
    /\ proc[p].pc \in {"register", "watch", "cancel", "defer", "release", "quit"} =>
         proc[p].page # <<>>
    /\ proc[p].pc \in {"register", "watch", "cancel", "defer"} => proc[p].scanned < MaxOrgs

Runner == \A p \in Procs : Attends(p) /\ Paging(p)

\* A token is active under an active lease only.
Fenced == \A p \in Procs : proc[p].gen => lease

Room == Cardinality(Recorded) <= MaxActive

\* The inductive invariant, together with Tasks.
IInv == TypesOK /\ Locks /\ Passes /\ Runner /\ Fenced /\ Room

-----------------------------------------------------------------------------
(* Types *)

\* A token not in use, and a runner before its first cycle, are in their types.
LEMMA NoExecutionType == NoExecution \in Executions
BY DEF NoExecution, Executions

LEMMA IdleRunnerType == IdleRunner \in Runners
<1>1. <<>> \in Seq(Orgs)
  OBVIOUS
<1>. QED
  BY <1>1, CleanupAssumption DEF IdleRunner, Runners, Pcs

\* Every assignment a step makes to a runner leaves a runner.
LEMMA RunnerUpdates ==
    ASSUME NEW r \in Runners
    PROVE  /\ \A pc \in Pcs : [r EXCEPT !.pc = pc] \in Runners
           /\ \A x \in BOOLEAN : [r EXCEPT !.gen = x] \in Runners
           /\ \A o \in Orgs \cup {None} : [r EXCEPT !.seen = o] \in Runners
           /\ \A s \in Seq(Orgs) : [r EXCEPT !.page = s] \in Runners
           /\ \A n \in 0..MaxOrgs : [r EXCEPT !.scanned = n] \in Runners
           /\ \A e \in Execs \cup {None} : [r EXCEPT !.cur = e] \in Runners
           /\ \A x \in BOOLEAN : [r EXCEPT !.hung = x] \in Runners
           /\ \A x \in BOOLEAN : [r EXCEPT !.stop = x] \in Runners
           /\ \A E \in SUBSET Execs : [r EXCEPT !.due = E] \in Runners
BY DEF Runners

\* And every assignment to an execution an execution.
LEMMA ExecutionUpdates ==
    ASSUME NEW x \in Executions, NEW o \in Orgs \cup {None}, NEW p \in Procs \cup {None},
           NEW row \in {"none", "active", "quarantined", "pending", "due"}, NEW b \in BOOLEAN,
           NEW task \in {"none", "queued", "running", "completed", "failed", "lost"},
           NEW kept \in {"no", "watched", "quarantined", "dropping", "pending"}
    PROVE  /\ [x EXCEPT !.org = o] \in Executions
           /\ [x EXCEPT !.owner = p] \in Executions
           /\ [x EXCEPT !.row = row] \in Executions
           /\ [x EXCEPT !.fence = b] \in Executions
           /\ [x EXCEPT !.lock = b] \in Executions
           /\ [x EXCEPT !.task = task] \in Executions
           /\ [x EXCEPT !.kept = kept] \in Executions
BY DEF Executions

\* The page is a rotation of the inventory.
LEMMA PageType == ASSUME NEW c PROVE FairOrgPage(c) \in Seq(Orgs)
<1>1. Inventory \in Seq(Orgs)
  BY CleanupAssumption
<1>2. CASE c \in Orgs
  <2> DEFINE k == CHOOSE i \in DOMAIN Inventory : Inventory[i] = c
  <2>1. \E i \in DOMAIN Inventory : Inventory[i] = c
    BY <1>2 DEF Orgs
  <2>2. k \in DOMAIN Inventory
    BY <2>1
  <2>3. k \in 1..Len(Inventory) /\ Len(Inventory) \in Nat
    BY <1>1, <2>2
  <2> HIDE DEF k
  <2>4. SubSeq(Inventory, k + 1, Len(Inventory)) \in Seq(Orgs)
    BY <1>1, <2>3
  <2>5. SubSeq(Inventory, 1, k) \in Seq(Orgs)
    BY <1>1, <2>3
  <2>6. FairOrgPage(c) = SubSeq(Inventory, k + 1, Len(Inventory)) \o SubSeq(Inventory, 1, k)
    BY <1>2 DEF FairOrgPage, k
  <2>. QED
    BY <2>4, <2>5, <2>6
<1>3. CASE c \notin Orgs
  BY <1>1, <1>3 DEF FairOrgPage
<1>. QED
  BY <1>2, <1>3

\* What a page that is not over is made of.
LEMMA PageSteps ==
    ASSUME TypesOK, NEW p \in Procs, proc[p].page # <<>>
    PROVE  Head(proc[p].page) \in Orgs /\ Tail(proc[p].page) \in Seq(Orgs)
<1>1. proc[p] \in Runners
  BY DEF TypesOK
<1>2. proc[p].page \in Seq(Orgs)
  BY <1>1 DEF Runners
<1>. QED
  BY <1>2

\* The first state is in its types.
LEMMA TypeInit == Init => TypesOK
<1> SUFFICES ASSUME Init PROVE TypesOK
  OBVIOUS
<1>1. lease \in BOOLEAN /\ cursor \in Orgs \cup {None} /\ deferred \in SUBSET Orgs
  BY DEF Init
<1>2. proc \in [Procs -> Runners]
  BY IdleRunnerType DEF Init
<1>3. exec \in [Execs -> Executions]
  BY NoExecutionType DEF Init
<1>4. mishaps \in 0..MaxMishaps
  BY CleanupAssumption DEF Init
<1>. QED
  BY <1>1, <1>2, <1>3, <1>4 DEF TypesOK

\* What a mishap does to its count.
LEMMA MishapType ==
    ASSUME TypesOK, NEW n \in Nat, Mishap(n)
    PROVE  mishaps' \in 0..MaxMishaps
BY CleanupAssumption DEF TypesOK, Mishap

\* The two outcomes of a release: the tenant is unlocked, or its release is pending.
LEMMA Released ==
    ASSUME TypesOK, NEW e \in Execs, UnlockTenant(e) \/ MarkReleasePending(e)
    PROVE  /\ mishaps' \in 0..MaxMishaps
           /\ exec' \in [Execs -> Executions]
           /\ \A d \in Execs \ {e} : exec'[d] = exec[d]
           /\ exec'[e].org = exec[e].org /\ exec'[e].owner = exec[e].owner
           /\ exec'[e].task = "none"
           /\ exec'[e].lock => exec[e].lock
           /\ exec'[e].row # "none" => exec[e].row # "none"
           /\ exec'[e].kept \in {"dropping", "pending"}
<1>1. exec \in [Execs -> Executions] /\ mishaps \in 0..MaxMishaps
  BY DEF TypesOK
<1> DEFINE over == [[exec[e] EXCEPT !.task = "none"] EXCEPT !.fence = FALSE]
<1>4. /\ Over(exec[e]) = over /\ over \in Executions
      /\ over.org = exec[e].org /\ over.owner = exec[e].owner /\ over.task = "none"
      /\ over.lock = exec[e].lock /\ over.row = exec[e].row
  <2>1. over \in Executions
    BY <1>1, ExecutionUpdates
  <2>. QED
    BY <1>1, <2>1 DEF Over, Executions
<1> HIDE DEF over
<1>2. CASE /\ exec' = [exec EXCEPT ![e] = Over(@), ![e].lock = FALSE, ![e].kept = "dropping"]
           /\ UNCHANGED mishaps
  <2>1. [[over EXCEPT !.lock = FALSE] EXCEPT !.kept = "dropping"] \in Executions
    BY <1>4, ExecutionUpdates
  <2>2. exec' = [exec EXCEPT ![e] = [[over EXCEPT !.lock = FALSE] EXCEPT !.kept = "dropping"]]
    BY <1>1, <1>2, <1>4
  <2>3. exec' \in [Execs -> Executions]
    BY <1>1, <2>1, <2>2
  <2>. QED
    BY <1>1, <1>2, <1>4, <2>2, <2>3 DEF Executions
<1>3. CASE MarkReleasePending(e)
  <2>1. PICK marked \in BOOLEAN :
          /\ Mishap(IF marked THEN 1 ELSE 2)
          /\ exec' = [exec EXCEPT
                ![e] = Over(@), ![e].kept = "pending",
                ![e].row = IF marked /\ @ # "none" THEN "pending" ELSE @]
    BY <1>3 DEF MarkReleasePending
  <2> DEFINE row == IF marked /\ exec[e].row # "none" THEN "pending" ELSE exec[e].row
             x == [[over EXCEPT !.kept = "pending"] EXCEPT !.row = row]
  <2>2. row \in {"none", "active", "quarantined", "pending", "due"} /\ (row # "none" => exec[e].row # "none")
    BY <1>1 DEF Executions
  <2>3. exec' = [exec EXCEPT ![e] = x]
    <3>1. exec' = [exec EXCEPT ![e] = [[over EXCEPT !.kept = "pending"]
                      EXCEPT !.row = IF marked /\ @ # "none" THEN "pending" ELSE @]]
      BY <1>1, <1>4, <2>1
    <3>2. [over EXCEPT !.kept = "pending"].row = exec[e].row
      BY <1>4 DEF Executions
    <3>. QED
      BY <3>1, <3>2
  <2> HIDE DEF row
  <2>4. x \in Executions
    BY <1>4, <2>2, ExecutionUpdates
  <2>5. /\ x.org = exec[e].org /\ x.owner = exec[e].owner /\ x.task = "none"
        /\ x.lock = exec[e].lock /\ x.row = row /\ x.kept = "pending"
    BY <1>4 DEF Executions
  <2> HIDE DEF x
  <2>6. mishaps' \in 0..MaxMishaps
    BY <2>1, MishapType
  <2>. QED
    BY <1>1, <2>2, <2>3, <2>4, <2>5, <2>6
<1>. QED
  BY <1>2, <1>3 DEF UnlockTenant

-----------------------------------------------------------------------------
(* What a step may do to the executions and the other runners *)

\* d stays as it is but for its fence, its pass going on or ending, and its record if
\* its tenant is not locked.
Steady(d) ==
    /\ exec'[d].org = exec[d].org /\ exec'[d].owner = exec[d].owner
    /\ exec'[d].lock = exec[d].lock /\ exec'[d].kept = exec[d].kept
    /\ exec'[d].row # "none" => exec[d].row # "none"
    /\ exec[d].lock /\ exec[d].row # "none" => exec'[d].row # "none"
    /\ \/ exec'[d].task = exec[d].task
       \/ exec[d].task \in {"queued", "running"} /\ exec'[d].task \in {"running"} \cup Stopped

\* d gains neither a lock nor a record, and has stopped.
Ends(d) ==
    /\ exec'[d].lock => exec[d].lock /\ exec'[d].org = exec[d].org
    /\ exec'[d].row # "none" => exec[d].row # "none"
    /\ exec'[d].task \notin {"queued", "running"}

\* Steps of these two kinds disturb neither locks, nor passes, nor the capacity.
LEMMA ExecutionsKept ==
    ASSUME TypesOK, Locks, Passes, Room,
           \A d \in Execs : Steady(d) \/ Ends(d)
    PROVE  Locks' /\ Passes' /\ Room'
<1>1. \A d \in Execs : exec'[d].lock => exec[d].lock /\ exec'[d].org = exec[d].org
  BY DEF Steady, Ends
<1>2. Locks'
  BY <1>1 DEF Locks
<1>3. Passes'
  <2> SUFFICES ASSUME NEW e \in Execs, exec'[e].task \in {"queued", "running"}
               PROVE  /\ exec'[e].lock /\ exec'[e].row # "none"
                      /\ exec'[e].kept \in {"watched", "quarantined"}
                      /\ exec'[e].task = "queued" => exec'[e].kept = "watched"
    BY DEF Passes
  <2>1. Steady(e) /\ exec[e].task \in {"queued", "running"}
    BY DEF Steady, Ends
  <2>2. exec[e].lock /\ exec[e].row # "none" /\ exec[e].kept \in {"watched", "quarantined"}
    BY <2>1 DEF Passes
  <2>3. exec'[e].task = "queued" => exec[e].task = "queued"
    BY <2>1 DEF Steady, Stopped
  <2>. QED
    BY <2>1, <2>2, <2>3 DEF Steady, Passes
<1>4. Room'
  <2>1. Recorded' \subseteq Recorded
    BY DEF Recorded, Steady, Ends
  <2>2. IsFiniteSet(Recorded)
    BY FS_Subset, CleanupAssumption DEF Recorded
  <2>3. /\ Cardinality(Recorded') <= Cardinality(Recorded)
        /\ Cardinality(Recorded) \in Nat /\ Cardinality(Recorded') \in Nat
    BY <2>1, <2>2, FS_Subset, FS_CardinalityType
  <2>. QED
    BY <2>3, CleanupAssumption DEF Room
<1>. QED
  BY <1>2, <1>3, <1>4

\* A runner that takes no step, and whose execution nobody touches.
LEMMA OthersKept ==
    ASSUME TypesOK, NEW q \in Procs, Attends(q), Paging(q),
           \/ proc'[q] = proc[q]
           \/ proc'[q] = [proc[q] EXCEPT !.gen = FALSE]
           \/ proc'[q] = [proc[q] EXCEPT !.stop = TRUE],
           \A d \in Execs :
               exec[d].owner = q /\ exec[d].lock /\ exec[d].kept \in {"no", "watched"} =>
                   Steady(d) /\ (proc'[q].gen /\ exec[d].fence => exec'[d].fence)
    PROVE  Attends(q)' /\ Paging(q)'
<1>1. proc[q] \in Runners
  BY DEF TypesOK
<1>2. /\ proc'[q].pc = proc[q].pc /\ proc'[q].page = proc[q].page /\ proc'[q].cur = proc[q].cur
      /\ proc'[q].hung = proc[q].hung /\ proc'[q].scanned = proc[q].scanned
      /\ proc'[q].gen => proc[q].gen
  BY <1>1 DEF Runners
<1> DEFINE e == proc[q].cur
<1>3. ASSUME proc[q].pc \in {"register", "watch", "cancel", "release", "quit"}, ~proc[q].hung
      PROVE  /\ e \in Execs /\ exec[e].owner = q /\ exec[e].lock /\ Steady(e)
             /\ proc'[q].gen /\ exec[e].fence => exec'[e].fence
             /\ exec[e].kept = IF proc[q].pc = "register" THEN "no" ELSE "watched"
  BY <1>3 DEF Attends
<1>4. proc[q].pc \in {"register", "watch", "cancel"} => ~proc[q].hung
  BY DEF Attends
<1>5. Paging(q)'
  BY <1>2 DEF Paging
<1>6. /\ proc[q].pc \in {"register", "watch", "cancel", "release", "quit"} /\ ~proc[q].hung =>
           /\ e \in Execs /\ exec'[e].owner = q /\ exec'[e].lock
           /\ exec'[e].kept = IF proc[q].pc = "register" THEN "no" ELSE "watched"
      /\ proc[q].pc \in {"register", "watch"} => exec'[e].org = Head(proc[q].page)
  BY <1>3, <1>4 DEF Attends, Steady
<1>7. proc[q].pc = "register" => exec'[e].row = "none" /\ exec'[e].task = "none"
  BY <1>3, <1>4 DEF Attends, Steady
<1>8. proc[q].pc = "watch" /\ proc'[q].gen => exec'[e].fence
  BY <1>2, <1>3, <1>4 DEF Attends
<1>9. proc[q].pc \in {"release", "quit"} /\ ~proc[q].hung => exec'[e].task \in Stopped
  BY <1>3 DEF Attends, Steady, Stopped
<1>10. /\ proc[q].hung => proc[q].pc \in {"defer", "release", "quit"}
       /\ proc[q].pc = "defer" => proc[q].hung
  BY DEF Attends
<1>11. proc[q].pc \in {"watch", "cancel"} => exec'[e].task # "none"
  BY <1>3, <1>4 DEF Attends, Steady, Stopped
<1>. QED
  BY <1>2, <1>5, <1>6, <1>7, <1>8, <1>9, <1>10, <1>11 DEF Attends

\* Every fence but the runner p's is gone.
LEMMA FencesGone ==
    ASSUME TypesOK, NEW p \in Procs \cup {None},
           NEW runners \in [Procs -> Runners], NoFenceBut(p, runners, exec)
    PROVE  /\ proc' \in [Procs -> Runners] /\ exec' \in [Execs -> Executions]
           /\ \A d \in Execs : Steady(d)
           /\ \A q \in Procs : proc'[q] = IF q = p THEN [runners[q] EXCEPT !.gen = TRUE]
                                                   ELSE [runners[q] EXCEPT !.gen = FALSE]
<1> DEFINE R(q) == [runners[q] EXCEPT !.gen = q = p]
<1>1. ASSUME NEW q \in Procs
      PROVE  R(q) = IF q = p THEN [runners[q] EXCEPT !.gen = TRUE]
                             ELSE [runners[q] EXCEPT !.gen = FALSE]
  <2>1. CASE q = p
    <3>1. (q = p) = TRUE
      BY <2>1
    <3>. QED
      BY <3>1, <2>1
  <2>2. CASE q # p
    <3>1. (q = p) = FALSE
      BY <2>2
    <3>. QED
      BY <3>1, <2>2
  <2>. QED
    BY <2>1, <2>2
<1>2. proc' = [q \in Procs |-> R(q)]
  BY DEF NoFenceBut
<1> HIDE DEF R
<1>3. ASSUME NEW q \in Procs PROVE R(q) \in Runners
  <2>1. /\ [runners[q] EXCEPT !.gen = TRUE] \in Runners
        /\ [runners[q] EXCEPT !.gen = FALSE] \in Runners
    <3>1. runners[q] \in Runners
      OBVIOUS
    <3>. QED
      BY <3>1, RunnerUpdates
  <2>. QED
    BY <1>1, <2>1
<1>4. exec \in [Execs -> Executions]
  BY DEF TypesOK
<1>5. \A d \in Execs : [exec[d] EXCEPT !.fence = FALSE] \in Executions
  BY <1>4, ExecutionUpdates
<1>6. exec' = [d \in Execs |-> [exec[d] EXCEPT !.fence = FALSE]]
  BY DEF NoFenceBut
<1>7. proc' \in [Procs -> Runners] /\ exec' \in [Execs -> Executions]
  BY <1>2, <1>3, <1>5, <1>6
<1>8. ASSUME NEW d \in Execs PROVE Steady(d)
  BY <1>4, <1>6 DEF Steady, Executions
<1>. QED
  BY <1>1, <1>2, <1>7, <1>8

\* The lease ends.
LEMMA LeaseEndKeeps ==
    ASSUME IInv, LeaseLapses \/ LeaseLost
    PROVE  IInv'
<1>1. /\ NoFenceBut(None, proc, exec) /\ lease' = FALSE
      /\ cursor' = cursor /\ deferred' = deferred
  BY DEF LeaseLapses, LeaseLost
<1>2. TypesOK /\ proc \in [Procs -> Runners] /\ None \notin Procs
  BY CleanupAssumption DEF IInv, TypesOK
<1>3. /\ proc' \in [Procs -> Runners] /\ exec' \in [Execs -> Executions]
      /\ \A d \in Execs : Steady(d)
      /\ \A q \in Procs : proc'[q] = [proc[q] EXCEPT !.gen = FALSE]
  <2>1. /\ proc' \in [Procs -> Runners] /\ exec' \in [Execs -> Executions]
        /\ \A d \in Execs : Steady(d)
        /\ \A q \in Procs : proc'[q] = IF q = None THEN [proc[q] EXCEPT !.gen = TRUE]
                                                   ELSE [proc[q] EXCEPT !.gen = FALSE]
    BY <1>1, <1>2, FencesGone
  <2>. QED
    BY <1>2, <2>1
<1>4. mishaps' \in 0..MaxMishaps
  BY <1>2, MishapType DEF LeaseLapses, LeaseLost, TypesOK
<1>5. TypesOK'
  BY <1>1, <1>2, <1>3, <1>4 DEF TypesOK
<1>6. Locks' /\ Passes' /\ Room'
  BY <1>2, <1>3, ExecutionsKept DEF IInv
<1>7. \A q \in Procs : ~proc'[q].gen
  BY <1>2, <1>3 DEF Runners
<1>8. ASSUME NEW q \in Procs PROVE Attends(q)' /\ Paging(q)'
  BY <1>2, <1>3, <1>7, OthersKept DEF IInv, Runner
<1>. QED
  BY <1>5, <1>6, <1>7, <1>8 DEF IInv, Runner, Fenced

\* The executions change and nothing else: none that a runner attends to by more than
\* its pass going on or ending.
LEMMA ExecutionStepKeeps ==
    ASSUME IInv, proc' = proc, lease' = lease, cursor' = cursor, deferred' \in SUBSET Orgs,
           mishaps' \in 0..MaxMishaps, exec' \in [Execs -> Executions],
           \A d \in Execs :
               \/ Steady(d) /\ (exec[d].fence => exec'[d].fence)
               \/ Ends(d) /\ exec[d].kept \in {"quarantined", "pending", "dropping"}
    PROVE  IInv'
<1>1. TypesOK'
  BY DEF IInv, TypesOK
<1>2. Locks' /\ Passes' /\ Room'
  BY ExecutionsKept DEF IInv
<1>3. ASSUME NEW q \in Procs PROVE Attends(q)' /\ Paging(q)'
  BY OthersKept DEF IInv, Runner
<1>. QED
  BY <1>1, <1>2, <1>3 DEF IInv, Runner, Fenced

\* A pass starts, ends, or stops at its lost fence.
LEMMA PassKeeps ==
    ASSUME IInv, NEW e \in Execs,
           \/ PassStarts(e) \/ PassLosesFence(e)
           \/ \E result \in {"completed", "failed"} : PassEnds(e, result)
    PROVE  IInv'
<1>1. exec \in [Execs -> Executions]
  BY DEF IInv, TypesOK
<1>2. PICK task \in {"running", "completed", "failed", "lost"} :
        /\ exec' = [exec EXCEPT ![e].task = task]
        /\ exec[e].task \in {"queued", "running"}
  <2>1. CASE PassStarts(e) \/ PassLosesFence(e)
    BY <2>1 DEF PassStarts, PassLosesFence
  <2>2. ASSUME NEW result \in {"completed", "failed"}, PassEnds(e, result)
        PROVE  /\ exec[e].task = "running"
               /\ \E t \in {"completed", "failed"} : exec' = [exec EXCEPT ![e].task = t]
    BY <2>2 DEF PassEnds
  <2>. QED
    BY <2>1, <2>2
<1>3. exec' = [exec EXCEPT ![e] = [exec[e] EXCEPT !.task = task]]
  BY <1>1, <1>2
<1>4. [exec[e] EXCEPT !.task = task] \in Executions
  BY <1>1, ExecutionUpdates
<1>5. exec' \in [Execs -> Executions]
  BY <1>1, <1>3, <1>4
<1>6. ASSUME NEW d \in Execs PROVE Steady(d) /\ (exec[d].fence => exec'[d].fence)
  BY <1>1, <1>2, <1>3 DEF Steady, Stopped, Executions
<1>7. UNCHANGED <<lease, cursor, deferred, proc>> /\ mishaps' \in 0..MaxMishaps
  BY MishapType DEF PassStarts, PassLosesFence, PassEnds, IInv, TypesOK
<1>. QED
  BY <1>5, <1>6, <1>7, ExecutionStepKeeps DEF IInv, TypesOK

\* Time passes for a release or a deferral.
LEMMA DueKeeps ==
    ASSUME IInv, (\E e \in Execs : RetryDue(e)) \/ (\E o \in Orgs : DeferralDue(o))
    PROVE  IInv'
<1>1. exec \in [Execs -> Executions] /\ deferred \in SUBSET Orgs /\ mishaps \in 0..MaxMishaps
  BY DEF IInv, TypesOK
<1>2. ASSUME NEW e \in Execs, RetryDue(e) PROVE IInv'
  <2>1. exec' = [exec EXCEPT ![e] = [exec[e] EXCEPT !.row = "due"]] /\ exec[e].row = "pending"
    BY <1>1, <1>2 DEF RetryDue
  <2>2. [exec[e] EXCEPT !.row = "due"] \in Executions
    BY <1>1, ExecutionUpdates
  <2>3. exec' \in [Execs -> Executions]
    BY <1>1, <2>1, <2>2
  <2>4. ASSUME NEW d \in Execs PROVE Steady(d) /\ (exec[d].fence => exec'[d].fence)
    BY <1>1, <2>1 DEF Steady, Executions
  <2>. QED
    BY <1>1, <1>2, <2>3, <2>4, ExecutionStepKeeps DEF RetryDue
<1>3. ASSUME NEW o \in Orgs, DeferralDue(o) PROVE IInv'
  <2>1. \A d \in Execs : Steady(d) /\ (exec[d].fence => exec'[d].fence)
    BY <1>3 DEF DeferralDue, Steady
  <2>. QED
    BY <1>1, <1>3, <2>1, ExecutionStepKeeps DEF DeferralDue
<1>. QED
  BY <1>2, <1>3

\* A release begins, of a pass given up to quarantine, or ends.
LEMMA LateReleaseKeeps ==
    ASSUME IInv, NEW e \in Execs,
           QuarantineEnds(e) \/ DropRow(e)
    PROVE  IInv'
<1>1. TypesOK /\ exec \in [Execs -> Executions] /\ mishaps \in 0..MaxMishaps
      /\ deferred \in SUBSET Orgs
  BY DEF IInv, TypesOK
<1>2. /\ UNCHANGED <<lease, cursor, deferred, proc>>
      /\ exec[e].kept \in {"quarantined", "pending", "dropping"}
      /\ exec[e].task \notin {"queued", "running"}
  BY <1>1 DEF QuarantineEnds, DropRow, IInv, Passes
<1>3. CASE UnlockTenant(e) \/ MarkReleasePending(e)
  <2>1. /\ mishaps' \in 0..MaxMishaps
        /\ exec' \in [Execs -> Executions]
        /\ \A d \in Execs \ {e} : exec'[d] = exec[d]
        /\ exec'[e].org = exec[e].org /\ exec'[e].task = "none"
        /\ exec'[e].lock => exec[e].lock
        /\ exec'[e].row # "none" => exec[e].row # "none"
    BY <1>1, <1>3, Released
  <2>2. Ends(e)
    BY <1>2, <2>1 DEF Ends
  <2>3. \A d \in Execs \ {e} : Steady(d) /\ (exec[d].fence => exec'[d].fence)
    BY <2>1 DEF Steady
  <2>. QED
    BY <1>1, <1>2, <2>1, <2>2, <2>3, ExecutionStepKeeps
<1>4. CASE exec' = [exec EXCEPT ![e] = NoExecution] /\ UNCHANGED mishaps
  <2>1. exec' \in [Execs -> Executions]
    BY <1>1, <1>4, NoExecutionType
  <2>2. Ends(e)
    BY <1>1, <1>4 DEF Ends, NoExecution
  <2>3. \A d \in Execs \ {e} : Steady(d) /\ (exec[d].fence => exec'[d].fence)
    BY <1>1, <1>4 DEF Steady
  <2>. QED
    BY <1>1, <1>2, <1>4, <2>1, <2>2, <2>3, ExecutionStepKeeps
<1>. QED
  BY <1>3, <1>4 DEF QuarantineEnds, DropRow

-----------------------------------------------------------------------------
(* The steps of a runner *)

\* Where a runner attends to an execution.
Busy == {"register", "watch", "cancel", "defer", "release", "quit"}

\* Of a runner that attends to nothing nothing is asked.
LEMMA NotBusy ==
    ASSUME NEW p \in Procs, proc'[p].pc \notin Busy, ~proc'[p].hung
    PROVE  Attends(p)' /\ Paging(p)'
BY DEF Attends, Paging, Busy

\* No runner notices what happens to d.
Undisturbed(d) ==
    \/ Steady(d) /\ (exec[d].fence => exec'[d].fence)
    \/ Ends(d) /\ ~exec[d].lock
    \/ Ends(d) /\ exec[d].kept \in {"quarantined", "pending", "dropping"}

\* A step of the runner p that grants no lease, no lock and no record.
LEMMA RunnerStepKeeps ==
    ASSUME IInv, NEW p \in Procs, lease' = lease,
           cursor' \in Orgs \cup {None}, deferred' \in SUBSET Orgs,
           mishaps' \in 0..MaxMishaps, proc' \in [Procs -> Runners],
           exec' \in [Execs -> Executions],
           \A q \in Procs \ {p} : proc'[q] = proc[q],
           \A d \in Execs : Undisturbed(d) \/ (Ends(d) /\ exec[d].owner = p),
           proc'[p].gen => proc[p].gen,
           Attends(p)', Paging(p)'
    PROVE  IInv'
<1>1. TypesOK'
  BY DEF IInv, TypesOK
<1>2. Locks' /\ Passes' /\ Room'
  BY ExecutionsKept DEF IInv, Undisturbed
<1>3. ASSUME NEW q \in Procs \ {p} PROVE Attends(q)' /\ Paging(q)'
  BY OthersKept DEF IInv, Runner, Undisturbed
<1>4. Fenced'
  BY DEF IInv, Fenced
<1>. QED
  BY <1>1, <1>2, <1>3, <1>4 DEF IInv, Runner

\* Nothing happens to the executions.
LEMMA ExecutionsUnchanged ==
    ASSUME exec' = exec
    PROVE  \A d \in Execs : Undisturbed(d)
BY DEF Steady, Undisturbed

\* Goto changes the pc of one runner.
LEMMA GotoType ==
    ASSUME TypesOK, NEW p \in Procs, NEW pc \in Pcs, Goto(p, pc)
    PROVE  /\ proc' \in [Procs -> Runners]
           /\ \A q \in Procs \ {p} : proc'[q] = proc[q]
           /\ proc'[p] = [proc[p] EXCEPT !.pc = pc]
           /\ proc'[p].pc = pc /\ proc'[p].gen = proc[p].gen /\ proc'[p].cur = proc[p].cur
           /\ proc'[p].hung = proc[p].hung /\ proc'[p].page = proc[p].page
           /\ proc'[p].scanned = proc[p].scanned
<1>1. proc \in [Procs -> Runners]
  BY DEF TypesOK
<1>2. [proc[p] EXCEPT !.pc = pc] \in Runners
  BY <1>1, RunnerUpdates
<1>3. proc' = [proc EXCEPT ![p] = [proc[p] EXCEPT !.pc = pc]]
  BY <1>1 DEF Goto
<1>4. proc'[p] = [proc[p] EXCEPT !.pc = pc] /\ proc' \in [Procs -> Runners]
  BY <1>1, <1>2, <1>3
<1>5. /\ proc'[p].pc = pc /\ proc'[p].gen = proc[p].gen /\ proc'[p].cur = proc[p].cur
      /\ proc'[p].hung = proc[p].hung /\ proc'[p].page = proc[p].page
      /\ proc'[p].scanned = proc[p].scanned
  BY <1>1, <1>4 DEF Runners
<1>. QED
  BY <1>1, <1>3, <1>4, <1>5

\* A runner goes from one place where it is free to another.
LEMMA GotoKeeps ==
    ASSUME IInv, NEW p \in Procs, NEW pc \in Pcs \ Busy, Goto(p, pc), proc[p].pc \notin Busy,
           lease' = lease, cursor' = cursor, deferred' = deferred,
           mishaps' \in 0..MaxMishaps, exec' \in [Execs -> Executions],
           \A d \in Execs : Undisturbed(d)
    PROVE  IInv'
<1>1. TypesOK /\ cursor \in Orgs \cup {None} /\ deferred \in SUBSET Orgs
  BY DEF IInv, TypesOK
<1>2. ~proc[p].hung
  BY DEF IInv, Runner, Attends, Busy
<1>3. /\ proc' \in [Procs -> Runners] /\ \A q \in Procs \ {p} : proc'[q] = proc[q]
      /\ proc'[p].pc = pc /\ proc'[p].gen = proc[p].gen /\ proc'[p].hung = proc[p].hung
  BY <1>1, GotoType
<1>4. Attends(p)' /\ Paging(p)'
  BY <1>2, <1>3, NotBusy
<1>. QED
  BY <1>1, <1>3, <1>4, RunnerStepKeeps

\* One runner changes.
LEMMA RunnerSet ==
    ASSUME TypesOK, NEW p \in Procs, NEW r \in Runners, proc' = [proc EXCEPT ![p] = r]
    PROVE  /\ proc' \in [Procs -> Runners] /\ proc'[p] = r
           /\ \A q \in Procs \ {p} : proc'[q] = proc[q]
BY DEF TypesOK

\* A runner that is free stays free, and no other notices a change.
LEMMA FreeRunnerKeeps ==
    ASSUME IInv, NEW p \in Procs, NEW r \in Runners, proc' = [proc EXCEPT ![p] = r],
           r.pc \notin Busy, ~r.hung, r.gen => proc[p].gen,
           lease' = lease, cursor' = cursor, deferred' = deferred,
           mishaps' \in 0..MaxMishaps, exec' \in [Execs -> Executions],
           \A d \in Execs : Undisturbed(d)
    PROVE  IInv'
<1>1. TypesOK /\ cursor \in Orgs \cup {None} /\ deferred \in SUBSET Orgs
  BY DEF IInv, TypesOK
<1>2. /\ proc' \in [Procs -> Runners] /\ proc'[p] = r
      /\ \A q \in Procs \ {p} : proc'[q] = proc[q]
  BY <1>1, RunnerSet
<1>3. Attends(p)' /\ Paging(p)'
  BY <1>2, NotBusy
<1>. QED
  BY <1>1, <1>2, <1>3, RunnerStepKeeps

\* Where the loop over the page leaves a runner.
LEMMA DoneType ==
    ASSUME NEW r \in Runners
    PROVE  /\ Done(r) \in Runners /\ Done(r).pc = "unlease" /\ Done(r).pc \notin Busy
           /\ Done(r).gen = r.gen /\ ~Done(r).hung
<1> DEFINE d == [[[IdleRunner EXCEPT !.pc = "unlease"] EXCEPT !.gen = r.gen]
                    EXCEPT !.stop = r.stop]
<1>1. "unlease" \in Pcs /\ r.gen \in BOOLEAN /\ r.stop \in BOOLEAN
  BY DEF Pcs, Runners
<1>2. d \in Runners
  BY <1>1, IdleRunnerType, RunnerUpdates
<1>3. d.pc = "unlease" /\ d.gen = r.gen /\ d.hung = FALSE
  BY DEF IdleRunner
<1>4. Done(r) = d
  BY DEF Done, IdleRunner
<1>. QED
  BY <1>2, <1>3, <1>4 DEF Busy

\* The slice is made of the process's entries.
LEMMA DueType == ASSUME Tasks, NEW p \in Procs PROVE DueReleases(p) \in SUBSET Execs
<1>1. tracked[p] \in Seq(Entries)
  BY DEF Tasks
<1>2. \A i \in DOMAIN tracked[p] : tracked[p][i] \in Entries
  BY <1>1
<1>. QED
  BY <1>2 DEF DueReleases, Slice, Entries

\* A release that failed before is tried again.
LEMMA RetryReleaseKeeps ==
    ASSUME IInv, NEW p \in Procs, NEW e \in Execs, RetryRelease(p, e)
    PROVE  IInv'
<1>1. /\ TypesOK /\ proc \in [Procs -> Runners] /\ proc[p] \in Runners
      /\ proc[p].due \in SUBSET Execs
  BY DEF IInv, TypesOK, Runners
<1>2. /\ UNCHANGED <<lease, cursor, deferred>> /\ exec[e].kept = "pending"
      /\ UnlockTenant(e) /\ proc[p].pc = "retry" /\ ~proc[p].hung
  BY DEF RetryRelease, At, IInv, Runner, Attends
<1>3. /\ mishaps' \in 0..MaxMishaps
      /\ exec' \in [Execs -> Executions]
      /\ \A d \in Execs \ {e} : exec'[d] = exec[d]
      /\ exec'[e].org = exec[e].org /\ exec'[e].task = "none"
      /\ exec'[e].lock => exec[e].lock
      /\ exec'[e].row # "none" => exec[e].row # "none"
  BY <1>1, <1>2, Released
<1>4. \A d \in Execs : Undisturbed(d)
  BY <1>2, <1>3 DEF Undisturbed, Ends, Steady
<1> DEFINE r == [proc[p] EXCEPT !.due = proc[p].due \ {e}]
<1>5. proc' = [proc EXCEPT ![p] = r]
  BY <1>1 DEF RetryRelease
<1>6. r \in Runners
  <2>1. proc[p].due \ {e} \in SUBSET Execs
    BY <1>1
  <2>. QED
    BY <1>1, <2>1, RunnerUpdates
<1>7. r.pc \notin Busy /\ ~r.hung /\ r.gen = proc[p].gen
  BY <1>1, <1>2 DEF Runners, Busy
<1> HIDE DEF r
<1>. QED
  BY <1>2, <1>3, <1>4, <1>5, <1>6, <1>7, FreeRunnerKeeps

\* What comes before the lease: reconciliation and the admission check.
LEMMA AdmissionKeeps ==
    ASSUME IInv, Tasks, NEW p \in Procs, ReconcileOrphans(p) \/ Admit(p)
    PROVE  IInv'
<1>1. /\ exec \in [Execs -> Executions] /\ mishaps \in 0..MaxMishaps
      /\ proc \in [Procs -> Runners] /\ proc[p] \in Runners
  BY DEF IInv, TypesOK
<1>2. CASE ReconcileOrphans(p)
  <2> DEFINE x(e) == IF e \notin Orphans THEN exec[e]
                     ELSE IF exec[e].kept \in {"no", "pending"} THEN NoExecution
                     ELSE [exec[e] EXCEPT !.row = "none"]
  <2>1. exec' = [e \in Execs |-> x(e)]
    BY <1>2 DEF ReconcileOrphans
  <2>2. ASSUME NEW e \in Execs PROVE x(e) \in Executions
    BY <1>1, NoExecutionType, ExecutionUpdates
  <2>3. exec' \in [Execs -> Executions] /\ \A d \in Execs : exec'[d] = x(d)
    BY <2>1, <2>2
  <2>4. ASSUME NEW d \in Execs PROVE Undisturbed(d)
    <3>1. CASE d \notin Orphans
      BY <2>3, <3>1 DEF Steady, Undisturbed
    <3>2. CASE d \in Orphans
      <4>1. ~exec[d].lock
        BY <3>2 DEF Orphans, Locked
      <4>2. CASE exec[d].kept \in {"no", "pending"}
        BY <2>3, <3>2, <4>1, <4>2 DEF Ends, NoExecution, Undisturbed
      <4>3. CASE exec[d].kept \notin {"no", "pending"}
        BY <1>1, <2>3, <3>2, <4>1, <4>3 DEF Steady, Executions, Undisturbed
      <4>. QED
        BY <4>2, <4>3
    <3>. QED
      BY <3>1, <3>2
  <2>5. UNCHANGED <<lease, cursor, deferred, mishaps>> /\ ~proc[p].hung
    BY <1>2 DEF ReconcileOrphans, At, IInv, Runner, Attends
  <2>6. DueReleases(p) \in SUBSET Execs
    BY DueType
  <2> DEFINE r == [[proc[p] EXCEPT !.pc = "retry"] EXCEPT !.due = DueReleases(p)]
  <2>7. proc' = [proc EXCEPT ![p] = r]
    BY <1>1, <1>2 DEF ReconcileOrphans
  <2>8. r \in Runners
    <3>1. "retry" \in Pcs
      BY DEF Pcs
    <3>. QED
      BY <1>1, <2>6, <3>1, RunnerUpdates
  <2>9. r.pc \notin Busy /\ ~r.hung /\ r.gen = proc[p].gen
    BY <1>1, <2>5 DEF Runners, Busy
  <2> HIDE DEF r
  <2>. QED
    BY <1>1, <2>3, <2>4, <2>5, <2>7, <2>8, <2>9, FreeRunnerKeeps
<1>3. CASE Admit(p)
  <2>1. PICK pc \in Pcs \ Busy : Goto(p, pc)
    BY <1>3 DEF Admit, Pcs, Busy
  <2>2. UNCHANGED <<lease, cursor, deferred, exec, mishaps>> /\ proc[p].pc \notin Busy
    BY <1>3 DEF Admit, At, Busy
  <2>3. \A d \in Execs : Undisturbed(d)
    BY <2>2, ExecutionsUnchanged
  <2>. QED
    BY <1>1, <2>1, <2>2, <2>3, GotoKeeps
<1>. QED
  BY <1>2, <1>3

\* acquire_lease: the lease is another's, or p's, and then no other token is active.
LEMMA AcquireLeaseKeeps ==
    ASSUME IInv, NEW p \in Procs, AcquireLease(p)
    PROVE  IInv'
<1>1. /\ TypesOK /\ exec \in [Execs -> Executions] /\ mishaps \in 0..MaxMishaps
      /\ proc \in [Procs -> Runners] /\ cursor \in Orgs \cup {None} /\ proc[p].pc = "lease"
  BY DEF IInv, TypesOK, AcquireLease, At
<1>2. UNCHANGED <<cursor, deferred, mishaps>> /\ proc[p].pc \notin Busy /\ ~proc[p].hung
  BY DEF AcquireLease, At, Busy, IInv, Runner, Attends
<1>3. CASE lease /\ Goto(p, "idle") /\ UNCHANGED <<lease, exec>>
  <2>1. "idle" \in Pcs \ Busy
    BY DEF Pcs, Busy
  <2>2. \A d \in Execs : Undisturbed(d)
    BY <1>3, ExecutionsUnchanged
  <2>. QED
    BY <1>1, <1>2, <1>3, <2>1, <2>2, GotoKeeps
<1>4. CASE /\ lease' = TRUE
           /\ NoFenceBut(p, [proc EXCEPT ![p].pc = "tenant", ![p].seen = cursor,
                                         ![p].page = FairOrgPage(cursor)], exec)
  <2> DEFINE r == [[[proc[p] EXCEPT !.pc = "tenant"] EXCEPT !.seen = cursor]
                      EXCEPT !.page = FairOrgPage(cursor)]
             rs == [proc EXCEPT ![p] = r]
  <2>1. r \in Runners /\ r.pc = "tenant" /\ ~r.hung
    <3>1. "tenant" \in Pcs /\ FairOrgPage(cursor) \in Seq(Orgs)
      BY PageType DEF Pcs
    <3>2. r \in Runners
      BY <1>1, <3>1, RunnerUpdates
    <3>3. r.pc = "tenant" /\ r.hung = proc[p].hung
      BY <1>1 DEF Runners
    <3>. QED
      BY <1>2, <3>2, <3>3
  <2>2. [proc EXCEPT ![p].pc = "tenant", ![p].seen = cursor,
                     ![p].page = FairOrgPage(cursor)] = rs
    BY <1>1
  <2> HIDE DEF r
  <2>3. rs \in [Procs -> Runners] /\ rs[p] = r /\ \A q \in Procs \ {p} : rs[q] = proc[q]
    BY <1>1, <2>1
  <2>4. NoFenceBut(p, rs, exec)
    BY <1>4, <2>2
  <2> HIDE DEF rs
  <2>5. /\ proc' \in [Procs -> Runners] /\ exec' \in [Execs -> Executions]
        /\ \A d \in Execs : Steady(d)
        /\ \A q \in Procs : proc'[q] = IF q = p THEN [rs[q] EXCEPT !.gen = TRUE]
                                                ELSE [rs[q] EXCEPT !.gen = FALSE]
    BY <1>1, <2>3, <2>4, FencesGone
  <2>6. Locks' /\ Passes' /\ Room'
    BY <1>1, <2>5, ExecutionsKept DEF IInv
  <2>7. proc'[p].pc \notin Busy /\ ~proc'[p].hung
    BY <2>1, <2>3, <2>5 DEF Runners, Busy
  <2>8. Attends(p)' /\ Paging(p)'
    BY <2>7, NotBusy
  <2>9. ASSUME NEW q \in Procs \ {p} PROVE Attends(q)' /\ Paging(q)'
    <3>1. proc'[q] = [proc[q] EXCEPT !.gen = FALSE]
      BY <2>3, <2>5
    <3>2. ~proc'[q].gen
      BY <1>1, <3>1 DEF Runners
    <3>. QED
      BY <1>1, <2>5, <3>1, <3>2, OthersKept DEF IInv, Runner
  <2>10. TypesOK' /\ Fenced'
    BY <1>1, <1>2, <1>4, <2>5 DEF TypesOK, Fenced
  <2>. QED
    BY <2>6, <2>8, <2>9, <2>10 DEF IInv, Runner
<1>. QED
  BY <1>3, <1>4 DEF AcquireLease

\* A runner whose attempt was declined is a free one.
LEMMA DeclinedType ==
    ASSUME NEW r \in Runners, r.page # <<>>
    PROVE  /\ Declined(r) \in Runners /\ Declined(r).pc \notin Busy
           /\ Declined(r).gen = r.gen /\ (Declined(r).hung => r.hung)
<1>1. "tenant" \in Pcs
  BY DEF Pcs
<1>2. r.page \in Seq(Orgs)
  BY DEF Runners
<1>3. Tail(r.page) \in Seq(Orgs)
  BY <1>2
<1>4. CASE Full
  BY <1>4, DoneType DEF Declined
<1>5. CASE ~Full
  <2>1. Declined(r) = [[r EXCEPT !.pc = "tenant"] EXCEPT !.page = Tail(r.page)]
    BY <1>5 DEF Declined, Runners
  <2>2. [r EXCEPT !.pc = "tenant"] \in Runners
    BY <1>1, RunnerUpdates
  <2>3. Declined(r) \in Runners
    BY <1>3, <2>1, <2>2, RunnerUpdates
  <2>. QED
    BY <2>1, <2>3 DEF Runners, Busy
<1>. QED
  BY <1>4, <1>5

\* The loop over the page.
LEMMA NextTenantKeeps ==
    ASSUME IInv, NEW p \in Procs, NextTenant(p)
    PROVE  IInv'
<1> DEFINE o == Head(proc[p].page)
<1>1. /\ TypesOK /\ exec \in [Execs -> Executions] /\ mishaps \in 0..MaxMishaps
      /\ proc \in [Procs -> Runners] /\ proc[p].pc = "tenant"
  BY DEF IInv, TypesOK, NextTenant, At
<1>2. /\ lease' = lease /\ cursor' = cursor /\ deferred' = deferred /\ mishaps' = mishaps
      /\ proc[p].pc \notin Busy /\ ~proc[p].hung
  BY <1>1 DEF NextTenant, Busy, IInv, Runner, Attends
<1>3. CASE proc' = [proc EXCEPT ![p] = Done(@)] /\ UNCHANGED exec
  <2>1. proc' = [proc EXCEPT ![p] = Done(proc[p])]
    BY <1>1, <1>3
  <2>2. \A d \in Execs : Undisturbed(d)
    BY <1>3, ExecutionsUnchanged
  <2>3. proc[p] \in Runners
    BY <1>1
  <2>. QED
    BY <1>1, <1>2, <1>3, <2>1, <2>2, <2>3, DoneType, FreeRunnerKeeps
<1>4. ASSUME ~CycleOver(p)
      PROVE  /\ proc[p].page # <<>> /\ proc[p].scanned < MaxOrgs
             /\ o \in Orgs /\ Tail(proc[p].page) \in Seq(Orgs)
  <2>1. proc[p].page # <<>> /\ proc[p].scanned # MaxOrgs /\ proc[p].scanned \in 0..MaxOrgs
    BY <1>1, <1>4 DEF CycleOver, Runners
  <2>2. o \in Orgs /\ Tail(proc[p].page) \in Seq(Orgs)
    BY <1>1, <2>1, PageSteps
  <2>. QED
    BY <2>1, <2>2, CleanupAssumption
<1>5. CASE /\ ~CycleOver(p)
           /\ proc' = [proc EXCEPT ![p].page = Tail(@)] /\ UNCHANGED exec
  <2> DEFINE r == [proc[p] EXCEPT !.page = Tail(proc[p].page)]
  <2>1. proc' = [proc EXCEPT ![p] = r]
    BY <1>1, <1>5
  <2>2. r \in Runners
    BY <1>1, <1>4, <1>5, RunnerUpdates
  <2>3. r.pc = proc[p].pc /\ r.hung = proc[p].hung /\ r.gen = proc[p].gen
    BY <1>1 DEF Runners
  <2> HIDE DEF r
  <2>. QED
    BY <1>1, <1>2, <1>5, <2>1, <2>2, <2>3, ExecutionsUnchanged, FreeRunnerKeeps
<1>6. CASE /\ ~CycleOver(p)
           /\ proc' = [proc EXCEPT ![p] = Declined(@)] /\ UNCHANGED exec
  <2> DEFINE r == Declined(proc[p])
  <2>1. proc' = [proc EXCEPT ![p] = r]
    BY <1>1, <1>6
  <2>2. /\ r \in Runners /\ r.pc \notin Busy /\ r.gen = proc[p].gen
        /\ r.hung => proc[p].hung
    BY <1>1, <1>4, <1>6, DeclinedType
  <2> HIDE DEF r
  <2>. QED
    BY <1>1, <1>2, <1>6, <2>1, <2>2, ExecutionsUnchanged, FreeRunnerKeeps
<1>7. ASSUME ~CycleOver(p), Free(o), NEW e \in Execs, Fresh(e),
             exec' = [exec EXCEPT ![e].org = o, ![e].owner = p, ![e].lock = TRUE],
             proc' = [proc EXCEPT ![p].pc = "register", ![p].cur = e]
      PROVE  IInv'
  <2> DEFINE x == [[[NoExecution EXCEPT !.org = o] EXCEPT !.owner = p] EXCEPT !.lock = TRUE]
             r == [[proc[p] EXCEPT !.pc = "register"] EXCEPT !.cur = e]
  <2>1. exec[e] = NoExecution
    BY <1>7 DEF Fresh
  <2>2. exec' = [exec EXCEPT ![e] = x]
    BY <1>1, <1>7, <2>1
  <2>3. x \in Executions
    BY <1>4, <1>7, NoExecutionType, ExecutionUpdates
  <2>4. /\ x.org = o /\ x.owner = p /\ x.lock /\ x.row = "none" /\ x.task = "none"
        /\ x.kept = "no"
    BY DEF NoExecution
  <2>5. proc' = [proc EXCEPT ![p] = r]
    BY <1>1, <1>7
  <2>6. r \in Runners
    <3>1. "register" \in Pcs
      BY DEF Pcs
    <3>. QED
      BY <1>1, <3>1, RunnerUpdates
  <2>7. /\ r.pc = "register" /\ r.cur = e /\ r.hung = proc[p].hung /\ r.gen = proc[p].gen
        /\ r.page = proc[p].page /\ r.scanned = proc[p].scanned
    BY <1>1 DEF Runners
  <2> HIDE DEF r, x
  <2>8. /\ proc' \in [Procs -> Runners] /\ proc'[p] = r
        /\ \A q \in Procs \ {p} : proc'[q] = proc[q]
    BY <1>1, <2>5, <2>6, RunnerSet
  <2>9. /\ exec' \in [Execs -> Executions] /\ exec'[e] = x
        /\ \A d \in Execs \ {e} : exec'[d] = exec[d]
    BY <1>1, <2>2, <2>3
  <2>10. TypesOK'
    BY <1>1, <1>2, <2>8, <2>9 DEF TypesOK
  <2>11. Locks'
    <3>1. \A d \in Execs : exec[d].lock => exec[d].org # o
      BY <1>7 DEF Free, Locked
    <3>2. \A d \in Execs \ {e} : exec'[d].lock => exec'[d].org # exec'[e].org
      BY <2>4, <2>9, <3>1
    <3>. QED
      BY <2>9, <3>2 DEF Locks, IInv
  <2>12. Passes'
    BY <2>4, <2>9 DEF Passes, IInv
  <2>13. Room'
    <3>1. Recorded' = Recorded
      BY <2>1, <2>4, <2>9 DEF Recorded, NoExecution
    <3>. QED
      BY <3>1 DEF Room, IInv
  <2>14. exec[e].owner # p /\ ~exec[e].lock /\ \A q \in Procs : exec[e].owner # q
    BY <2>1, CleanupAssumption DEF NoExecution
  <2>15. ASSUME NEW q \in Procs \ {p} PROVE Attends(q)' /\ Paging(q)'
    <3>1. \A d \in Execs : exec[d].owner = q => Steady(d) /\ (exec[d].fence => exec'[d].fence)
      BY <2>9, <2>14 DEF Steady
    <3>. QED
      BY <1>1, <2>8, <3>1, OthersKept DEF IInv, Runner
  <2>16. Attends(p)'
    BY <1>2, <2>4, <2>7, <2>8, <2>9 DEF Attends
  <2>17. Paging(p)'
    BY <1>4, <1>7, <2>7, <2>8 DEF Paging
  <2>18. Fenced'
    BY <1>2, <2>7, <2>8 DEF IInv, Fenced
  <2>. QED
    BY <2>10, <2>11, <2>12, <2>13, <2>15, <2>16, <2>17, <2>18 DEF IInv, Runner
<1>. QED
  BY <1>3, <1>5, <1>6, <1>7 DEF NextTenant

\* What the invariant says of the execution a runner attends to.
LEMMA Attended ==
    ASSUME IInv, NEW p \in Procs,
           proc[p].pc \in {"register", "watch", "cancel", "release", "quit"}, ~proc[p].hung
    PROVE  /\ proc[p].cur \in Execs /\ exec[proc[p].cur].owner = p /\ exec[proc[p].cur].lock
           /\ exec[proc[p].cur].kept = IF proc[p].pc = "register" THEN "no" ELSE "watched"
BY DEF IInv, Runner, Attends

\* The record of an execution, or the want of room for it.
LEMMA RegisterKeeps ==
    ASSUME IInv, NEW p \in Procs, Register(p)
    PROVE  IInv'
<1> DEFINE e == proc[p].cur
<1>1. /\ TypesOK /\ exec \in [Execs -> Executions] /\ mishaps \in 0..MaxMishaps
      /\ cursor \in Orgs \cup {None} /\ deferred \in SUBSET Orgs
      /\ proc \in [Procs -> Runners] /\ proc[p] \in Runners /\ proc[p].pc = "register"
  BY DEF IInv, TypesOK, Register, At
<1>2. lease' = lease /\ cursor' = cursor /\ deferred' = deferred /\ mishaps' = mishaps
  BY DEF Register
<1>3. /\ ~proc[p].hung /\ exec[e].row = "none" /\ exec[e].org = Head(proc[p].page)
      /\ proc[p].page # <<>> /\ proc[p].scanned < MaxOrgs
  BY <1>1 DEF IInv, Runner, Attends, Paging
<1>4. e \in Execs /\ exec[e].owner = p /\ exec[e].lock
  BY <1>1, <1>3, Attended
<1>5. CASE /\ ~Full /\ Goto(p, "watch")
           /\ exec' = [exec EXCEPT ![e].row = "active", ![e].fence = TRUE,
                                   ![e].task = "queued", ![e].kept = "watched"]
  <2> DEFINE x == [[[[exec[e] EXCEPT !.row = "active"] EXCEPT !.fence = TRUE]
                       EXCEPT !.task = "queued"] EXCEPT !.kept = "watched"]
  <2>1. exec' = [exec EXCEPT ![e] = x]
    BY <1>1, <1>4, <1>5
  <2>2. x \in Executions
    BY <1>1, <1>4, ExecutionUpdates
  <2>3. /\ x.org = exec[e].org /\ x.owner = p /\ x.lock = exec[e].lock /\ x.row = "active"
        /\ x.fence /\ x.task = "queued" /\ x.kept = "watched"
    <3>1. exec[e] \in Executions
      BY <1>1, <1>4
    <3>2. x.org = exec[e].org /\ x.owner = exec[e].owner /\ x.lock = exec[e].lock
      BY <3>1 DEF Executions
    <3>3. x.row = "active" /\ x.task = "queued" /\ x.kept = "watched"
      BY <3>1 DEF Executions
    <3>4. x.fence = TRUE
      BY <3>1 DEF Executions
    <3>. QED
      BY <1>4, <3>2, <3>3, <3>4
  <2> HIDE DEF x
  <2>4. /\ exec' \in [Execs -> Executions] /\ exec'[e] = x
        /\ \A d \in Execs \ {e} : exec'[d] = exec[d]
    BY <1>1, <1>4, <2>1, <2>2
  <2>5. "watch" \in Pcs
    BY DEF Pcs
  <2>6. /\ proc' \in [Procs -> Runners]
        /\ \A q \in Procs \ {p} : proc'[q] = proc[q]
        /\ proc'[p].pc = "watch" /\ proc'[p].gen = proc[p].gen /\ proc'[p].cur = proc[p].cur
        /\ proc'[p].hung = proc[p].hung /\ proc'[p].page = proc[p].page
        /\ proc'[p].scanned = proc[p].scanned
    BY <1>1, <1>5, <2>5, GotoType
  <2>7. TypesOK'
    BY <1>1, <1>2, <2>4, <2>6 DEF TypesOK
  <2>8. Locks'
    <3>1. \A d \in Execs : exec'[d].lock = exec[d].lock /\ exec'[d].org = exec[d].org
      BY <2>3, <2>4
    <3>. QED
      BY <3>1 DEF Locks, IInv
  <2>9. Passes'
    <3>1. /\ exec'[e].lock /\ exec'[e].row # "none" /\ exec'[e].kept = "watched"
      BY <1>4, <2>3, <2>4
    <3>. QED
      BY <2>4, <3>1 DEF Passes, IInv
  <2>10. Room'
    <3>1. Recorded' = Recorded \cup {e} /\ e \notin Recorded
      BY <1>3, <1>4, <2>3, <2>4 DEF Recorded
    <3>2. IsFiniteSet(Recorded)
      BY FS_Subset, CleanupAssumption DEF Recorded
    <3>3. Cardinality(Recorded') = Cardinality(Recorded) + 1 /\ Cardinality(Recorded) \in Nat
      BY <3>1, <3>2, FS_AddElement, FS_CardinalityType
    <3>. QED
      BY <1>5, <3>3, CleanupAssumption DEF Full, Room
  <2>11. ASSUME NEW q \in Procs \ {p} PROVE Attends(q)' /\ Paging(q)'
    <3>1. \A d \in Execs : exec[d].owner = q => Steady(d) /\ (exec[d].fence => exec'[d].fence)
      BY <1>4, <2>4 DEF Steady
    <3>. QED
      BY <1>1, <2>6, <3>1, OthersKept DEF IInv, Runner
  <2>12. Attends(p)' /\ Paging(p)'
    <3>1. /\ exec'[e].lock /\ exec'[e].owner = p /\ exec'[e].kept = "watched"
          /\ exec'[e].org = Head(proc[p].page) /\ exec'[e].fence /\ exec'[e].task = "queued"
      BY <1>3, <1>4, <2>3, <2>4
    <3>. QED
      BY <1>3, <1>4, <2>6, <3>1 DEF Attends, Paging
  <2>13. Fenced'
    BY <1>2, <2>6 DEF IInv, Fenced
  <2>. QED
    BY <2>7, <2>8, <2>9, <2>10, <2>11, <2>12, <2>13 DEF IInv, Runner
<1>6. CASE /\ exec' = [exec EXCEPT ![e] = NoExecution]
           /\ proc' = [proc EXCEPT ![p] = Declined([@ EXCEPT !.cur = None])]
  <2> DEFINE r0 == [proc[p] EXCEPT !.cur = None]
             r == Declined(r0)
  <2>1. proc' = [proc EXCEPT ![p] = r]
    BY <1>1, <1>6
  <2>2. r0 \in Runners
    BY <1>1, RunnerUpdates
  <2>3. r0.page = proc[p].page /\ r0.hung = proc[p].hung /\ r0.gen = proc[p].gen
    BY <1>1 DEF Runners
  <2> HIDE DEF r0
  <2>4. /\ r \in Runners /\ r.pc \notin Busy /\ r.gen = proc[p].gen
        /\ r.hung => proc[p].hung
    BY <1>3, <2>2, <2>3, DeclinedType
  <2> HIDE DEF r
  <2>5. /\ proc' \in [Procs -> Runners] /\ proc'[p] = r
        /\ \A q \in Procs \ {p} : proc'[q] = proc[q]
    BY <1>1, <2>1, <2>4, RunnerSet
  <2>6. Attends(p)' /\ Paging(p)'
    BY <1>3, <2>4, <2>5, NotBusy
  <2>7. /\ exec' \in [Execs -> Executions] /\ exec'[e] = NoExecution
        /\ \A d \in Execs \ {e} : exec'[d] = exec[d]
    BY <1>1, <1>4, <1>6, NoExecutionType
  <2>8. \A d \in Execs : Undisturbed(d) \/ (Ends(d) /\ exec[d].owner = p)
    BY <1>4, <2>7 DEF Undisturbed, Steady, Ends, NoExecution
  <2>. QED
    BY <1>1, <1>2, <2>4, <2>5, <2>6, <2>7, <2>8, RunnerStepKeeps
<1>. QED
  BY <1>5, <1>6 DEF Register

\* The runner goes on watching the execution, or no longer does.
LEMMA WatchKeeps ==
    ASSUME IInv, NEW p \in Procs, Deadline(p) \/ FenceLost(p)
    PROVE  IInv'
<1> DEFINE e == proc[p].cur
<1>1. /\ TypesOK /\ exec \in [Execs -> Executions] /\ mishaps \in 0..MaxMishaps
      /\ cursor \in Orgs \cup {None} /\ deferred \in SUBSET Orgs
      /\ proc[p].pc = "watch" /\ exec' = exec
      /\ lease' = lease /\ cursor' = cursor /\ deferred' = deferred /\ mishaps' = mishaps
  BY DEF IInv, TypesOK, Deadline, FenceLost, At
<1>2. /\ ~proc[p].hung /\ proc[p].page # <<>> /\ proc[p].scanned < MaxOrgs
      /\ exec[e].task # "none"
  BY <1>1 DEF IInv, Runner, Attends, Paging
<1>3. e \in Execs /\ exec[e].owner = p /\ exec[e].lock /\ exec[e].kept = "watched"
  BY <1>1, <1>2, Attended
<1>4. PICK pc \in {"cancel", "quit"} : Goto(p, pc) /\ (pc = "quit" => exec[e].task = "lost")
  BY DEF Deadline, FenceLost
<1>5. pc \in Pcs
  BY DEF Pcs
<1>6. /\ proc' \in [Procs -> Runners]
      /\ \A q \in Procs \ {p} : proc'[q] = proc[q]
      /\ proc'[p].pc = pc /\ proc'[p].gen = proc[p].gen /\ proc'[p].cur = proc[p].cur
      /\ proc'[p].hung = proc[p].hung /\ proc'[p].page = proc[p].page
      /\ proc'[p].scanned = proc[p].scanned
  BY <1>1, <1>4, <1>5, GotoType
<1>7. Attends(p)' /\ Paging(p)'
  BY <1>1, <1>2, <1>3, <1>4, <1>6 DEF Attends, Paging, Stopped
<1>8. \A d \in Execs : Undisturbed(d)
  BY <1>1, ExecutionsUnchanged
<1>. QED
  BY <1>1, <1>6, <1>7, <1>8, RunnerStepKeeps

\* A pass that has not started stops when it is cancelled, and nothing else happens.
LEMMA QueuedCancelled ==
    ASSUME IInv, NEW p \in Procs, exec' = CancelQueued(p)
    PROVE  /\ exec' \in [Execs -> Executions]
           /\ \A d \in Execs :
                /\ Undisturbed(d)
                /\ exec'[d].owner = exec[d].owner /\ exec'[d].lock = exec[d].lock
                /\ exec'[d].kept = exec[d].kept
                /\ exec'[d].task = IF d = proc[p].cur /\ At(p, "cancel") /\ exec[d].task = "queued"
                                   THEN "failed" ELSE exec[d].task
<1> DEFINE e == proc[p].cur
           task == IF At(p, "cancel") /\ exec[e].task = "queued" THEN "failed" ELSE exec[e].task
           x == [exec[e] EXCEPT !.task = task]
<1>1. exec \in [Execs -> Executions] /\ proc[p] \in Runners
  BY DEF IInv, TypesOK
<1>2. CASE e \notin Execs
  <2>1. exec' = exec
    BY <1>1, <1>2 DEF CancelQueued
  <2>. QED
    BY <1>1, <1>2, <2>1, ExecutionsUnchanged
<1>3. CASE e \in Execs
  <2>1. exec' = [exec EXCEPT ![e] = x]
    BY <1>1, <1>3 DEF CancelQueued
  <2>2. /\ task \in {"none", "queued", "running", "completed", "failed", "lost"}
        /\ task = exec[e].task \/ (exec[e].task = "queued" /\ task = "failed")
    BY <1>1, <1>3 DEF Executions
  <2>3. task = IF At(p, "cancel") /\ exec[e].task = "queued" THEN "failed" ELSE exec[e].task
    OBVIOUS
  <2> HIDE DEF task
  <2>4. x \in Executions
    BY <1>1, <1>3, <2>2, ExecutionUpdates
  <2>5. /\ x.org = exec[e].org /\ x.owner = exec[e].owner /\ x.row = exec[e].row
        /\ x.lock = exec[e].lock /\ x.kept = exec[e].kept /\ x.fence = exec[e].fence
        /\ x.task = task
    BY <1>1, <1>3 DEF Executions
  <2> HIDE DEF x
  <2>6. /\ exec' \in [Execs -> Executions] /\ exec'[e] = x
        /\ \A d \in Execs \ {e} : exec'[d] = exec[d]
    BY <1>1, <1>3, <2>1, <2>4
  <2>7. Undisturbed(e)
    BY <2>2, <2>5, <2>6 DEF Undisturbed, Steady, Stopped
  <2>8. \A d \in Execs \ {e} : Undisturbed(d)
    BY <2>6 DEF Undisturbed, Steady
  <2>9. /\ exec'[e].owner = exec[e].owner /\ exec'[e].lock = exec[e].lock
        /\ exec'[e].kept = exec[e].kept /\ exec'[e].task = task
    BY <2>5, <2>6
  <2>. QED
    BY <2>3, <2>6, <2>7, <2>8, <2>9
<1>. QED
  BY <1>2, <1>3

\* The runner is about to release what it attends to, and its pass has stopped.
LEMMA LeavingAttends ==
    ASSUME IInv, NEW p \in Procs, proc[p].pc \in Busy \ {"register"},
           proc'[p].pc \in {"release", "quit"}, proc'[p].cur = proc[p].cur,
           proc'[p].hung = proc[p].hung, proc'[p].page = proc[p].page,
           ~proc[p].hung => exec'[proc[p].cur].task \in Stopped,
           \A d \in Execs :
                /\ exec'[d].owner = exec[d].owner /\ exec'[d].lock = exec[d].lock
                /\ exec'[d].kept = exec[d].kept
    PROVE  Attends(p)' /\ Paging(p)'
<1>1. proc[p].page # <<>>
  BY DEF IInv, Runner, Paging, Busy
<1>2. Paging(p)'
  BY <1>1 DEF Paging
<1>3. CASE proc[p].hung
  <2>1. proc'[p].hung /\ proc'[p].pc \in {"release", "quit"}
    BY <1>3
  <2>. QED
    BY <1>2, <2>1 DEF Attends
<1>4. CASE ~proc[p].hung
  <2>1. proc[p].pc \in {"watch", "cancel", "release", "quit"}
    BY <1>4 DEF IInv, Runner, Attends, Busy
  <2>2. /\ proc[p].cur \in Execs /\ exec[proc[p].cur].owner = p /\ exec[proc[p].cur].lock
        /\ exec[proc[p].cur].kept = "watched"
    BY <1>4, <2>1, Attended
  <2>3. /\ ~proc'[p].hung /\ proc'[p].cur \in Execs /\ exec'[proc'[p].cur].owner = p
        /\ exec'[proc'[p].cur].lock /\ exec'[proc'[p].cur].kept = "watched"
        /\ exec'[proc'[p].cur].task \in Stopped
    BY <1>4, <2>2
  <2>. QED
    BY <1>2, <2>3 DEF Attends
<1>. QED
  BY <1>3, <1>4

\* complete_tenant and defer_failed_tenant.
LEMMA MoveCursorKeeps ==
    ASSUME IInv, NEW p \in Procs, Complete(p) \/ Defer(p)
    PROVE  IInv'
<1> DEFINE e == proc[p].cur
           o == Head(proc[p].page)
<1>1. /\ TypesOK /\ exec \in [Execs -> Executions] /\ mishaps \in 0..MaxMishaps
      /\ cursor \in Orgs \cup {None} /\ deferred \in SUBSET Orgs
      /\ proc \in [Procs -> Runners] /\ proc[p] \in Runners
      /\ proc[p].pc \in {"watch", "cancel", "defer"}
  BY DEF IInv, TypesOK, Complete, Defer, At
<1>2. /\ proc[p].page # <<>> /\ proc[p].scanned < MaxOrgs
      /\ proc[p].pc \in {"watch", "cancel"} => ~proc[p].hung /\ exec[e].task # "none"
      /\ proc[p].pc = "defer" => proc[p].hung
  BY <1>1 DEF IInv, Runner, Attends, Paging
<1>3. o \in Orgs
  BY <1>1, <1>2, PageSteps
<1>4. ~proc[p].hung => e \in Execs
  BY <1>1, <1>2, Attended
<1>5. exec' = exec \/ exec' = CancelQueued(p)
  BY DEF Complete, Defer
<1>6. /\ exec' \in [Execs -> Executions]
      /\ \A d \in Execs : Undisturbed(d)
      /\ \A d \in Execs : /\ exec'[d].owner = exec[d].owner /\ exec'[d].lock = exec[d].lock
                          /\ exec'[d].kept = exec[d].kept
  BY <1>1, <1>5, QueuedCancelled, ExecutionsUnchanged
<1>7. ~proc[p].hung => exec'[e].task \in Stopped
  <2> SUFFICES ASSUME ~proc[p].hung PROVE exec'[e].task \in Stopped
    OBVIOUS
  <2>1. e \in Execs /\ exec[e].task \in {"queued", "running"} \cup Stopped
        /\ proc[p].pc \in {"watch", "cancel"}
    BY <1>1, <1>2, <1>4 DEF Executions, Stopped
  <2>2. CASE Complete(p)
    BY <2>1, <2>2 DEF Complete, Stopped
  <2>3. CASE Defer(p)
    <3>1. exec'[e].task = IF At(p, "cancel") /\ exec[e].task = "queued"
                          THEN "failed" ELSE exec[e].task
      BY <2>1, <2>3, QueuedCancelled DEF Defer
    <3>2. exec[e].task = "failed" \/ (At(p, "cancel") /\ exec[e].task # "running")
      BY <2>1, <2>3 DEF Defer, At, Running
    <3>. QED
      BY <2>1, <3>1, <3>2 DEF Stopped
  <2>. QED
    BY <2>2, <2>3
<1>8. /\ lease' = lease /\ mishaps' = mishaps
      /\ cursor' \in Orgs \cup {None} /\ deferred' \in SUBSET Orgs
  BY <1>1, <1>3 DEF Complete, Defer, MoveCursor
<1>9. PICK r \in Runners :
        /\ proc' = [proc EXCEPT ![p] = r]
        /\ r.pc \in {"release", "quit"} /\ r.cur = proc[p].cur /\ r.hung = proc[p].hung
        /\ r.page = proc[p].page /\ r.gen = proc[p].gen
  <2>1. "release" \in Pcs /\ "quit" \in Pcs
    BY DEF Pcs
  <2>2. CASE proc' = [proc EXCEPT ![p].pc = "release", ![p].seen = o, ![p].scanned = @ + 1]
    <3> DEFINE n == proc[p].scanned + 1
               r == [[[proc[p] EXCEPT !.pc = "release"] EXCEPT !.seen = o] EXCEPT !.scanned = n]
    <3>1. proc' = [proc EXCEPT ![p] = r]
      BY <1>1, <2>2
    <3>2. n \in 0..MaxOrgs
      BY <1>1, <1>2, CleanupAssumption DEF Runners
    <3> HIDE DEF n
    <3>3. r \in Runners
      BY <1>1, <1>3, <2>1, <3>2, RunnerUpdates
    <3>4. /\ r.pc = "release" /\ r.cur = proc[p].cur /\ r.hung = proc[p].hung
          /\ r.page = proc[p].page /\ r.gen = proc[p].gen
      BY <1>1 DEF Runners
    <3>. QED
      BY <3>1, <3>3, <3>4
  <2>3. CASE Goto(p, "quit")
    <3> DEFINE r == [proc[p] EXCEPT !.pc = "quit"]
    <3>1. proc' = [proc EXCEPT ![p] = r]
      BY <1>1, <2>3 DEF Goto
    <3>2. r \in Runners
      BY <1>1, <2>1, RunnerUpdates
    <3>3. /\ r.pc = "quit" /\ r.cur = proc[p].cur /\ r.hung = proc[p].hung
          /\ r.page = proc[p].page /\ r.gen = proc[p].gen
      BY <1>1 DEF Runners
    <3>. QED
      BY <3>1, <3>2, <3>3
  <2>. QED
    BY <2>2, <2>3 DEF Complete, Defer, MoveCursor
<1>10. /\ proc' \in [Procs -> Runners] /\ proc'[p] = r
       /\ \A q \in Procs \ {p} : proc'[q] = proc[q]
  BY <1>1, <1>9, RunnerSet
<1>11. Attends(p)' /\ Paging(p)'
  BY <1>1, <1>6, <1>7, <1>9, <1>10, LeavingAttends DEF Busy
<1>. QED
  BY <1>1, <1>6, <1>8, <1>9, <1>10, <1>11, RunnerStepKeeps

\* A pass that is not over keeps its lock and its record.
LEMMA QuarantineKeeps ==
    ASSUME IInv, NEW p \in Procs, Quarantine(p)
    PROVE  IInv'
<1> DEFINE e == proc[p].cur
<1>1. /\ TypesOK /\ exec \in [Execs -> Executions] /\ mishaps \in 0..MaxMishaps
      /\ proc \in [Procs -> Runners] /\ proc[p] \in Runners
      /\ proc[p].pc = "cancel" /\ exec[e].task = "running"
      /\ lease' = lease /\ cursor' = cursor /\ deferred' = deferred
  BY DEF IInv, TypesOK, Quarantine, At
<1>2. ~proc[p].hung /\ proc[p].page # <<>> /\ proc[p].scanned < MaxOrgs
  BY <1>1 DEF IInv, Runner, Attends, Paging
<1>3. e \in Execs /\ exec[e].owner = p /\ exec[e].lock
  BY <1>1, <1>2, Attended
<1>4. exec[e].row # "none"
  BY <1>1, <1>3 DEF IInv, Passes
<1>5. PICK marked \in BOOLEAN :
        /\ Mishap(IF marked THEN 0 ELSE 1)
        /\ exec' = [exec EXCEPT ![e].kept = "quarantined",
                                ![e].row = IF marked THEN "quarantined" ELSE @]
  BY DEF Quarantine
<1>6. mishaps' \in 0..MaxMishaps
  BY <1>1, <1>5, MishapType
<1> DEFINE row == IF marked THEN "quarantined" ELSE exec[e].row
           x == [[exec[e] EXCEPT !.kept = "quarantined"] EXCEPT !.row = row]
<1>7. exec' = [exec EXCEPT ![e] = x]
  BY <1>1, <1>3, <1>5
<1>8. row \in {"none", "active", "quarantined", "pending", "due"} /\ row # "none"
  BY <1>1, <1>3, <1>4 DEF Executions
<1> HIDE DEF row
<1>9. x \in Executions
  BY <1>1, <1>3, <1>8, ExecutionUpdates
<1>10. /\ x.org = exec[e].org /\ x.owner = exec[e].owner /\ x.lock = exec[e].lock
       /\ x.task = exec[e].task /\ x.row = row /\ x.kept = "quarantined"
  <2>1. exec[e] \in Executions
    BY <1>1, <1>3
  <2>2. x.org = exec[e].org /\ x.owner = exec[e].owner /\ x.lock = exec[e].lock
    BY <2>1 DEF Executions
  <2>3. x.task = exec[e].task /\ x.row = row /\ x.kept = "quarantined"
    BY <2>1 DEF Executions
  <2>. QED
    BY <2>2, <2>3
<1> HIDE DEF x
<1>11. /\ exec' \in [Execs -> Executions] /\ exec'[e] = x
       /\ \A d \in Execs \ {e} : exec'[d] = exec[d]
  BY <1>1, <1>3, <1>7, <1>9
<1> DEFINE r == [[proc[p] EXCEPT !.pc = "defer"] EXCEPT !.hung = TRUE]
<1>12. proc' = [proc EXCEPT ![p] = r]
  BY <1>1 DEF Quarantine
<1>13. r \in Runners
  <2>1. "defer" \in Pcs
    BY DEF Pcs
  <2>. QED
    BY <1>1, <2>1, RunnerUpdates
<1>14. /\ r.pc = "defer" /\ r.hung = TRUE /\ r.page = proc[p].page
       /\ r.scanned = proc[p].scanned /\ r.gen = proc[p].gen
  BY <1>1 DEF Runners
<1> HIDE DEF r
<1>15. /\ proc' \in [Procs -> Runners] /\ proc'[p] = r
       /\ \A q \in Procs \ {p} : proc'[q] = proc[q]
  BY <1>1, <1>12, <1>13, RunnerSet
<1>16. TypesOK'
  BY <1>1, <1>6, <1>11, <1>15 DEF TypesOK
<1>17. Locks'
  <2>1. \A d \in Execs : exec'[d].lock = exec[d].lock /\ exec'[d].org = exec[d].org
    BY <1>10, <1>11
  <2>. QED
    BY <2>1 DEF Locks, IInv
<1>18. Passes'
  <2>1. /\ exec'[e].lock /\ exec'[e].row # "none" /\ exec'[e].kept = "quarantined"
        /\ exec'[e].task = "running"
    BY <1>1, <1>3, <1>8, <1>10, <1>11
  <2>. QED
    BY <1>11, <2>1 DEF Passes, IInv
<1>19. Room'
  <2>1. Recorded' = Recorded
    BY <1>3, <1>4, <1>8, <1>10, <1>11 DEF Recorded
  <2>. QED
    BY <2>1 DEF Room, IInv
<1>20. ASSUME NEW q \in Procs \ {p} PROVE Attends(q)' /\ Paging(q)'
  <2>1. \A d \in Execs : exec[d].owner = q => Steady(d) /\ (exec[d].fence => exec'[d].fence)
    BY <1>3, <1>11 DEF Steady
  <2>. QED
    BY <1>1, <1>15, <2>1, OthersKept DEF IInv, Runner
<1>21. Attends(p)' /\ Paging(p)'
  BY <1>2, <1>14, <1>15 DEF Attends, Paging
<1>22. Fenced'
  BY <1>1, <1>14, <1>15 DEF IInv, Fenced
<1>. QED
  BY <1>16, <1>17, <1>18, <1>19, <1>20, <1>21, <1>22 DEF IInv, Runner

\* The finally clause: the pass has stopped, or keeps its lock in quarantine.
LEMMA ReleaseTenantKeeps ==
    ASSUME IInv, NEW p \in Procs, ReleaseTenant(p)
    PROVE  IInv'
<1> DEFINE e == proc[p].cur
<1>1. /\ TypesOK /\ exec \in [Execs -> Executions] /\ mishaps \in 0..MaxMishaps
      /\ cursor \in Orgs \cup {None} /\ deferred \in SUBSET Orgs
      /\ proc \in [Procs -> Runners] /\ proc[p] \in Runners
      /\ proc[p].pc \in {"release", "quit"}
      /\ lease' = lease /\ cursor' = cursor /\ deferred' = deferred
  BY DEF IInv, TypesOK, ReleaseTenant, At
<1>2. /\ mishaps' \in 0..MaxMishaps /\ exec' \in [Execs -> Executions]
      /\ \A d \in Execs : Undisturbed(d) \/ (Ends(d) /\ exec[d].owner = p)
  <2>1. CASE proc[p].hung
    <3>1. exec' = exec /\ mishaps' = mishaps
      BY <2>1 DEF ReleaseTenant
    <3>. QED
      BY <1>1, <3>1, ExecutionsUnchanged
  <2>2. CASE ~proc[p].hung
    <3>1. UnlockTenant(e)
      BY <2>2 DEF ReleaseTenant
    <3>2. e \in Execs /\ exec[e].owner = p
      BY <1>1, <2>2, Attended
    <3>3. exec[e].task \in Stopped
      BY <1>1, <2>2 DEF IInv, Runner, Attends
    <3>4. /\ mishaps' \in 0..MaxMishaps
          /\ exec' \in [Execs -> Executions]
          /\ \A d \in Execs \ {e} : exec'[d] = exec[d]
          /\ exec'[e].org = exec[e].org /\ exec'[e].task = "none"
          /\ exec'[e].lock => exec[e].lock
          /\ exec'[e].row # "none" => exec[e].row # "none"
      BY <1>1, <3>1, <3>2, Released
    <3>5. Ends(e)
      BY <3>3, <3>4 DEF Ends, Stopped
    <3>6. \A d \in Execs \ {e} : Undisturbed(d)
      BY <3>4 DEF Undisturbed, Steady
    <3>. QED
      BY <3>2, <3>4, <3>5, <3>6
  <2>. QED
    BY <2>1, <2>2
<1>3. PICK r \in Runners :
        /\ proc' = [proc EXCEPT ![p] = r]
        /\ r.pc \in {"unlease", "tenant"} /\ ~r.hung /\ r.gen = proc[p].gen
  <2> DEFINE r1(pc) == [[[proc[p] EXCEPT !.pc = pc] EXCEPT !.cur = None] EXCEPT !.hung = FALSE]
             r2 == [r1("tenant") EXCEPT !.page = Tail(proc[p].page)]
  <2>1. ASSUME NEW pc \in Pcs
        PROVE  r1(pc) \in Runners /\ r1(pc).pc = pc /\ r1(pc).hung = FALSE
               /\ r1(pc).gen = proc[p].gen
    <3>1. r1(pc) \in Runners
      BY <1>1, <2>1, RunnerUpdates
    <3>2. r1(pc).pc = pc /\ r1(pc).hung = FALSE /\ r1(pc).gen = proc[p].gen
      BY <1>1 DEF Runners
    <3>. QED
      BY <3>1, <3>2
  <2>2. "tenant" \in Pcs
    BY DEF Pcs
  <2>3. Tail(proc[p].page) \in Seq(Orgs)
    <3>1. proc[p].page # <<>>
      BY <1>1 DEF IInv, Runner, Paging
    <3>. QED
      BY <1>1, <3>1, PageSteps
  <2>4. \/ proc' = [proc EXCEPT ![p] = Done(proc[p])]
        \/ proc' = [proc EXCEPT ![p] = r2]
    <3>1. \/ proc' = [proc EXCEPT ![p] = Done(@)]
          \/ proc' = [proc EXCEPT ![p].pc = "tenant", ![p].cur = None, ![p].hung = FALSE,
                                  ![p].page = Tail(@)]
      BY DEF ReleaseTenant
    <3>. QED
      BY <1>1, <3>1 DEF Runners
  <2> HIDE DEF r1
  <2>5. r2 \in Runners
    BY <2>1, <2>2, <2>3, RunnerUpdates
  <2>6. r2.pc = "tenant" /\ r2.hung = FALSE /\ r2.gen = proc[p].gen
    <3>1. /\ r2.pc = r1("tenant").pc /\ r2.hung = r1("tenant").hung
          /\ r2.gen = r1("tenant").gen
      BY <2>1, <2>2 DEF Runners
    <3>. QED
      BY <2>1, <2>2, <3>1
  <2> HIDE DEF r2
  <2>7. /\ Done(proc[p]) \in Runners /\ Done(proc[p]).pc = "unlease"
        /\ Done(proc[p]).gen = proc[p].gen /\ ~Done(proc[p]).hung
    BY <1>1, DoneType
  <2>. QED
    BY <2>4, <2>5, <2>6, <2>7
<1>4. /\ proc' \in [Procs -> Runners] /\ proc'[p] = r
      /\ \A q \in Procs \ {p} : proc'[q] = proc[q]
  BY <1>1, <1>3, RunnerSet
<1>5. Attends(p)' /\ Paging(p)'
  BY <1>3, <1>4, NotBusy DEF Busy
<1>. QED
  BY <1>1, <1>2, <1>3, <1>4, <1>5, RunnerStepKeeps

\* release_lease: every token is inactive, or the cycle leaves without it.
LEMMA UnleaseKeeps ==
    ASSUME IInv, NEW p \in Procs, Unlease(p)
    PROVE  IInv'
<1> DEFINE r == Rest(p)
<1>1. /\ TypesOK /\ mishaps \in 0..MaxMishaps
      /\ proc \in [Procs -> Runners] /\ proc[p] \in Runners /\ None \notin Procs
      /\ cursor' = cursor /\ deferred' = deferred
  BY CleanupAssumption DEF IInv, TypesOK, Unlease
<1>2. r \in Runners
  <2>1. proc[p].stop \in BOOLEAN
    BY <1>1 DEF Runners
  <2>. QED
    BY <2>1, IdleRunnerType, RunnerUpdates DEF Rest
<1>3. r.pc = "idle" /\ r.hung = FALSE /\ r.gen = FALSE
  BY DEF Rest, IdleRunner
<1>4. mishaps' \in 0..MaxMishaps
  BY <1>1, MishapType DEF Unlease
<1> HIDE DEF r
<1>5. CASE proc' = [proc EXCEPT ![p] = r] /\ lease' = lease /\ exec' = exec
  BY <1>1, <1>2, <1>3, <1>4, <1>5, ExecutionsUnchanged, FreeRunnerKeeps DEF Busy, IInv, TypesOK
<1>6. CASE lease' = FALSE /\ NoFenceBut(None, [proc EXCEPT ![p] = r], exec)
  <2> DEFINE rs == [proc EXCEPT ![p] = r]
  <2>1. rs \in [Procs -> Runners] /\ rs[p] = r /\ \A q \in Procs \ {p} : rs[q] = proc[q]
    BY <1>1, <1>2
  <2>2. NoFenceBut(None, rs, exec)
    BY <1>6
  <2> HIDE DEF rs
  <2>3. /\ proc' \in [Procs -> Runners] /\ exec' \in [Execs -> Executions]
        /\ \A d \in Execs : Steady(d)
        /\ \A q \in Procs : proc'[q] = IF q = None THEN [rs[q] EXCEPT !.gen = TRUE]
                                                   ELSE [rs[q] EXCEPT !.gen = FALSE]
    BY <1>1, <2>1, <2>2, FencesGone
  <2>4. \A q \in Procs : proc'[q] = [rs[q] EXCEPT !.gen = FALSE]
    BY <1>1, <2>3
  <2>5. \A q \in Procs : ~proc'[q].gen
    BY <2>1, <2>4 DEF Runners
  <2>6. Locks' /\ Passes' /\ Room'
    BY <1>1, <2>3, ExecutionsKept DEF IInv
  <2>7. Attends(p)' /\ Paging(p)'
    <3>1. proc'[p].pc \notin Busy /\ ~proc'[p].hung
      BY <1>2, <1>3, <2>1, <2>4 DEF Runners, Busy
    <3>. QED
      BY <3>1, NotBusy
  <2>8. ASSUME NEW q \in Procs \ {p} PROVE Attends(q)' /\ Paging(q)'
    <3>1. proc'[q] = [proc[q] EXCEPT !.gen = FALSE]
      BY <2>1, <2>4
    <3>. QED
      BY <1>1, <2>3, <2>5, <3>1, OthersKept DEF IInv, Runner
  <2>9. TypesOK' /\ Fenced'
    BY <1>1, <1>4, <1>6, <2>3, <2>5 DEF TypesOK, Fenced
  <2>. QED
    BY <2>6, <2>7, <2>8, <2>9 DEF IInv, Runner
<1>. QED
  BY <1>5, <1>6 DEF Unlease, r

\* A call fails where the runner is.
LEMMA StoreFailsKeeps ==
    ASSUME IInv, NEW p \in Procs, StoreFails(p)
    PROVE  IInv'
<1> DEFINE e == proc[p].cur
<1>1. /\ TypesOK /\ exec \in [Execs -> Executions]
      /\ cursor \in Orgs \cup {None} /\ deferred \in SUBSET Orgs
      /\ proc \in [Procs -> Runners] /\ proc[p] \in Runners
      /\ lease' = lease /\ cursor' = cursor /\ deferred' = deferred
  BY DEF IInv, TypesOK, StoreFails
<1>2. mishaps' \in 0..MaxMishaps
  BY <1>1, MishapType DEF StoreFails
<1>3. CASE /\ proc[p].pc \in {"retry", "lease"} /\ exec' = exec
           /\ proc' = [proc EXCEPT ![p].pc = "idle", ![p].due = {}]
  <2> DEFINE r == [[proc[p] EXCEPT !.pc = "idle"] EXCEPT !.due = {}]
  <2>1. proc' = [proc EXCEPT ![p] = r]
    BY <1>1, <1>3
  <2>2. r \in Runners
    <3>1. "idle" \in Pcs /\ {} \in SUBSET Execs
      BY DEF Pcs
    <3>. QED
      BY <1>1, <3>1, RunnerUpdates
  <2>3. ~proc[p].hung
    BY <1>3 DEF IInv, Runner, Attends
  <2>4. r.pc \notin Busy /\ ~r.hung /\ r.gen = proc[p].gen
    BY <1>1, <2>3 DEF Runners, Busy
  <2> HIDE DEF r
  <2>. QED
    BY <1>1, <1>2, <1>3, <2>1, <2>2, <2>4, ExecutionsUnchanged, FreeRunnerKeeps
<1>6. CASE proc[p].pc = "tenant" /\ exec' = exec /\ proc' = [proc EXCEPT ![p] = Done(@)]
  <2>1. proc' = [proc EXCEPT ![p] = Done(proc[p])]
    BY <1>1, <1>6
  <2>. QED
    BY <1>1, <1>2, <1>6, <2>1, ExecutionsUnchanged, DoneType, FreeRunnerKeeps
<1>4. CASE /\ proc[p].pc = "register"
           /\ exec' = [exec EXCEPT ![e] = NoExecution]
           /\ proc' = [proc EXCEPT ![p] = Done(@)]
  <2> DEFINE r == Done(proc[p])
  <2>1. proc' = [proc EXCEPT ![p] = r]
    BY <1>1, <1>4
  <2>2. r \in Runners
    BY <1>1, DoneType
  <2>3. r.pc = "unlease" /\ ~r.hung /\ r.gen = proc[p].gen
    BY <1>1, DoneType
  <2> HIDE DEF r
  <2>4. /\ proc' \in [Procs -> Runners] /\ proc'[p] = r
        /\ \A q \in Procs \ {p} : proc'[q] = proc[q]
    BY <1>1, <2>1, <2>2, RunnerSet
  <2>5. ~proc[p].hung
    BY <1>4 DEF IInv, Runner, Attends
  <2>6. e \in Execs /\ exec[e].owner = p
    BY <1>4, <2>5, Attended
  <2>7. Attends(p)' /\ Paging(p)'
    BY <2>3, <2>4, <2>5, NotBusy DEF Busy
  <2>8. /\ exec' \in [Execs -> Executions] /\ exec'[e] = NoExecution
        /\ \A d \in Execs \ {e} : exec'[d] = exec[d]
    BY <1>1, <1>4, <2>6, NoExecutionType
  <2>9. \A d \in Execs : Undisturbed(d) \/ (Ends(d) /\ exec[d].owner = p)
    BY <2>6, <2>8 DEF Undisturbed, Steady, Ends, NoExecution
  <2>. QED
    BY <1>1, <1>2, <2>3, <2>4, <2>7, <2>8, <2>9, RunnerStepKeeps
<1>5. CASE /\ \/ At(p, "watch") /\ exec[e].task \in {"completed", "failed"}
              \/ At(p, "cancel") /\ ~Running(e)
              \/ At(p, "defer")
              \/ At(p, "release") /\ proc[p].hung
           /\ Goto(p, "quit") /\ exec' = CancelQueued(p)
  <2>1. "quit" \in Pcs /\ proc[p].pc \in Busy \ {"register"}
    BY <1>5 DEF Pcs, At, Busy
  <2>2. /\ proc' \in [Procs -> Runners]
        /\ \A q \in Procs \ {p} : proc'[q] = proc[q]
        /\ proc'[p].pc = "quit" /\ proc'[p].gen = proc[p].gen /\ proc'[p].cur = proc[p].cur
        /\ proc'[p].hung = proc[p].hung /\ proc'[p].page = proc[p].page
    BY <1>1, <1>5, <2>1, GotoType
  <2>3. /\ exec' \in [Execs -> Executions]
        /\ \A d \in Execs :
             /\ Undisturbed(d)
             /\ exec'[d].owner = exec[d].owner /\ exec'[d].lock = exec[d].lock
             /\ exec'[d].kept = exec[d].kept
             /\ exec'[d].task = IF d = e /\ At(p, "cancel") /\ exec[d].task = "queued"
                                THEN "failed" ELSE exec[d].task
    BY <1>5, QueuedCancelled
  <2>4. ~proc[p].hung => exec'[e].task \in Stopped
    <3> SUFFICES ASSUME ~proc[p].hung PROVE exec'[e].task \in Stopped
      OBVIOUS
    <3>1. /\ proc[p].pc \in {"watch", "cancel"} /\ exec[e].task # "none"
          /\ proc[p].pc = "defer" => proc[p].hung
      BY <1>5 DEF At, IInv, Runner, Attends
    <3>2. e \in Execs
      BY <3>1, Attended
    <3>3. exec[e].task \in {"queued", "running"} \cup Stopped
      BY <1>1, <3>1, <3>2 DEF Executions, Stopped
    <3>4. \/ exec[e].task \in {"completed", "failed"}
          \/ At(p, "cancel") /\ exec[e].task # "running"
      BY <1>5, <3>1 DEF At, Running
    <3>5. exec'[e].task = IF At(p, "cancel") /\ exec[e].task = "queued"
                          THEN "failed" ELSE exec[e].task
      BY <2>3, <3>2
    <3>. QED
      BY <3>3, <3>4, <3>5 DEF Stopped
  <2>5. \A d \in Execs : /\ exec'[d].owner = exec[d].owner /\ exec'[d].lock = exec[d].lock
                         /\ exec'[d].kept = exec[d].kept
    BY <2>3
  <2>6. Attends(p)' /\ Paging(p)'
    BY <2>1, <2>2, <2>4, <2>5, LeavingAttends
  <2>. QED
    BY <1>1, <1>2, <2>2, <2>3, <2>6, RunnerStepKeeps
<1>. QED
  BY <1>3, <1>4, <1>5, <1>6 DEF StoreFails, At

\* A stop is noted by the runner only.
LEMMA RequestStopKeeps ==
    ASSUME IInv, NEW p \in Procs, RequestStop(p)
    PROVE  IInv'
<1> DEFINE r == [proc[p] EXCEPT !.stop = TRUE]
<1>1. /\ TypesOK /\ exec \in [Execs -> Executions]
      /\ cursor \in Orgs \cup {None} /\ deferred \in SUBSET Orgs
      /\ proc \in [Procs -> Runners] /\ proc[p] \in Runners
      /\ lease' = lease /\ cursor' = cursor /\ deferred' = deferred /\ exec' = exec
  BY DEF IInv, TypesOK, RequestStop
<1>2. mishaps' \in 0..MaxMishaps
  BY <1>1, MishapType DEF RequestStop
<1>3. proc' = [proc EXCEPT ![p] = r] /\ r \in Runners /\ r.gen = proc[p].gen
  <2>1. r \in Runners
    BY <1>1, RunnerUpdates
  <2>2. r.gen = proc[p].gen
    BY <1>1 DEF Runners
  <2>. QED
    BY <1>1, <2>1, <2>2 DEF RequestStop
<1>4. /\ proc' \in [Procs -> Runners] /\ proc'[p] = r
      /\ \A q \in Procs \ {p} : proc'[q] = proc[q]
  BY <1>1, <1>3, RunnerSet
<1>5. \A d \in Execs : Steady(d) /\ (exec[d].fence => exec'[d].fence)
  BY <1>1 DEF Steady
<1>6. Attends(p)' /\ Paging(p)'
  BY <1>1, <1>4, <1>5, OthersKept DEF IInv, Runner
<1>7. \A d \in Execs : Undisturbed(d)
  BY <1>5 DEF Undisturbed
<1>. QED
  BY <1>1, <1>2, <1>3, <1>4, <1>6, <1>7, RunnerStepKeeps

\* A process takes its passes and locks with it.
LEMMA ReplacedKeeps ==
    ASSUME IInv, NEW p \in Procs, Exit(p) \/ Crash(p)
    PROVE  IInv'
<1>1. /\ TypesOK /\ exec \in [Execs -> Executions]
      /\ cursor \in Orgs \cup {None} /\ deferred \in SUBSET Orgs
      /\ proc \in [Procs -> Runners] /\ Replaced(p)
      /\ lease' = lease /\ cursor' = cursor /\ deferred' = deferred
  BY DEF IInv, TypesOK, Exit, Crash, Replaced
<1>2. mishaps' \in 0..MaxMishaps
  BY <1>1, MishapType DEF Exit, Crash, TypesOK
<1>3. /\ proc' \in [Procs -> Runners] /\ proc'[p] = IdleRunner
      /\ \A q \in Procs \ {p} : proc'[q] = proc[q]
  BY <1>1, IdleRunnerType, RunnerSet DEF Replaced
<1>4. Attends(p)' /\ Paging(p)' /\ proc'[p].gen = FALSE
  BY <1>3, NotBusy DEF IdleRunner, Busy
<1> DEFINE x(e) == IF exec[e].owner # p THEN exec[e]
                   ELSE IF exec[e].row = "none" THEN NoExecution
                   ELSE [NoExecution EXCEPT !.org = exec[e].org, !.row = exec[e].row]
<1>5. ASSUME NEW e \in Execs PROVE x(e) \in Executions
  <2>1. /\ exec[e] \in Executions
        /\ exec[e].row \in {"none", "active", "quarantined", "pending", "due"}
        /\ exec[e].org \in Orgs \cup {None}
    BY <1>1 DEF Executions
  <2>2. [[NoExecution EXCEPT !.org = exec[e].org] EXCEPT !.row = exec[e].row] \in Executions
    BY <2>1, NoExecutionType, ExecutionUpdates
  <2>. QED
    BY <2>1, <2>2, NoExecutionType
<1>6. exec' = [e \in Execs |-> x(e)]
  BY <1>1 DEF Replaced
<1>7. exec' \in [Execs -> Executions] /\ \A d \in Execs : exec'[d] = x(d)
  BY <1>5, <1>6
<1>8. ASSUME NEW d \in Execs PROVE Undisturbed(d) \/ (Ends(d) /\ exec[d].owner = p)
  <2>1. CASE exec[d].owner # p
    BY <1>7, <2>1 DEF Undisturbed, Steady
  <2>2. CASE exec[d].owner = p /\ exec[d].row = "none"
    <3>1. exec'[d] = NoExecution
      BY <1>7, <2>2
    <3>. QED
      BY <2>2, <3>1 DEF Ends, NoExecution
  <2>3. CASE exec[d].owner = p /\ exec[d].row # "none"
    <3>1. exec'[d] = [NoExecution EXCEPT !.org = exec[d].org, !.row = exec[d].row]
      BY <1>7, <2>3
    <3>2. exec'[d].lock = FALSE /\ exec'[d].task = "none"
      BY <3>1 DEF NoExecution
    <3>. QED
      BY <2>3, <3>2 DEF Ends
  <2>. QED
    BY <2>1, <2>2, <2>3
<1>. QED
  BY <1>1, <1>2, <1>3, <1>4, <1>7, <1>8, RunnerStepKeeps

-----------------------------------------------------------------------------
(* The retained entries *)

\* What is cut off a list of entries, marked in it or taken out of it leaves such a list.
LEMMA ReachType == ASSUME NEW s \in Seq(Entries) PROVE Reach(s) \in Seq(Entries)
<1> DEFINE inert(i) == {j \in 1..(i - 1) : s[j] = None}
           I == {i \in DOMAIN s : Cardinality(inert(i)) < MaxActive}
           n == Cardinality(I)
<1>1. Len(s) \in Nat /\ DOMAIN s = 1..Len(s)
  OBVIOUS
<1>2. IsFiniteSet(1..Len(s)) /\ Cardinality(1..Len(s)) = Len(s)
  BY <1>1, FS_Interval
<1>3. I \subseteq 1..Len(s)
  BY <1>1
<1>4. Reach(s) = SubSeq(s, 1, n)
  BY DEF Reach
<1> HIDE DEF I
<1>5. n \in Nat /\ n <= Len(s)
  BY <1>2, <1>3, FS_Subset, FS_CardinalityType
<1> HIDE DEF n
<1>6. SubSeq(s, 1, n) \in Seq(Entries)
  BY <1>1, <1>5
<1>. QED
  BY <1>4, <1>6

LEMMA InertType ==
    ASSUME NEW s \in Seq(Entries), NEW E PROVE Inert(s, E) \in Seq(Entries)
<1> DEFINE t == [i \in DOMAIN s |-> IF s[i] \in E THEN None ELSE s[i]]
<1>1. t \in Seq(Entries)
  BY DEF Entries
<1> HIDE DEF t
<1>2. Reach(t) \in Seq(Entries)
  BY <1>1, ReachType
<1>. QED
  BY <1>2 DEF Inert, t

LEMMA PoppedType ==
    ASSUME NEW s \in Seq(Entries), NEW e PROVE Popped(s, e) \in Seq(Entries)
<1>1. CASE \E i \in DOMAIN s : s[i] = e
  <2> DEFINE k == CHOOSE i \in DOMAIN s : s[i] = e
  <2>1. k \in DOMAIN s
    BY <1>1
  <2>2. Popped(s, e) = SubSeq(s, 1, k - 1) \o SubSeq(s, k + 1, Len(s))
    BY <1>1 DEF Popped
  <2> HIDE DEF k
  <2>3. k \in 1..Len(s) /\ Len(s) \in Nat
    BY <2>1
  <2>4. SubSeq(s, 1, k - 1) \in Seq(Entries) /\ SubSeq(s, k + 1, Len(s)) \in Seq(Entries)
    BY <2>3
  <2>. QED
    BY <2>2, <2>4
<1>2. CASE ~\E i \in DOMAIN s : s[i] = e
  BY <1>2 DEF Popped
<1>. QED
  BY <1>1, <1>2

\* Only a registration, the end of a release, a reconciliation and the end of the process
\* change the entries.
LEMMA NextTasks == ASSUME IInv, Tasks, [Next]_vars PROVE Tasks'
<1>1. tracked \in [Procs -> Seq(Entries)] /\ <<>> \in Seq(Entries)
  BY DEF Tasks
<1>2. ASSUME NEW p \in Procs, Register(p) PROVE Tasks'
  <2>1. CASE tracked' = tracked
    BY <2>1 DEF Tasks
  <2>2. CASE tracked' # tracked
    <3>1. tracked' = [tracked EXCEPT ![p] = Reach(Append(tracked[p], proc[p].cur))]
      BY <1>1, <1>2, <2>2 DEF Register
    <3>2. proc[p].cur \in Entries
      BY DEF IInv, TypesOK, Runners, Entries
    <3>4. Append(tracked[p], proc[p].cur) \in Seq(Entries)
      BY <1>1, <3>2
    <3>3. Reach(Append(tracked[p], proc[p].cur)) \in Seq(Entries)
      BY <3>4, ReachType
    <3>. QED
      BY <1>1, <3>1, <3>3 DEF Tasks
  <2>. QED
    BY <2>1, <2>2
<1>3. ASSUME NEW p \in Procs, ReconcileOrphans(p) PROVE Tasks'
  BY <1>1, <1>3, InertType DEF ReconcileOrphans, Tasks
<1>4. ASSUME NEW e \in Execs, DropRow(e) PROVE Tasks'
  <2> DEFINE p == exec[e].owner
  <2>1. CASE tracked' = tracked \/ p \notin Procs
    BY <1>1, <1>4, <2>1 DEF DropRow, Tasks
  <2>2. CASE tracked' # tracked /\ p \in Procs
    <3>1. \/ tracked' = [tracked EXCEPT ![p] = Popped(tracked[p], e)]
          \/ tracked' = [tracked EXCEPT ![p] = Inert(tracked[p], {e})]
      BY <1>1, <1>4, <2>2 DEF DropRow
    <3>2. tracked[p] \in Seq(Entries)
      BY <1>1, <2>2
    <3>3. Popped(tracked[p], e) \in Seq(Entries) /\ Inert(tracked[p], {e}) \in Seq(Entries)
      BY <3>2, PoppedType, InertType
    <3>. QED
      BY <1>1, <2>2, <3>1, <3>3 DEF Tasks
  <2>. QED
    BY <2>1, <2>2
<1>5. ASSUME NEW p \in Procs, Exit(p) \/ Crash(p) PROVE Tasks'
  BY <1>1, <1>5 DEF Exit, Crash, Replaced, Tasks
<1>6. CASE tracked' = tracked
  BY <1>6 DEF Tasks
<1>7. ASSUME NEW p \in Procs, RunnerStep(p)
      PROVE  tracked' = tracked \/ Register(p) \/ ReconcileOrphans(p)
  BY <1>7 DEF RunnerStep, RetryRelease, Admit, AcquireLease, NextTenant, Deadline, Quarantine,
     Complete, Defer, MoveCursor, FenceLost, ReleaseTenant, Unlease
<1>8. ASSUME NEW p \in Procs, StoreFails(p) \/ RequestStop(p) PROVE tracked' = tracked
  BY <1>8 DEF StoreFails, RequestStop
<1>9. ASSUME NEW e \in Execs,
             \/ QuarantineEnds(e) \/ RetryDue(e) \/ PassStarts(e) \/ PassLosesFence(e)
             \/ \E result \in {"completed", "failed"} : PassEnds(e, result)
      PROVE  tracked' = tracked
  BY <1>9 DEF QuarantineEnds, RetryDue, PassStarts, PassLosesFence, PassEnds
<1>10. CASE LeaseLapses \/ LeaseLost \/ \E o \in Orgs : DeferralDue(o)
  BY <1>6, <1>10 DEF LeaseLapses, LeaseLost, DeferralDue
<1>11. CASE UNCHANGED vars
  BY <1>6, <1>11 DEF vars
<1>. QED
  BY <1>2, <1>3, <1>4, <1>5, <1>6, <1>7, <1>8, <1>9, <1>10, <1>11 DEF Next

-----------------------------------------------------------------------------
(* The theorems *)

\* No runner has begun.
LEMMA InitInv == Init => IInv /\ Tasks
<1> SUFFICES ASSUME Init PROVE IInv /\ Tasks
  OBVIOUS
<1>1. TypesOK
  BY TypeInit
<1>2. \A e \in Execs : ~exec[e].lock /\ exec[e].task = "none" /\ exec[e].row = "none"
  BY DEF Init, NoExecution
<1>3. Locks /\ Passes
  BY <1>2 DEF Locks, Passes
<1>4. \A p \in Procs : proc[p].pc = "idle" /\ ~proc[p].hung /\ ~proc[p].gen
  BY DEF Init, IdleRunner
<1>5. Runner /\ Fenced
  BY <1>4 DEF Runner, Attends, Paging, Fenced
<1>6. Room
  <2>1. Recorded = {}
    BY <1>2 DEF Recorded
  <2>. QED
    BY <2>1, FS_EmptySet, CleanupAssumption DEF Room
<1>7. Tasks
  <2>1. <<>> \in Seq(Entries)
    OBVIOUS
  <2>. QED
    BY <2>1 DEF Tasks, Init
<1>. QED
  BY <1>1, <1>3, <1>5, <1>6, <1>7 DEF IInv

\* A step that changes nothing.
LEMMA StutterInv == ASSUME IInv, UNCHANGED vars PROVE IInv'
<1>1. \A d \in Execs : Steady(d) /\ (exec[d].fence => exec'[d].fence)
  BY DEF vars, Steady
<1>. QED
  BY <1>1, ExecutionStepKeeps DEF vars, IInv, TypesOK

\* One case per action.
LEMMA NextInv == ASSUME IInv, Tasks, [Next]_vars PROVE IInv'
<1>1. ASSUME NEW p \in Procs, RunnerStep(p) PROVE IInv'
  BY <1>1, AdmissionKeeps, RetryReleaseKeeps, AcquireLeaseKeeps, NextTenantKeeps, RegisterKeeps,
     WatchKeeps, QuarantineKeeps, MoveCursorKeeps, ReleaseTenantKeeps, UnleaseKeeps
     DEF RunnerStep
<1>2. ASSUME NEW p \in Procs, StoreFails(p) \/ RequestStop(p) \/ Exit(p) \/ Crash(p) PROVE IInv'
  BY <1>2, StoreFailsKeeps, RequestStopKeeps, ReplacedKeeps
<1>3. ASSUME NEW e \in Execs,
             \/ DropRow(e) \/ QuarantineEnds(e) \/ RetryDue(e)
             \/ PassStarts(e) \/ PassLosesFence(e)
             \/ \E result \in {"completed", "failed"} : PassEnds(e, result)
      PROVE  IInv'
  BY <1>3, LateReleaseKeeps, DueKeeps, PassKeeps
<1>4. CASE LeaseLapses \/ LeaseLost \/ \E o \in Orgs : DeferralDue(o)
  BY <1>4, LeaseEndKeeps, DueKeeps
<1>5. CASE UNCHANGED vars
  BY <1>5, StutterInv
<1>. QED
  BY <1>1, <1>2, <1>3, <1>4, <1>5 DEF Next

\* The inductive invariant holds throughout.
LEMMA CleanupInvariant == Spec => [](IInv /\ Tasks)
<1>1. IInv /\ Tasks /\ [Next]_vars => (IInv /\ Tasks)'
  BY NextInv, NextTasks
<1>. QED
  BY <1>1, InitInv, PTL DEF Spec

\* Every call of the runners and the schedule store leaves them in their types, whatever
\* the number of workers, tenants, executions and mishaps.
THEOREM CleanupTypeCorrect == Spec => []CleanupTypeOK
<1>1. IInv /\ Tasks => CleanupTypeOK
  BY DEF IInv, TypesOK, Tasks, Entries, CleanupTypeOK
<1>. QED
  BY <1>1, CleanupInvariant, PTL

\* Two destructive passes over one tenant never overlap: a pass that has not stopped has
\* its tenant locked (Passes), and a lock has one holder (Locks).
THEOREM TenantsExclusive == Spec => []TenantExclusive
<1>1. ASSUME IInv PROVE TenantExclusive
  <2>1. \A e \in Execs : Running(e) => exec[e].lock
    BY <1>1 DEF IInv, Passes, Running
  <2>. QED
    BY <1>1, <2>1 DEF TenantExclusive, IInv, Locks
<1>. QED
  BY <1>1, CleanupInvariant, PTL

\* Every running pass is on record, and the record never exceeds the capacity workers
\* admit by.
THEOREM RunningAdmitted == Spec => []RunningIsAdmitted
<1>1. IInv => RunningIsAdmitted
  BY DEF IInv, Passes, Room, RunningIsAdmitted, Running
<1>. QED
  BY <1>1, CleanupInvariant, PTL

\* complete_tenant and defer_failed_tenant move the cursor under an active lease only, and
\* past a tenant only if its pass completed under that lease or its retry is recorded.
THEOREM CursorMovesWithWork == Spec => CursorFollowsWork
<1> DEFINE Moves == cursor' # cursor =>
             /\ lease
             /\ \/ cursor' \in deferred'
                \/ \E e \in Execs : /\ exec[e].org = cursor' /\ exec[e].lock
                                    /\ exec[e].fence /\ exec[e].task = "completed"
<1>1. ASSUME IInv, Next, cursor' # cursor PROVE Moves
  <2>1. PICK p \in Procs : Complete(p) \/ Defer(p)
    BY <1>1 DEF Next, RunnerStep, ReconcileOrphans, RetryRelease, Admit, AcquireLease,
       NextTenant, Register, Deadline, Quarantine, FenceLost, ReleaseTenant, Unlease,
       StoreFails, RequestStop, Exit, Crash, Replaced, DropRow, QuarantineEnds, RetryDue,
       PassStarts, PassLosesFence, PassEnds, LeaseLapses, LeaseLost, DeferralDue
  <2>2. proc[p].gen /\ cursor' = Head(proc[p].page)
    BY <1>1, <2>1 DEF Complete, Defer, MoveCursor, MayMove
  <2>3. lease
    BY <1>1, <2>2 DEF IInv, Fenced
  <2>4. CASE Defer(p)
    <3>1. cursor' \in deferred'
      BY <1>1, <2>4 DEF Defer, MoveCursor
    <3>. QED
      BY <2>3, <3>1
  <2>5. CASE Complete(p)
    <3> DEFINE e == proc[p].cur
    <3>1. proc[p].pc = "watch" /\ exec[e].task = "completed"
      BY <2>5 DEF Complete, At
    <3>2. exec[e].org = Head(proc[p].page) /\ exec[e].fence /\ ~proc[p].hung
      BY <1>1, <2>2, <3>1 DEF IInv, Runner, Attends
    <3>3. e \in Execs /\ exec[e].lock
      BY <1>1, <3>1, <3>2, Attended
    <3>. QED
      BY <2>2, <2>3, <3>1, <3>2, <3>3
  <2>. QED
    BY <2>1, <2>4, <2>5
<1>2. IInv /\ [Next]_vars => [Moves]_vars
  BY <1>1
<1>. QED
  BY <1>2, CleanupInvariant, PTL DEF Spec, CursorFollowsWork
=============================================================================
