----------------------------- MODULE EventStream -----------------------------
(***************************************************************************)
(* How the events of one run reach a reader: the RuntimeEventProducers     *)
(* that append to its ledger behind a LedgerSeal each, the in-process      *)
(* InMemoryEventBus that wakes the readers, RuntimeSseAdapter.stream, and  *)
(* the client that keeps what it has received.                             *)
(*                                                                         *)
(* The ledger is a file of lines; replay reads a catalog index of it, by   *)
(* sequence_no, and an append numbers its events by how many the process   *)
(* has in memory.  A write that fails leaves the three apart, and a        *)
(* restart brings them together again.  But for them and the run's status  *)
(* everything is lost when the process restarts.                           *)
(* A stream is a generator that suspends at each event it yields and at    *)
(* its wait.                                                               *)
(***************************************************************************)
EXTENDS Naturals, Sequences

CONSTANTS
    Producers,      \* the event producers that write to the run's ledger
    Enders,         \* of these, the ones of handlers that terminate the run
    Notifying,      \* built with on_event_appended; the cancel handler's is not
    Overlap,        \* whether a lock expires under an executing task
    Conns,          \* readers of the run
    Following,      \* opened with follow, as every chat client is
    MaxBatch,       \* bound: events of one batch append
    MaxEvents,      \* bound: lines of the ledger, and numbers given
    MaxConnects,    \* bound: connections over all readers
    MaxRestarts     \* bound: process restarts

ASSUME StreamAssumption ==
    /\ Enders \subseteq Producers /\ Following \subseteq Conns
    /\ Overlap \in BOOLEAN
    /\ MaxBatch \in Nat /\ MaxEvents \in Nat
    /\ MaxConnects \in Nat /\ MaxRestarts \in Nat

VARIABLES
    file,       \* the run's ledger: the lines of its file
    index,      \* the line the catalog has for a sequence number
    taken,      \* how many events events_by_run holds
    terminal,   \* the run's status is terminal
    producers,  \* where each producer is in ending the run
    condition,  \* the condition variable registered for the run, 0 if none
    made,       \* the name of the condition variable last made
    notices,    \* condition variables with a scheduled notification
    pc,         \* per reader: where its generator is
    cursor,     \* per reader: latest_sequence
    batch,      \* per reader: what the last replay returned
    quiet,      \* per reader: terminal_polls_without_events
    on,         \* per reader: the condition variable it waits on, or 0
    wire,       \* per reader: frames sent and not yet received
    received,   \* per reader: the frames it has kept, in order
    latest,     \* per reader: the highest number of these, its resume cursor
    connects,
    restarts

storeVars == <<file, index, taken>>
ledgerVars == <<storeVars, terminal, producers>>
busVars == <<condition, made, notices>>
streamVars == <<pc, cursor, batch, quiet, on>>
clientVars == <<received, latest, connects>>
vars == <<ledgerVars, busVars, streamVars, wire, clientVars, restarts>>

\* ahead: the catalog had the line as soon as it was written, and nothing above its
\* number (history).
Lines == [no : Nat, kind : {"causal", "amendment", "seal"}, ahead : BOOLEAN]

\* A frame carries a sequence number and the line with the event; a heartbeat is of no
\* line.
Frames == [no : Nat, line : Nat]

Running == {"poll", "send", "heartbeat", "wait"}
Streaming(c) == pc[c] \in Running

\* A replay: the lines of it still to send, whether it found none, whether a seal is
\* among them, and whether the run's status was terminal.
Batches == [todo : SUBSET Nat, empty : BOOLEAN, seal : BOOLEAN, over : BOOLEAN]
NoBatch == [todo |-> {}, empty |-> TRUE, seal |-> FALSE, over |-> FALSE]

StreamTypeOK ==
    /\ file \in Seq(Lines)
    /\ taken \in Nat
    /\ terminal \in BOOLEAN
    /\ producers \in [Producers -> {"open", "ending", "sealed"}]
    /\ condition \in Nat /\ made \in Nat
    /\ notices \in SUBSET Nat
    /\ pc \in [Conns -> Running \cup {"off", "sealed", "ended"}]
    /\ cursor \in [Conns -> Nat]
    /\ batch \in [Conns -> Batches]
    /\ quiet \in [Conns -> 0..1]
    /\ on \in [Conns -> Nat]
    /\ wire \in [Conns -> Seq(Frames)]
    /\ received \in [Conns -> Seq(Frames)]
    /\ latest \in [Conns -> Nat]
    /\ connects \in Nat /\ restarts \in Nat
    \* The catalog and the replays know lines of the file, the catalog each by its number.
    /\ \A n \in DOMAIN index : index[n] \in DOMAIN file /\ file[index[n]].no = n
    /\ \A c \in Conns : batch[c].todo \subseteq DOMAIN file

Init ==
    /\ file = <<>> /\ index = <<>> /\ taken = 0
    /\ terminal = FALSE
    /\ producers = [p \in Producers |-> "open"]
    /\ condition = 0 /\ made = 0
    /\ notices = {}
    /\ pc = [c \in Conns |-> "off"]
    /\ cursor = [c \in Conns |-> 0]
    /\ batch = [c \in Conns |-> NoBatch]
    /\ quiet = [c \in Conns |-> 0]
    /\ on = [c \in Conns |-> 0]
    /\ wire = [c \in Conns |-> <<>>]
    /\ received = [c \in Conns |-> <<>>]
    /\ latest = [c \in Conns |-> 0]
    /\ connects = 0 /\ restarts = 0

-----------------------------------------------------------------------------
(* RuntimeEventProducer: guard, append, notify *)

\* n lines numbered on from the events in memory; the catalog replaces what it has
\* under a number.
Room(n) == Len(file) + n <= MaxEvents /\ taken + n <= MaxEvents
WriteLines(kind, n, shown) ==
    /\ LET ahead == shown /\ \A m \in DOMAIN index : m <= taken IN
       file' = file \o [i \in 1..n |-> [no |-> taken + i, kind |-> kind, ahead |-> ahead]]
    /\ index' = IF shown
                THEN [m \in DOMAIN index \cup (taken + 1)..(taken + n) |->
                        IF m \in (taken + 1)..(taken + n) THEN Len(file) + m - taken ELSE index[m]]
                ELSE index

\* append_event or append_events_batch; notify_sync then schedules a wake-up of whoever
\* waits on the condition variable registered for the run, if one is.  It may come when
\* the reader has long polled.
Store(p, kind, n) ==
    /\ Room(n)
    /\ WriteLines(kind, n, TRUE) /\ taken' = taken + n
    /\ notices' = IF p \in Notifying THEN notices \cup ({condition} \ {0}) ELSE notices
    /\ UNCHANGED <<terminal, condition, made, streamVars, wire, clientVars, restarts>>

\* The append raises.  append_event has then counted its event, append_events_batch has
\* not; of the write nothing may be there, or the line and not the catalog's row, or
\* both, when it was the run's latest_sequence_no that could not be stored.
StoreFails(kind, n, counted) ==
    /\ Room(n)
    /\ \/ UNCHANGED <<file, index>> /\ taken' = taken + counted
       \/ WriteLines(kind, n, FALSE) /\ taken' = taken + counted
       \/ WriteLines(kind, n, TRUE) /\ taken' = taken + n
    /\ UNCHANGED <<terminal, busVars, streamVars, wire, clientVars, restarts>>

\* LedgerSeal.guard of a causal event.  Between it and the append the producer waits
\* only for the store's locks, which are granted in the order they are asked for, so
\* both are one step.
Admits(p) == producers[p] # "sealed"

\* One event, or a flush of coalesced deltas.
AppendCausal(p, n) ==
    /\ Admits(p)
    /\ Store(p, "causal", n)
    /\ UNCHANGED producers

LoseCausal(p) ==
    /\ Admits(p)
    /\ StoreFails("causal", 1, 1) \/ \E n \in 1..MaxBatch : StoreFails("causal", n, 0)
    /\ UNCHANGED producers

\* A reconciliation or a late recovery: the seal lets it through.  Before the seal it is
\* an event like any other.
AppendAmendment(p) ==
    /\ ~Admits(p)
    /\ Store(p, "amendment", 1)
    /\ UNCHANGED producers

LoseAmendment(p) ==
    /\ ~Admits(p)
    /\ StoreFails("amendment", 1, 1)
    /\ UNCHANGED producers

\* The handler writes the terminal status; receipt, reconciled lifecycles and the
\* terminal event are still to come.
EndRun(p) ==
    /\ p \in Enders /\ (producers[p] = "open" \/ ~terminal)
    /\ terminal' = TRUE
    /\ producers' = [producers EXCEPT ![p] = IF @ = "open" THEN "ending" ELSE @]
    /\ UNCHANGED <<storeVars, busVars, streamVars, wire, clientVars, restarts>>

\* A handler that is given a finished run, redelivered after a restart or resumed after
\* another has ended it, writes RUNNING.  One that has ended it itself in this process
\* is given it again only when its lock has expired.
StartOver(p) ==
    /\ p \in Enders /\ terminal
    /\ producers[p] = "open" \/ Overlap
    /\ terminal' = FALSE
    /\ UNCHANGED <<storeVars, producers, busVars, streamVars, wire, clientVars, restarts>>

\* _emit_run_terminal.  A terminal event is admitted by the seal it sets, and again
\* when two paths of a handler both terminate.
AppendSeal(p) ==
    /\ producers[p] \in {"ending", "sealed"}
    /\ Store(p, "seal", 1)
    /\ producers' = [producers EXCEPT ![p] = "sealed"]

\* The append fails after the guard has set the seal; the error is swallowed.
LoseSeal(p) ==
    /\ producers[p] \in {"ending", "sealed"}
    /\ StoreFails("seal", 1, 1)
    /\ producers' = [producers EXCEPT ![p] = "sealed"]

\* _async_notify: notify_all on the condition variable captured when it was scheduled.
AsyncNotify(v) ==
    /\ v \in notices
    /\ notices' = notices \ {v}
    /\ pc' = [c \in Conns |-> IF on[c] = v THEN "poll" ELSE pc[c]]
    /\ on' = [c \in Conns |-> IF on[c] = v THEN 0 ELSE on[c]]
    /\ UNCHANGED <<ledgerVars, condition, made, cursor, batch, quiet, wire, clientVars, restarts>>

-----------------------------------------------------------------------------
(* RuntimeSseAdapter.stream *)

\* Mutant: the client resumes from what the server last sent.
ConnectFromSent(c) ==
    /\ connects < MaxConnects /\ connects' = connects + 1
    /\ ~Streaming(c) /\ (c \in Following \/ received[c] = <<>>)
    /\ pc' = [pc EXCEPT ![c] = "poll"]
    /\ cursor' = [cursor EXCEPT ![c] = IF wire[c] = <<>> THEN latest[c] ELSE wire[c][Len(wire[c])].no]
    /\ wire' = [wire EXCEPT ![c] = <<>>]
    /\ UNCHANGED <<ledgerVars, busVars, batch, quiet, on, received, latest, restarts>>

\* A reader connects, or reconnects after the last event it has; a snapshot reader
\* reads once.
Connect(c) ==
    /\ connects < MaxConnects /\ connects' = connects + 1
    /\ ~Streaming(c) /\ (c \in Following \/ received[c] = <<>>)
    /\ pc' = [pc EXCEPT ![c] = "poll"]
    /\ cursor' = [cursor EXCEPT ![c] = latest[c]]
    /\ wire' = [wire EXCEPT ![c] = <<>>]
    /\ UNCHANGED <<ledgerVars, busVars, batch, quiet, on, received, latest, restarts>>

\* replay_events: the run's status and what the catalog has after the cursor.
ReplayEvents(c) ==
    /\ pc[c] = "poll"
    /\ pc' = [pc EXCEPT ![c] = "send"]
    /\ LET new == {n \in DOMAIN index : n > cursor[c]} IN
       batch' = [batch EXCEPT ![c] =
            [todo |-> {index[n] : n \in new},
             empty |-> new = {},
             seal |-> \E n \in new : file[index[n]].kind = "seal",
             over |-> terminal]]
    /\ UNCHANGED <<ledgerVars, busVars, cursor, quiet, on, wire, clientVars, restarts>>

\* One yield, of the lowest number to come.
SendEvent(c) ==
    /\ pc[c] = "send"
    /\ \E l \in batch[c].todo :
          /\ \A k \in batch[c].todo : file[l].no <= file[k].no
          /\ batch' = [batch EXCEPT ![c].todo = @ \ {l}]
          /\ cursor' = [cursor EXCEPT ![c] = file[l].no]
          /\ wire' = [wire EXCEPT ![c] = Append(@, [no |-> file[l].no, line |-> l])]
    /\ UNCHANGED <<ledgerVars, busVars, pc, quiet, on, clientVars, restarts>>

\* What the adapter decides on once the replayed events are sent.
Sent(c) == pc[c] = "send" /\ batch[c].todo = {}
Empty(c) == batch[c].empty
SealSent(c) == batch[c].seal

\* Mutant: the polls are counted and never acted on.
OverdueNever(c) == FALSE

\* The second poll of a finished run that found nothing.
Overdue(c) == batch[c].over /\ Empty(c) /\ quiet[c] > 0

\* The generator returns and drops the condition variable that all readers share.
Return(c, how) ==
    /\ pc' = [pc EXCEPT ![c] = how]
    /\ condition' = 0
    /\ batch' = [batch EXCEPT ![c] = NoBatch]
    /\ quiet' = [quiet EXCEPT ![c] = 0]
    /\ UNCHANGED <<ledgerVars, made, notices, cursor, on, clientVars, restarts>>

CloseOnSeal(c) ==
    /\ Sent(c) /\ SealSent(c)
    /\ Return(c, "sealed") /\ UNCHANGED wire

CloseOverdue(c) ==
    /\ Sent(c) /\ ~SealSent(c) /\ Overdue(c)
    /\ Return(c, "ended") /\ UNCHANGED wire

\* Without follow: return after the replayed events, or after a heartbeat if there
\* were none, which awaits the run once more.
CloseSnapshot(c) ==
    /\ Sent(c) /\ ~SealSent(c) /\ ~Overdue(c)
    /\ c \notin Following /\ ~Empty(c)
    /\ Return(c, "ended") /\ UNCHANGED wire

BeginHeartbeat(c) ==
    /\ Sent(c) /\ ~SealSent(c) /\ ~Overdue(c)
    /\ c \notin Following /\ Empty(c)
    /\ pc' = [pc EXCEPT ![c] = "heartbeat"]
    /\ UNCHANGED <<ledgerVars, busVars, cursor, batch, quiet, on, wire, clientVars, restarts>>

\* It carries the number after the last of the run, of which the replay found none, and
\* is not in the ledger.
SendHeartbeat(c) ==
    /\ pc[c] = "heartbeat"
    /\ wire' = [wire EXCEPT ![c] = Append(@, [no |-> 1, line |-> 0])]
    /\ Return(c, "ended")

\* Names are taken again once nobody holds one.
Unheld == IF notices = {} /\ \A d \in Conns : on[d] = 0 THEN 0 ELSE made

\* Mutant: polls of a finished run are not counted.
WaitForgets(c) ==
    /\ Sent(c) /\ ~SealSent(c) /\ ~Overdue(c)
    /\ c \in Following
    /\ pc' = [pc EXCEPT ![c] = "wait"]
    /\ made' = IF condition = 0 THEN Unheld + 1 ELSE made
    /\ condition' = IF condition = 0 THEN Unheld + 1 ELSE condition
    /\ on' = [on EXCEPT ![c] = condition']
    /\ batch' = [batch EXCEPT ![c] = NoBatch]
    /\ UNCHANGED <<ledgerVars, notices, cursor, quiet, wire, clientVars, restarts>>

\* bus.wait: register a condition variable if none is, and wait on it.
Wait(c) ==
    /\ Sent(c) /\ ~SealSent(c) /\ ~Overdue(c)
    /\ c \in Following
    /\ pc' = [pc EXCEPT ![c] = "wait"]
    /\ quiet' = IF batch[c].over THEN [quiet EXCEPT ![c] = IF Empty(c) THEN @ + 1 ELSE 0] ELSE quiet
    /\ made' = IF condition = 0 THEN Unheld + 1 ELSE made
    /\ condition' = IF condition = 0 THEN Unheld + 1 ELSE condition
    /\ on' = [on EXCEPT ![c] = condition']
    /\ batch' = [batch EXCEPT ![c] = NoBatch]
    /\ UNCHANGED <<ledgerVars, notices, cursor, wire, clientVars, restarts>>

\* Mutant: only a notification ends the wait.
PollOnlyNotified(c) == FALSE /\ UNCHANGED vars

\* FALLBACK_POLL_SECONDS pass without a notification.
FallbackPoll(c) ==
    /\ pc[c] = "wait"
    /\ pc' = [pc EXCEPT ![c] = "poll"]
    /\ on' = [on EXCEPT ![c] = 0]
    /\ UNCHANGED <<ledgerVars, busVars, cursor, batch, quiet, wire, clientVars, restarts>>

-----------------------------------------------------------------------------
(* The client, the network and the process *)

\* onMessage: a number already seen is dropped.
Receive(c) ==
    /\ wire[c] # <<>>
    /\ wire' = [wire EXCEPT ![c] = Tail(@)]
    /\ LET f == Head(wire[c]) IN
       IF \E i \in DOMAIN received[c] : received[c][i].no = f.no
       THEN UNCHANGED <<received, latest>>
       ELSE /\ received' = [received EXCEPT ![c] = Append(@, f)]
            /\ latest' = [latest EXCEPT ![c] = IF f.no > @ THEN f.no ELSE @]
    /\ UNCHANGED <<ledgerVars, busVars, streamVars, connects, restarts>>

\* The connection breaks: what is on the wire is lost, and the generator is cancelled
\* where it is suspended, without unsubscribing.
Disconnect(c) ==
    /\ Streaming(c) \/ wire[c] # <<>>
    /\ pc' = [pc EXCEPT ![c] = "off"]
    /\ cursor' = [cursor EXCEPT ![c] = 0]
    /\ batch' = [batch EXCEPT ![c] = NoBatch]
    /\ quiet' = [quiet EXCEPT ![c] = 0]
    /\ on' = [on EXCEPT ![c] = 0]
    /\ wire' = [wire EXCEPT ![c] = <<>>]
    /\ UNCHANGED <<ledgerVars, busVars, clientVars, restarts>>

\* The process restarts: bus, seals, connections and what was about to happen are
\* gone.  The lines are counted, and the catalog is rebuilt: of two lines with one
\* number it keeps the later.
Restart ==
    /\ restarts < MaxRestarts /\ restarts' = restarts + 1
    /\ taken' = Len(file)
    /\ index' \in [{file[l].no : l \in DOMAIN file} -> DOMAIN file]
    /\ \A n \in DOMAIN index' :
          file[index'[n]].no = n /\ \A k \in DOMAIN file : file[k].no = n => k <= index'[n]
    /\ producers' = [p \in Producers |-> "open"]
    /\ condition' = 0 /\ made' = 0 /\ notices' = {}
    /\ pc' = [c \in Conns |-> "off"]
    /\ cursor' = [c \in Conns |-> 0]
    /\ batch' = [c \in Conns |-> NoBatch]
    /\ quiet' = [c \in Conns |-> 0]
    /\ on' = [c \in Conns |-> 0]
    /\ wire' = [c \in Conns |-> <<>>]
    /\ UNCHANGED <<file, terminal, clientVars>>

-----------------------------------------------------------------------------
ProducerNext(p) ==
    \/ \E n \in 1..MaxBatch : AppendCausal(p, n)
    \/ LoseCausal(p) \/ AppendAmendment(p) \/ LoseAmendment(p)
    \/ EndRun(p) \/ StartOver(p) \/ AppendSeal(p) \/ LoseSeal(p)

\* What the event loop goes on with in a generator.
Decide(c) ==
    \/ CloseOnSeal(c) \/ CloseOverdue(c) \/ CloseSnapshot(c)
    \/ BeginHeartbeat(c) \/ Wait(c)
Resume(c) == ReplayEvents(c) \/ SendEvent(c) \/ Decide(c) \/ SendHeartbeat(c)

Next ==
    \/ \E p \in Producers : ProducerNext(p)
    \/ \E v \in notices : AsyncNotify(v)
    \/ \E c \in Conns : Connect(c) \/ Resume(c) \/ FallbackPoll(c) \/ Receive(c) \/ Disconnect(c)
    \/ Restart

Spec == Init /\ [][Next]_vars

\* The event loop resumes every generator that can go on, the wait's timeout fires,
\* and an open connection carries its frames.  Nothing is assumed of notifications.
Fairness ==
    \A c \in Following : WF_vars(Resume(c)) /\ WF_vars(FallbackPoll(c)) /\ WF_vars(Receive(c))

LiveSpec == Spec /\ Fairness

-----------------------------------------------------------------------------
(* Properties *)

\* The line was in the catalog before any with a higher number, and no other takes its
\* number: so is every line until a write has failed.
InOrder(l) == file[l].ahead /\ \A k \in DOMAIN file : k > l => file[k].no # file[l].no

\* "no events are lost": through broken connections with frames on the wire, batches,
\* failed writes, restarts and resumption, a reader that follows has every event of the
\* ledger up to the last it has, those excepted whose number a failed write put out of
\* order; each once, in order, and none that is not in the ledger.
ReceivedInOrder ==
    \A c \in Conns :
        /\ \A i, j \in DOMAIN received[c] : i < j => received[c][i].no < received[c][j].no
        /\ c \in Following =>
             /\ \A i \in DOMAIN received[c] :
                    LET f == received[c][i] IN f.line \in DOMAIN file /\ file[f.line].no = f.no
             /\ \A l \in DOMAIN file : InOrder(l) /\ file[l].no <= latest[c] =>
                    \E i \in DOMAIN received[c] : received[c][i].line = l

\* "every event the run caused lies inside" the prefix its terminal event seals; "a
\* consumer that replayed through the terminal event has provably seen the whole run":
\* no causal event is beyond the cursor of a stream that closed on a seal.
SealedStreamIsWhole ==
    \A c \in Conns : pc[c] = "sealed" =>
        \A n \in DOMAIN index : file[index[n]].kind = "causal" => n <= cursor[c]

\* An event in order beyond the cursor of a follower reaches the reader, whichever
\* notifications are never sent, sent to nobody or sent to a condition variable that
\* another reader has dropped; unless its connection breaks, the stream closed with a
\* replay that ended before the event, or its number is given again after a restart.
EventsReachFollowers ==
    \A c \in Following, l \in 1..MaxEvents :
        (Streaming(c) /\ l \in DOMAIN file /\ InOrder(l) /\ cursor[c] < file[l].no)
            ~> \/ \E i \in DOMAIN received[c] : received[c][i].line = l
               \/ pc[c] = "off"
               \/ l \in DOMAIN file /\ (~InOrder(l) \/ (~Streaming(c) /\ cursor[c] < file[l].no))

\* A stream that follows a finished run ends, also when the terminal event was lost or was
\* consumed before the reader resumed; unless a handler starts the run over.
FinishedStreamsEnd ==
    \A c \in Following : (terminal /\ Streaming(c)) ~> (~Streaming(c) \/ ~terminal)
=============================================================================
