-------------------------- MODULE EventStreamProofs --------------------------
(***************************************************************************)
(* The safety of EventStream for any producers, readers and bounds: what a *)
(* reader has is in order, and a follower has all of it that a failed      *)
(* write did not put out of order.                                         *)
(***************************************************************************)
EXTENDS EventStream, SequenceTheorems, TLAPS

\* Sequence numbers only increase along s.
Ordered(s) == \A i, j \in DOMAIN s : i < j => s[i].no < s[j].no

\* The catalog has the number of every line it had first, under that line or a later one.
Cataloged ==
    \A l \in DOMAIN file : file[l].ahead =>
        file[l].no \in DOMAIN index /\ l <= index[file[l].no]

\* The numbers reader c keeps and those on their way to it, up to the cursor.
Numbers(c) ==
    /\ Ordered(received[c]) /\ Ordered(wire[c])
    /\ \A i \in DOMAIN received[c] : received[c][i].no <= latest[c]
    /\ \A i \in DOMAIN wire[c] : latest[c] < wire[c][i].no
    /\ received[c] = <<>> => latest[c] = 0
    /\ Streaming(c) =>
         latest[c] <= cursor[c] /\ \A i \in DOMAIN wire[c] : wire[c][i].no <= cursor[c]

\* A number is in the catalog or before the first; a frame is of a line in the file.
Known(n) == n = 0 \/ n \in DOMAIN index
Genuine(f) == f.line \in DOMAIN file /\ file[f.line].no = f.no /\ f.no \in DOMAIN index

\* What is on its way to reader c reaches up to n.
Passed(c, n) ==
    \/ Streaming(c) /\ n <= cursor[c]
    \/ \E i \in DOMAIN wire[c] : n <= wire[c][i].no

\* A follower has the lines in order up to the last it has, and those after it up to
\* the cursor are on their way.
Whole(c) ==
    /\ \A i \in DOMAIN received[c] : Genuine(received[c][i])
    /\ \A i \in DOMAIN wire[c] : Genuine(wire[c][i])
    /\ Known(latest[c]) /\ (Streaming(c) => Known(cursor[c]))
    /\ \A l \in DOMAIN file : InOrder(l) =>
         /\ file[l].no <= latest[c] => \E i \in DOMAIN received[c] : received[c][i].line = l
         /\ latest[c] < file[l].no /\ Passed(c, file[l].no) =>
                \E i \in DOMAIN wire[c] : wire[c][i].line = l

\* What is left of a replay: numbers after the cursor, one line of each, and of the
\* lines in order all up to the last.
Remaining(c) == pc[c] = "send" =>
    /\ \A k \in batch[c].todo : file[k].no \in DOMAIN index /\ cursor[c] < file[k].no
    /\ \A j, k \in batch[c].todo : file[j].no = file[k].no => j = k
    /\ \A l \in DOMAIN file, k \in batch[c].todo :
         InOrder(l) /\ cursor[c] < file[l].no /\ file[l].no <= file[k].no => l \in batch[c].todo
    /\ batch[c].empty => batch[c].todo = {}

\* Only followers wait, and a snapshot reader that has found nothing has nothing.
Snapshot(c) ==
    /\ (pc[c] = "wait" => c \in Following) /\ (pc[c] = "heartbeat" => c \notin Following)
    /\ c \notin Following /\ (pc[c] \in {"poll", "heartbeat"} \/ (pc[c] = "send" /\ batch[c].empty))
         => received[c] = <<>> /\ wire[c] = <<>>

Reader(c) ==
    /\ Numbers(c) /\ Remaining(c) /\ Snapshot(c)
    /\ c \in Following => Whole(c)

\* Only a reader that waits is on a condition variable.
Waiting ==
    /\ 0 \notin notices
    /\ \A c \in Conns : on[c] # 0 => pc[c] = "wait"

\* The inductive invariant.
IInv == StreamTypeOK /\ Waiting /\ Cataloged /\ \A c \in Conns : Reader(c)

-----------------------------------------------------------------------------
(* Sequences *)

\* Appending keeps what is there and adds the element at the end.
LEMMA Appended ==
    ASSUME NEW S, NEW s \in Seq(S), NEW x \in S, NEW t, t = Append(s, x)
    PROVE  /\ t \in Seq(S) /\ Len(s) \in Nat
           /\ DOMAIN s = 1..Len(s) /\ DOMAIN t = 1..(Len(s) + 1)
           /\ \A i \in DOMAIN s : t[i] = s[i]
           /\ t[Len(s) + 1] = x
<1>1. Len(t) = Len(s) + 1 /\ \A i \in 1..Len(s) : t[i] = s[i] /\ t[Len(s) + 1] = x
  BY AppendProperties
<1>2. t \in Seq(S) /\ Len(s) \in Nat /\ DOMAIN s = 1..Len(s) /\ DOMAIN t = 1..Len(t)
  OBVIOUS
<1>3. t[Len(s) + 1] = x
  OBVIOUS
<1>. QED
  BY <1>1, <1>2, <1>3

\* Without its first element everything is one place further on.
LEMMA Shifted ==
    ASSUME NEW S, NEW s \in Seq(S), s # <<>>
    PROVE  /\ Head(s) \in S /\ Tail(s) \in Seq(S)
           /\ 1 \in DOMAIN s /\ s[1] = Head(s)
           /\ \A i \in DOMAIN Tail(s) : i \in Nat /\ i > 0 /\ i + 1 \in DOMAIN s /\ Tail(s)[i] = s[i + 1]
           /\ \A j \in DOMAIN s : j \in Nat /\ (j = 1 \/ (j > 1 /\ j - 1 \in DOMAIN Tail(s)))
<1>1. Len(s) \in Nat /\ Len(s) > 0 /\ DOMAIN s = 1..Len(s)
  BY EmptySeq
<1>2. /\ Tail(s) \in Seq(S) /\ Len(Tail(s)) = Len(s) - 1
      /\ \A i \in 1..Len(Tail(s)) : Tail(s)[i] = s[i + 1]
  BY HeadTailProperties
<1>3. Head(s) \in S /\ Head(s) = s[1]
  BY <1>1
<1>4. DOMAIN Tail(s) = 1..(Len(s) - 1)
  BY <1>2
<1>. QED
  BY <1>1, <1>2, <1>3, <1>4

\* Numbers go on increasing when a higher one is appended.
LEMMA OrderedAppend ==
    ASSUME NEW s \in Seq(Frames), Ordered(s), NEW f \in Frames, NEW t, t = Append(s, f),
           \A i \in DOMAIN s : s[i].no < f.no
    PROVE  Ordered(t)
<1>1. /\ Len(s) \in Nat /\ DOMAIN s = 1..Len(s) /\ DOMAIN t = 1..(Len(s) + 1)
      /\ \A i \in DOMAIN s : t[i] = s[i]
      /\ t[Len(s) + 1] = f
  BY Appended
<1> SUFFICES ASSUME NEW i \in DOMAIN t, NEW j \in DOMAIN t, i < j PROVE t[i].no < t[j].no
  BY DEF Ordered
<1>2. i \in DOMAIN s
  BY <1>1
<1>3. CASE j \in DOMAIN s
  BY <1>1, <1>2, <1>3 DEF Ordered
<1>4. CASE j = Len(s) + 1
  BY <1>1, <1>2, <1>4
<1>. QED
  BY <1>1, <1>3, <1>4

LEMMA FrameNo == ASSUME NEW f \in Frames PROVE f.no \in Nat
BY DEF Frames

-----------------------------------------------------------------------------
(* The ledger *)

LEMMA LineNo == ASSUME StreamTypeOK, NEW l \in DOMAIN file PROVE l \in Nat /\ file[l].no \in Nat
<1>1. file \in Seq(Lines)
  BY DEF StreamTypeOK
<1>2. file[l] \in Lines /\ l \in Nat
  BY <1>1
<1>. QED
  BY <1>2 DEF Lines

LEMMA NumberTypes == ASSUME StreamTypeOK, NEW n \in DOMAIN index PROVE n \in Nat
<1>1. index[n] \in DOMAIN file /\ file[index[n]].no = n
  BY DEF StreamTypeOK
<1>. QED
  BY <1>1, LineNo

\* What any step does to the ledger: lines stay, numbers stay in the catalog, and a line
\* that the catalog has first comes with a number above all it had.
Grown ==
    /\ file' \in Seq(Lines)
    /\ \A l \in DOMAIN file : l \in DOMAIN file' /\ file'[l] = file[l]
    /\ DOMAIN index \subseteq DOMAIN index'
    /\ \A n \in DOMAIN index' : index'[n] \in DOMAIN file' /\ file'[index'[n]].no = n
    /\ \A l \in DOMAIN file' : l \notin DOMAIN file /\ file'[l].ahead =>
         file'[l].no > 0 /\ \A m \in DOMAIN index : m < file'[l].no

LEMMA WrittenFile ==
    ASSUME StreamTypeOK, NEW kind \in {"causal", "amendment", "seal"}, NEW n \in Nat,
           NEW shown \in BOOLEAN, WriteLines(kind, n, shown)
    PROVE  /\ file' \in Seq(Lines) /\ Len(file) \in Nat
           /\ DOMAIN file = 1..Len(file) /\ DOMAIN file' = 1..(Len(file) + n)
           /\ \A l \in DOMAIN file : file'[l] = file[l]
           /\ \A l \in DOMAIN file' : l > Len(file) =>
                /\ file'[l].no = taken + (l - Len(file))
                /\ file'[l].ahead = (shown /\ \A m \in DOMAIN index : m <= taken)
<1> DEFINE ahead == shown /\ \A m \in DOMAIN index : m <= taken
           b == [i \in 1..n |-> [no |-> taken + i, kind |-> kind, ahead |-> ahead]]
<1>1. taken \in Nat /\ file \in Seq(Lines)
  BY DEF StreamTypeOK
<1>2. ahead \in BOOLEAN
  OBVIOUS
<1> HIDE DEF ahead
<1>3. b \in [1..n -> Lines]
  BY <1>1, <1>2 DEF Lines
<1>4. b \in Seq(Lines) /\ Len(b) = n
  <2>1. b \in Seq(Lines)
    BY <1>3
  <2>. QED
    BY <1>3, <2>1, LenProperties
<1>5. file' = file \o b
  BY Zenon DEF WriteLines, ahead
<1> HIDE DEF b
<1>6. /\ file' \in Seq(Lines) /\ Len(file') = Len(file) + n
      /\ \A i \in 1..Len(file') : file'[i] = IF i <= Len(file) THEN file[i] ELSE b[i - Len(file)]
  BY <1>1, <1>4, <1>5, ConcatProperties
<1>7. Len(file) \in Nat /\ DOMAIN file = 1..Len(file) /\ DOMAIN file' = 1..(Len(file) + n)
  BY <1>1, <1>6
<1>8. ASSUME NEW l \in DOMAIN file', l > Len(file)
      PROVE  file'[l].no = taken + (l - Len(file)) /\ file'[l].ahead = ahead
  <2>1. l - Len(file) \in 1..n
    BY <1>7, <1>8
  <2>2. file'[l] = b[l - Len(file)]
    BY <1>6, <1>7, <1>8
  <2>. QED
    BY <2>1, <2>2 DEF b
<1>9. \A l \in DOMAIN file' : l > Len(file) =>
        /\ file'[l].no = taken + (l - Len(file))
        /\ file'[l].ahead = (shown /\ \A m \in DOMAIN index : m <= taken)
  BY <1>8, Zenon DEF ahead
<1>10. ASSUME NEW l \in DOMAIN file PROVE file'[l] = file[l]
  <2>1. l \in 1..Len(file') /\ l <= Len(file)
    BY <1>6, <1>7, <1>10
  <2>. QED
    BY <1>6, <2>1, Zenon
<1>. QED
  BY <1>6, <1>7, <1>9, <1>10, Zenon

LEMMA WrittenIndex ==
    ASSUME StreamTypeOK, NEW kind \in {"causal", "amendment", "seal"}, NEW n \in Nat,
           NEW shown \in BOOLEAN, WriteLines(kind, n, shown)
    PROVE  /\ DOMAIN index \subseteq DOMAIN index'
           /\ \A m \in DOMAIN index' :
                \/ m \in DOMAIN index /\ index'[m] = index[m]
                \/ shown /\ m \in (taken + 1)..(taken + n) /\ index'[m] = Len(file) + (m - taken)
           /\ shown => \A m \in (taken + 1)..(taken + n) :
                m \in DOMAIN index' /\ index'[m] = Len(file) + (m - taken)
<1>1. taken \in Nat /\ Len(file) \in Nat
  BY WrittenFile DEF StreamTypeOK
<1>2. CASE shown
  <2>1. index' = [m \in DOMAIN index \cup (taken + 1)..(taken + n) |->
                    IF m \in (taken + 1)..(taken + n) THEN Len(file) + m - taken ELSE index[m]]
    BY <1>2 DEF WriteLines
  <2>2. DOMAIN index' = DOMAIN index \cup (taken + 1)..(taken + n)
    BY <2>1, Zenon
  <2>3. ASSUME NEW m \in (taken + 1)..(taken + n)
        PROVE  m \in DOMAIN index' /\ index'[m] = Len(file) + (m - taken)
    <3>1. index'[m] = Len(file) + m - taken
      BY <2>1, Zenon
    <3>2. Len(file) + m - taken = Len(file) + (m - taken)
      BY <1>1
    <3>. QED
      BY <2>2, <3>1, <3>2
  <2>4. ASSUME NEW m \in DOMAIN index', m \notin (taken + 1)..(taken + n)
        PROVE  m \in DOMAIN index /\ index'[m] = index[m]
    BY <2>1, <2>2, <2>4, Zenon
  <2>. QED
    BY <1>2, <2>2, <2>3, <2>4, Zenon
<1>3. CASE ~shown
  <2>1. index' = index
    BY <1>3 DEF WriteLines
  <2>. QED
    BY <1>3, <2>1
<1>. QED
  BY <1>2, <1>3

LEMMA WrittenGrown ==
    ASSUME StreamTypeOK, NEW kind \in {"causal", "amendment", "seal"}, NEW n \in Nat,
           NEW shown \in BOOLEAN, WriteLines(kind, n, shown)
    PROVE  Grown
<1>1. /\ file' \in Seq(Lines) /\ Len(file) \in Nat
      /\ DOMAIN file = 1..Len(file) /\ DOMAIN file' = 1..(Len(file) + n)
      /\ \A l \in DOMAIN file : file'[l] = file[l]
      /\ \A l \in DOMAIN file' : l > Len(file) =>
           /\ file'[l].no = taken + (l - Len(file))
           /\ file'[l].ahead = (shown /\ \A m \in DOMAIN index : m <= taken)
  BY WrittenFile
<1>2. taken \in Nat
  BY DEF StreamTypeOK
<1>3. \A l \in DOMAIN file : l \in DOMAIN file' /\ file'[l] = file[l]
  BY <1>1
<1>4. ASSUME NEW m \in DOMAIN index' PROVE index'[m] \in DOMAIN file' /\ file'[index'[m]].no = m
  <2>1. CASE m \in DOMAIN index /\ index'[m] = index[m]
    BY <1>3, <2>1 DEF StreamTypeOK
  <2>2. CASE m \in (taken + 1)..(taken + n) /\ index'[m] = Len(file) + (m - taken)
    <3>1. index'[m] \in DOMAIN file' /\ index'[m] > Len(file) /\ m \in Nat
      BY <1>1, <1>2, <2>2
    <3>2. file'[index'[m]].no = taken + (index'[m] - Len(file))
      BY <1>1, <3>1
    <3>. QED
      BY <1>1, <1>2, <2>2, <3>1, <3>2
  <2>. QED
    BY <2>1, <2>2, WrittenIndex
<1>5. ASSUME NEW l \in DOMAIN file', l \notin DOMAIN file, file'[l].ahead
      PROVE  file'[l].no > 0 /\ \A m \in DOMAIN index : m < file'[l].no
  <2>1. l > Len(file) /\ l \in Nat
    BY <1>1, <1>5
  <2>2. file'[l].no = taken + (l - Len(file)) /\ \A m \in DOMAIN index : m <= taken
    BY <1>1, <1>5, <2>1
  <2>. QED
    BY <1>1, <1>2, <2>1, <2>2, NumberTypes
<1>. QED
  BY <1>1, <1>3, <1>4, <1>5, WrittenIndex DEF Grown

LEMMA WrittenCataloged ==
    ASSUME StreamTypeOK, Cataloged, NEW kind \in {"causal", "amendment", "seal"}, NEW n \in Nat,
           NEW shown \in BOOLEAN, WriteLines(kind, n, shown)
    PROVE  Cataloged'
<1>1. /\ file' \in Seq(Lines) /\ Len(file) \in Nat
      /\ DOMAIN file = 1..Len(file) /\ DOMAIN file' = 1..(Len(file) + n)
      /\ \A l \in DOMAIN file : file'[l] = file[l]
      /\ \A l \in DOMAIN file' : l > Len(file) =>
           /\ file'[l].no = taken + (l - Len(file))
           /\ file'[l].ahead = (shown /\ \A m \in DOMAIN index : m <= taken)
  BY WrittenFile
<1>2. taken \in Nat
  BY DEF StreamTypeOK
<1> SUFFICES ASSUME NEW l \in DOMAIN file', file'[l].ahead
             PROVE  file'[l].no \in DOMAIN index' /\ l <= index'[file'[l].no]
  BY DEF Cataloged
<1>3. CASE l \in DOMAIN file
  <2>1. file'[l] = file[l] /\ file[l].no \in DOMAIN index /\ l <= index[file[l].no]
    BY <1>1, <1>3 DEF Cataloged
  <2>2. file[l].no \in DOMAIN index'
    BY <2>1, WrittenIndex
  <2>3. l \in 1..Len(file)
    BY <1>1, <1>3
  <2>4. CASE index'[file[l].no] = index[file[l].no]
    BY <2>1, <2>2, <2>4
  <2>5. CASE /\ file[l].no \in (taken + 1)..(taken + n)
             /\ index'[file[l].no] = Len(file) + (file[l].no - taken)
    BY <1>1, <1>2, <2>1, <2>2, <2>3, <2>5
  <2>. QED
    BY <2>2, <2>4, <2>5, WrittenIndex
<1>4. CASE l \notin DOMAIN file
  <2>1. l > Len(file) /\ l \in Nat /\ l <= Len(file) + n
    BY <1>1, <1>4
  <2>2. file'[l].no = taken + (l - Len(file)) /\ shown
    BY <1>1, <2>1
  <2>3. file'[l].no \in (taken + 1)..(taken + n)
    BY <1>1, <1>2, <2>1, <2>2
  <2>4. file'[l].no \in DOMAIN index' /\ index'[file'[l].no] = Len(file) + (file'[l].no - taken)
    BY <2>2, <2>3, WrittenIndex
  <2>. QED
    BY <1>1, <1>2, <2>1, <2>2, <2>4
<1>. QED
  BY <1>3, <1>4

\* An append that fails writes what one that succeeds would, or part of it.
LEMMA FailedGrown ==
    ASSUME StreamTypeOK, NEW kind \in {"causal", "amendment", "seal"}, NEW n \in Nat,
           NEW counted \in Nat, StoreFails(kind, n, counted)
    PROVE  Grown /\ taken' \in Nat
<1>1. taken' = taken + counted \/ taken' = taken + n
  BY Zenon DEF StoreFails
<1>2. taken' \in Nat
  BY <1>1 DEF StreamTypeOK
<1>3. CASE WriteLines(kind, n, FALSE) \/ WriteLines(kind, n, TRUE)
  BY <1>2, <1>3, WrittenGrown
<1>4. CASE UNCHANGED <<file, index>>
  <2>1. file' = file /\ index' = index
    BY <1>4
  <2>2. file \in Seq(Lines) /\ \A m \in DOMAIN index : index[m] \in DOMAIN file /\ file[index[m]].no = m
    BY Zenon DEF StreamTypeOK
  <2>. QED
    BY <1>2, <2>1, <2>2, Zenon DEF Grown
<1>. QED
  BY <1>3, <1>4, Zenon DEF StoreFails

LEMMA FailedCataloged ==
    ASSUME StreamTypeOK, Cataloged, NEW kind \in {"causal", "amendment", "seal"}, NEW n \in Nat,
           NEW counted \in Nat, StoreFails(kind, n, counted)
    PROVE  Cataloged'
<1>1. CASE WriteLines(kind, n, FALSE) \/ WriteLines(kind, n, TRUE)
  BY <1>1, WrittenCataloged
<1>2. CASE UNCHANGED <<file, index>>
  BY <1>2 DEF Cataloged
<1>. QED
  BY <1>1, <1>2 DEF StoreFails

LEMMA StoreGrown ==
    ASSUME StreamTypeOK, NEW p \in Producers, NEW kind \in {"causal", "amendment", "seal"},
           NEW n \in Nat, Store(p, kind, n)
    PROVE  Grown /\ taken' \in Nat
<1>1. Grown
  BY WrittenGrown DEF Store
<1>. QED
  BY <1>1 DEF Store, StreamTypeOK

\* Rebuilt from the lines, the catalog has every number and the last line with it.
LEMMA RestartGrown ==
    ASSUME StreamTypeOK, Restart
    PROVE  Grown /\ Cataloged'
<1>1. /\ file' = file
      /\ DOMAIN index' = {file[l].no : l \in DOMAIN file}
      /\ \A n \in DOMAIN index' : index'[n] \in DOMAIN file
      /\ \A n \in DOMAIN index' :
           file[index'[n]].no = n /\ \A k \in DOMAIN file : file[k].no = n => k <= index'[n]
  BY DEF Restart
<1>2. \A l \in DOMAIN file : file[l].no \in DOMAIN index'
  BY <1>1
<1>3. DOMAIN index \subseteq DOMAIN index'
  <2> SUFFICES ASSUME NEW n \in DOMAIN index PROVE n \in DOMAIN index'
    OBVIOUS
  <2>1. index[n] \in DOMAIN file /\ file[index[n]].no = n
    BY DEF StreamTypeOK
  <2>. QED
    BY <1>2, <2>1, Zenon
<1>4. Cataloged'
  BY <1>1, <1>2 DEF Cataloged
<1>. QED
  BY <1>1, <1>3, <1>4 DEF Grown, StreamTypeOK

-----------------------------------------------------------------------------
(* Types *)

LEMMA NoBatchType == NoBatch \in Batches /\ NoBatch.todo = {}
BY DEF NoBatch, Batches

LEMMA TypeInit == Init => StreamTypeOK
<1> SUFFICES ASSUME Init PROVE StreamTypeOK
  OBVIOUS
<1>1. file \in Seq(Lines) /\ taken \in Nat
  BY DEF Init
<1>2. wire \in [Conns -> Seq(Frames)] /\ received \in [Conns -> Seq(Frames)]
  BY DEF Init
<1>3. batch \in [Conns -> Batches] /\ \A c \in Conns : batch[c].todo \subseteq DOMAIN file
  BY NoBatchType DEF Init
<1>4. /\ producers \in [Producers -> {"open", "ending", "sealed"}]
      /\ pc \in [Conns -> Running \cup {"off", "sealed", "ended"}]
  BY DEF Init, Running
<1>5. /\ cursor \in [Conns -> Nat] /\ quiet \in [Conns -> 0..1]
      /\ on \in [Conns -> Nat] /\ latest \in [Conns -> Nat]
  BY DEF Init
<1>6. /\ condition \in Nat /\ made \in Nat /\ notices \in SUBSET Nat
      /\ connects \in Nat /\ restarts \in Nat
  BY DEF Init
<1>7. terminal \in BOOLEAN
  BY DEF Init
<1>8. \A n \in DOMAIN index : index[n] \in DOMAIN file /\ file[index[n]].no = n
  BY DEF Init
<1>. QED
  BY <1>1, <1>2, <1>3, <1>4, <1>5, <1>6, <1>7, <1>8, Zenon DEF StreamTypeOK

\* The types of all but the ledger and the readers.
LEMMA TypeWritten ==
    ASSUME StreamTypeOK, Grown, taken' \in Nat, terminal' \in BOOLEAN,
           producers' \in [Producers -> {"open", "ending", "sealed"}],
           notices' \in SUBSET Nat,
           UNCHANGED <<condition, made, streamVars, wire, clientVars, restarts>>
    PROVE  StreamTypeOK'
<1>1. \A c \in Conns : batch'[c].todo \subseteq DOMAIN file'
  BY DEF Grown, StreamTypeOK, streamVars
<1>2. file' \in Seq(Lines) /\ \A n \in DOMAIN index' : index'[n] \in DOMAIN file' /\ file'[index'[n]].no = n
  BY Zenon DEF Grown
<1>. QED
  BY <1>1, <1>2 DEF StreamTypeOK, streamVars, clientVars

LEMMA TypeProducer ==
    ASSUME StreamTypeOK, NEW p \in Producers, ProducerNext(p)
    PROVE  StreamTypeOK'
<1> USE DEF ledgerVars, storeVars, busVars
<1>0. producers' \in [Producers -> {"open", "ending", "sealed"}] /\ terminal' \in BOOLEAN
  BY DEF ProducerNext, AppendCausal, LoseCausal, AppendAmendment, LoseAmendment, EndRun,
         StartOver, AppendSeal, LoseSeal, Store, StoreFails, StreamTypeOK
<1>1. ASSUME NEW kind \in {"causal", "amendment", "seal"}, NEW n \in Nat, Store(p, kind, n)
      PROVE  StreamTypeOK'
  <2>1. notices' \in SUBSET Nat
    BY <1>1 DEF Store, StreamTypeOK
  <2>. QED
    BY <1>0, <1>1, <2>1, StoreGrown, TypeWritten DEF Store
<1>2. ASSUME NEW kind \in {"causal", "amendment", "seal"}, NEW n \in Nat, NEW counted \in Nat,
             StoreFails(kind, n, counted)
      PROVE  StreamTypeOK'
  <2>1. notices' \in SUBSET Nat
    BY <1>2 DEF StoreFails, StreamTypeOK
  <2>. QED
    BY <1>0, <1>2, <2>1, FailedGrown, TypeWritten DEF StoreFails
<1>3. CASE EndRun(p) \/ StartOver(p)
  <2>1. UNCHANGED <<storeVars, busVars, streamVars, wire, clientVars, restarts>>
    BY <1>3 DEF EndRun, StartOver
  <2>. QED
    BY <1>0, <2>1 DEF StreamTypeOK, streamVars, clientVars
<1>. QED
  BY <1>1, <1>2, <1>3, StreamAssumption
     DEF ProducerNext, AppendCausal, LoseCausal, AppendAmendment, LoseAmendment, AppendSeal, LoseSeal

\* A step of a reader leaves the ledger; its types are those of what it changes.
LEMMA TypeReader ==
    ASSUME StreamTypeOK, UNCHANGED <<ledgerVars, restarts>>,
           condition' \in Nat, made' \in Nat, notices' \in SUBSET Nat,
           pc' \in [Conns -> Running \cup {"off", "sealed", "ended"}],
           cursor' \in [Conns -> Nat], batch' \in [Conns -> Batches],
           quiet' \in [Conns -> 0..1], on' \in [Conns -> Nat],
           wire' \in [Conns -> Seq(Frames)], received' \in [Conns -> Seq(Frames)],
           latest' \in [Conns -> Nat], connects' \in Nat,
           \A c \in Conns : batch'[c].todo \subseteq DOMAIN file
    PROVE  StreamTypeOK'
<1>1. file' = file /\ index' = index /\ taken' = taken /\ terminal' = terminal
      /\ producers' = producers /\ restarts' = restarts
  BY DEF ledgerVars, storeVars
<1>2. /\ file' \in Seq(Lines) /\ taken' \in Nat /\ terminal' \in BOOLEAN
      /\ producers' \in [Producers -> {"open", "ending", "sealed"}] /\ restarts' \in Nat
      /\ \A n \in DOMAIN index' : index'[n] \in DOMAIN file' /\ file'[index'[n]].no = n
  BY <1>1, Zenon DEF StreamTypeOK
<1>3. \A c \in Conns : batch'[c].todo \subseteq DOMAIN file'
  BY <1>1, Zenon
<1>. QED
  BY <1>2, <1>3, Zenon DEF StreamTypeOK

LEMMA BatchCleared ==
    ASSUME StreamTypeOK, NEW c \in Conns, batch' = [batch EXCEPT ![c] = NoBatch]
    PROVE  /\ batch' \in [Conns -> Batches]
           /\ \A d \in Conns : batch'[d].todo \subseteq DOMAIN file
BY NoBatchType DEF StreamTypeOK

LEMMA TypeReturn ==
    ASSUME StreamTypeOK, NEW c \in Conns, NEW how \in {"sealed", "ended"}, Return(c, how),
           wire' \in [Conns -> Seq(Frames)]
    PROVE  StreamTypeOK'
<1>1. pc' \in [Conns -> Running \cup {"off", "sealed", "ended"}]
  BY DEF Return, StreamTypeOK, Running
<1>2. quiet' \in [Conns -> 0..1] /\ condition' \in Nat
  BY DEF Return, StreamTypeOK
<1>3. /\ made' \in Nat /\ notices' \in SUBSET Nat /\ cursor' \in [Conns -> Nat]
      /\ on' \in [Conns -> Nat] /\ received' \in [Conns -> Seq(Frames)]
      /\ latest' \in [Conns -> Nat] /\ connects' \in Nat
  BY DEF Return, StreamTypeOK, clientVars
<1>. QED
  BY <1>1, <1>2, <1>3, BatchCleared, TypeReader DEF Return

LEMMA FrameOfLine ==
    ASSUME StreamTypeOK, NEW l \in DOMAIN file
    PROVE  [no |-> file[l].no, line |-> l] \in Frames
BY LineNo DEF Frames

LEMMA TypeResume ==
    ASSUME StreamTypeOK, NEW c \in Conns, Resume(c)
    PROVE  StreamTypeOK'
<1> USE DEF ledgerVars, storeVars, busVars, streamVars, clientVars
<1>1. CASE ReplayEvents(c)
  <2> DEFINE new == {n \in DOMAIN index : n > cursor[c]}
             b == [todo |-> {index[n] : n \in new}, empty |-> new = {},
                   seal |-> \E n \in new : file[index[n]].kind = "seal", over |-> terminal]
  <2>1. b.todo \subseteq DOMAIN file
    BY DEF StreamTypeOK
  <2>2. DOMAIN file \subseteq Nat
    BY LineNo
  <2>3. terminal \in BOOLEAN
    BY DEF StreamTypeOK
  <2>4. b \in Batches
    BY <2>1, <2>2, <2>3 DEF Batches
  <2>5. batch' = [batch EXCEPT ![c] = b]
    BY <1>1 DEF ReplayEvents
  <2> HIDE DEF b
  <2>6. batch' \in [Conns -> Batches] /\ \A d \in Conns : batch'[d].todo \subseteq DOMAIN file
    BY <2>1, <2>4, <2>5 DEF StreamTypeOK
  <2>7. pc' \in [Conns -> Running \cup {"off", "sealed", "ended"}]
    BY <1>1 DEF ReplayEvents, StreamTypeOK, Running
  <2>. QED
    BY <1>1, <2>6, <2>7 DEF ReplayEvents, StreamTypeOK
<1>2. CASE SendEvent(c)
  <2>1. PICK l \in batch[c].todo :
          /\ batch' = [batch EXCEPT ![c].todo = @ \ {l}]
          /\ cursor' = [cursor EXCEPT ![c] = file[l].no]
          /\ wire' = [wire EXCEPT ![c] = Append(@, [no |-> file[l].no, line |-> l])]
    BY <1>2 DEF SendEvent
  <2>2. l \in DOMAIN file /\ file[l].no \in Nat /\ [no |-> file[l].no, line |-> l] \in Frames
    BY LineNo, FrameOfLine DEF StreamTypeOK
  <2>3. Append(wire[c], [no |-> file[l].no, line |-> l]) \in Seq(Frames)
    BY <2>2 DEF StreamTypeOK
  <2>4. wire' \in [Conns -> Seq(Frames)] /\ cursor' \in [Conns -> Nat]
    BY <2>1, <2>2, <2>3 DEF StreamTypeOK
  <2>5. batch' \in [Conns -> Batches] /\ \A d \in Conns : batch'[d].todo \subseteq DOMAIN file
    <3>1. batch[c] \in Batches /\ batch[c].todo \subseteq DOMAIN file
      BY DEF StreamTypeOK
    <3>2. [batch[c] EXCEPT !.todo = @ \ {l}] \in Batches
      BY <3>1 DEF Batches
    <3>3. /\ batch' = [batch EXCEPT ![c] = [batch[c] EXCEPT !.todo = @ \ {l}]]
          /\ [batch[c] EXCEPT !.todo = @ \ {l}].todo = batch[c].todo \ {l}
      BY <2>1, <3>1 DEF Batches
    <3>. QED
      BY <3>1, <3>2, <3>3 DEF StreamTypeOK
  <2>. QED
    BY <1>2, <2>4, <2>5 DEF SendEvent, StreamTypeOK
<1>3. CASE CloseOnSeal(c)
  BY <1>3, TypeReturn DEF CloseOnSeal, StreamTypeOK
<1>4. CASE CloseOverdue(c)
  BY <1>4, TypeReturn DEF CloseOverdue, StreamTypeOK
<1>5. CASE CloseSnapshot(c)
  BY <1>5, TypeReturn DEF CloseSnapshot, StreamTypeOK
<1>6. CASE BeginHeartbeat(c)
  BY <1>6 DEF BeginHeartbeat, StreamTypeOK, Running
<1>7. CASE Wait(c)
  <2>1. quiet' \in [Conns -> 0..1]
    <3>1. quiet[c] \in 0..1
      BY DEF StreamTypeOK
    <3>2. batch[c].over /\ Empty(c) => quiet[c] = 0
      BY <1>7, <3>1 DEF Wait, Overdue
    <3>. QED
      BY <1>7, <3>2 DEF Wait, StreamTypeOK
  <2>2. condition' \in Nat /\ made' \in Nat
    BY <1>7 DEF Wait, StreamTypeOK, Unheld
  <2>3. pc' \in [Conns -> Running \cup {"off", "sealed", "ended"}] /\ on' \in [Conns -> Nat]
    BY <1>7, <2>2 DEF Wait, StreamTypeOK, Running
  <2>4. batch' \in [Conns -> Batches] /\ \A d \in Conns : batch'[d].todo \subseteq DOMAIN file
    BY <1>7, BatchCleared DEF Wait
  <2>. QED
    BY <1>7, <2>1, <2>2, <2>3, <2>4 DEF Wait, StreamTypeOK
<1>8. CASE SendHeartbeat(c)
  <2>1. Append(wire[c], [no |-> 1, line |-> 0]) \in Seq(Frames)
    BY DEF StreamTypeOK, Frames
  <2>2. wire' \in [Conns -> Seq(Frames)]
    BY <1>8, <2>1 DEF SendHeartbeat, StreamTypeOK
  <2>. QED
    BY <1>8, <2>2, TypeReturn DEF SendHeartbeat
<1>. QED
  BY <1>1, <1>2, <1>3, <1>4, <1>5, <1>6, <1>7, <1>8 DEF Resume, Decide

LEMMA TypeStep == StreamTypeOK /\ [Next]_vars => StreamTypeOK'
<1> SUFFICES ASSUME StreamTypeOK, [Next]_vars PROVE StreamTypeOK'
  OBVIOUS
<1> USE DEF ledgerVars, storeVars, busVars, streamVars, clientVars
<1>1. ASSUME NEW p \in Producers, ProducerNext(p) PROVE StreamTypeOK'
  BY <1>1, TypeProducer
<1>2. ASSUME NEW v \in notices, AsyncNotify(v) PROVE StreamTypeOK'
  BY <1>2 DEF AsyncNotify, StreamTypeOK, Running
<1>3. ASSUME NEW c \in Conns, Connect(c) PROVE StreamTypeOK'
  BY <1>3 DEF Connect, StreamTypeOK, Running
<1>4. ASSUME NEW c \in Conns, Resume(c) PROVE StreamTypeOK'
  BY <1>4, TypeResume
<1>5. ASSUME NEW c \in Conns, FallbackPoll(c) PROVE StreamTypeOK'
  BY <1>5 DEF FallbackPoll, StreamTypeOK, Running
<1>6. ASSUME NEW c \in Conns, Receive(c) PROVE StreamTypeOK'
  <2>1. wire[c] \in Seq(Frames) /\ wire[c] # <<>> /\ received[c] \in Seq(Frames)
    BY <1>6 DEF Receive, StreamTypeOK
  <2>2. Head(wire[c]) \in Frames /\ Tail(wire[c]) \in Seq(Frames)
    BY <2>1
  <2>3. Append(received[c], Head(wire[c])) \in Seq(Frames) /\ Head(wire[c]).no \in Nat
    BY <2>1, <2>2 DEF Frames
  <2>4. wire' \in [Conns -> Seq(Frames)]
    BY <1>6, <2>2 DEF Receive, StreamTypeOK
  <2>5. received' \in [Conns -> Seq(Frames)]
    BY <1>6, <2>3 DEF Receive, StreamTypeOK
  <2>6. latest' \in [Conns -> Nat]
    <3>1. \/ latest' = latest
          \/ latest' = [latest EXCEPT ![c] = IF Head(wire[c]).no > @ THEN Head(wire[c]).no ELSE @]
      BY <1>6, Zenon DEF Receive
    <3>. QED
      BY <2>3, <3>1 DEF StreamTypeOK
  <2>. QED
    BY <1>6, <2>4, <2>5, <2>6 DEF Receive, StreamTypeOK
<1>7. ASSUME NEW c \in Conns, Disconnect(c) PROVE StreamTypeOK'
  BY <1>7, NoBatchType DEF Disconnect, StreamTypeOK
<1>8. CASE Restart
  <2>1. Grown
    BY <1>8, RestartGrown
  <2>2. /\ file' \in Seq(Lines) /\ file' = file
        /\ \A n \in DOMAIN index' : index'[n] \in DOMAIN file' /\ file'[index'[n]].no = n
    BY <1>8, <2>1, Zenon DEF Grown, Restart
  <2>3. batch' \in [Conns -> Batches] /\ \A c \in Conns : batch'[c].todo \subseteq DOMAIN file'
    BY <1>8, NoBatchType DEF Restart
  <2>4. taken' \in Nat
    BY <1>8 DEF Restart, StreamTypeOK
  <2>5. /\ pc' \in [Conns -> Running \cup {"off", "sealed", "ended"}]
        /\ cursor' \in [Conns -> Nat] /\ quiet' \in [Conns -> 0..1] /\ on' \in [Conns -> Nat]
        /\ wire' \in [Conns -> Seq(Frames)]
        /\ producers' \in [Producers -> {"open", "ending", "sealed"}]
        /\ condition' \in Nat /\ made' \in Nat /\ notices' \in SUBSET Nat
    BY <1>8 DEF Restart
  <2>6. /\ terminal' \in BOOLEAN /\ received' \in [Conns -> Seq(Frames)]
        /\ latest' \in [Conns -> Nat] /\ connects' \in Nat /\ restarts' \in Nat
    BY <1>8 DEF Restart, StreamTypeOK
  <2>. QED
    BY <2>2, <2>3, <2>4, <2>5, <2>6, Zenon DEF StreamTypeOK
<1>9. CASE UNCHANGED vars
  BY <1>9 DEF vars, StreamTypeOK
<1>. QED
  BY <1>1, <1>2, <1>3, <1>4, <1>5, <1>6, <1>7, <1>8, <1>9 DEF Next

\* The ledger, the bus, the streams and the clients keep their types; a finished run is
\* polled in vain at most once.
THEOREM StreamTypeCorrect == Spec => []StreamTypeOK
BY TypeInit, TypeStep, PTL DEF Spec

-----------------------------------------------------------------------------
(* The readers *)

LEMMA ReaderTypes ==
    ASSUME StreamTypeOK, NEW c \in Conns
    PROVE  /\ cursor[c] \in Nat /\ latest[c] \in Nat
           /\ received[c] \in Seq(Frames) /\ wire[c] \in Seq(Frames)
           /\ \A i \in DOMAIN received[c] : received[c][i] \in Frames /\ received[c][i].no \in Nat
           /\ \A i \in DOMAIN wire[c] : wire[c][i] \in Frames /\ wire[c][i].no \in Nat
           /\ batch[c] \in Batches /\ batch[c].todo \subseteq DOMAIN file
<1>1. received[c] \in Seq(Frames) /\ wire[c] \in Seq(Frames)
  BY DEF StreamTypeOK
<1>2. \A i \in DOMAIN received[c] : received[c][i] \in Frames
  BY <1>1
<1>3. \A i \in DOMAIN wire[c] : wire[c][i] \in Frames
  BY <1>1
<1>. QED
  BY <1>1, <1>2, <1>3, FrameNo DEF StreamTypeOK

\* A line in order stays so only if no later line takes its number.
LEMMA InOrderBack ==
    ASSUME StreamTypeOK, Grown, NEW l \in DOMAIN file, InOrder(l)'
    PROVE  InOrder(l)
<1>1. file'[l].ahead /\ \A k \in DOMAIN file' : k > l => file'[k].no # file'[l].no
  BY DEF InOrder
<1>2. \A k \in DOMAIN file : k \in DOMAIN file' /\ file'[k] = file[k]
  BY DEF Grown
<1>. QED
  BY <1>1, <1>2, Zenon DEF InOrder

\* A line that is new and in order has a number above all that is sent.
LEMMA NewLine ==
    ASSUME StreamTypeOK, Grown, NEW l \in DOMAIN file', l \notin DOMAIN file, InOrder(l)',
           NEW n, Known(n)
    PROVE  file'[l].no \in Nat /\ n < file'[l].no
<1>1. file'[l].no > 0 /\ \A m \in DOMAIN index : m < file'[l].no
  BY Zenon DEF Grown, InOrder
<1>2. file'[l] \in Lines
  BY DEF Grown
<1>. QED
  BY <1>1, <1>2 DEF Known, Lines

\* Of a line in order and in the catalog, the catalog has that line.
LEMMA CatalogHas ==
    ASSUME StreamTypeOK, Cataloged, NEW l \in DOMAIN file, InOrder(l)
    PROVE  file[l].no \in DOMAIN index /\ index[file[l].no] = l
<1>1. file[l].no \in DOMAIN index /\ l <= index[file[l].no]
  BY DEF Cataloged, InOrder
<1>2. index[file[l].no] \in DOMAIN file /\ file[index[file[l].no]].no = file[l].no
  BY <1>1 DEF StreamTypeOK
<1>3. ~ (index[file[l].no] > l)
  BY <1>2, Zenon DEF InOrder
<1>. QED
  BY <1>1, <1>2, <1>3, LineNo

\* What the ledger gains changes nothing of what a follower has and is sent.
LEMMA WholeGrows ==
    ASSUME StreamTypeOK, Grown, NEW c \in Conns, Whole(c),
           wire'[c] = wire[c] \/ wire'[c] = <<>>,
           received'[c] = received[c], latest'[c] = latest[c],
           Streaming(c)' => Streaming(c) /\ cursor'[c] = cursor[c] /\ wire'[c] = wire[c]
    PROVE  Whole(c)'
<1>1. \A l \in DOMAIN file : l \in DOMAIN file' /\ file'[l] = file[l]
  BY DEF Grown
<1>2. \A n : Known(n) => Known(n)'
  BY DEF Grown, Known
<1>3. ASSUME NEW f, Genuine(f)
      PROVE  f.line \in DOMAIN file' /\ file'[f.line].no = f.no /\ f.no \in DOMAIN index'
  BY <1>1, <1>3 DEF Grown, Genuine
<1>4. \A i \in DOMAIN received'[c] : Genuine(received[c][i])'
  BY <1>3 DEF Whole, Genuine
<1>5. \A i \in DOMAIN wire'[c] : i \in DOMAIN wire[c] /\ wire'[c][i] = wire[c][i]
  OBVIOUS
<1>6. \A i \in DOMAIN wire'[c] : Genuine(wire[c][i])'
  BY <1>3, <1>5 DEF Whole, Genuine
<1>7. Known(latest[c])' /\ (Streaming(c)' => Known(cursor[c])')
  BY <1>2 DEF Whole, Known
<1>8. ASSUME NEW l \in DOMAIN file', InOrder(l)', file'[l].no <= latest[c]
      PROVE  \E i \in DOMAIN received'[c] : received'[c][i].line = l
  <2>1. CASE l \in DOMAIN file
    BY <1>1, <1>8, <2>1, InOrderBack DEF Whole
  <2>2. CASE l \notin DOMAIN file
    <3>1. latest[c] < file'[l].no /\ file'[l].no \in Nat
      BY <1>8, <2>2, NewLine DEF Whole
    <3>. QED
      BY <1>8, <3>1, ReaderTypes
  <2>. QED
    BY <2>1, <2>2
<1>9. ASSUME NEW l \in DOMAIN file', InOrder(l)', latest[c] < file'[l].no,
             Passed(c, file[l].no)'
      PROVE  \E i \in DOMAIN wire'[c] : wire'[c][i].line = l
  <2>0. \/ Streaming(c)' /\ file'[l].no <= cursor'[c]
        \/ \E i \in DOMAIN wire'[c] : file'[l].no <= wire'[c][i].no
    BY <1>9 DEF Passed
  <2>1. CASE l \in DOMAIN file
    <3>1. file'[l] = file[l] /\ InOrder(l)
      BY <1>1, <1>9, <2>1, InOrderBack
    <3>2. wire'[c] = wire[c] /\ Passed(c, file[l].no)
      BY <2>0, <3>1 DEF Passed
    <3>. QED
      BY <1>9, <2>1, <3>1, <3>2 DEF Whole
  <2>2. CASE l \notin DOMAIN file
    <3>1. ASSUME Streaming(c)', file'[l].no <= cursor'[c] PROVE FALSE
      <4>1. Known(cursor[c]) /\ cursor'[c] = cursor[c]
        BY <3>1 DEF Whole
      <4>2. cursor[c] < file'[l].no /\ file'[l].no \in Nat
        BY <1>9, <2>2, <4>1, NewLine
      <4>. QED
        BY <3>1, <4>1, <4>2, ReaderTypes
    <3>2. ASSUME NEW i \in DOMAIN wire'[c], file'[l].no <= wire'[c][i].no PROVE FALSE
      <4>1. i \in DOMAIN wire[c] /\ wire'[c][i] = wire[c][i]
        BY <1>5
      <4>2. Known(wire[c][i].no)
        BY <4>1 DEF Whole, Genuine, Known
      <4>3. wire[c][i].no < file'[l].no /\ file'[l].no \in Nat
        BY <1>9, <2>2, <4>2, NewLine
      <4>4. wire[c][i].no \in Nat
        BY <4>1, ReaderTypes
      <4>. QED
        BY <3>2, <4>1, <4>3, <4>4
    <3>. QED
      BY <2>0, <3>1, <3>2
  <2>. QED
    BY <2>1, <2>2
<1>10. \A l \in DOMAIN file' : InOrder(l)' =>
         /\ file'[l].no <= latest'[c] => \E i \in DOMAIN received'[c] : received'[c][i].line = l
         /\ latest'[c] < file'[l].no /\ Passed(c, file[l].no)' =>
                \E i \in DOMAIN wire'[c] : wire'[c][i].line = l
  BY <1>8, <1>9, Zenon
<1>. QED
  BY <1>4, <1>6, <1>7, <1>10, Zenon DEF Whole

\* What the ledger gains is not of a replay that was taken before.
LEMMA RemainingGrows ==
    ASSUME StreamTypeOK, Grown, NEW c \in Conns, Remaining(c),
           pc'[c] = "send" => pc[c] = "send",
           cursor'[c] = cursor[c], batch'[c] = batch[c]
    PROVE  Remaining(c)'
<1> SUFFICES ASSUME pc[c] = "send"
             PROVE  /\ \A k \in batch[c].todo : file'[k].no \in DOMAIN index' /\ cursor[c] < file'[k].no
                    /\ \A j, k \in batch[c].todo : file'[j].no = file'[k].no => j = k
                    /\ \A l \in DOMAIN file', k \in batch[c].todo :
                         InOrder(l)' /\ cursor[c] < file'[l].no /\ file'[l].no <= file'[k].no
                             => l \in batch[c].todo
                    /\ batch[c].empty => batch[c].todo = {}
  BY DEF Remaining
<1>1. \A l \in DOMAIN file : l \in DOMAIN file' /\ file'[l] = file[l]
  BY DEF Grown
<1>2. batch[c].todo \subseteq DOMAIN file
  BY ReaderTypes
<1>3. \A k \in batch[c].todo : k \in DOMAIN file /\ file'[k] = file[k] /\ file[k].no \in DOMAIN index
  BY <1>1, <1>2 DEF Remaining
<1>4. /\ \A k \in batch[c].todo : file'[k].no \in DOMAIN index' /\ cursor[c] < file'[k].no
      /\ \A j, k \in batch[c].todo : file'[j].no = file'[k].no => j = k
      /\ batch[c].empty => batch[c].todo = {}
  BY <1>3, Zenon DEF Remaining, Grown
<1>5. ASSUME NEW l \in DOMAIN file', NEW k \in batch[c].todo,
             InOrder(l)', cursor[c] < file'[l].no, file'[l].no <= file'[k].no
      PROVE  l \in batch[c].todo
  <2>1. CASE l \in DOMAIN file
    <3>1. InOrder(l) /\ file'[l] = file[l]
      BY <1>1, <1>5, <2>1, InOrderBack
    <3>. QED
      BY <1>3, <1>5, <2>1, <3>1, Zenon DEF Remaining
  <2>2. CASE l \notin DOMAIN file
    <3>1. Known(file[k].no) /\ file[k].no \in Nat
      BY <1>3, LineNo DEF Known
    <3>2. file'[l].no \in Nat /\ file[k].no < file'[l].no
      BY <1>5, <2>2, <3>1, NewLine
    <3>. QED
      BY <1>3, <1>5, <3>1, <3>2
  <2>. QED
    BY <2>1, <2>2
<1>. QED
  BY <1>4, <1>5, Zenon

\* The numbers of a reader whose stream goes on as it was, or is over.
LEMMA NumbersKept ==
    ASSUME NEW c \in Conns, Numbers(c),
           wire'[c] = wire[c] \/ wire'[c] = <<>>,
           received'[c] = received[c], latest'[c] = latest[c],
           Streaming(c)' => Streaming(c) /\ cursor'[c] = cursor[c]
    PROVE  Numbers(c)'
<1>1. \A i \in DOMAIN wire'[c] : i \in DOMAIN wire[c] /\ wire'[c][i] = wire[c][i]
  OBVIOUS
<1>2. Ordered(received[c])' /\ Ordered(wire[c])'
  BY <1>1 DEF Numbers, Ordered
<1>3. Streaming(c)' =>
        /\ latest'[c] <= cursor'[c]
        /\ \A i \in DOMAIN wire'[c] : wire'[c][i].no <= cursor'[c]
  BY <1>1 DEF Numbers
<1>. QED
  BY <1>1, <1>2, <1>3 DEF Numbers

\* A producer's step.
LEMMA ReaderGrows ==
    ASSUME StreamTypeOK, Grown, NEW c \in Conns, Reader(c),
           pc'[c] = pc[c], cursor'[c] = cursor[c], batch'[c] = batch[c],
           wire'[c] = wire[c], received'[c] = received[c], latest'[c] = latest[c]
    PROVE  Reader(c)'
<1>1. Streaming(c)' = Streaming(c)
  BY DEF Streaming
<1>2. Numbers(c)' /\ Remaining(c)'
  BY <1>1, NumbersKept, RemainingGrows DEF Reader
<1>3. Snapshot(c)'
  BY DEF Reader, Snapshot
<1>4. c \in Following => Whole(c)'
  BY <1>1, WholeGrows DEF Reader
<1>. QED
  BY <1>2, <1>3, <1>4, Zenon DEF Reader

\* A connection that is gone, with what was on the wire.
LEMMA ReaderOff ==
    ASSUME StreamTypeOK, Grown, NEW c \in Conns, Reader(c),
           pc'[c] = "off", wire'[c] = <<>>,
           received'[c] = received[c], latest'[c] = latest[c]
    PROVE  Reader(c)'
<1>1. ~ Streaming(c)'
  BY DEF Streaming, Running
<1>2. Numbers(c)'
  BY <1>1, NumbersKept DEF Reader
<1>3. Remaining(c)' /\ Snapshot(c)'
  BY DEF Remaining, Snapshot
<1>4. c \in Following => Whole(c)'
  BY <1>1, WholeGrows DEF Reader
<1>. QED
  BY <1>2, <1>3, <1>4, Zenon DEF Reader

LEMMA SameGrown == ASSUME StreamTypeOK, UNCHANGED <<file, index>> PROVE Grown
<1>1. file' = file /\ index' = index
  OBVIOUS
<1>2. file \in Seq(Lines) /\ \A n \in DOMAIN index : index[n] \in DOMAIN file /\ file[index[n]].no = n
  BY Zenon DEF StreamTypeOK
<1>. QED
  BY <1>1, <1>2, Zenon DEF Grown

\* A generator that goes from one state to another, without sending.
LEMMA ReaderMove ==
    ASSUME StreamTypeOK, UNCHANGED <<file, index>>, NEW c \in Conns, Reader(c),
           cursor'[c] = cursor[c], wire'[c] = wire[c],
           received'[c] = received[c], latest'[c] = latest[c],
           pc'[c] # "send", Streaming(c)' => Streaming(c), Snapshot(c)'
    PROVE  Reader(c)'
<1>1. Grown
  BY SameGrown
<1>2. Numbers(c)'
  BY NumbersKept DEF Reader
<1>3. Remaining(c)'
  BY DEF Remaining
<1>4. c \in Following => Whole(c)'
  BY <1>1, WholeGrows DEF Reader
<1>. QED
  BY <1>2, <1>3, <1>4, Zenon DEF Reader

\* A step that touches only reader c.
Only(c) ==
    /\ UNCHANGED <<file, index>>
    /\ \A d \in Conns \ {c} :
         /\ pc'[d] = pc[d] /\ cursor'[d] = cursor[d] /\ batch'[d] = batch[d]
         /\ wire'[d] = wire[d] /\ received'[d] = received[d] /\ latest'[d] = latest[d]

Readers == \A c \in Conns : Reader(c)

LEMMA ReaderOne ==
    ASSUME StreamTypeOK, Readers, NEW c \in Conns, Only(c), Reader(c)'
    PROVE  Readers'
<1> SUFFICES ASSUME NEW d \in Conns, d # c PROVE Reader(d)'
  BY DEF Readers
<1>1. Grown
  BY SameGrown DEF Only
<1>. QED
  BY <1>1, ReaderGrows DEF Readers, Only

LEMMA ReaderConnect ==
    ASSUME StreamTypeOK, Readers, NEW c \in Conns, Connect(c)
    PROVE  Readers'
<1>1. Reader(c)
  BY DEF Readers
<1>2. Only(c)
  BY DEF Connect, Only, StreamTypeOK, ledgerVars, storeVars
<1>3. /\ pc'[c] = "poll" /\ cursor'[c] = latest[c] /\ wire'[c] = <<>>
      /\ received'[c] = received[c] /\ latest'[c] = latest[c]
      /\ file' = file /\ index' = index
  BY DEF Connect, StreamTypeOK, ledgerVars, storeVars
<1>4. latest[c] \in Nat
  BY ReaderTypes
<1>5. Numbers(c)'
  <2>1. Ordered(received[c])' /\ Ordered(wire[c])'
    BY <1>1, <1>3 DEF Reader, Numbers, Ordered
  <2>2. /\ \A i \in DOMAIN received'[c] : received'[c][i].no <= latest'[c]
        /\ received'[c] = <<>> => latest'[c] = 0
    BY <1>1, <1>3 DEF Reader, Numbers
  <2>3. latest'[c] <= cursor'[c] /\ DOMAIN wire'[c] = {}
    BY <1>3, <1>4
  <2>. QED
    BY <2>1, <2>2, <2>3 DEF Numbers
<1>6. Remaining(c)'
  BY <1>3 DEF Remaining
<1>7. Snapshot(c)'
  BY <1>3 DEF Connect, Snapshot
<1>8. ASSUME c \in Following PROVE Whole(c)'
  <2>1. Whole(c)
    BY <1>1, <1>8 DEF Reader
  <2>2. /\ \A i \in DOMAIN received'[c] : Genuine(received[c][i])'
        /\ \A i \in DOMAIN wire'[c] : Genuine(wire[c][i])'
        /\ Known(latest[c])' /\ Known(cursor[c])'
    BY <1>3, <2>1 DEF Whole, Genuine, Known
  <2>3. ASSUME NEW l \in DOMAIN file, InOrder(l)'
        PROVE  /\ file[l].no <= latest[c] => \E i \in DOMAIN received[c] : received[c][i].line = l
               /\ latest[c] < file[l].no => ~ Passed(c, file[l].no)'
    <3>1. InOrder(l)
      BY <1>3, <2>3 DEF InOrder
    <3>2. file[l].no \in Nat
      BY LineNo
    <3>. QED
      BY <1>3, <1>4, <2>1, <3>1, <3>2 DEF Whole, Passed
  <2>. QED
    BY <1>3, <2>2, <2>3 DEF Whole
<1>. QED
  BY <1>2, <1>5, <1>6, <1>7, <1>8, ReaderOne DEF Reader

LEMMA ReaderReplay ==
    ASSUME StreamTypeOK, Cataloged, Readers, NEW c \in Conns, ReplayEvents(c)
    PROVE  Readers'
<1> DEFINE new == {n \in DOMAIN index : n > cursor[c]}
<1>1. Reader(c)
  BY DEF Readers
<1>2. Only(c)
  BY DEF ReplayEvents, Only, StreamTypeOK, ledgerVars, storeVars, clientVars
<1>3. /\ pc[c] = "poll" /\ pc'[c] = "send" /\ cursor'[c] = cursor[c] /\ wire'[c] = wire[c]
      /\ received'[c] = received[c] /\ latest'[c] = latest[c]
      /\ file' = file /\ index' = index
  BY DEF ReplayEvents, StreamTypeOK, ledgerVars, storeVars, clientVars
<1>4. batch'[c].todo = {index[n] : n \in new} /\ batch'[c].empty = (new = {})
  BY DEF ReplayEvents, StreamTypeOK
<1>5. Streaming(c) /\ Streaming(c)' /\ Grown
  BY <1>3, SameGrown DEF Streaming, Running
<1>6. Numbers(c)'
  BY <1>1, <1>3, <1>5, NumbersKept DEF Reader
<1>7. Remaining(c)'
  <2>1. ASSUME NEW k \in batch'[c].todo
        PROVE  k \in DOMAIN file /\ file[k].no \in new /\ index[file[k].no] = k
    BY <1>4 DEF StreamTypeOK
  <2>2. \A k \in batch'[c].todo : file[k].no \in DOMAIN index /\ cursor[c] < file[k].no
    BY <2>1, NumberTypes, ReaderTypes
  <2>3. \A j, k \in batch'[c].todo : file[j].no = file[k].no => j = k
    BY <2>1
  <2>4. ASSUME NEW l \in DOMAIN file, InOrder(l), cursor[c] < file[l].no
        PROVE  l \in batch'[c].todo
    <3>1. file[l].no \in new /\ index[file[l].no] = l
      BY <2>4, CatalogHas, LineNo, ReaderTypes
    <3>. QED
      BY <1>4, <3>1
  <2>5. batch'[c].empty => batch'[c].todo = {}
    BY <1>4
  <2>. QED
    BY <1>3, <2>2, <2>3, <2>4, <2>5 DEF Remaining, InOrder
<1>8. Snapshot(c)'
  BY <1>1, <1>3 DEF Reader, Snapshot
<1>9. c \in Following => Whole(c)'
  BY <1>1, <1>3, <1>5, WholeGrows DEF Reader
<1>. QED
  BY <1>2, <1>6, <1>7, <1>8, <1>9, ReaderOne DEF Reader

LEMMA ReaderSend ==
    ASSUME StreamTypeOK, Readers, NEW c \in Conns, SendEvent(c)
    PROVE  Readers'
<1>1. Numbers(c) /\ Remaining(c) /\ Snapshot(c) /\ (c \in Following => Whole(c))
  BY DEF Readers, Reader
<1>2. Only(c)
  BY DEF SendEvent, Only, StreamTypeOK, ledgerVars, storeVars, clientVars
<1>3. PICK l \in batch[c].todo :
        /\ \A k \in batch[c].todo : file[l].no <= file[k].no
        /\ batch' = [batch EXCEPT ![c].todo = @ \ {l}]
        /\ cursor' = [cursor EXCEPT ![c] = file[l].no]
        /\ wire' = [wire EXCEPT ![c] = Append(@, [no |-> file[l].no, line |-> l])]
  BY DEF SendEvent
<1> DEFINE f == [no |-> file[l].no, line |-> l]
<1>4. /\ pc[c] = "send" /\ pc'[c] = "send"
      /\ received'[c] = received[c] /\ latest'[c] = latest[c]
      /\ file' = file /\ index' = index
  BY DEF SendEvent, StreamTypeOK, ledgerVars, storeVars, clientVars
<1>5. /\ cursor'[c] = file[l].no /\ wire'[c] = Append(wire[c], f)
      /\ batch'[c].todo = batch[c].todo \ {l} /\ batch'[c].empty = batch[c].empty
  <2>1. batch[c] \in Batches
    BY ReaderTypes
  <2>. QED
    BY <1>3, <2>1 DEF StreamTypeOK, Batches
<1>6. /\ l \in DOMAIN file /\ file[l].no \in Nat /\ cursor[c] \in Nat /\ latest[c] \in Nat
      /\ f \in Frames /\ f.no = file[l].no /\ f.line = l
      /\ wire[c] \in Seq(Frames) /\ \A i \in DOMAIN wire[c] : wire[c][i].no \in Nat
  BY ReaderTypes, LineNo, FrameOfLine
<1>7. Streaming(c) /\ Streaming(c)'
  BY <1>4 DEF Streaming, Running
<1>8. /\ latest[c] <= cursor[c] /\ cursor[c] < file[l].no
      /\ \A i \in DOMAIN wire[c] : wire[c][i].no <= cursor[c]
  BY <1>1, <1>4, <1>7 DEF Numbers, Remaining
<1> HIDE DEF f
<1>9. /\ Len(wire[c]) \in Nat
      /\ DOMAIN wire[c] = 1..Len(wire[c]) /\ DOMAIN wire'[c] = 1..(Len(wire[c]) + 1)
      /\ \A i \in DOMAIN wire[c] : wire'[c][i] = wire[c][i]
      /\ wire'[c][Len(wire[c]) + 1] = f
  BY <1>5, <1>6, Appended
<1>10. ASSUME NEW i \in DOMAIN wire'[c]
       PROVE  (i \in DOMAIN wire[c] /\ wire'[c][i] = wire[c][i]) \/ wire'[c][i] = f
  BY <1>9
<1>11. \A i \in DOMAIN wire[c] : wire[c][i].no < f.no
  BY <1>6, <1>8
<1>12. Numbers(c)'
  <2>1. Ordered(received[c])'
    BY <1>1, <1>4 DEF Numbers, Ordered
  <2>2. Ordered(wire'[c])
    BY <1>1, <1>5, <1>6, <1>11, OrderedAppend DEF Numbers
  <2>3. /\ \A i \in DOMAIN received'[c] : received'[c][i].no <= latest'[c]
        /\ received'[c] = <<>> => latest'[c] = 0
    BY <1>1, <1>4 DEF Numbers
  <2>4. \A i \in DOMAIN wire'[c] : latest'[c] < wire'[c][i].no /\ wire'[c][i].no <= cursor'[c]
    <3> SUFFICES ASSUME NEW i \in DOMAIN wire'[c]
                 PROVE  latest[c] < wire'[c][i].no /\ wire'[c][i].no <= file[l].no
      BY <1>4, <1>5
    <3>1. CASE i \in DOMAIN wire[c] /\ wire'[c][i] = wire[c][i]
      BY <1>1, <1>6, <1>11, <3>1 DEF Numbers
    <3>2. CASE wire'[c][i] = f
      BY <1>6, <1>8, <3>2
    <3>. QED
      BY <1>10, <3>1, <3>2
  <2>5. latest'[c] <= cursor'[c]
    BY <1>4, <1>5, <1>6, <1>8
  <2>6. Ordered(wire[c])'
    BY <2>2 DEF Ordered
  <2>. QED
    BY <2>1, <2>3, <2>4, <2>5, <2>6, Zenon DEF Numbers
<1>13. Remaining(c)'
  <2>1. \A k \in batch[c].todo : k \in DOMAIN file /\ file[k].no \in Nat
    BY ReaderTypes, LineNo
  <2>2. ASSUME NEW k \in batch[c].todo, k # l
        PROVE  file[k].no \in DOMAIN index /\ file[l].no < file[k].no
    <3>1. file[l].no <= file[k].no /\ file[l].no # file[k].no /\ file[k].no \in DOMAIN index
      BY <1>1, <1>3, <1>4, <2>2 DEF Remaining
    <3>. QED
      BY <1>6, <2>1, <3>1
  <2>3. \A j, k \in batch'[c].todo : file[j].no = file[k].no => j = k
    BY <1>1, <1>4, <1>5 DEF Remaining
  <2>4. ASSUME NEW m \in DOMAIN file, NEW k \in batch'[c].todo, InOrder(m),
               file[l].no < file[m].no, file[m].no <= file[k].no
        PROVE  m \in batch'[c].todo
    <3>1. file[m].no \in Nat
      BY LineNo
    <3>2. cursor[c] < file[m].no /\ m # l /\ k \in batch[c].todo
      BY <1>5, <1>6, <1>8, <2>4, <3>1
    <3>3. m \in batch[c].todo
      BY <1>1, <1>4, <2>4, <3>2 DEF Remaining
    <3>. QED
      BY <1>5, <3>2, <3>3
  <2>5. batch'[c].empty => batch'[c].todo = {}
    BY <1>1, <1>4, <1>5 DEF Remaining
  <2>6. \A m \in DOMAIN file : InOrder(m)' => InOrder(m)
    BY <1>4 DEF InOrder
  <2>7. \A k \in batch'[c].todo : file'[k].no \in DOMAIN index' /\ cursor'[c] < file'[k].no
    BY <1>4, <1>5, <2>2
  <2>8. \A m \in DOMAIN file', k \in batch'[c].todo :
          InOrder(m)' /\ cursor'[c] < file'[m].no /\ file'[m].no <= file'[k].no
              => m \in batch'[c].todo
    BY <1>4, <1>5, <2>4, <2>6
  <2>. QED
    BY <1>4, <2>3, <2>5, <2>7, <2>8 DEF Remaining
<1>14. Snapshot(c)'
  BY <1>1, <1>4, <1>5 DEF Snapshot, Remaining
<1>15. ASSUME c \in Following PROVE Whole(c)'
  <2>1. Whole(c)
    BY <1>1, <1>15
  <2>2. file[l].no \in DOMAIN index
    BY <1>1, <1>4 DEF Remaining
  <2>3. \A i \in DOMAIN received'[c] : Genuine(received[c][i])'
    BY <1>4, <2>1 DEF Whole, Genuine
  <2>4. \A i \in DOMAIN wire'[c] : Genuine(wire[c][i])'
    <3> SUFFICES ASSUME NEW i \in DOMAIN wire'[c] PROVE Genuine(wire[c][i])'
      OBVIOUS
    <3>1. CASE i \in DOMAIN wire[c] /\ wire'[c][i] = wire[c][i]
      BY <1>4, <2>1, <3>1 DEF Whole, Genuine
    <3>2. CASE wire'[c][i] = f
      BY <1>4, <1>6, <2>2, <3>2 DEF Genuine
    <3>. QED
      BY <1>10, <3>1, <3>2
  <2>5. Known(latest[c])' /\ Known(cursor[c])'
    BY <1>4, <1>5, <2>1, <2>2 DEF Whole, Known
  <2>6. ASSUME NEW m \in DOMAIN file, InOrder(m), file[m].no <= latest[c]
        PROVE  \E i \in DOMAIN received'[c] : received'[c][i].line = m
    BY <1>4, <2>1, <2>6 DEF Whole
  <2>7. ASSUME NEW m \in DOMAIN file, InOrder(m), latest[c] < file[m].no, file[m].no <= file[l].no
        PROVE  \E i \in DOMAIN wire'[c] : wire'[c][i].line = m
    <3>1. file[m].no \in Nat
      BY LineNo
    <3>2. CASE file[m].no <= cursor[c]
      <4>1. PICK i \in DOMAIN wire[c] : wire[c][i].line = m
        BY <1>7, <2>1, <2>7, <3>2 DEF Whole, Passed
      <4>2. i \in DOMAIN wire'[c] /\ wire'[c][i] = wire[c][i]
        BY <1>9
      <4>. QED
        BY <4>1, <4>2
    <3>3. CASE cursor[c] < file[m].no
      <4>1. m \in batch[c].todo
        BY <1>1, <1>4, <2>7, <3>3 DEF Remaining
      <4>2. file[m].no = file[l].no
        BY <1>3, <1>6, <2>7, <3>1, <4>1
      <4>3. m = l
        BY <1>1, <1>4, <4>1, <4>2 DEF Remaining
      <4>4. Len(wire[c]) + 1 \in DOMAIN wire'[c]
        BY <1>9
      <4>. QED
        BY <1>6, <1>9, <4>3, <4>4
    <3>. QED
      BY <1>6, <3>1, <3>2, <3>3
  <2>8. ASSUME NEW m \in DOMAIN file, Passed(c, file[m].no)' PROVE file[m].no <= file[l].no
    <3>1. \/ file[m].no <= cursor'[c]
          \/ \E i \in DOMAIN wire'[c] : file[m].no <= wire'[c][i].no
      BY <1>4, <2>8 DEF Passed
    <3>2. ASSUME NEW i \in DOMAIN wire'[c], file[m].no <= wire'[c][i].no
          PROVE  file[m].no <= file[l].no
      <4>1. wire'[c][i].no <= file[l].no /\ wire'[c][i].no \in Nat
        BY <1>6, <1>8, <1>10
      <4>. QED
        BY <1>6, <3>2, <4>1, LineNo
    <3>. QED
      BY <1>5, <3>1, <3>2
  <2>9. \A m \in DOMAIN file' : InOrder(m)' =>
          /\ file'[m].no <= latest'[c] => \E i \in DOMAIN received'[c] : received'[c][i].line = m
          /\ latest'[c] < file'[m].no /\ Passed(c, file[m].no)' =>
                 \E i \in DOMAIN wire'[c] : wire'[c][i].line = m
    <3>1. \A m \in DOMAIN file : InOrder(m)' => InOrder(m)
      BY <1>4 DEF InOrder
    <3>. QED
      BY <1>4, <2>6, <2>7, <2>8, <3>1
  <2>. QED
    BY <2>3, <2>4, <2>5, <2>9, Zenon DEF Whole
<1>. QED
  BY <1>2, <1>12, <1>13, <1>14, <1>15, ReaderOne DEF Reader

LEMMA ReaderDecide ==
    ASSUME StreamTypeOK, Readers, NEW c \in Conns, Decide(c)
    PROVE  Readers'
<1>1. Reader(c)
  BY DEF Readers
<1>2. Only(c)
  BY DEF Decide, CloseOnSeal, CloseOverdue, CloseSnapshot, BeginHeartbeat, Wait, Return, Only,
         StreamTypeOK, ledgerVars, storeVars, clientVars
<1>3. /\ pc[c] = "send" /\ cursor'[c] = cursor[c] /\ wire'[c] = wire[c]
      /\ received'[c] = received[c] /\ latest'[c] = latest[c]
      /\ file' = file /\ index' = index
  BY DEF Decide, CloseOnSeal, CloseOverdue, CloseSnapshot, BeginHeartbeat, Wait, Return, Sent,
         StreamTypeOK, ledgerVars, storeVars, clientVars
<1>4. \/ pc'[c] \in {"sealed", "ended"}
      \/ pc'[c] = "wait" /\ c \in Following
      \/ pc'[c] = "heartbeat" /\ c \notin Following /\ batch[c].empty
  BY DEF Decide, CloseOnSeal, CloseOverdue, CloseSnapshot, BeginHeartbeat, Wait, Return, Empty,
         StreamTypeOK
<1>5. Snapshot(c)'
  BY <1>1, <1>3, <1>4 DEF Reader, Snapshot
<1>6. Streaming(c) /\ pc'[c] # "send"
  BY <1>3, <1>4 DEF Streaming, Running
<1>7. Reader(c)'
  BY <1>1, <1>3, <1>5, <1>6, ReaderMove
<1>. QED
  BY <1>2, <1>7, ReaderOne

LEMMA ReaderHeartbeat ==
    ASSUME StreamTypeOK, Readers, NEW c \in Conns, SendHeartbeat(c)
    PROVE  Readers'
<1>1. Numbers(c) /\ Snapshot(c)
  BY DEF Readers, Reader
<1>2. Only(c)
  BY DEF SendHeartbeat, Return, Only, StreamTypeOK, ledgerVars, storeVars, clientVars
<1>3. /\ pc[c] = "heartbeat" /\ pc'[c] = "ended"
      /\ wire'[c] = Append(wire[c], [no |-> 1, line |-> 0])
      /\ received'[c] = received[c] /\ latest'[c] = latest[c]
  BY DEF SendHeartbeat, Return, StreamTypeOK, clientVars
<1>4. c \notin Following /\ received[c] = <<>> /\ wire[c] = <<>> /\ latest[c] = 0
  BY <1>1, <1>3 DEF Snapshot, Numbers
<1>5. wire'[c] = <<[no |-> 1, line |-> 0]>>
  BY <1>3, <1>4
<1>6. Numbers(c)'
  BY <1>3, <1>4, <1>5 DEF Numbers, Ordered, Streaming, Running
<1>7. Remaining(c)' /\ Snapshot(c)'
  BY <1>3 DEF Remaining, Snapshot
<1>. QED
  BY <1>2, <1>4, <1>6, <1>7, ReaderOne DEF Reader

LEMMA ReaderReceive ==
    ASSUME StreamTypeOK, Readers, NEW c \in Conns, Receive(c)
    PROVE  Readers'
<1> DEFINE f == Head(wire[c])
<1>1. Numbers(c) /\ Remaining(c) /\ Snapshot(c) /\ (c \in Following => Whole(c))
  BY DEF Readers, Reader
<1>2. Only(c)
  BY DEF Receive, Only, StreamTypeOK, ledgerVars, storeVars, streamVars
<1>3. /\ wire[c] # <<>> /\ wire[c] \in Seq(Frames) /\ received[c] \in Seq(Frames)
      /\ latest[c] \in Nat /\ cursor[c] \in Nat
      /\ \A i \in DOMAIN received[c] : received[c][i].no \in Nat
      /\ \A i \in DOMAIN wire[c] : wire[c][i].no \in Nat
  BY ReaderTypes DEF Receive
<1>4. /\ f \in Frames /\ 1 \in DOMAIN wire[c] /\ wire[c][1] = f
      /\ \A i \in DOMAIN Tail(wire[c]) :
           i \in Nat /\ i > 0 /\ i + 1 \in DOMAIN wire[c] /\ Tail(wire[c])[i] = wire[c][i + 1]
      /\ \A j \in DOMAIN wire[c] : j \in Nat /\ (j = 1 \/ (j > 1 /\ j - 1 \in DOMAIN Tail(wire[c])))
  BY <1>3, Shifted
<1>5. f.no \in Nat /\ latest[c] < f.no
  BY <1>1, <1>3, <1>4 DEF Numbers
<1>6. \A i \in DOMAIN received[c] : received[c][i].no < f.no
  BY <1>1, <1>3, <1>5 DEF Numbers
<1>7. /\ wire'[c] = Tail(wire[c])
      /\ pc'[c] = pc[c] /\ cursor'[c] = cursor[c] /\ batch'[c] = batch[c]
      /\ file' = file /\ index' = index
  BY DEF Receive, StreamTypeOK, ledgerVars, storeVars, streamVars
<1>8. received'[c] = Append(received[c], f) /\ latest'[c] = f.no
  <2>1. ~ \E i \in DOMAIN received[c] : received[c][i].no = f.no
    BY <1>3, <1>5, <1>6
  <2>2. /\ received' = [received EXCEPT ![c] = Append(@, f)]
        /\ latest' = [latest EXCEPT ![c] = IF f.no > @ THEN f.no ELSE @]
    BY <2>1, Zenon DEF Receive
  <2>3. received'[c] = Append(received[c], f)
    BY <2>2 DEF StreamTypeOK
  <2>4. latest'[c] = f.no
    BY <1>3, <1>5, <2>2 DEF StreamTypeOK
  <2>. QED
    BY <2>3, <2>4
<1> HIDE DEF f
<1>9. /\ Len(received[c]) \in Nat
      /\ DOMAIN received[c] = 1..Len(received[c]) /\ DOMAIN received'[c] = 1..(Len(received[c]) + 1)
      /\ \A i \in DOMAIN received[c] : received'[c][i] = received[c][i]
      /\ received'[c][Len(received[c]) + 1] = f
  BY <1>3, <1>4, <1>8, Appended
<1>10. \A i \in DOMAIN received'[c] :
         (i \in DOMAIN received[c] /\ received'[c][i] = received[c][i]) \/ received'[c][i] = f
  BY <1>9
\* The frames still on the wire come after this one.
<1>11. ASSUME NEW i \in DOMAIN wire'[c]
       PROVE  /\ i \in Nat /\ i + 1 \in DOMAIN wire[c] /\ wire'[c][i] = wire[c][i + 1]
              /\ f.no < wire'[c][i].no
  <2>1. i \in Nat /\ i > 0 /\ i + 1 \in DOMAIN wire[c] /\ wire'[c][i] = wire[c][i + 1]
    BY <1>4, <1>7
  <2>2. wire[c][1].no < wire[c][i + 1].no
    BY <1>1, <1>4, <2>1 DEF Numbers, Ordered
  <2>. QED
    BY <1>4, <2>1, <2>2
<1>12. Numbers(c)'
  <2>1. Ordered(received'[c])
    BY <1>1, <1>3, <1>4, <1>6, <1>8, OrderedAppend DEF Numbers
  <2>2. ASSUME NEW i \in DOMAIN wire'[c], NEW j \in DOMAIN wire'[c], i < j
        PROVE  wire'[c][i].no < wire'[c][j].no
    BY <1>1, <1>11, <2>2 DEF Numbers, Ordered
  <2>3. \A i \in DOMAIN received'[c] : received'[c][i].no <= latest'[c]
    BY <1>3, <1>5, <1>6, <1>8, <1>10
  <2>4. \A i \in DOMAIN wire'[c] : latest'[c] < wire'[c][i].no
    BY <1>8, <1>11
  <2>5. received'[c] # <<>>
    BY <1>3, <1>4, <1>8
  <2>6. Streaming(c)' => latest'[c] <= cursor'[c] /\ \A i \in DOMAIN wire'[c] : wire'[c][i].no <= cursor'[c]
    <3> SUFFICES ASSUME Streaming(c)
                 PROVE  latest'[c] <= cursor'[c] /\ \A i \in DOMAIN wire'[c] : wire'[c][i].no <= cursor'[c]
      BY <1>7 DEF Streaming
    <3>1. \A i \in DOMAIN wire[c] : wire[c][i].no <= cursor[c]
      BY <1>1 DEF Numbers
    <3>. QED
      BY <1>4, <1>7, <1>8, <1>11, <3>1
  <2>7. Ordered(received[c])' /\ Ordered(wire[c])'
    BY <2>1, <2>2 DEF Ordered
  <2>. QED
    BY <2>3, <2>4, <2>5, <2>6, <2>7, Zenon DEF Numbers
<1>13. Remaining(c)'
  BY <1>1, <1>7 DEF Remaining, InOrder
<1>14. Snapshot(c)'
  BY <1>1, <1>3, <1>7 DEF Snapshot
<1>15. ASSUME c \in Following PROVE Whole(c)'
  <2>1. Whole(c)
    BY <1>1, <1>15
  <2>2. Genuine(f)
    BY <1>4, <2>1 DEF Whole
  <2>3. \A i \in DOMAIN received'[c] : Genuine(received[c][i])'
    BY <1>7, <1>10, <2>1, <2>2 DEF Whole, Genuine
  <2>4. \A i \in DOMAIN wire'[c] : Genuine(wire[c][i])'
    BY <1>7, <1>11, <2>1 DEF Whole, Genuine
  <2>5. Known(latest[c])' /\ (Streaming(c)' => Known(cursor[c])')
    BY <1>7, <1>8, <2>1, <2>2 DEF Whole, Known, Genuine, Streaming
  \* A line between what it had and this frame was on the wire before any other: it is this one.
  <2>6. ASSUME NEW m \in DOMAIN file, InOrder(m), file[m].no <= f.no
        PROVE  \E i \in DOMAIN received'[c] : received'[c][i].line = m
    <3>1. file[m].no \in Nat
      BY LineNo
    <3>2. CASE file[m].no <= latest[c]
      <4>1. PICK i \in DOMAIN received[c] : received[c][i].line = m
        BY <2>1, <2>6, <3>2 DEF Whole
      <4>2. i \in DOMAIN received'[c] /\ received'[c][i] = received[c][i]
        BY <1>9
      <4>. QED
        BY <4>1, <4>2
    <3>3. CASE latest[c] < file[m].no
      <4>1. Passed(c, file[m].no)
        BY <1>4, <2>6 DEF Passed
      <4>2. PICK i \in DOMAIN wire[c] : wire[c][i].line = m
        BY <2>1, <2>6, <3>3, <4>1 DEF Whole
      <4>3. wire[c][i].no = file[m].no
        BY <2>1, <4>2 DEF Whole, Genuine
      <4>4. i = 1
        <5>1. i \in Nat /\ (i = 1 \/ i > 1)
          BY <1>4
        <5>2. i > 1 => f.no < wire[c][i].no
          BY <1>1, <1>4, <5>1 DEF Numbers, Ordered
        <5>. QED
          BY <1>5, <2>6, <3>1, <4>3, <5>1, <5>2
      <4>5. f.line = m /\ Len(received[c]) + 1 \in DOMAIN received'[c]
        BY <1>4, <1>9, <4>2, <4>4
      <4>. QED
        BY <1>9, <4>5
    <3>. QED
      BY <1>3, <3>1, <3>2, <3>3
  <2>7. ASSUME NEW m \in DOMAIN file, InOrder(m), f.no < file[m].no, Passed(c, file[m].no)'
        PROVE  \E i \in DOMAIN wire'[c] : wire'[c][i].line = m
    <3>1. file[m].no \in Nat
      BY LineNo
    <3>2. Passed(c, file[m].no)
      <4>1. \/ Streaming(c) /\ file[m].no <= cursor[c]
            \/ \E i \in DOMAIN wire'[c] : file[m].no <= wire'[c][i].no
        BY <1>7, <2>7 DEF Passed, Streaming
      <4>. QED
        BY <1>11, <4>1 DEF Passed
    <3>3. PICK i \in DOMAIN wire[c] : wire[c][i].line = m
      BY <1>3, <1>5, <2>1, <2>7, <3>1, <3>2 DEF Whole
    <3>4. wire[c][i].no = file[m].no
      BY <2>1, <3>3 DEF Whole, Genuine
    <3>5. i \in Nat /\ i > 1 /\ i - 1 \in DOMAIN wire'[c]
      <4>1. i # 1
        BY <1>4, <1>5, <2>7, <3>1, <3>4
      <4>. QED
        BY <1>4, <1>7, <4>1
    <3>6. wire'[c][i - 1] = wire[c][(i - 1) + 1] /\ (i - 1) + 1 = i
      BY <1>11, <3>5
    <3>. QED
      BY <3>3, <3>5, <3>6
  <2>8. \A m \in DOMAIN file' : InOrder(m)' =>
          /\ file'[m].no <= latest'[c] => \E i \in DOMAIN received'[c] : received'[c][i].line = m
          /\ latest'[c] < file'[m].no /\ Passed(c, file[m].no)' =>
                 \E i \in DOMAIN wire'[c] : wire'[c][i].line = m
    <3>1. \A m \in DOMAIN file : InOrder(m)' => InOrder(m)
      BY <1>7 DEF InOrder
    <3>. QED
      BY <1>7, <1>8, <2>6, <2>7, <3>1
  <2>. QED
    BY <2>3, <2>4, <2>5, <2>8, Zenon DEF Whole
<1>. QED
  BY <1>2, <1>12, <1>13, <1>14, <1>15, ReaderOne DEF Reader

LEMMA ReaderNotify ==
    ASSUME StreamTypeOK, Waiting, Readers, NEW v \in notices, AsyncNotify(v)
    PROVE  Readers'
<1> SUFFICES ASSUME NEW c \in Conns PROVE Reader(c)'
  BY DEF Readers
<1>1. Reader(c)
  BY DEF Readers
<1>2. /\ file' = file /\ index' = index
      /\ wire'[c] = wire[c] /\ received'[c] = received[c] /\ latest'[c] = latest[c]
      /\ cursor'[c] = cursor[c] /\ batch'[c] = batch[c]
  BY DEF AsyncNotify, ledgerVars, storeVars, clientVars
<1>3. CASE pc'[c] = pc[c]
  BY <1>1, <1>2, <1>3, SameGrown, ReaderGrows
<1>4. CASE pc[c] = "wait" /\ pc'[c] = "poll"
  <2>1. Streaming(c)
    BY <1>4 DEF Streaming, Running
  <2>2. Snapshot(c)'
    BY <1>1, <1>4 DEF Reader, Snapshot
  <2>. QED
    BY <1>1, <1>2, <1>4, <2>1, <2>2, ReaderMove
<1>5. pc'[c] = pc[c] \/ (pc[c] = "wait" /\ pc'[c] = "poll")
  BY DEF AsyncNotify, Waiting
<1>. QED
  BY <1>3, <1>4, <1>5

LEMMA ReaderStep ==
    ASSUME StreamTypeOK, Waiting, Cataloged, Readers, [Next]_vars
    PROVE  Cataloged' /\ Readers'
<1> USE DEF ledgerVars, storeVars
<1>1. ASSUME UNCHANGED <<file, index>> PROVE Cataloged'
  BY <1>1 DEF Cataloged
<1>2. ASSUME NEW p \in Producers, ProducerNext(p) PROVE Cataloged' /\ Readers'
  <2>1. Grown /\ Cataloged'
    <3>1. ASSUME NEW kind \in {"causal", "amendment", "seal"}, NEW n \in Nat, Store(p, kind, n)
          PROVE  Grown /\ Cataloged'
      BY <3>1, StoreGrown, WrittenCataloged DEF Store
    <3>2. ASSUME NEW kind \in {"causal", "amendment", "seal"}, NEW n \in Nat, NEW counted \in Nat,
                 StoreFails(kind, n, counted)
          PROVE  Grown /\ Cataloged'
      BY <3>2, FailedGrown, FailedCataloged
    <3>3. ASSUME EndRun(p) \/ StartOver(p) PROVE Grown /\ Cataloged'
      BY <1>1, <3>3, SameGrown DEF EndRun, StartOver
    <3>. QED
      BY <1>2, <3>1, <3>2, <3>3, StreamAssumption
         DEF ProducerNext, AppendCausal, LoseCausal, AppendAmendment, LoseAmendment,
             AppendSeal, LoseSeal
  <2>2. UNCHANGED <<streamVars, wire, clientVars>>
    BY <1>2 DEF ProducerNext, AppendCausal, LoseCausal, AppendAmendment, LoseAmendment, EndRun,
                StartOver, AppendSeal, LoseSeal, Store, StoreFails
  <2>3. ASSUME NEW c \in Conns PROVE Reader(c)'
    BY <2>1, <2>2, ReaderGrows DEF Readers, streamVars, clientVars
  <2>. QED
    BY <2>1, <2>3 DEF Readers
<1>3. ASSUME NEW v \in notices, AsyncNotify(v) PROVE Cataloged' /\ Readers'
  BY <1>1, <1>3, ReaderNotify DEF AsyncNotify
<1>4. ASSUME NEW c \in Conns, Connect(c) PROVE Cataloged' /\ Readers'
  BY <1>1, <1>4, ReaderConnect DEF Connect
<1>5. ASSUME NEW c \in Conns, Resume(c) PROVE Cataloged' /\ Readers'
  <2>1. UNCHANGED <<file, index>>
    BY <1>5 DEF Resume, Decide, ReplayEvents, SendEvent, CloseOnSeal, CloseOverdue, CloseSnapshot,
                BeginHeartbeat, Wait, SendHeartbeat, Return
  <2>. QED
    BY <1>1, <1>5, <2>1, ReaderReplay, ReaderSend, ReaderDecide, ReaderHeartbeat DEF Resume
<1>6. ASSUME NEW c \in Conns, FallbackPoll(c) PROVE Cataloged' /\ Readers'
  <2>1. Only(c) /\ Reader(c)
    BY <1>6 DEF FallbackPoll, Only, StreamTypeOK, Readers, clientVars
  <2>2. /\ file' = file /\ index' = index
        /\ pc[c] = "wait" /\ pc'[c] = "poll" /\ cursor'[c] = cursor[c]
        /\ wire'[c] = wire[c] /\ received'[c] = received[c] /\ latest'[c] = latest[c]
    BY <1>6 DEF FallbackPoll, StreamTypeOK, clientVars
  <2>3. Streaming(c) /\ Snapshot(c)'
    BY <2>1, <2>2 DEF Streaming, Running, Reader, Snapshot
  <2>4. Reader(c)'
    BY <2>1, <2>2, <2>3, ReaderMove
  <2>. QED
    BY <1>1, <2>1, <2>2, <2>4, ReaderOne
<1>7. ASSUME NEW c \in Conns, Receive(c) PROVE Cataloged' /\ Readers'
  BY <1>1, <1>7, ReaderReceive DEF Receive
<1>8. ASSUME NEW c \in Conns, Disconnect(c) PROVE Cataloged' /\ Readers'
  <2>1. Only(c) /\ Grown
    BY <1>8, SameGrown DEF Disconnect, Only, StreamTypeOK, clientVars
  <2>2. /\ file' = file /\ index' = index /\ received'[c] = received[c] /\ latest'[c] = latest[c]
        /\ pc'[c] = "off" /\ wire'[c] = <<>>
    BY <1>8 DEF Disconnect, StreamTypeOK, clientVars
  <2>3. Reader(c)'
    BY <2>1, <2>2, ReaderOff DEF Readers
  <2>. QED
    BY <1>1, <2>1, <2>2, <2>3, ReaderOne
<1>9. CASE Restart
  <2>1. Grown /\ Cataloged'
    BY <1>9, RestartGrown
  <2>2. ASSUME NEW c \in Conns
        PROVE  /\ received'[c] = received[c] /\ latest'[c] = latest[c]
               /\ pc'[c] = "off" /\ wire'[c] = <<>>
    BY <1>9 DEF Restart, clientVars
  <2>3. ASSUME NEW c \in Conns PROVE Reader(c)'
    BY <2>1, <2>2, ReaderOff DEF Readers
  <2>. QED
    BY <2>1, <2>3 DEF Readers
<1>10. CASE UNCHANGED vars
  <2>1. ASSUME NEW c \in Conns PROVE Reader(c)'
    BY <1>10, SameGrown, ReaderGrows DEF vars, streamVars, clientVars, Readers
  <2>. QED
    BY <1>1, <1>10, <2>1 DEF vars, Readers
<1>. QED
  BY <1>2, <1>3, <1>4, <1>5, <1>6, <1>7, <1>8, <1>9, <1>10 DEF Next

LEMMA WaitingStep ==
    ASSUME StreamTypeOK, Waiting, [Next]_vars
    PROVE  Waiting'
<1> USE DEF ledgerVars, storeVars, busVars, streamVars, clientVars
<1>1. ASSUME NEW p \in Producers, ProducerNext(p) PROVE Waiting'
  <2>1. UNCHANGED <<on, pc>> /\ 0 \notin notices'
    BY <1>1 DEF ProducerNext, AppendCausal, LoseCausal, AppendAmendment, LoseAmendment, EndRun,
                StartOver, AppendSeal, LoseSeal, Store, StoreFails, Waiting
  <2>. QED
    BY <2>1 DEF Waiting
<1>2. ASSUME NEW v \in notices, AsyncNotify(v) PROVE Waiting'
  BY <1>2 DEF AsyncNotify, Waiting
<1>3. ASSUME NEW c \in Conns,
             Connect(c) \/ FallbackPoll(c) \/ Receive(c) \/ Disconnect(c)
      PROVE  Waiting'
  <2>1. CASE Connect(c)
    BY <2>1 DEF Connect, Waiting, Streaming, Running, StreamTypeOK
  <2>2. CASE FallbackPoll(c) \/ Disconnect(c)
    <3>1. notices' = notices /\ on' = [on EXCEPT ![c] = 0]
      BY <2>2 DEF FallbackPoll, Disconnect
    <3>2. \A d \in Conns : d # c => pc'[d] = pc[d]
      BY <2>2 DEF FallbackPoll, Disconnect, StreamTypeOK
    <3>. QED
      BY <3>1, <3>2 DEF Waiting, StreamTypeOK
  <2>3. CASE Receive(c)
    <3>1. UNCHANGED <<notices, on, pc>>
      BY <2>3 DEF Receive
    <3>. QED
      BY <3>1 DEF Waiting
  <2>. QED
    BY <1>3, <2>1, <2>2, <2>3
<1>4. ASSUME NEW c \in Conns, Resume(c) PROVE Waiting'
  BY <1>4 DEF Resume, Decide, ReplayEvents, SendEvent, CloseOnSeal, CloseOverdue,
              CloseSnapshot, BeginHeartbeat, Wait, SendHeartbeat, Return, Sent, Waiting,
              StreamTypeOK
<1>5. CASE Restart
  BY <1>5 DEF Restart, Waiting
<1>6. CASE UNCHANGED vars
  BY <1>6 DEF vars, Waiting
<1>. QED
  BY <1>1, <1>2, <1>3, <1>4, <1>5, <1>6 DEF Next

-----------------------------------------------------------------------------
(* The theorem *)

LEMMA Invariant == Spec => []IInv
<1>1. Init => IInv
  <2> SUFFICES ASSUME Init PROVE Waiting /\ Cataloged /\ \A c \in Conns : Reader(c)
    BY TypeInit DEF IInv
  <2>1. Waiting /\ Cataloged
    BY DEF Init, Waiting, Cataloged
  <2>2. ASSUME NEW c \in Conns PROVE Reader(c)
    <3>1. /\ pc[c] = "off" /\ wire[c] = <<>> /\ received[c] = <<>> /\ latest[c] = 0
          /\ file = <<>>
      BY DEF Init
    <3>2. Numbers(c) /\ Remaining(c) /\ Snapshot(c)
      BY <3>1 DEF Numbers, Ordered, Remaining, Snapshot, Streaming, Running
    <3>3. Whole(c)
      BY <3>1 DEF Whole, Known, Streaming, Running
    <3>. QED
      BY <3>2, <3>3 DEF Reader
  <2>. QED
    BY <2>1, <2>2
<1>2. IInv /\ [Next]_vars => IInv'
  BY TypeStep, WaitingStep, ReaderStep DEF IInv, Readers
<1>. QED
  BY <1>1, <1>2, PTL DEF Spec

\* Whatever is lost on the wire, batched, half written, resumed or restarted, a reader has
\* its events once and in order, and a follower all up to the last it has, those excepted
\* that a failed write put out of order.
THEOREM EventsInOrder == Spec => []ReceivedInOrder
<1>1. IInv => ReceivedInOrder
  <2> SUFFICES ASSUME IInv, NEW c \in Conns
               PROVE  /\ Ordered(received[c])
                      /\ c \in Following => Whole(c)
    BY DEF ReceivedInOrder, Ordered, Whole, Genuine
  <2>. QED
    BY DEF IInv, Reader, Numbers
<1>. QED
  BY <1>1, Invariant, PTL
=============================================================================
