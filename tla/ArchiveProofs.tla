---------------------------- MODULE ArchiveProofs ----------------------------
(***************************************************************************)
(* What an observation archive keeps true for every number of callers and  *)
(* rows, through both APIs and whatever crashes and restarts: rows are     *)
(* counted once, ids are used without a gap, a flush covers the rows before*)
(* it, and the corpus under the archive is a ledger.                       *)
(***************************************************************************)
EXTENDS Archive, FiniteSetTheorems, SequenceTheorems, TLAPS

Counting == {th \in Threads : pc[th] = "count"}

Messages == [msg : {"row"}, row : Rows] \cup [msg : {"flush"}, from : Threads]

IsRow(i) == i \in DOMAIN channel /\ channel[i].msg = "row"

IsFlush(i) == i \in DOMAIN channel /\ channel[i].msg = "flush"

\* Who is past the mutex of the C ABI, or past the check of a Rust caller.
Inside == {th \in Threads : pc[th] \in {"count", "waiting", "answered", "joining"}}

\* The C ABI lets one caller in at a time, a Rust archive is dropped alone,
\* and nobody is inside an archive that is not there.
AloneInside ==
    /\ api = "c" => \A th \in Inside : lock = th
    /\ api = "rust" => \A th \in Threads : pc[th] = "joining" =>
                          \A other \in Threads \ {th} : pc[other] = "idle"
    /\ ~up => Inside = {}

\* Types, but for the counters, which NoRowUncounted bounds.
Shapes ==
    /\ api \in {"c", "rust"} /\ api \in Apis /\ up \in BOOLEAN /\ tx \in BOOLEAN
    /\ channel \in Seq(Messages)
    /\ writer \in [at : {"gone", "idle"}]
                     \cup [at : {"commit", "advance"}, row : Rows, traj : Ids]
    /\ stored \in [Ids -> Rows \cup {Nil}]
    /\ sent \in 0 .. MaxRows
    /\ pc \in [Threads -> {"idle", "append", "count", "flush", "waiting", "answered",
                           "close", "joining"}]
    /\ mark \in [Threads -> 0 .. MaxRows]
    /\ lock \in Threads \cup {Nil}
    /\ committed \in Nat /\ dropped \in Nat /\ appended \in Nat

\* Rows go through the channel and into the corpus in the order they were
\* accepted.
InOrder ==
    /\ \A i, j \in DOMAIN channel : IsRow(i) /\ IsRow(j) /\ i < j => channel[i].row < channel[j].row
    /\ \A i \in DOMAIN channel : IsRow(i) => channel[i].row <= sent
    /\ Busy => writer.row <= sent /\ \A i \in DOMAIN channel : IsRow(i) => writer.row < channel[i].row

\* A request stands for one caller that waits, with the rows sent after it
\* behind it.
Requests ==
    /\ \A th \in Threads : mark[th] <= sent
    /\ \A i \in DOMAIN channel : IsFlush(i) =>
          /\ pc[channel[i].from] = "waiting"
          /\ \A j \in DOMAIN channel : IsFlush(j) /\ channel[j].from = channel[i].from => j = i
          /\ \A j \in DOMAIN channel : IsRow(j) /\ i < j => mark[channel[i].from] < channel[j].row

\* n rows are stored, in order, under the first n ids, and before every row
\* that is still to come.
StoredInOrder(n) ==
    /\ StoredIds = 0 .. n - 1
    /\ \A i \in 0 .. n - 1 : i < stored[i] /\ stored[i] <= sent
    /\ \A i, j \in 0 .. n - 1 : i < j => stored[i] < stored[j]
    /\ \A i \in 0 .. n - 1, j \in DOMAIN channel : IsRow(j) => stored[i] < channel[j].row
    /\ writer.at = "commit" => \A i \in 0 .. n - 1 : stored[i] < writer.row
    /\ writer.at = "advance" => n > 0 /\ stored[n - 1] = writer.row

\* The next id, unless the archive is closed.
NextId(n) ==
    /\ up => n = committed + (IF writer.at = "advance" THEN 1 ELSE 0)
    /\ writer # Gone => up
    /\ Busy => writer.traj = committed

Counted ==
    /\ IsFiniteSet(Counting)
    /\ NoRowUncounted
    /\ committed <= MaxRows /\ dropped <= MaxRows /\ appended <= MaxRows
    /\ up => appended + Cardinality(Counting) <= sent

ArchiveInv ==
    /\ Shapes /\ AloneInside /\ InOrder /\ Requests /\ FlushCoversEarlierRows
    /\ \E n \in 0 .. MaxRows : StoredInOrder(n) /\ NextId(n)
    /\ Counted

-----------------------------------------------------------------------------
(* The channel as a sequence.                                              *)

LEMMA MessageFacts ==
    /\ \A m \in Messages : m.msg \in {"row", "flush"}
    /\ \A m \in Messages : m.msg = "row" => m.row \in Rows
    /\ \A m \in Messages : m.msg = "flush" => m.from \in Threads
    /\ \A r \in Rows : RowMsg(r) \in Messages /\ RowMsg(r).msg = "row" /\ RowMsg(r).row = r
    /\ \A th \in Threads : FlushMsg(th) \in Messages /\ FlushMsg(th).msg = "flush"
                             /\ FlushMsg(th).from = th
  BY DEF Messages, RowMsg, FlushMsg

\* A message at the end leaves the others where they are.
LEMMA Sent ==
    ASSUME channel \in Seq(Messages), NEW m \in Messages, channel' = Append(channel, m)
    PROVE  /\ channel' \in Seq(Messages)
           /\ Len(channel) + 1 \in DOMAIN channel' /\ channel'[Len(channel) + 1] = m
           /\ \A i \in DOMAIN channel : i \in DOMAIN channel' /\ channel'[i] = channel[i]
           /\ \A i \in DOMAIN channel' : i \in DOMAIN channel \/ i = Len(channel) + 1
           /\ \A i \in DOMAIN channel : i \in Nat /\ i < Len(channel) + 1
           /\ Len(channel) \in Nat
  <1>1. /\ channel' \in Seq(Messages) /\ Len(channel') = Len(channel) + 1
        /\ \A i \in 1 .. Len(channel) : channel'[i] = channel[i]
        /\ channel'[Len(channel) + 1] = m
    BY AppendProperties
  <1>2. /\ Len(channel) \in Nat /\ DOMAIN channel = 1 .. Len(channel)
        /\ DOMAIN channel' = 1 .. Len(channel) + 1
    BY <1>1, LenProperties
  <1> QED BY <1>1, <1>2

\* The first message out moves the others one up.
LEMMA Taken ==
    ASSUME channel \in Seq(Messages), channel # <<>>, channel' = Tail(channel)
    PROVE  /\ channel' \in Seq(Messages)
           /\ 1 \in DOMAIN channel /\ channel[1] = Head(channel) /\ Head(channel) \in Messages
           /\ \A i \in DOMAIN channel' :
                  i \in Nat /\ i + 1 \in DOMAIN channel /\ 1 < i + 1 /\ channel'[i] = channel[i + 1]
           /\ \A i \in DOMAIN channel : i \in Nat
           /\ \A i \in DOMAIN channel : i # 1 => i - 1 \in DOMAIN channel' /\ channel[i] = channel'[i - 1]
  <1>1. /\ Len(channel) \in Nat \ {0} /\ DOMAIN channel = 1 .. Len(channel)
    BY LenProperties, EmptySeq
  <1>2. /\ channel' \in Seq(Messages) /\ Len(channel') = Len(channel) - 1
        /\ \A i \in 1 .. Len(channel') : channel'[i] = channel[i + 1]
        /\ Head(channel) = channel[1] /\ Head(channel) \in Messages
    BY HeadTailProperties
  <1>3. DOMAIN channel' = 1 .. Len(channel) - 1
    BY <1>2, LenProperties
  <1> QED BY <1>1, <1>2, <1>3

-----------------------------------------------------------------------------
(* Shapes, and who is inside.                                              *)

\* Where the writer is.
LEMMA WriterFacts ==
    ASSUME Shapes
    PROVE  /\ writer.at \in {"gone", "idle", "commit", "advance"}
           /\ Busy => writer.row \in Rows /\ writer.traj \in Ids /\ writer.row \in Nat /\ writer.traj \in Nat
           /\ writer = Gone => writer.at = "gone"
           /\ writer = Idle => writer.at = "idle"
           /\ \A i \in Ids : i \in Nat /\ i < MaxRows
           /\ \A r \in Rows : r \in Nat /\ r <= MaxRows /\ r # Nil
           /\ MaxRows \in Nat
  BY ArchiveAssumption DEF Shapes, Busy, Rows, Ids, Gone, Idle

\* The ids in use are the first ones, as many as there are.
LEMMA StoredCount ==
    ASSUME NEW n \in Nat, StoredInOrder(n)
    PROVE  Cardinality(StoredIds) = n /\ IsFiniteSet(StoredIds)
  <1>1. n - 1 \in Int /\ 0 \in Int
    OBVIOUS
  <1>2. IsFiniteSet(0 .. n - 1) /\ Cardinality(0 .. n - 1) = IF 0 > n - 1 THEN 0 ELSE (n - 1) - 0 + 1
    BY <1>1, FS_Interval
  <1> QED BY <1>2 DEF StoredInOrder

\* There is an id left for every row that is still to come.
LEMMA IdIsLeft ==
    ASSUME ArchiveInv, Take
    PROVE  Head(channel).row \in Rows /\ committed \in Ids /\ StoredInOrder(committed)
  <1>1. Shapes /\ channel # <<>> /\ writer.at = "idle" /\ Head(channel).msg = "row" /\ writer # Gone
    BY DEF ArchiveInv, Take, Idle, Gone
  <1>2. 1 \in DOMAIN channel /\ channel[1] = Head(channel) /\ Head(channel) \in Messages /\ IsRow(1)
    <2>1. channel \in Seq(Messages)
      BY <1>1 DEF Shapes
    <2>2. DOMAIN channel = 1 .. Len(channel) /\ Len(channel) \in Nat \ {0}
      BY <2>1, <1>1, LenProperties, EmptySeq
    <2>3. Head(channel) = channel[1] /\ Head(channel) \in Messages
      BY <2>1, <1>1, HeadTailProperties
    <2> QED BY <2>2, <2>3, <1>1 DEF IsRow
  <1>3. Head(channel).row \in Rows
    BY <1>1, <1>2, MessageFacts
  <1>4. PICK n \in 0 .. MaxRows : StoredInOrder(n) /\ NextId(n)
    BY DEF ArchiveInv
  <1>5. n = committed
    BY <1>1, <1>4 DEF NextId, Shapes
  <1>6. n < Head(channel).row
    <2>1. CASE n = 0
      BY <2>1, <1>3 DEF Rows
    <2>2. CASE n > 0
      <3>1. n - 1 \in 0 .. n - 1 /\ n \in Nat /\ MaxRows \in Nat
        BY <2>2, ArchiveAssumption
      <3>2. stored[n - 1] < Head(channel).row /\ n - 1 < stored[n - 1]
        BY <3>1, <1>2, <1>4 DEF StoredInOrder
      <3>3. n - 1 \in Ids /\ stored[n - 1] # Nil
        <4>1. n - 1 \in StoredIds
          BY <3>1, <1>4 DEF StoredInOrder
        <4> QED BY <4>1 DEF StoredIds
      <3>4. stored[n - 1] \in Rows
        BY <3>3, <1>1 DEF Shapes
      <3> QED BY <3>1, <3>2, <3>4, <1>3, WriterFacts, <1>1
    <2> QED BY <2>1, <2>2, ArchiveAssumption
  <1> QED BY <1>3, <1>4, <1>5, <1>6, <1>1, WriterFacts DEF Ids, Rows

LEMMA ShapesKept ==
    ASSUME ArchiveInv, Next
    PROVE  Shapes'
  <1> USE DEF Shapes
  <1>0. Shapes /\ MaxRows \in Nat /\ Apis \subseteq {"c", "rust"}
    BY ArchiveAssumption DEF ArchiveInv
  <1>1. CASE Open
    <2>1. PICK n \in 0 .. MaxRows : StoredInOrder(n)
      BY DEF ArchiveInv
    <2>2. n \in Nat
      BY <1>0
    <2>3. Cardinality(StoredIds) \in Nat
      BY <2>1, <2>2, StoredCount
    <2> QED BY <1>0, <1>1, <2>3, EmptySeq DEF Open, Idle
  <1>2. CASE Crash
    BY <1>0, <1>2, EmptySeq DEF Crash, Gone
  <1>3. CASE Take
    <2>1. Head(channel).row \in Rows /\ committed \in Ids /\ channel \in Seq(Messages) /\ channel # <<>>
      BY <1>0, <1>3, IdIsLeft DEF Take
    <2>2. channel' \in Seq(Messages)
      BY <2>1, <1>3, Taken DEF Take
    <2>3. writer' \in [at : {"commit", "advance"}, row : Rows, traj : Ids]
      BY <2>1, <1>3 DEF Take, Writing
    <2> QED BY <1>0, <1>3, <2>2, <2>3 DEF Take
  <1>4. CASE CommitRow
    <2>1. writer \in [at : {"commit", "advance"}, row : Rows, traj : Ids] /\ writer.row \in Rows
      BY <1>0, <1>4 DEF CommitRow
    <2>2. writer' \in [at : {"commit", "advance"}, row : Rows, traj : Ids]
      BY <2>1, <1>4 DEF CommitRow
    <2>3. stored' \in [Ids -> Rows \cup {Nil}]
      BY <1>0, <2>1, <1>4 DEF CommitRow
    <2> QED BY <1>0, <1>4, <2>2, <2>3 DEF CommitRow
  <1>5. CASE Advance
    <2>1. writer.traj + 1 \in Nat
      BY <1>0, <1>5, WriterFacts DEF Advance, Busy
    <2> QED BY <1>0, <1>5, <2>1 DEF Advance, Idle
  <1>6. CASE Fail
    BY <1>0, <1>6 DEF Fail, Idle
  <1>7. CASE Answer
    <2>1. channel' \in Seq(Messages)
      BY <1>0, <1>7, Taken DEF Answer
    <2> QED BY <1>0, <1>7, <2>1 DEF Answer, Goto
  <1>8. CASE Exit
    BY <1>0, <1>8 DEF Exit, Gone
  <1>9. ASSUME NEW th \in Threads, Caller(th)
        PROVE  Shapes'
    <2>1. CASE Send(th)
      <3>1. sent + 1 \in Rows /\ sent + 1 \in 0 .. MaxRows
        BY <1>0, <2>1 DEF Send, Rows
      <3>2. channel' \in Seq(Messages)
        BY <1>0, <2>1, <3>1, Sent, MessageFacts DEF Send
      <3> QED BY <1>0, <2>1, <3>1, <3>2 DEF Send, Goto, Hold
    <2>2. CASE RequestFlush(th)
      <3>1. channel' \in Seq(Messages)
        BY <1>0, <2>2, Sent, MessageFacts DEF RequestFlush
      <3> QED BY <1>0, <2>2, <3>1 DEF RequestFlush, Goto, Hold
    <2>3. CASE \E what \in {"append", "flush", "close"} : Call(th, what)
      BY <1>0, <2>3 DEF Call, Goto
    <2>4. CASE Refused(th) \/ Joined(th) \/ Flushed(th)
      BY <1>0, <2>4 DEF Refused, Joined, Flushed, Goto, Release
    <2>5. CASE Close(th)
      BY <1>0, <2>5 DEF Close, Goto, Hold
    <2>6. CASE Count(th)
      BY <1>0, <2>6 DEF Count, Goto, Release
    <2> QED BY <1>9, <2>1, <2>2, <2>3, <2>4, <2>5, <2>6 DEF Caller
  <1> QED BY <1>1, <1>2, <1>3, <1>4, <1>5, <1>6, <1>7, <1>8, <1>9 DEF Next, Writer

LEMMA AloneKept ==
    ASSUME ArchiveInv, Next
    PROVE  AloneInside'
  <1> USE DEF AloneInside, Inside
  <1>0. AloneInside /\ api \in {"c", "rust"} /\ Nil \notin Threads
        /\ pc \in [Threads -> {"idle", "append", "count", "flush", "waiting", "answered",
                               "close", "joining"}]
    BY ArchiveAssumption DEF ArchiveInv, Shapes
  <1>1. CASE Open
    BY <1>0, <1>1 DEF Open
  <1>2. CASE Crash
    BY <1>0, <1>2 DEF Crash
  <1>3. CASE Take \/ CommitRow \/ Advance \/ Fail \/ Exit
    BY <1>0, <1>3 DEF Take, CommitRow, Advance, Fail, Exit
  <1>4. CASE Answer
    <2>1. /\ channel \in Seq(Messages) /\ channel # <<>> /\ channel' = Tail(channel)
          /\ Head(channel).msg = "flush"
      BY <1>4 DEF ArchiveInv, Shapes, Answer
    <2>2. IsFlush(1) /\ channel[1] = Head(channel)
      BY <2>1, Taken DEF IsFlush
    <2>3. pc[Head(channel).from] = "waiting"
      BY <2>2 DEF ArchiveInv, Requests, IsFlush
    <2> QED BY <1>0, <1>4, <2>3 DEF Answer, Goto
  <1>5. ASSUME NEW th \in Threads, Caller(th)
        PROVE  AloneInside'
    <2>1. CASE Send(th)
      BY <1>0, <2>1 DEF Send, Goto, Hold, MayEnter
    <2>2. CASE RequestFlush(th)
      BY <1>0, <2>2 DEF RequestFlush, Goto, Hold, MayEnter
    <2>3. CASE \E what \in {"append", "flush", "close"} : Call(th, what)
      BY <1>0, <2>3 DEF Call, Goto
    <2>4. CASE Refused(th)
      BY <1>0, <2>4 DEF Refused, Goto
    <2>5. CASE Close(th)
      BY <1>0, <2>5 DEF Close, Goto, Hold, MayEnter
    <2>6. CASE Joined(th)
      BY <1>0, <2>6 DEF Joined, Goto, Release
    <2>7. CASE Count(th) \/ Flushed(th)
      BY <1>0, <2>7 DEF Count, Flushed, Goto, Release
    <2> QED BY <1>5, <2>1, <2>2, <2>3, <2>4, <2>5, <2>6, <2>7 DEF Caller
  <1> QED BY <1>1, <1>2, <1>3, <1>4, <1>5 DEF Next, Writer

-----------------------------------------------------------------------------
(* The order of what is on its way.                                        *)

LEMMA NothingInEmpty ==
    ASSUME channel' = <<>>
    PROVE  \A i : i \notin DOMAIN channel'
  <1>1. DOMAIN channel' = {}
    OBVIOUS
  <1> QED BY <1>1

LEMMA OrderKept ==
    ASSUME ArchiveInv, Next
    PROVE  InOrder'
  <1> USE DEF InOrder, IsRow
  <1>0. InOrder /\ channel \in Seq(Messages) /\ sent \in Nat
    BY ArchiveAssumption DEF ArchiveInv, Shapes
  <1>1. CASE Open \/ Crash
    BY <1>1, NothingInEmpty DEF Open, Crash, Busy, Idle, Gone
  <1>2. CASE Take
    <2>1. channel # <<>> /\ channel' = Tail(channel) /\ sent' = sent /\ Head(channel).msg = "row"
          /\ writer'.row = Head(channel).row
      BY <1>2 DEF Take, Writing
    <2>2. /\ 1 \in DOMAIN channel /\ channel[1] = Head(channel)
          /\ \A i \in DOMAIN channel' :
                i \in Nat /\ i + 1 \in DOMAIN channel /\ 1 < i + 1 /\ channel'[i] = channel[i + 1]
      BY <1>0, <2>1, Taken
    <2> QED BY <1>0, <2>1, <2>2
  <1>3. CASE CommitRow
    BY <1>0, <1>3 DEF CommitRow, Busy, Shapes, ArchiveInv
  <1>4. CASE Advance \/ Fail \/ Exit
    BY <1>0, <1>4 DEF Advance, Fail, Exit, Busy, Idle, Gone
  <1>5. CASE Answer
    <2>1. channel # <<>> /\ channel' = Tail(channel) /\ sent' = sent /\ writer' = writer /\ ~Busy'
      BY <1>5 DEF Answer, Busy, Idle
    <2>2. /\ \A i \in DOMAIN channel' :
                i \in Nat /\ i + 1 \in DOMAIN channel /\ 1 < i + 1 /\ channel'[i] = channel[i + 1]
      BY <1>0, <2>1, Taken
    <2> QED BY <1>0, <2>1, <2>2
  <1>6. ASSUME NEW th \in Threads, Caller(th)
        PROVE  InOrder'
    <2>1. CASE Send(th)
      <3>1. channel' = Append(channel, RowMsg(sent + 1)) /\ sent' = sent + 1 /\ writer' = writer
            /\ sent + 1 \in Rows
        BY <1>0, <2>1, ArchiveAssumption DEF Send, Rows
      <3> DEFINE new == Len(channel) + 1
      <3>2. /\ \A i \in DOMAIN channel : channel'[i] = channel[i] /\ i \in Nat /\ i < new
            /\ \A i \in DOMAIN channel' : i \in DOMAIN channel \/ i = new
            /\ channel'[new].row = sent + 1 /\ new \in Nat
        BY <1>0, <3>1, Sent, MessageFacts
      <3>3. \A i \in DOMAIN channel : IsRow(i) => channel[i].row \in Nat
        BY <1>0, MessageFacts, ElementOfSeq, LenProperties DEF Rows
      <3>4. Busy => writer.row \in Nat
        BY WriterFacts DEF ArchiveInv
      <3> HIDE DEF new
      <3> QED BY <1>0, <3>1, <3>2, <3>3, <3>4 DEF Busy
    <2>2. CASE RequestFlush(th)
      <3>1. channel' = Append(channel, FlushMsg(th)) /\ sent' = sent /\ writer' = writer
        BY <2>2 DEF RequestFlush
      <3> DEFINE new == Len(channel) + 1
      <3>2. /\ \A i \in DOMAIN channel : channel'[i] = channel[i]
            /\ \A i \in DOMAIN channel' : i \in DOMAIN channel \/ i = new
            /\ channel'[new].msg = "flush"
        BY <1>0, <3>1, Sent, MessageFacts
      <3> HIDE DEF new
      <3> QED BY <1>0, <3>1, <3>2 DEF Busy
    <2>3. CASE UNCHANGED <<channel, sent, writer>>
      BY <1>0, <2>3 DEF Busy
    <2> QED BY <1>6, <2>1, <2>2, <2>3 DEF Caller, Call, Refused, Close, Joined, Count, Flushed
  <1> QED BY <1>1, <1>2, <1>3, <1>4, <1>5, <1>6 DEF Next, Writer

\* Taking the first message leaves every other request as it was.
LEMMA RequestsMoveUp ==
    ASSUME channel \in Seq(Messages), channel # <<>>, channel' = Tail(channel), Requests, mark' = mark
    PROVE  \A i \in DOMAIN channel' : IsFlush(i)' =>
              /\ pc[channel'[i].from] = "waiting"
              /\ \A j \in DOMAIN channel' : IsFlush(j)' /\ channel'[j].from = channel'[i].from => j = i
              /\ \A j \in DOMAIN channel' : IsRow(j)' /\ i < j => mark'[channel'[i].from] < channel'[j].row
  <1>1. \A i \in DOMAIN channel' :
            i \in Nat /\ i + 1 \in DOMAIN channel /\ channel'[i] = channel[i + 1]
    BY Taken
  <1>2. SUFFICES ASSUME NEW i \in DOMAIN channel', IsFlush(i)'
                 PROVE  /\ pc[channel'[i].from] = "waiting"
                        /\ \A j \in DOMAIN channel' : IsFlush(j)' /\ channel'[j].from = channel'[i].from => j = i
                        /\ \A j \in DOMAIN channel' : IsRow(j)' /\ i < j => mark'[channel'[i].from] < channel'[j].row
    OBVIOUS
  <1>3. IsFlush(i + 1) /\ channel'[i] = channel[i + 1] /\ i \in Nat /\ i + 1 \in DOMAIN channel
    BY <1>1, <1>2 DEF IsFlush
  <1>4. pc[channel[i + 1].from] = "waiting"
    BY <1>3 DEF Requests
  <1>5. ASSUME NEW j \in DOMAIN channel', IsFlush(j)', channel'[j].from = channel'[i].from
        PROVE  j = i
    <2>1. IsFlush(j + 1) /\ channel[j + 1].from = channel[i + 1].from /\ j \in Nat /\ j + 1 \in DOMAIN channel
      BY <1>1, <1>3, <1>5 DEF IsFlush
    <2>2. j + 1 = i + 1
      BY <1>3, <2>1 DEF Requests
    <2> QED BY <1>3, <2>1, <2>2
  <1>6. ASSUME NEW j \in DOMAIN channel', IsRow(j)', i < j
        PROVE  mark'[channel'[i].from] < channel'[j].row
    <2>1. IsRow(j + 1) /\ channel'[j] = channel[j + 1] /\ j \in Nat /\ j + 1 \in DOMAIN channel
      BY <1>1, <1>6 DEF IsRow
    <2>2. i + 1 < j + 1
      BY <1>3, <1>6, <2>1
    <2>3. mark[channel[i + 1].from] < channel[j + 1].row
      BY <1>3, <2>1, <2>2 DEF Requests
    <2> QED BY <1>3, <2>1, <2>3
  <1> QED BY <1>3, <1>4, <1>5, <1>6

LEMMA RequestsKept ==
    ASSUME ArchiveInv, Next
    PROVE  Requests'
  <1> USE DEF Requests, IsRow, IsFlush
  <1>0. Requests /\ channel \in Seq(Messages) /\ sent \in Nat /\ mark \in [Threads -> Nat]
        /\ pc \in [Threads -> {"idle", "append", "count", "flush", "waiting", "answered",
                               "close", "joining"}]
    BY ArchiveAssumption DEF ArchiveInv, Shapes
  <1>a. \A i \in DOMAIN channel : channel[i] \in Messages
    BY <1>0, ElementOfSeq, LenProperties
  <1>1. CASE Open \/ Crash
    BY <1>0, <1>1, NothingInEmpty DEF Open, Crash
  <1>2. CASE Take
    <2>1. channel # <<>> /\ channel' = Tail(channel) /\ UNCHANGED <<sent, mark, pc>>
      BY <1>2 DEF Take
    <2> QED BY <1>0, <2>1, RequestsMoveUp
  <1>3. CASE Answer
    <2> DEFINE from == Head(channel).from
    <2>1. channel # <<>> /\ channel' = Tail(channel) /\ UNCHANGED <<sent, mark>>
          /\ Head(channel).msg = "flush" /\ pc' = [pc EXCEPT ![from] = "answered"]
      BY <1>3 DEF Answer, Goto
    <2>2. /\ 1 \in DOMAIN channel /\ channel[1] = Head(channel)
          /\ \A i \in DOMAIN channel' :
                i \in Nat /\ i + 1 \in DOMAIN channel /\ 1 < i + 1 /\ channel'[i] = channel[i + 1]
      BY <1>0, <2>1, Taken
    <2>3. \A i \in DOMAIN channel' : IsFlush(i)' => channel'[i].from # from /\ channel'[i].from \in Threads
      BY <1>0, <1>a, <2>1, <2>2, MessageFacts
    <2> HIDE DEF from
    <2>4. \A i \in DOMAIN channel' : IsFlush(i)' => pc[channel'[i].from] = "waiting"
      BY <1>0, <2>1, RequestsMoveUp
    <2>5. \A i \in DOMAIN channel' : IsFlush(i)' => pc'[channel'[i].from] = "waiting"
      BY <1>0, <2>1, <2>3, <2>4
    <2> QED BY <1>0, <2>1, <2>5, RequestsMoveUp
  <1>4. CASE CommitRow \/ Advance \/ Fail \/ Exit
    BY <1>0, <1>4 DEF CommitRow, Advance, Fail, Exit
  <1>5. ASSUME NEW th \in Threads, Caller(th)
        PROVE  Requests'
    <2>1. CASE Send(th)
      <3>1. channel' = Append(channel, RowMsg(sent + 1)) /\ sent' = sent + 1 /\ mark' = mark
            /\ pc[th] = "append" /\ pc' = [pc EXCEPT ![th] = "count"] /\ sent + 1 \in Rows
        BY <1>0, <2>1, ArchiveAssumption DEF Send, Goto, Rows
      <3> DEFINE new == Len(channel) + 1
      <3>2. /\ \A i \in DOMAIN channel : channel'[i] = channel[i] /\ i \in Nat /\ i < new
            /\ \A i \in DOMAIN channel' : i \in DOMAIN channel \/ i = new
            /\ channel'[new].msg = "row" /\ channel'[new].row = sent + 1 /\ new \in Nat
        BY <1>0, <3>1, Sent, MessageFacts
      <3>3. \A i \in DOMAIN channel : IsFlush(i) => channel[i].from \in Threads
        BY <1>a, MessageFacts
      <3> HIDE DEF new
      <3> QED BY <1>0, <3>1, <3>2, <3>3
    <2>2. CASE RequestFlush(th)
      <3>1. channel' = Append(channel, FlushMsg(th)) /\ sent' = sent /\ mark' = [mark EXCEPT ![th] = sent]
            /\ pc[th] = "flush" /\ pc' = [pc EXCEPT ![th] = "waiting"]
        BY <2>2 DEF RequestFlush, Goto
      <3> DEFINE new == Len(channel) + 1
      <3>2. /\ \A i \in DOMAIN channel : channel'[i] = channel[i] /\ i \in Nat /\ i < new
            /\ \A i \in DOMAIN channel' : i \in DOMAIN channel \/ i = new
            /\ channel'[new].msg = "flush" /\ channel'[new].from = th /\ new \in Nat
        BY <1>0, <3>1, Sent, MessageFacts
      <3>3. \A i \in DOMAIN channel : IsFlush(i) => channel[i].from \in Threads /\ channel[i].from # th
        BY <1>0, <1>a, <3>1, MessageFacts
      <3>4. \A u \in Threads : mark'[u] <= sent'
        BY <1>0, <3>1
      <3> HIDE DEF new
      <3> QED BY <1>0, <3>1, <3>2, <3>3, <3>4
    <2>3. CASE /\ UNCHANGED <<channel, sent, mark>> /\ pc[th] # "waiting"
               /\ \E at \in {"idle", "append", "flush", "close", "joining"} : pc' = [pc EXCEPT ![th] = at]
      <3>1. \A i \in DOMAIN channel : IsFlush(i) => channel[i].from \in Threads /\ channel[i].from # th
        BY <1>0, <1>a, <2>3, MessageFacts
      <3> QED BY <1>0, <2>3, <3>1
    <2> QED BY <1>5, <2>1, <2>2, <2>3 DEF Caller, Call, Refused, Close, Joined, Count, Flushed, Goto
  <1> QED BY <1>1, <1>2, <1>3, <1>4, <1>5 DEF Next, Writer

-----------------------------------------------------------------------------
(* The rows on their way, as a set.                                        *)

LEMMA InPending ==
    \A row : row \in Pending <=>
        \/ \E i \in DOMAIN channel : IsRow(i) /\ row = channel[i].row
        \/ Busy /\ row = writer.row
  BY DEF Pending, IsRow

LEMMA InPendingNext ==
    \A row : row \in Pending' <=>
        \/ \E i \in DOMAIN channel' : IsRow(i)' /\ row = channel'[i].row
        \/ Busy' /\ row = writer'.row
  BY DEF Pending, IsRow

\* They are rows that were accepted, so finitely many.
LEMMA PendingBounded ==
    ASSUME Shapes, InOrder
    PROVE  /\ \A row \in Pending : row \in Nat /\ row <= sent
           /\ IsFiniteSet(Pending) /\ Cardinality(Pending) \in Nat
  <1>1. channel \in Seq(Messages) /\ sent \in Nat
    BY ArchiveAssumption DEF Shapes
  <1>2. \A i \in DOMAIN channel : channel[i] \in Messages
    BY <1>1, ElementOfSeq, LenProperties
  <1>3. ASSUME NEW row \in Pending
        PROVE  row \in 1 .. sent
    <2>1. CASE \E i \in DOMAIN channel : IsRow(i) /\ row = channel[i].row
      BY <1>1, <1>2, <2>1, MessageFacts DEF InOrder, IsRow, Rows
    <2>2. CASE Busy /\ row = writer.row
      BY <1>1, <2>2, WriterFacts DEF InOrder, Rows
    <2> QED BY <1>3, <2>1, <2>2, InPending
  <1>4. IsFiniteSet(1 .. sent)
    BY <1>1, FS_Interval
  <1>5. IsFiniteSet(Pending)
    BY <1>3, <1>4, FS_Subset
  <1> QED BY <1>1, <1>3, <1>5, FS_CardinalityType

\* A row that is accepted joins them, and was not among them.
LEMMA PendingSent ==
    ASSUME ArchiveInv, NEW th \in Threads, Send(th)
    PROVE  Pending' = Pending \cup {sent + 1} /\ sent + 1 \notin Pending
  <1>1. channel \in Seq(Messages) /\ sent \in Nat /\ Shapes /\ InOrder
    BY ArchiveAssumption DEF ArchiveInv, Shapes
  <1>2. channel' = Append(channel, RowMsg(sent + 1)) /\ writer' = writer /\ sent + 1 \in Rows
    BY <1>1, ArchiveAssumption DEF Send, Rows
  <1> DEFINE new == Len(channel) + 1
  <1>3. /\ \A i \in DOMAIN channel : i \in DOMAIN channel' /\ channel'[i] = channel[i]
        /\ \A i \in DOMAIN channel' : i \in DOMAIN channel \/ i = new
        /\ new \in DOMAIN channel' /\ channel'[new].msg = "row" /\ channel'[new].row = sent + 1
    BY <1>1, <1>2, Sent, MessageFacts
  <1> HIDE DEF new
  <1>4. \A row : row \in Pending' <=> row \in Pending \/ row = sent + 1
    BY <1>2, <1>3, InPending, InPendingNext DEF IsRow, Busy
  <1>5. sent + 1 \notin Pending
    BY <1>1, PendingBounded
  <1> QED BY <1>4, <1>5

\* The writer's row leaves them when it is committed and counted, or fails.
LEMMA PendingDone ==
    ASSUME ArchiveInv, Advance \/ Fail
    PROVE  Pending' = Pending \ {writer.row} /\ writer.row \in Pending
  <1>1. channel \in Seq(Messages) /\ Shapes /\ InOrder /\ Busy /\ ~Busy' /\ channel' = channel
    BY DEF ArchiveInv, Shapes, Advance, Fail, Busy, Idle
  <1>2. \A i \in DOMAIN channel : channel[i] \in Messages
    BY <1>1, ElementOfSeq, LenProperties
  <1>3. \A i \in DOMAIN channel : IsRow(i) => channel[i].row # writer.row
    BY <1>1, <1>2, WriterFacts, MessageFacts DEF InOrder, IsRow, Rows
  <1>4. \A row : row \in Pending' <=> row \in Pending /\ row # writer.row
    BY <1>1, <1>3, InPending, InPendingNext DEF IsRow
  <1>5. writer.row \in Pending
    BY <1>1, InPending
  <1> QED BY <1>4, <1>5

\* Moving a row to the writer or into the corpus, and what has to do with
\* flushes, leaves them alone.
LEMMA PendingSame ==
    ASSUME ArchiveInv,
           \/ Take \/ CommitRow \/ Answer \/ Exit
           \/ \E th \in Threads : RequestFlush(th)
           \/ UNCHANGED <<channel, writer>>
    PROVE  Pending' = Pending
  <1>0. channel \in Seq(Messages) /\ Shapes
    BY DEF ArchiveInv, Shapes
  <1>1. CASE Take
    <2>1. /\ channel # <<>> /\ channel' = Tail(channel) /\ Head(channel).msg = "row" /\ ~Busy
          /\ Busy' /\ writer'.row = Head(channel).row
      BY <1>1 DEF Take, Idle, Writing, Busy
    <2>2. /\ 1 \in DOMAIN channel /\ channel[1] = Head(channel)
          /\ \A i \in DOMAIN channel' : i + 1 \in DOMAIN channel /\ channel'[i] = channel[i + 1]
          /\ \A i \in DOMAIN channel : i # 1 => i - 1 \in DOMAIN channel' /\ channel[i] = channel'[i - 1]
      BY <1>0, <2>1, Taken
    <2>3. ASSUME NEW row \in Pending
          PROVE  row \in Pending'
      <3>1. PICK i \in DOMAIN channel : IsRow(i) /\ row = channel[i].row
        BY <2>1, InPending
      <3>2. CASE i = 1
        BY <2>1, <2>2, <3>1, <3>2, InPendingNext
      <3>3. CASE i # 1
        <4>1. i - 1 \in DOMAIN channel' /\ channel'[i - 1] = channel[i]
          BY <2>2, <3>3
        <4>2. \E k \in DOMAIN channel' : channel'[k] = channel[i]
          BY <4>1
        <4> QED BY <3>1, <4>2, InPendingNext DEF IsRow
      <3> QED BY <3>2, <3>3
    <2>4. \A row : row \in Pending' => row \in Pending
      BY <2>1, <2>2, InPending, InPendingNext DEF IsRow
    <2> QED BY <2>3, <2>4
  <1>2. CASE CommitRow
    <2>1. channel' = channel /\ Busy /\ Busy' /\ writer'.row = writer.row
      BY <1>0, <1>2 DEF CommitRow, Busy, Shapes
    <2>2. \A row : row \in Pending' <=> row \in Pending
      BY <2>1, InPending, InPendingNext DEF IsRow
    <2> QED BY <2>2
  <1>3. CASE Answer
    <2>1. /\ channel # <<>> /\ channel' = Tail(channel) /\ Head(channel).msg = "flush"
          /\ ~Busy /\ ~Busy'
      BY <1>3 DEF Answer, Idle, Busy
    <2>2. /\ 1 \in DOMAIN channel /\ channel[1] = Head(channel)
          /\ \A i \in DOMAIN channel' : i + 1 \in DOMAIN channel /\ channel'[i] = channel[i + 1]
          /\ \A i \in DOMAIN channel : i # 1 => i - 1 \in DOMAIN channel' /\ channel[i] = channel'[i - 1]
      BY <1>0, <2>1, Taken
    <2>3. ASSUME NEW row \in Pending
          PROVE  row \in Pending'
      <3>1. PICK i \in DOMAIN channel : IsRow(i) /\ row = channel[i].row
        BY <2>1, InPending
      <3>2. i # 1
        BY <2>1, <2>2, <3>1 DEF IsRow
      <3>3. CASE i # 1
        <4>1. i - 1 \in DOMAIN channel' /\ channel'[i - 1] = channel[i]
          BY <2>2, <3>3
        <4>2. \E k \in DOMAIN channel' : channel'[k] = channel[i]
          BY <4>1
        <4> QED BY <3>1, <4>2, InPendingNext DEF IsRow
      <3> QED BY <3>2, <3>3
    <2>4. \A row : row \in Pending' => row \in Pending
      BY <2>1, <2>2, InPending, InPendingNext DEF IsRow
    <2> QED BY <2>3, <2>4
  <1>4. CASE Exit
    <2>1. channel' = channel /\ ~Busy /\ ~Busy'
      BY <1>4 DEF Exit, Busy, Idle, Gone
    <2>2. \A row : row \in Pending' <=> row \in Pending
      BY <2>1, InPending, InPendingNext DEF IsRow
    <2> QED BY <2>2
  <1>5. ASSUME NEW th \in Threads, RequestFlush(th)
        PROVE  Pending' = Pending
    <2>1. channel' = Append(channel, FlushMsg(th)) /\ writer' = writer
      BY <1>5 DEF RequestFlush
    <2> DEFINE new == Len(channel) + 1
    <2>2. /\ \A i \in DOMAIN channel : i \in DOMAIN channel' /\ channel'[i] = channel[i]
          /\ \A i \in DOMAIN channel' : i \in DOMAIN channel \/ i = new
          /\ channel'[new].msg = "flush"
      BY <1>0, <2>1, Sent, MessageFacts
    <2> HIDE DEF new
    <2>3. \A row : row \in Pending' <=> row \in Pending
      BY <2>1, <2>2, InPending, InPendingNext DEF IsRow, Busy
    <2> QED BY <2>3
  <1>6. CASE UNCHANGED <<channel, writer>>
    BY <1>6 DEF Pending, Busy
  <1> QED BY <1>1, <1>2, <1>3, <1>4, <1>5, <1>6

\* An archive that is opened or killed starts with an empty channel.
LEMMA PendingNone ==
    ASSUME Open \/ Crash
    PROVE  Pending' = {}
  <1>1. \A row : row \notin Pending'
    BY NothingInEmpty, InPendingNext DEF Open, Crash, Busy, Idle, Gone
  <1> QED BY <1>1

LEMMA FlushKept ==
    ASSUME ArchiveInv, Next
    PROVE  FlushCoversEarlierRows'
  <1> USE DEF FlushCoversEarlierRows
  <1>0. /\ Shapes /\ FlushCoversEarlierRows /\ Requests
        /\ pc \in [Threads -> {"idle", "append", "count", "flush", "waiting", "answered",
                               "close", "joining"}]
        /\ mark \in [Threads -> Nat] /\ sent \in Nat /\ \A th \in Threads : mark[th] <= sent
    BY ArchiveAssumption DEF ArchiveInv, Shapes, Requests
  <1>1. CASE Open \/ Crash
    BY <1>1, PendingNone
  <1>2. CASE Take \/ CommitRow \/ Exit
    <2>1. Pending' = Pending /\ UNCHANGED <<pc, mark>>
      BY <1>2, PendingSame DEF Take, CommitRow, Exit
    <2> QED BY <1>0, <2>1
  <1>3. CASE Advance \/ Fail
    <2>1. Pending' \subseteq Pending /\ UNCHANGED <<pc, mark>>
      BY <1>3, PendingDone DEF Advance, Fail
    <2> QED BY <1>0, <2>1
  <1>4. CASE Answer
    <2> DEFINE from == Head(channel).from
    <2>1. /\ channel \in Seq(Messages) /\ channel # <<>> /\ Head(channel).msg = "flush" /\ ~Busy
          /\ pc' = [pc EXCEPT ![from] = "answered"] /\ mark' = mark /\ Pending' = Pending
      BY <1>0, <1>4, PendingSame DEF Answer, Goto, Idle, Busy, Shapes
    <2>2. 1 \in DOMAIN channel /\ channel[1] = Head(channel) /\ DOMAIN channel = 1 .. Len(channel)
          /\ Head(channel) \in Messages
      BY <2>1, HeadTailProperties, LenProperties, EmptySeq
    <2>3. ASSUME NEW row \in Pending
          PROVE  mark[from] < row
      <3>1. PICK i \in DOMAIN channel : IsRow(i) /\ row = channel[i].row
        BY <2>1, InPending
      <3>2. 1 < i
        BY <2>1, <2>2, <3>1 DEF IsRow
      <3> QED BY <1>0, <2>1, <2>2, <3>1, <3>2 DEF Requests, IsFlush
    <2>4. from \in Threads
      BY <2>1, <2>2, MessageFacts
    <2> HIDE DEF from
    <2> QED BY <1>0, <2>1, <2>3, <2>4
  <1>5. ASSUME NEW th \in Threads, Caller(th)
        PROVE  FlushCoversEarlierRows'
    <2>1. CASE Send(th)
      <3>1. /\ Pending' = Pending \cup {sent + 1} /\ mark' = mark
            /\ pc[th] = "append" /\ pc' = [pc EXCEPT ![th] = "count"]
        BY <2>1, PendingSent DEF Send, Goto
      <3> QED BY <1>0, <3>1
    <2>2. CASE RequestFlush(th)
      <3>1. /\ Pending' = Pending /\ pc' = [pc EXCEPT ![th] = "waiting"]
            /\ mark' = [mark EXCEPT ![th] = sent]
        BY <2>2, PendingSame DEF RequestFlush, Goto
      <3> QED BY <1>0, <3>1
    <2>3. CASE /\ UNCHANGED <<channel, writer, mark>>
               /\ \E at \in {"idle", "append", "flush", "close", "joining"} : pc' = [pc EXCEPT ![th] = at]
      <3>1. Pending' = Pending
        BY <2>3, PendingSame
      <3> QED BY <1>0, <2>3, <3>1
    <2> QED BY <1>5, <2>1, <2>2, <2>3 DEF Caller, Call, Refused, Close, Joined, Count, Flushed, Goto
  <1> QED BY <1>1, <1>2, <1>3, <1>4, <1>5 DEF Next, Writer

-----------------------------------------------------------------------------
(* The corpus.                                                             *)

\* The first n rows stay below what is still to come, wherever a row is.
LEMMA StoredKept ==
    ASSUME ArchiveInv, Next
    PROVE  \E n \in 0 .. MaxRows : StoredInOrder(n)' /\ NextId(n)'
  <1> USE DEF StoredInOrder, NextId
  <1>0. Shapes /\ InOrder /\ channel \in Seq(Messages) /\ sent \in Nat /\ MaxRows \in Nat
        /\ committed \in Nat /\ stored \in [Ids -> Rows \cup {Nil}]
    BY ArchiveAssumption DEF ArchiveInv, Shapes
  <1>1. PICK n \in 0 .. MaxRows : StoredInOrder(n) /\ NextId(n)
    BY DEF ArchiveInv
  <1>2. n \in Nat /\ \A i \in 0 .. n - 1 : i \in Ids /\ i \in Nat /\ stored[i] \in Rows /\ stored[i] \in Nat
    <2>1. \A i \in 0 .. n - 1 : i \in StoredIds
      BY <1>1
    <2> QED BY <1>0, <1>1, <2>1, WriterFacts DEF StoredIds, Rows
  <1>3. CASE Open
    <2>1. Cardinality(StoredIds) = n
      BY <1>1, <1>2, StoredCount
    <2>2. StoredIds' = StoredIds /\ sent' = sent /\ stored' = stored /\ committed' = n
          /\ writer' = Idle /\ up' /\ channel' = <<>>
      BY <1>3, <2>1 DEF Open, StoredIds
    <2> QED BY <1>0, <1>1, <2>2, NothingInEmpty DEF Idle, Busy
  <1>4. CASE Crash
    <2>1. StoredIds' = StoredIds /\ sent' = sent /\ stored' = stored
          /\ writer' = Gone /\ ~up' /\ channel' = <<>>
      BY <1>4 DEF Crash, StoredIds
    <2> QED BY <1>0, <1>1, <2>1, NothingInEmpty DEF Gone, Busy
  <1>5. CASE Take
    <2>1. /\ channel # <<>> /\ channel' = Tail(channel) /\ Head(channel).msg = "row" /\ writer = Idle
          /\ writer' = Writing(Head(channel).row, committed)
          /\ UNCHANGED <<up, stored, sent, committed>> /\ StoredIds' = StoredIds
      BY <1>5 DEF Take, StoredIds
    <2>2. /\ 1 \in DOMAIN channel /\ channel[1] = Head(channel)
          /\ \A i \in DOMAIN channel' : i + 1 \in DOMAIN channel /\ channel'[i] = channel[i + 1]
      BY <1>0, <2>1, Taken
    <2>3. \A i \in 0 .. n - 1, j \in DOMAIN channel' : IsRow(j)' => stored[i] < channel'[j].row
      BY <1>1, <2>2 DEF IsRow
    <2>4. \A i \in 0 .. n - 1 : stored[i] < Head(channel).row
      BY <1>1, <2>1, <2>2 DEF IsRow
    <2>5. writer'.at = "commit" /\ writer'.row = Head(channel).row /\ writer'.traj = committed /\ writer' # Gone
          /\ writer.at = "idle" /\ writer # Gone
      BY <2>1 DEF Writing, Gone, Idle
    <2> QED BY <1>1, <2>1, <2>3, <2>4, <2>5 DEF Busy
  <1>6. CASE CommitRow
    <2>1. /\ writer.at = "commit" /\ writer.traj = n /\ writer.traj \in Ids /\ writer.row \in Rows
          /\ writer \in [at : {"commit", "advance"}, row : Rows, traj : Ids] /\ up
          /\ committed = n
      BY <1>0, <1>1, <1>6, WriterFacts DEF CommitRow, Busy, Shapes, Gone
    <2>2. /\ stored' = [stored EXCEPT ![n] = writer.row] /\ writer' = [writer EXCEPT !.at = "advance"]
          /\ UNCHANGED <<up, channel, sent, committed>>
      BY <1>6, <2>1 DEF CommitRow
    <2>3. stored'[n] = writer.row /\ \A i \in 0 .. n - 1 : stored'[i] = stored[i]
      BY <1>0, <1>2, <2>1, <2>2
    <2>4. n + 1 \in 0 .. MaxRows /\ n + 1 \in Nat /\ \A i \in 0 .. (n + 1) - 1 : i \in 0 .. n - 1 \/ i = n
      BY <1>0, <1>2, <2>1 DEF Ids
    <2>5. StoredIds' = 0 .. (n + 1) - 1
      <3>1. \A i : i \in StoredIds' <=> i \in StoredIds \/ i = n
        BY <1>0, <1>2, <2>1, <2>2, WriterFacts DEF StoredIds
      <3>2. \A i : i \in 0 .. (n + 1) - 1 <=> i \in 0 .. n - 1 \/ i = n
        BY <1>2
      <3> QED BY <1>1, <3>1, <3>2
    <2>6. n < writer.row
      <3>1. CASE n = 0
        BY <2>1, <3>1 DEF Rows
      <3>2. CASE n # 0
        <4>1. n - 1 \in 0 .. n - 1
          BY <1>2, <3>2
        <4>2. n - 1 < stored[n - 1] /\ stored[n - 1] < writer.row /\ stored[n - 1] \in Nat
          BY <1>1, <1>2, <2>1, <4>1
        <4> QED BY <1>2, <2>1, <4>2 DEF Rows
      <3> QED BY <3>1, <3>2
    <2>7. writer.row \in Nat /\ writer.row <= sent
          /\ \A j \in DOMAIN channel : IsRow(j) => writer.row < channel[j].row
      BY <1>0, <2>1, WriterFacts DEF InOrder, Busy
    <2>8. \A i \in 0 .. (n + 1) - 1 : i < stored'[i] /\ stored'[i] <= sent'
      BY <1>1, <2>2, <2>3, <2>4, <2>6, <2>7
    <2>9. \A i, j \in 0 .. (n + 1) - 1 : i < j => stored'[i] < stored'[j]
      <3>1. SUFFICES ASSUME NEW i \in 0 .. (n + 1) - 1, NEW j \in 0 .. (n + 1) - 1, i < j
                     PROVE  stored'[i] < stored'[j]
        OBVIOUS
      <3>2. i \in 0 .. n - 1
        BY <1>2, <3>1
      <3>3. CASE j = n
        BY <1>1, <2>1, <2>3, <3>2, <3>3
      <3>4. CASE j \in 0 .. n - 1
        BY <1>1, <2>3, <3>1, <3>2, <3>4
      <3> QED BY <2>4, <3>3, <3>4
    <2>10. \A i \in 0 .. (n + 1) - 1, j \in DOMAIN channel' : IsRow(j)' => stored'[i] < channel'[j].row
      BY <1>1, <2>2, <2>3, <2>4, <2>7 DEF IsRow
    <2>11. writer'.at = "advance" /\ writer'.row = writer.row /\ writer'.traj = writer.traj
      BY <2>1, <2>2
    <2>12. StoredInOrder(n + 1)'
      BY <1>2, <2>3, <2>5, <2>8, <2>9, <2>10, <2>11
    <2>13. NextId(n + 1)'
      BY <1>0, <1>1, <2>1, <2>2, <2>11 DEF Busy
    <2> QED BY <2>4, <2>12, <2>13
  <1>7. CASE Advance
    <2>1. /\ writer.at = "advance" /\ writer.traj = committed /\ committed' = writer.traj + 1 /\ writer' = Idle
          /\ UNCHANGED <<up, channel, stored, sent>> /\ StoredIds' = StoredIds /\ up
      BY <1>1, <1>7 DEF Advance, StoredIds, Busy, Gone
    <2> QED BY <1>0, <1>1, <2>1 DEF Idle, Busy, IsRow
  <1>8. CASE Fail
    <2>1. /\ writer.at = "commit" /\ writer' = Idle /\ up
          /\ UNCHANGED <<up, channel, stored, sent, committed>> /\ StoredIds' = StoredIds
      BY <1>1, <1>8 DEF Fail, StoredIds, Gone
    <2> QED BY <1>0, <1>1, <2>1 DEF Idle, Busy, IsRow
  <1>9. CASE Answer
    <2>1. /\ channel # <<>> /\ channel' = Tail(channel)
          /\ UNCHANGED <<up, writer, stored, sent, committed>> /\ StoredIds' = StoredIds
      BY <1>9 DEF Answer, StoredIds
    <2>2. \A i \in DOMAIN channel' : i + 1 \in DOMAIN channel /\ channel'[i] = channel[i + 1]
      BY <1>0, <2>1, Taken
    <2>3. \A i \in 0 .. n - 1, j \in DOMAIN channel' : IsRow(j)' => stored[i] < channel'[j].row
      BY <1>1, <2>2 DEF IsRow
    <2> QED BY <1>1, <2>1, <2>3 DEF Busy
  <1>10. CASE Exit
    <2>1. /\ writer = Idle /\ writer' = Gone /\ UNCHANGED <<up, channel, stored, sent, committed>>
          /\ StoredIds' = StoredIds
      BY <1>10 DEF Exit, StoredIds
    <2> QED BY <1>0, <1>1, <2>1 DEF Idle, Gone, Busy, IsRow
  <1>11. ASSUME NEW th \in Threads, Caller(th)
         PROVE  StoredInOrder(n)' /\ NextId(n)'
    <2>1. CASE Send(th)
      <3>1. /\ channel' = Append(channel, RowMsg(sent + 1)) /\ sent' = sent + 1 /\ sent + 1 \in Rows
            /\ UNCHANGED <<up, writer, stored, committed>> /\ StoredIds' = StoredIds
        BY <1>0, <2>1 DEF Send, StoredIds, Rows
      <3> DEFINE new == Len(channel) + 1
      <3>2. /\ \A i \in DOMAIN channel : channel'[i] = channel[i]
            /\ \A i \in DOMAIN channel' : i \in DOMAIN channel \/ i = new
            /\ channel'[new].row = sent + 1
        BY <1>0, <3>1, Sent, MessageFacts
      <3> HIDE DEF new
      <3>3. \A i \in 0 .. n - 1 : stored[i] < sent + 1 /\ stored[i] <= sent + 1
        BY <1>0, <1>1, <1>2
      <3>4. \A i \in 0 .. n - 1, j \in DOMAIN channel' : IsRow(j)' => stored[i] < channel'[j].row
        BY <1>1, <3>2, <3>3 DEF IsRow
      <3> QED BY <1>1, <3>1, <3>3, <3>4 DEF Busy
    <2>2. CASE RequestFlush(th)
      <3>1. /\ channel' = Append(channel, FlushMsg(th))
            /\ UNCHANGED <<up, writer, stored, committed, sent>> /\ StoredIds' = StoredIds
        BY <2>2 DEF RequestFlush, StoredIds
      <3> DEFINE new == Len(channel) + 1
      <3>2. /\ \A i \in DOMAIN channel : channel'[i] = channel[i]
            /\ \A i \in DOMAIN channel' : i \in DOMAIN channel \/ i = new
            /\ channel'[new].msg = "flush"
        BY <1>0, <3>1, Sent, MessageFacts
      <3> HIDE DEF new
      <3>3. \A i \in 0 .. n - 1, j \in DOMAIN channel' : IsRow(j)' => stored[i] < channel'[j].row
        BY <1>1, <3>2 DEF IsRow
      <3> QED BY <1>1, <3>1, <3>3 DEF Busy
    <2>3. CASE Joined(th)
      BY <1>1, <2>3 DEF Joined, StoredIds, IsRow, Busy, Gone
    <2>4. CASE UNCHANGED <<up, channel, writer, stored, sent, committed>>
      BY <1>1, <2>4 DEF StoredIds, IsRow, Busy
    <2> QED BY <1>11, <2>1, <2>2, <2>3, <2>4 DEF Caller, Call, Refused, Close, Count, Flushed
  <1> QED BY <1>1, <1>3, <1>4, <1>5, <1>6, <1>7, <1>8, <1>9, <1>10, <1>11 DEF Next, Writer

-----------------------------------------------------------------------------
(* The counters.                                                           *)

\* The balance bounds every counter by the rows that were sent.
LEMMA CountersBounded ==
    ASSUME ArchiveInv, sent' \in Nat, sent' <= MaxRows, IsFiniteSet(Counting'), IsFiniteSet(Pending'),
           committed' \in Nat, dropped' \in Nat, appended' \in Nat,
           up' => /\ appended' + Cardinality(Counting') = Cardinality(Pending') + dropped' + committed'
                  /\ appended' + Cardinality(Counting') <= sent',
           ~up' => UNCHANGED <<committed, dropped, appended>>
    PROVE  Counted'
  <1>1. MaxRows \in Nat /\ committed <= MaxRows /\ dropped <= MaxRows /\ appended <= MaxRows
    BY ArchiveAssumption DEF ArchiveInv, Counted
  <1>2. Cardinality(Counting') \in Nat /\ Cardinality(Pending') \in Nat
    BY FS_CardinalityType
  <1>3. committed' <= MaxRows /\ dropped' <= MaxRows /\ appended' <= MaxRows
    BY <1>1, <1>2
  <1> QED BY <1>3 DEF Counted, NoRowUncounted, Counting

LEMMA CountedKept ==
    ASSUME ArchiveInv, Next
    PROVE  Counted'
  <1>0. /\ Shapes /\ InOrder /\ AloneInside /\ IsFiniteSet(Counting)
        /\ sent \in Nat /\ sent <= MaxRows /\ MaxRows \in Nat
        /\ committed \in Nat /\ dropped \in Nat /\ appended \in Nat
        /\ pc \in [Threads -> {"idle", "append", "count", "flush", "waiting", "answered",
                               "close", "joining"}]
    BY ArchiveAssumption DEF ArchiveInv, Shapes, Counted
  <1>1. Cardinality(Counting) \in Nat /\ Cardinality(Pending) \in Nat /\ IsFiniteSet(Pending)
    BY <1>0, FS_CardinalityType, PendingBounded
  <1>2. up => /\ appended + Cardinality(Counting) = Cardinality(Pending) + dropped + committed
              /\ appended + Cardinality(Counting) <= sent
    BY DEF ArchiveInv, Counted, NoRowUncounted, Counting
  <1>3. \* Nobody counts a row, and no row moves.
        ASSUME UNCHANGED <<sent, committed, dropped, appended>>, up' => up,
               Counting' = Counting, Pending' = Pending
        PROVE  Counted'
    BY <1>0, <1>1, <1>2, <1>3, CountersBounded
  <1>4. CASE Open
    <2>1. Counting = {} /\ Counting' = Counting /\ Pending' = {}
      BY <1>0, <1>4, PendingNone DEF Open, Counting, AloneInside, Inside
    <2>2. Cardinality(Counting') = 0 /\ Cardinality(Pending') = 0 /\ IsFiniteSet(Counting') /\ IsFiniteSet(Pending')
      BY <2>1, FS_EmptySet
    <2>3. PICK n \in 0 .. MaxRows : StoredInOrder(n)
      BY DEF ArchiveInv
    <2>4. n \in Nat /\ Cardinality(StoredIds) = n
      BY <1>0, <2>3, StoredCount
    <2>5. n <= sent
      <3>1. CASE n = 0
        BY <1>0, <3>1
      <3>2. CASE n # 0
        <4>1. n - 1 \in 0 .. n - 1
          BY <2>4, <3>2
        <4>2. n - 1 < stored[n - 1] /\ stored[n - 1] <= sent /\ n - 1 \in StoredIds
          BY <2>3, <4>1 DEF StoredInOrder
        <4>3. stored[n - 1] \in Nat
          BY <1>0, <4>2 DEF StoredIds, Shapes, Rows
        <4> QED BY <1>0, <2>4, <4>2, <4>3
      <3> QED BY <3>1, <3>2
    <2>6. committed' = n /\ appended' = n /\ dropped' = 0 /\ sent' = sent /\ up'
      BY <1>4, <2>4 DEF Open
    <2> QED BY <1>0, <2>2, <2>4, <2>5, <2>6, CountersBounded
  <1>5. CASE Crash
    <2>1. Pending' = {} /\ Counting' = {} /\ ~up' /\ UNCHANGED <<sent, committed, dropped, appended>>
      BY <1>5, PendingNone DEF Crash, Counting
    <2> QED BY <1>0, <2>1, CountersBounded, FS_EmptySet
  <1>6. CASE Take \/ CommitRow \/ Exit
    <2>1. UNCHANGED <<sent, committed, dropped, appended, up>> /\ Counting' = Counting /\ Pending' = Pending
      BY <1>6, PendingSame DEF Take, CommitRow, Exit, Counting
    <2> QED BY <1>3, <2>1
  <1>7. CASE Advance \/ Fail
    <2>1. /\ Pending' = Pending \ {writer.row} /\ writer.row \in Pending /\ Counting' = Counting
          /\ UNCHANGED <<sent, appended, up>>
      BY <1>7, PendingDone DEF Advance, Fail, Counting
    <2>2. /\ IsFiniteSet(Pending') /\ Cardinality(Pending') = Cardinality(Pending) - 1
          /\ Cardinality(Pending') \in Nat
      BY <1>1, <2>1, FS_RemoveElement, FS_CardinalityType
    <2>3. Advance => writer.traj = committed
      BY DEF ArchiveInv, NextId, Advance, Busy
    <2>4. \/ committed' = committed + 1 /\ dropped' = dropped
          \/ committed' = committed /\ dropped' = dropped + 1
      BY <1>7, <2>3 DEF Advance, Fail
    <2>5. up
      BY <1>7 DEF ArchiveInv, NextId, Advance, Fail, Gone
    <2>6. appended' + Cardinality(Counting') = Cardinality(Pending') + dropped' + committed'
          /\ committed' \in Nat /\ dropped' \in Nat
      BY <1>0, <1>1, <1>2, <2>1, <2>2, <2>4, <2>5
    <2> QED BY <1>0, <1>2, <2>1, <2>2, <2>5, <2>6, CountersBounded
  <1>8. CASE Answer
    <2>1. /\ channel \in Seq(Messages) /\ channel # <<>> /\ Head(channel).msg = "flush"
          /\ pc' = [pc EXCEPT ![Head(channel).from] = "answered"]
          /\ UNCHANGED <<sent, committed, dropped, appended, up>> /\ Pending' = Pending
      BY <1>8, PendingSame DEF ArchiveInv, Shapes, Answer, Goto
    <2>2. 1 \in DOMAIN channel /\ channel[1] = Head(channel)
      BY <2>1, HeadTailProperties, LenProperties, EmptySeq
    <2>3. pc[Head(channel).from] = "waiting"
      BY <2>1, <2>2 DEF ArchiveInv, Requests, IsFlush
    <2>4. Counting' = Counting
      BY <1>0, <2>1, <2>3 DEF Counting
    <2> QED BY <1>3, <2>1, <2>4
  <1>9. ASSUME NEW th \in Threads, Caller(th)
        PROVE  Counted'
    <2>1. CASE Send(th)
      <3>1. /\ Pending' = Pending \cup {sent + 1} /\ sent + 1 \notin Pending
            /\ sent' = sent + 1 /\ sent < MaxRows /\ up /\ UNCHANGED <<up, committed, dropped, appended>>
            /\ Counting' = Counting \cup {th} /\ th \notin Counting
        BY <1>0, <2>1, PendingSent DEF Send, Goto, Counting
      <3>2. /\ IsFiniteSet(Pending') /\ Cardinality(Pending') = Cardinality(Pending) + 1
            /\ IsFiniteSet(Counting') /\ Cardinality(Counting') = Cardinality(Counting) + 1
        BY <1>0, <1>1, <3>1, FS_AddElement
      <3>3. /\ appended' + Cardinality(Counting') = Cardinality(Pending') + dropped' + committed'
            /\ appended' + Cardinality(Counting') <= sent'
        BY <1>0, <1>1, <1>2, <3>1, <3>2
      <3> QED BY <1>0, <3>1, <3>2, <3>3, CountersBounded
    <2>2. CASE Count(th)
      <3>1. /\ Pending' = Pending /\ appended' = appended + 1
            /\ UNCHANGED <<up, sent, committed, dropped>>
            /\ Counting' = Counting \ {th} /\ th \in Counting
        BY <1>0, <2>2, PendingSame DEF Count, Goto, Counting
      <3>2. /\ IsFiniteSet(Counting') /\ Cardinality(Counting') = Cardinality(Counting) - 1
            /\ Cardinality(Counting') \in Nat
        BY <1>0, <3>1, FS_RemoveElement, FS_CardinalityType
      <3>3. up
        BY <1>0, <3>1 DEF AloneInside, Inside, Counting
      <3>4. /\ appended' + Cardinality(Counting') = Cardinality(Pending') + dropped' + committed'
            /\ appended' + Cardinality(Counting') <= sent' /\ appended' \in Nat
        BY <1>0, <1>1, <1>2, <3>1, <3>2, <3>3
      <3> QED BY <1>0, <1>1, <3>1, <3>2, <3>3, <3>4, CountersBounded
    <2>3. CASE RequestFlush(th)
      <3>1. Pending' = Pending /\ Counting' = Counting /\ UNCHANGED <<sent, committed, dropped, appended, up>>
        BY <1>0, <2>3, PendingSame DEF RequestFlush, Goto, Counting
      <3> QED BY <1>3, <3>1
    <2>4. CASE /\ UNCHANGED <<channel, writer, sent, committed, dropped, appended>> /\ pc[th] # "count"
               /\ \E at \in {"idle", "append", "flush", "close", "joining"} : pc' = [pc EXCEPT ![th] = at]
               /\ up' => up
      <3>1. Pending' = Pending /\ Counting' = Counting
        BY <1>0, <2>4, PendingSame DEF Counting
      <3> QED BY <1>3, <2>4, <3>1
    <2> QED BY <1>9, <2>1, <2>2, <2>3, <2>4 DEF Caller, Call, Refused, Close, Joined, Flushed, Goto
  <1> QED BY <1>4, <1>5, <1>6, <1>7, <1>8, <1>9 DEF Next, Writer

-----------------------------------------------------------------------------
(* The theorems.                                                           *)

LEMMA ArchiveInit ==
    ASSUME Init
    PROVE  ArchiveInv
  <1>1. MaxRows \in Nat /\ Apis \subseteq {"c", "rust"} /\ Nil \notin Nat
    BY ArchiveAssumption
  <1>2. channel = <<>> /\ DOMAIN channel = {} /\ channel \in Seq(Messages)
    BY EmptySeq DEF Init
  <1>3. Shapes
    <2>1. writer \in [at : {"gone", "idle"}] /\ api \in {"c", "rust"} /\ api \in Apis
      BY <1>1 DEF Init, Gone
    <2>2. /\ stored \in [Ids -> Rows \cup {Nil}] /\ mark \in [Threads -> 0 .. MaxRows] /\ sent \in 0 .. MaxRows
          /\ pc \in [Threads -> {"idle", "append", "count", "flush", "waiting", "answered",
                                 "close", "joining"}]
      BY <1>1 DEF Init
    <2> QED BY <1>1, <1>2, <2>1, <2>2 DEF Init, Shapes
  <1>a. AloneInside
    BY DEF Init, AloneInside, Inside
  <1>4. InOrder /\ Requests /\ FlushCoversEarlierRows
    BY <1>1, <1>2 DEF Init, InOrder, Requests, IsRow, IsFlush, FlushCoversEarlierRows, Busy, Gone
  <1>5. StoredIds = {} /\ 0 .. 0 - 1 = {}
    BY <1>1 DEF Init, StoredIds
  <1>6. StoredInOrder(0) /\ NextId(0)
    BY <1>2, <1>5 DEF Init, StoredInOrder, NextId, IsRow, Gone, Busy
  <1>7. Counting = {}
    BY DEF Init, Counting
  <1>8. Counted
    BY <1>1, <1>7, FS_EmptySet DEF Init, Counted, NoRowUncounted
  <1> QED BY <1>1, <1>3, <1>a, <1>4, <1>6, <1>8 DEF ArchiveInv

LEMMA ArchiveStutter ==
    ASSUME ArchiveInv, UNCHANGED vars
    PROVE  ArchiveInv'
  <1>1. (Shapes /\ AloneInside)'
    BY DEF ArchiveInv, vars, Shapes, AloneInside, Inside
  <1>2. (InOrder /\ Requests)'
    BY DEF ArchiveInv, vars, InOrder, Requests, IsRow, IsFlush, Busy
  <1>3. Pending' = Pending /\ StoredIds' = StoredIds /\ Counting' = Counting
    BY DEF vars, Pending, StoredIds, Counting, Busy
  <1>4. (FlushCoversEarlierRows /\ Counted)'
    BY <1>3 DEF ArchiveInv, vars, FlushCoversEarlierRows, Counted, NoRowUncounted, Counting
  <1>5. ASSUME NEW n \in 0 .. MaxRows, StoredInOrder(n), NextId(n)
        PROVE  StoredInOrder(n)' /\ NextId(n)'
    BY <1>3, <1>5 DEF vars, StoredInOrder, NextId, IsRow, Busy
  <1> QED BY <1>1, <1>2, <1>4, <1>5 DEF ArchiveInv

LEMMA ArchiveStep ==
    ArchiveInv /\ [Next]_vars => ArchiveInv'
  BY ShapesKept, AloneKept, OrderKept, RequestsKept, FlushKept, StoredKept, CountedKept,
     ArchiveStutter, ArchiveAssumption DEF ArchiveInv

\* What the archive keeps from its first step to its last.
LEMMA ArchiveInductive == Spec => []ArchiveInv
  BY ArchiveInit, ArchiveStep, PTL DEF Spec

\* The types of the archive's fields (archive.rs:40-61): every counter stays
\* within the rows that were sent, although failures, restarts and the id
\* taken over from the corpus all move them.
THEOREM ArchiveTypes == Spec => []TypeOK
  <1>1. ArchiveInv => TypeOK
    <2>1. ASSUME ArchiveInv
          PROVE  committed \in 0 .. MaxRows /\ appended \in 0 .. MaxRows /\ dropped \in 0 .. MaxRows
      BY <2>1, ArchiveAssumption DEF ArchiveInv, Shapes, Counted
    <2> QED BY <2>1 DEF ArchiveInv, Shapes, TypeOK, Messages
  <1> QED BY <1>1, ArchiveInductive, PTL

\* Every row that an open archive accepted is in the channel, with the writer,
\* dropped or committed, and is counted once (archive.rs append and
\* writer_loop).
THEOREM RowsAreCounted == Spec => []NoRowUncounted
  <1>1. ArchiveInv => NoRowUncounted
    BY DEF ArchiveInv, Counted
  <1> QED BY <1>1, ArchiveInductive, PTL

\* The ids in the corpus have no gap and the next one is free, after any
\* failures and restarts (open_or_create counts the frames for the next id).
THEOREM NextIdFree == Spec => []NextIdIsFree
  <1>1. ASSUME ArchiveInv
        PROVE  NextIdIsFree
    <2>1. PICK n \in 0 .. MaxRows : StoredInOrder(n) /\ NextId(n)
      BY <1>1 DEF ArchiveInv
    <2>2. n \in Nat
      BY ArchiveAssumption
    <2>3. Cardinality(StoredIds) = n
      BY <2>1, <2>2, StoredCount
    <2> QED BY <2>1, <2>3 DEF NextIdIsFree, StoredInOrder, NextId
  <1> QED BY <1>1, ArchiveInductive, PTL

\* When flush returns, every row that any caller sent before it is committed
\* or dropped (archive.rs flush).
THEOREM FlushIsABarrier == Spec => []FlushCoversEarlierRows
  <1>1. ArchiveInv => FlushCoversEarlierRows
    BY DEF ArchiveInv
  <1> QED BY <1>1, ArchiveInductive, PTL

\* The log the corpus is read as.
Log == [i \in 1 .. Cardinality(StoredIds) |-> stored[i - 1]]

\* Only the commit of a row changes the log, and it adds one later row at the
\* end.
LEMMA LogGrows ==
    ASSUME ArchiveInv, CommitRow
    PROVE  Disk!Next
  <1>1. PICK n \in 0 .. MaxRows : StoredInOrder(n) /\ NextId(n)
    BY DEF ArchiveInv
  <1>2. PICK m \in 0 .. MaxRows : StoredInOrder(m)'
    BY StoredKept DEF Next, Writer
  <1>3. n \in Nat /\ m \in Nat /\ Shapes /\ Shapes' /\ stored \in [Ids -> Rows \cup {Nil}]
    BY ShapesKept, ArchiveAssumption DEF ArchiveInv, Shapes, Next, Writer
  <1>4. Cardinality(StoredIds) = n
    BY <1>1, <1>3, StoredCount
  <1>5. writer.traj = n /\ writer.row \in Rows /\ n \in Ids
    BY <1>1, <1>3, WriterFacts DEF CommitRow, NextId, Busy, Gone
  <1>6. stored' = [stored EXCEPT ![n] = writer.row] /\ writer.at = "commit"
    BY <1>5 DEF CommitRow
  <1>7. StoredIds' = 0 .. n
    <2>1. \A i : i \in StoredIds' <=> i \in StoredIds \/ i = n
      BY <1>3, <1>5, <1>6, WriterFacts DEF StoredIds
    <2>2. \A i : i \in 0 .. n <=> i \in 0 .. n - 1 \/ i = n
      BY <1>3
    <2> QED BY <1>1, <2>1, <2>2 DEF StoredInOrder
  <1>8. Cardinality(StoredIds') = n + 1
    BY <1>3, <1>7, FS_Interval
  <1>9. Log \in Seq(Rows) /\ Len(Log) = n /\ \A i \in 1 .. n : Log[i] = stored[i - 1] /\ Log[i] \in Rows
    <2>1. \A i \in 1 .. n : i - 1 \in StoredIds
      BY <1>1, <1>3 DEF StoredInOrder
    <2>2. \A i \in 1 .. n : stored[i - 1] \in Rows
      BY <1>3, <2>1 DEF StoredIds
    <2>3. Log = [i \in 1 .. n |-> stored[i - 1]]
      BY <1>4 DEF Log
    <2> QED BY <1>3, <2>2, <2>3
  <1>10. Log' = Append(Log, writer.row)
    <2>1. Log' = [i \in 1 .. n + 1 |-> stored'[i - 1]]
      BY <1>8 DEF Log
    <2>2. \A i \in 1 .. n + 1 : stored'[i - 1] = IF i = n + 1 THEN writer.row ELSE Log[i]
      <3>1. \A i \in 1 .. n : i - 1 \in StoredIds /\ i - 1 # n
        BY <1>1, <1>3 DEF StoredInOrder
      <3> QED BY <1>3, <1>5, <1>6, <1>9, <3>1 DEF StoredIds
    <2>3. \A i \in 1 .. n + 1 : stored'[i - 1] \in Rows
      BY <1>3, <1>5, <1>9, <2>2
    <2>4. Log' \in Seq(Rows) /\ Len(Log') = n + 1 /\ \A i \in 1 .. n + 1 : Log'[i] = stored'[i - 1]
      BY <1>3, <2>1, <2>3
    <2>5. Append(Log, writer.row) \in Seq(Rows) /\ Len(Append(Log, writer.row)) = n + 1
          /\ \A i \in 1 .. n : Append(Log, writer.row)[i] = Log[i]
          /\ Append(Log, writer.row)[n + 1] = writer.row
      BY <1>3, <1>5, <1>9, AppendProperties
    <2>6. \A i \in 1 .. Len(Log') : Log'[i] = Append(Log, writer.row)[i]
      <3>1. \A i \in 1 .. n : i \in 1 .. n + 1 /\ i # n + 1 /\ n + 1 \in 1 .. n + 1
        BY <1>3
      <3>2. \A i \in 1 .. n : Log'[i] = Append(Log, writer.row)[i]
        BY <2>2, <2>4, <2>5, <3>1
      <3>3. Log'[n + 1] = writer.row
        <4>1. n + 1 \in 1 .. n + 1
          BY <1>3
        <4> QED BY <2>2, <2>4, <4>1
      <3>4. \A i \in 1 .. n + 1 : i \in 1 .. n \/ i = n + 1
        BY <1>3
      <3> QED BY <2>4, <2>5, <3>2, <3>3, <3>4
    <2> QED BY <2>4, <2>5, <2>6, SeqEqual
  <1>11. \A i \in DOMAIN Log : Log[i] < writer.row
    <2>1. DOMAIN Log = 1 .. n
      BY <1>4 DEF Log
    <2>2. \A i \in 0 .. n - 1 : stored[i] < writer.row
      BY <1>1, <1>6 DEF StoredInOrder
    <2> QED BY <1>3, <1>9, <2>1, <2>2
  <1> QED BY <1>5, <1>10, <1>11 DEF Disk!Next, Disk!Record, Log

\* The corpus under an archive is a ledger: it grows at its end, in the order
\* the rows were accepted, none twice and none rewritten.
THEOREM ArchiveIsALedger == Spec => ImplementsLedger
  <1>1. Init => Disk!Init
    <2>1. ASSUME Init
          PROVE  StoredIds = {}
      BY <2>1 DEF Init, StoredIds
    <2>2. Init => Log = <<>>
      BY <2>1, FS_EmptySet DEF Log
    <2> QED BY <2>2 DEF Disk!Init, Log
  <1>2. ArchiveInv /\ [Next]_vars => [Disk!Next]_Log
    <2>1. ASSUME stored' = stored
          PROVE  Log' = Log
      BY <2>1 DEF Log, StoredIds
    <2>2. Next => CommitRow \/ stored' = stored
      BY DEF Next, Writer, Caller, Open, Crash, Take, Advance, Fail, Answer, Exit, Call, Refused,
             Close, Joined, Send, Count, RequestFlush, Flushed
    <2> QED BY <2>1, <2>2, LogGrows DEF vars
  <1>3. ArchiveInv /\ [Next]_vars => [Disk!Next]_[i \in 1 .. Cardinality(StoredIds) |-> stored[i - 1]]
    BY <1>2 DEF Log
  <1> QED BY <1>1, <1>3, ArchiveInductive, PTL DEF Spec, ImplementsLedger, Disk!Spec
=============================================================================
