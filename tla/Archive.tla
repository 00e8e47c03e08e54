------------------------------- MODULE Archive -------------------------------
(***************************************************************************)
(* archive.rs: callers put rows and flush requests into a channel, one     *)
(* writer thread drains it and commits each row as the one frame of the    *)
(* next trajectory. A failed commit is counted and its row is gone. The    *)
(* archive is opened, closed, killed and opened again over one corpus.     *)
(*                                                                         *)
(* Through the C ABI a call holds the ARCHIVES mutex from end to end; a    *)
(* Rust program shares the archive between its threads without it.         *)
(***************************************************************************)
EXTENDS Integers, Sequences, FiniteSets

CONSTANTS Threads,   \* callers
          MaxRows,   \* bound on the rows sent
          Apis,      \* subset of {"c", "rust"}
          Nil

ASSUME ArchiveAssumption ==
    /\ MaxRows \in Nat /\ Apis \subseteq {"c", "rust"}
    /\ Nil \notin Threads /\ Nil \notin Nat

VARIABLES
    api,        \* how the program calls the archive
    up,         \* is there an open archive?
    tx,         \* has the channel a sender?
    channel,    \* Msg values in order
    writer,     \* the writer thread: gone, idle, or with a row
    committed, dropped, appended,    \* the atomic counters
    stored,     \* trajectory id -> the row of its frame: the corpus
    sent,       \* rows sent so far; a row is the number it was sent under
    pc,         \* caller -> where it is
    mark,       \* caller -> rows sent before its flush request
    lock        \* the caller that holds ARCHIVES

vars == <<api, up, tx, channel, writer, committed, dropped, appended, stored,
          sent, pc, mark, lock>>

Rows == 1 .. MaxRows

Ids == 0 .. MaxRows - 1

RowMsg(row) == [msg |-> "row", row |-> row]
FlushMsg(th) == [msg |-> "flush", from |-> th]

Gone == [at |-> "gone"]
Idle == [at |-> "idle"]

\* A row being committed under trajectory id `traj`, and then the time between
\* its transaction and the counter.
Writing(row, traj) == [at |-> "commit", row |-> row, traj |-> traj]

Busy == writer.at \in {"commit", "advance"}

StoredIds == {i \in Ids : stored[i] # Nil}

-----------------------------------------------------------------------------
(* Opening and closing.                                                    *)

\* Ids go on from the number of frames in the corpus.
Open ==
    /\ ~up
    /\ up' = TRUE /\ tx' = TRUE /\ channel' = <<>> /\ writer' = Idle
    /\ committed' = Cardinality(StoredIds)
    /\ appended' = Cardinality(StoredIds)
    /\ dropped' = 0
    /\ UNCHANGED <<api, stored, sent, pc, mark, lock>>

\* A C call waits for the mutex; a Rust call needs none.
MayEnter == api = "c" => lock = Nil

Hold(th) == lock' = IF api = "c" THEN th ELSE lock
Release == lock' = Nil

Goto(th, where) == pc' = [pc EXCEPT ![th] = where]

\* Nobody holds a reference to a Rust archive that is being dropped.
Call(th, what) ==
    /\ pc[th] = "idle" /\ up
    /\ api = "rust" => \A other \in Threads : pc[other] # "joining"
    /\ Goto(th, what)
    /\ UNCHANGED <<api, up, tx, channel, writer, committed, dropped, appended,
                   stored, sent, mark, lock>>

\* The slot is empty by the time the caller has the mutex.
Refused(th) ==
    /\ pc[th] \in {"append", "flush", "close"} /\ MayEnter /\ ~up
    /\ Goto(th, "idle")
    /\ UNCHANGED <<api, up, tx, channel, writer, committed, dropped, appended,
                   stored, sent, mark, lock>>

\* Mutant: the writer is joined with the sender still open.
CloseWithSender(th) ==
    /\ pc[th] = "close" /\ MayEnter /\ up
    /\ api = "rust" => \A other \in Threads \ {th} : pc[other] = "idle"
    /\ Goto(th, "joining") /\ Hold(th)
    /\ UNCHANGED <<api, up, tx, channel, writer, committed, dropped, appended,
                   stored, sent, mark>>

\* Drop takes the sender and joins the writer. A Rust archive is dropped by
\* its last owner; the C ABI drops it inside the mutex.
Close(th) ==
    /\ pc[th] = "close" /\ MayEnter /\ up
    /\ api = "rust" => \A other \in Threads \ {th} : pc[other] = "idle"
    /\ tx' = FALSE
    /\ Goto(th, "joining") /\ Hold(th)
    /\ UNCHANGED <<api, up, channel, writer, committed, dropped, appended,
                   stored, sent, mark>>

Joined(th) ==
    /\ pc[th] = "joining" /\ writer = Gone
    /\ up' = FALSE
    /\ Goto(th, "idle") /\ Release
    /\ UNCHANGED <<api, tx, channel, writer, committed, dropped, appended,
                   stored, sent, mark>>

\* The process dies: what is in the channel is lost, the corpus is not.
Crash ==
    /\ up
    /\ up' = FALSE /\ tx' = FALSE /\ channel' = <<>> /\ writer' = Gone
    /\ pc' = [th \in Threads |-> "idle"]
    /\ lock' = Nil
    /\ UNCHANGED <<api, committed, dropped, appended, stored, sent, mark>>

-----------------------------------------------------------------------------
(* Callers.                                                                *)

\* append: the row goes into the channel ...
Send(th) ==
    /\ pc[th] = "append" /\ MayEnter /\ up /\ sent < MaxRows
    /\ channel' = Append(channel, RowMsg(sent + 1))
    /\ sent' = sent + 1
    /\ Goto(th, "count") /\ Hold(th)
    /\ UNCHANGED <<api, up, tx, writer, committed, dropped, appended, stored, mark>>

\* ... and is counted after that.
Count(th) ==
    /\ pc[th] = "count"
    /\ appended' = appended + 1
    /\ Goto(th, "idle") /\ Release
    /\ UNCHANGED <<api, up, tx, channel, writer, committed, dropped, stored, sent, mark>>

\* Mutant: a flush request overtakes the rows before it.
RequestFlushFirst(th) ==
    /\ pc[th] = "flush" /\ MayEnter /\ up
    /\ channel' = <<FlushMsg(th)>> \o channel
    /\ mark' = [mark EXCEPT ![th] = sent]
    /\ Goto(th, "waiting") /\ Hold(th)
    /\ UNCHANGED <<api, up, tx, writer, committed, dropped, appended, stored, sent>>

\* flush: a request with an answer channel, then a wait for the answer.
RequestFlush(th) ==
    /\ pc[th] = "flush" /\ MayEnter /\ up
    /\ channel' = Append(channel, FlushMsg(th))
    /\ mark' = [mark EXCEPT ![th] = sent]
    /\ Goto(th, "waiting") /\ Hold(th)
    /\ UNCHANGED <<api, up, tx, writer, committed, dropped, appended, stored, sent>>

Flushed(th) ==
    /\ pc[th] = "answered"
    /\ Goto(th, "idle") /\ Release
    /\ UNCHANGED <<api, up, tx, channel, writer, committed, dropped, appended,
                   stored, sent, mark>>

-----------------------------------------------------------------------------
(* The writer thread.                                                      *)

\* Mutant: the newest message first.
TakeNewest ==
    /\ writer = Idle /\ channel # <<>> /\ channel[Len(channel)].msg = "row"
    /\ writer' = Writing(channel[Len(channel)].row, committed)
    /\ channel' = SubSeq(channel, 1, Len(channel) - 1)
    /\ UNCHANGED <<api, up, tx, committed, dropped, appended, stored, sent, pc, mark, lock>>

Take ==
    /\ writer = Idle /\ channel # <<>> /\ Head(channel).msg = "row"
    /\ writer' = Writing(Head(channel).row, committed)
    /\ channel' = Tail(channel)
    /\ UNCHANGED <<api, up, tx, committed, dropped, appended, stored, sent, pc, mark, lock>>

\* commit_row: append_trajectory under the id, which must not be claimed.
CommitRow ==
    /\ writer.at = "commit" /\ stored[writer.traj] = Nil
    /\ stored' = [stored EXCEPT ![writer.traj] = writer.row]
    /\ writer' = [writer EXCEPT !.at = "advance"]
    /\ UNCHANGED <<api, up, tx, channel, committed, dropped, appended, sent, pc, mark, lock>>

Advance ==
    /\ writer.at = "advance"
    /\ committed' = writer.traj + 1
    /\ writer' = Idle
    /\ UNCHANGED <<api, up, tx, channel, dropped, appended, stored, sent, pc, mark, lock>>

\* Mutant: a failed row uses up its id.
FailAndAdvance ==
    /\ writer.at = "commit"
    /\ dropped' = dropped + 1
    /\ committed' = writer.traj + 1
    /\ writer' = Idle
    /\ UNCHANGED <<api, up, tx, channel, appended, stored, sent, pc, mark, lock>>

FailUncounted ==   \* mutant
    /\ writer.at = "commit"
    /\ writer' = Idle
    /\ UNCHANGED <<api, up, tx, channel, committed, dropped, appended, stored,
                   sent, pc, mark, lock>>

\* The disk is full or broken, or the id is claimed.
Fail ==
    /\ writer.at = "commit"
    /\ dropped' = dropped + 1
    /\ writer' = Idle
    /\ UNCHANGED <<api, up, tx, channel, committed, appended, stored, sent, pc, mark, lock>>

Answer ==
    /\ writer = Idle /\ channel # <<>> /\ Head(channel).msg = "flush"
    /\ channel' = Tail(channel)
    /\ Goto(Head(channel).from, "answered")
    /\ UNCHANGED <<api, up, tx, writer, committed, dropped, appended, stored, sent, mark, lock>>

\* recv fails once the sender is gone and the channel is drained.
Exit ==
    /\ writer = Idle /\ channel = <<>> /\ ~tx
    /\ writer' = Gone
    /\ UNCHANGED <<api, up, tx, channel, committed, dropped, appended, stored,
                   sent, pc, mark, lock>>

-----------------------------------------------------------------------------
Init ==
    /\ api \in Apis
    /\ up = FALSE /\ tx = FALSE /\ channel = <<>> /\ writer = Gone
    /\ committed = 0 /\ dropped = 0 /\ appended = 0
    /\ stored = [i \in Ids |-> Nil]
    /\ sent = 0
    /\ pc = [th \in Threads |-> "idle"]
    /\ mark = [th \in Threads |-> 0]
    /\ lock = Nil

Writer == Take \/ CommitRow \/ Advance \/ Fail \/ Answer \/ Exit

Caller(th) ==
    \/ \E what \in {"append", "flush", "close"} : Call(th, what)
    \/ Refused(th)
    \/ Close(th)
    \/ Joined(th)
    \/ Send(th)
    \/ Count(th)
    \/ RequestFlush(th)
    \/ Flushed(th)

Next == Open \/ Crash \/ Writer \/ \E th \in Threads : Caller(th)

\* The writer is a thread of its own that nothing but the channel blocks, and
\* a caller that has what it waited for goes on.
Fairness ==
    /\ WF_vars(Writer)
    /\ \A th \in Threads : WF_vars(Count(th) \/ Joined(th) \/ Flushed(th))

Spec == Init /\ [][Next]_vars /\ Fairness

-----------------------------------------------------------------------------
Pending == {channel[i].row : i \in {j \in DOMAIN channel : channel[j].msg = "row"}}
             \cup (IF Busy THEN {writer.row} ELSE {})

\* The types of the archive's fields (archive.rs:40-61).
TypeOK ==
    /\ api \in Apis /\ up \in BOOLEAN /\ tx \in BOOLEAN
    /\ channel \in Seq([msg : {"row"}, row : Rows] \cup [msg : {"flush"}, from : Threads])
    /\ writer \in [at : {"gone", "idle"}]
                     \cup [at : {"commit", "advance"}, row : Rows, traj : Ids]
    /\ committed \in 0 .. MaxRows /\ appended \in 0 .. MaxRows /\ dropped \in 0 .. MaxRows
    /\ stored \in [Ids -> Rows \cup {Nil}]
    /\ sent \in 0 .. MaxRows
    /\ pc \in [Threads -> {"idle", "append", "count", "flush", "waiting", "answered",
                           "close", "joining"}]
    /\ mark \in [Threads -> 0 .. MaxRows]
    /\ lock \in Threads \cup {Nil}

\* While an archive is open every row that was accepted is in the channel,
\* with the writer, dropped or committed, and is counted once: no failure and
\* no restart makes the counters drift from the rows.
NoRowUncounted ==
    up => appended + Cardinality({th \in Threads : pc[th] = "count"})
            = Cardinality(Pending) + dropped + committed

\* Trajectory ids are used without a gap, and the next id is free when the
\* writer is idle, after any failures and restarts: a claimed id would fail
\* every later row, since a failure does not advance it.
NextIdIsFree ==
    /\ StoredIds = 0 .. Cardinality(StoredIds) - 1
    /\ up => Cardinality(StoredIds) =
                committed + (IF writer.at = "advance" THEN 1 ELSE 0)

\* When a flush is answered, every row sent before it is committed or
\* dropped, by whichever thread it was sent.
FlushCoversEarlierRows ==
    \A th \in Threads : pc[th] = "answered" => \A row \in Pending : mark[th] < row

\* A flush is answered unless the process dies first.
FlushReturns == \A th \in Threads : (pc[th] = "waiting") ~> (pc[th] # "waiting")

\* Dropping the archive drains the channel and ends.
CloseReturns == \A th \in Threads : (pc[th] = "joining") ~> (pc[th] = "idle")

\* Nobody who waits for the writer thread waits for ever: not in flush, not in
\* the join of the drop, where the C ABI holds its table's mutex.
CallersReturn == FlushReturns /\ CloseReturns

-----------------------------------------------------------------------------
Disk == INSTANCE Ledger WITH
            log <- [i \in 1 .. Cardinality(StoredIds) |-> stored[i - 1]]

\* The corpus under an archive is a ledger: rows are added at its end, in the
\* order they were accepted, none twice and none rewritten.
ImplementsLedger == Disk!Spec
=============================================================================
