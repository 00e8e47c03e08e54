------------------------------- MODULE Handles -------------------------------
(***************************************************************************)
(* The handle table of the C ABI (ffi.rs). A handle is a slot of a vector  *)
(* under one mutex; its corpus is shared by reference count. Some calls    *)
(* keep the mutex while the corpus works, the others take a share of the   *)
(* corpus, work without the mutex and take it again, by id, to leave an    *)
(* error message. What a corpus does is in Corpus: here it answers or      *)
(* fails, as a reader or as LMDB's one writer. A lease is what one         *)
(* rkrdb_open gives out; its slot may serve several leases in turn.        *)
(***************************************************************************)
EXTENDS Integers, Sequences, FiniteSets, SequencesExt

CONSTANTS Threads,   \* threads of the program that loaded the library
          Dirs,      \* corpus directories
          MaxOpens,  \* bound on the opens that succeed
          Ops,       \* kinds of calls the threads make
          Nil

\* Calls that keep the mutex, as readers and as writers of the corpus.
LockedReads  == {"select", "get"}
LockedWrites == {"maintain"}
\* Calls that take a share of the corpus.
SharedReads  == {"fetch", "h5md"}
SharedWrites == {"ingest"}

Locked == LockedReads \cup LockedWrites
Shared == SharedReads \cup SharedWrites
Writes == LockedWrites \cup SharedWrites

Calling == Locked \cup Shared \cup {"unit"}

Leases == 1 .. MaxOpens

\* What is kept of a call: the thread and the lease whose corpus answered it.
Marks == [by : Threads, on : Leases]

\* Handle: the corpus, last_keys, last_error, the velocity time unit.
LeaseHandles ==
    [lease : Leases, keys : Marks \cup {Nil}, err : Marks \cup {Nil}, unit : Leases \cup {Nil}]

ASSUME HandlesAssumption ==
    /\ MaxOpens \in Nat
    /\ Nil \notin Threads /\ Nil \notin Dirs /\ Nil \notin Nat
    /\ Nil \notin Marks /\ Nil \notin LeaseHandles
    /\ Ops \subseteq Calling

VARIABLES
    table,   \* HANDLES: its slots
    lock,    \* the thread that holds the mutex across its work
    writer,  \* directory -> the thread in its write transaction
    call,    \* thread -> the call it is in
    dir,     \* lease -> the directory it opened
    id,      \* lease -> the id rkrdb_open returned
    closed,  \* leases that were closed
    chosen,  \* thread -> lease on which its selection is the latest one
    failed   \* thread -> lease on which its failure is the latest one

vars == <<table, lock, writer, call, dir, id, closed, chosen, failed>>

Idle == [op |-> "idle"]

Opened == {l \in Leases : dir[l] # Nil}

Free == lock = Nil

At(th, place) == call[th].op # "idle" /\ call[th].at = place

Goto(th, place) == call' = [call EXCEPT ![th].at = place]

Return(th) == call' = [call EXCEPT ![th] = Idle]

\* The leases whose corpus somebody has a share of: the handles, and the calls
\* until they have the answer.
Alive ==
    LET InCorpus(th) == call[th].op # "idle" /\ call[th].at \notin {"enter", "collected", "small"}
    IN  {table[i].lease : i \in {j \in DOMAIN table : table[j] # Nil}}
          \cup {call[th].on : th \in {u \in Threads : InCorpus(u)}}

-----------------------------------------------------------------------------
(* rkrdb_open, rkrdb_open_readonly: the corpus is opened without the mutex.*)
(* The environment of a directory can be open once in a process.           *)

OpenEnv(th, d) ==
    /\ call[th] = Idle
    /\ Cardinality(Opened) < MaxOpens
    /\ \A l \in Alive : dir[l] # d
    /\ LET l == Cardinality(Opened) + 1
       IN  /\ dir' = [dir EXCEPT ![l] = d]
           /\ call' = [call EXCEPT ![th] =
                  [op |-> "open", at |-> "push", lease |-> l, on |-> l, unit |-> Nil]]
    /\ UNCHANGED <<table, lock, writer, id, closed, chosen, failed>>

FreeSlots == {i \in DOMAIN table : table[i] = Nil}

\* Mutant: the last slot, free or not.
LastSlot == IF table = <<>> THEN 1 ELSE Len(table)

\* The first free slot, or a new one.
FreeSlot ==
    IF FreeSlots # {} THEN CHOOSE i \in FreeSlots : \A j \in FreeSlots : i <= j
                      ELSE Len(table) + 1

\* push_handle
Push(th) ==
    /\ At(th, "push") /\ Free
    /\ LET h == [lease |-> call[th].on, keys |-> Nil, err |-> Nil, unit |-> Nil]
       IN  /\ table' = [i \in DOMAIN table \cup {FreeSlot} |->
                            IF i = FreeSlot THEN h ELSE table[i]]
           /\ id' = [id EXCEPT ![call[th].on] = FreeSlot]
    /\ Return(th)
    /\ UNCHANGED <<lock, writer, dir, closed, chosen, failed>>

\* A history without the entries of lease l.
Without(history, l) == [th \in Threads |-> IF history[th] = l THEN Nil ELSE history[th]]

\* Mutant: the entry goes, and the ones behind it move up.
CloseRemoves(l) ==
    /\ id[l] # Nil /\ l \notin closed /\ Free
    /\ table' = RemoveAt(table, id[l])
    /\ closed' = closed \cup {l}
    /\ chosen' = Without(chosen, l) /\ failed' = Without(failed, l)
    /\ UNCHANGED <<lock, writer, call, dir, id>>

\* rkrdb_close: the slot stays, empty. Callers close a lease once.
Close(l) ==
    /\ id[l] # Nil /\ l \notin closed /\ Free
    /\ table' = [table EXCEPT ![id[l]] = Nil]
    /\ closed' = closed \cup {l}
    /\ chosen' = Without(chosen, l) /\ failed' = Without(failed, l)
    /\ UNCHANGED <<lock, writer, call, dir, id>>

-----------------------------------------------------------------------------
(* Calls with an id. A call starts before its lease is closed; its way to  *)
(* the mutex may take longer than that.                                    *)

Begin(th, op, l) ==
    /\ call[th] = Idle
    /\ id[l] # Nil /\ l \notin closed
    /\ call' = [call EXCEPT ![th] =
           [op |-> op, at |-> "enter", lease |-> l, on |-> Nil, unit |-> Nil]]
    /\ UNCHANGED <<table, lock, writer, dir, id, closed, chosen, failed>>

\* The slot a call's id leads to; Nil if there is no such handle.
Slot(th) ==
    LET i == id[call[th].lease] IN IF i \in DOMAIN table THEN table[i] ELSE Nil

\* RKRDB_NULL
EnterNull(th) ==
    /\ At(th, "enter") /\ Free
    /\ Slot(th) = Nil
    /\ Return(th)
    /\ UNCHANGED <<table, lock, writer, dir, id, closed, chosen, failed>>

Work(op) == IF op \in Writes THEN "prepare" ELSE "work"

\* with_handle: the mutex is held while the corpus works.
EnterLocked(th) ==
    /\ At(th, "enter") /\ call[th].op \in Locked /\ Free
    /\ Slot(th) # Nil
    /\ lock' = th
    /\ call' = [call EXCEPT ![th].at = Work(call[th].op), ![th].on = Slot(th).lease]
    /\ UNCHANGED <<table, writer, dir, id, closed, chosen, failed>>

\* corpus_arc; the H5MD readers take the handle's velocity unit with it.
CloneCorpus(th) ==
    /\ At(th, "enter") /\ call[th].op \in Shared /\ Free
    /\ Slot(th) # Nil
    /\ call' = [call EXCEPT ![th].at = Work(call[th].op), ![th].on = Slot(th).lease,
                            ![th].unit = IF call[th].op = "h5md" THEN Slot(th).unit ELSE Nil]
    /\ UNCHANGED <<table, lock, writer, dir, id, closed, chosen, failed>>

\* rkrdb_set_velocity_time_unit: a unit set on this handle, or none.
SetUnit(th, clear) ==
    /\ At(th, "enter") /\ call[th].op = "unit" /\ Free
    /\ Slot(th) # Nil
    /\ table' = [table EXCEPT ![id[call[th].lease]].unit =
                     IF clear THEN Nil ELSE Slot(th).lease]
    /\ Return(th)
    /\ UNCHANGED <<lock, writer, dir, id, closed, chosen, failed>>

\* A write transaction of the corpus. Frames are prepared before it, and a
\* call that fails then is one that fails in it.
BeginWrite(th) ==
    /\ At(th, "prepare")
    /\ writer[dir[call[th].on]] = Nil
    /\ writer' = [writer EXCEPT ![dir[call[th].on]] = th]
    /\ Goto(th, "work")
    /\ UNCHANGED <<table, lock, dir, id, closed, chosen, failed>>

\* A transaction the thread is in ends.
EndWrite(th) == writer' = [d \in Dirs |-> IF writer[d] = th THEN Nil ELSE writer[d]]

-----------------------------------------------------------------------------
(* How the calls under the mutex end.                                      *)

\* What a thread leaves in a handle bears the corpus it was worked out on.
By(th) == [by |-> th, on |-> call[th].on]

\* th's entry of a history becomes lease l, the others' entries of l go.
Latest(history, th, l) == [Without(history, l) EXCEPT ![th] = l]

\* A selection's keys replace last_keys.
FinishSelect(th) ==
    /\ At(th, "work") /\ call[th].op = "select"
    /\ table' = [table EXCEPT ![id[call[th].lease]].keys = By(th)]
    /\ chosen' = Latest(chosen, th, call[th].on)
    /\ lock' = Nil
    /\ Return(th)
    /\ UNCHANGED <<writer, dir, id, closed, failed>>

\* The answer is copied to the caller, the transaction committed.
FinishLocked(th) ==
    /\ At(th, "work") /\ call[th].op \in Locked \ {"select"}
    /\ EndWrite(th)
    /\ lock' = Nil
    /\ Return(th)
    /\ UNCHANGED <<table, dir, id, closed, chosen, failed>>

\* Mutant: a selection that fails leaves no keys.
FailClears(th) ==
    /\ At(th, "work") /\ call[th].op \in Locked
    /\ table' = [table EXCEPT ![id[call[th].lease]].err = By(th),
                              ![id[call[th].lease]].keys = Nil]
    /\ failed' = Latest(failed, th, call[th].on)
    /\ EndWrite(th)
    /\ lock' = Nil
    /\ Return(th)
    /\ UNCHANGED <<dir, id, closed, chosen>>

\* set_err: the corpus failed or the caller's buffer is too small.
FailLocked(th) ==
    /\ At(th, "work") /\ call[th].op \in Locked
    /\ table' = [table EXCEPT ![id[call[th].lease]].err = By(th)]
    /\ failed' = Latest(failed, th, call[th].on)
    /\ EndWrite(th)
    /\ lock' = Nil
    /\ Return(th)
    /\ UNCHANGED <<dir, id, closed, chosen>>

-----------------------------------------------------------------------------
(* How the calls with a share of the corpus end.                           *)

\* Mutant: the unit is looked up when the arrays are made.
CollectAnew(th) ==
    /\ At(th, "work") /\ call[th].op = "h5md" /\ Free
    /\ call' = [call EXCEPT ![th].at = "collected",
                            ![th].unit = IF Slot(th) = Nil THEN Nil ELSE Slot(th).unit]
    /\ UNCHANGED <<table, lock, writer, dir, id, closed, chosen, failed>>

\* collect_h5md_handle: arrays of the corpus, by the unit taken with it.
Collect(th) ==
    /\ At(th, "work") /\ call[th].op = "h5md"
    /\ Goto(th, "collected")
    /\ UNCHANGED <<table, lock, writer, dir, id, closed, chosen, failed>>

\* The answer is copied to the caller.
FinishShared(th) ==
    /\ \/ At(th, "work") /\ call[th].op \in Shared \ {"h5md"}
       \/ At(th, "collected")
    /\ EndWrite(th)
    /\ Return(th)
    /\ UNCHANGED <<table, lock, dir, id, closed, chosen, failed>>

\* th's failure on its lease is its latest one.
Fails(th) ==
    failed' = [failed EXCEPT ![th] =
        IF call[th].lease \in closed THEN Nil ELSE call[th].lease]

\* Mutant: the transaction is open until the call is over.
FailHolding(th) ==
    /\ At(th, "work") /\ call[th].op \in Shared
    /\ Fails(th)
    /\ Goto(th, "report")
    /\ UNCHANGED <<table, lock, writer, dir, id, closed, chosen>>

\* The corpus failed, which ends its transaction.
FailShared(th) ==
    /\ At(th, "work") /\ call[th].op \in Shared
    /\ EndWrite(th)
    /\ Fails(th)
    /\ Goto(th, "report")
    /\ UNCHANGED <<table, lock, dir, id, closed, chosen>>

\* The arrays are longer than the caller's buffer.
TooSmall(th) ==
    /\ At(th, "collected")
    /\ Fails(th)
    /\ Goto(th, "small")
    /\ UNCHANGED <<table, lock, writer, dir, id, closed, chosen>>

\* rkrdb_set_velocity_time_unit was given no time unit.
RefuseUnit(th) ==
    /\ At(th, "enter") /\ call[th].op = "unit"
    /\ Fails(th)
    /\ call' = [call EXCEPT ![th].at = "small", ![th].on = call[th].lease]
    /\ UNCHANGED <<table, lock, writer, dir, id, closed, chosen>>

\* Another failure's message is in the handle the call's id leads to.
Overwritten(th) ==
    failed' = IF Slot(th) = Nil THEN failed
              ELSE [Without(failed, Slot(th).lease) EXCEPT ![th] = failed[th]]

\* set_err_id: the message goes to the handle the id leads to by now.
Report(th) ==
    /\ At(th, "report") \/ At(th, "small")
    /\ Free
    /\ IF Slot(th) = Nil THEN UNCHANGED table
       ELSE table' = [table EXCEPT ![id[call[th].lease]].err = By(th)]
    /\ Overwritten(th)
    /\ EndWrite(th)
    /\ Return(th)
    /\ UNCHANGED <<lock, dir, id, closed, chosen>>

-----------------------------------------------------------------------------
Init ==
    /\ table = <<>>
    /\ lock = Nil
    /\ writer = [d \in Dirs |-> Nil]
    /\ call = [th \in Threads |-> Idle]
    /\ dir = [l \in Leases |-> Nil]
    /\ id = [l \in Leases |-> Nil]
    /\ closed = {}
    /\ chosen = [th \in Threads |-> Nil]
    /\ failed = [th \in Threads |-> Nil]

\* A call that has begun goes on.
Continue(th) ==
    \/ Push(th)
    \/ EnterNull(th) \/ EnterLocked(th) \/ CloneCorpus(th)
    \/ \E clear \in BOOLEAN : SetUnit(th, clear)
    \/ BeginWrite(th)
    \/ FinishSelect(th) \/ FinishLocked(th) \/ FailLocked(th)
    \/ Collect(th) \/ FinishShared(th)
    \/ FailShared(th) \/ TooSmall(th) \/ RefuseUnit(th) \/ Report(th)

Next ==
    \/ \E th \in Threads, d \in Dirs : OpenEnv(th, d)
    \/ \E l \in Leases : Close(l)
    \/ \E th \in Threads, op \in Ops, l \in Leases :
          Begin(th, op, l)
    \/ \E th \in Threads : Continue(th)

Spec == Init /\ [][Next]_vars

-----------------------------------------------------------------------------
(* What has to hold.                                                       *)

Calls ==
    {Idle} \cup
    [op   : Locked \cup Shared \cup {"open", "unit"},
     at   : {"push", "enter", "prepare", "work", "collected", "report", "small"},
     lease : Leases, on : Leases \cup {Nil}, unit : Leases \cup {Nil}]

Held == {l \in Leases : id[l] # Nil /\ l \notin closed}

\* The table and the calls hold what the code can put there. An id leads to the
\* handle it was given out for until it is closed, whatever is opened and closed
\* around it, and so no two live ids are the same.
TypeOK ==
    /\ table \in Seq(LeaseHandles \cup {Nil})
    /\ lock \in Threads \cup {Nil}
    /\ writer \in [Dirs -> Threads \cup {Nil}]
    /\ call \in [Threads -> Calls]
    /\ dir \in [Leases -> Dirs \cup {Nil}]
    /\ id \in [Leases -> Nat \cup {Nil}]
    /\ closed \subseteq Leases
    /\ chosen \in [Threads -> Leases \cup {Nil}]
    /\ failed \in [Threads -> Leases \cup {Nil}]
    /\ \A l \in Held :
          id[l] \in DOMAIN table /\ table[id[l]] # Nil /\ table[id[l]].lease = l

\* What rkrdb_result_count and rkrdb_result_key read, and rkrdb_last_error.
LastKeys(l)  == table[id[l]].keys
LastError(l) == table[id[l]].err

\* A call works on the corpus its caller meant, or the caller's handle was
\* closed while the call was under way; and so with what a handle keeps of
\* earlier calls: its error message may be of another corpus only when that
\* one's handle was closed during the call, its keys never are.
StraysOnlyAfterClose ==
    /\ \A th \in Threads : call[th].op # "idle" /\ call[th].on # Nil =>
          call[th].on = call[th].lease \/ call[th].lease \in closed
    /\ \A i \in DOMAIN table : table[i] # Nil =>
          /\ table[i].err # Nil =>
                table[i].err.on \in {table[i].lease} \cup closed
          /\ table[i].keys # Nil => table[i].keys.on = table[i].lease

\* The H5MD readers convert velocities by the unit set on the handle whose
\* corpus they read, whoever closes and opens handles meanwhile.
UnitIsOfTheCorpus ==
    \A th \in Threads : At(th, "collected") /\ call[th].unit # Nil =>
        call[th].unit = call[th].on

\* rkrdb_result_count and rkrdb_result_key give a thread the keys of its own
\* selection unless another thread's selection on the handle succeeded since;
\* one that fails leaves them. And "rkrdb_last_error copies the message of the
\* last failure": once a call that failed has returned, its message is in the
\* handle until another failure's.
AnswersAreOwn ==
    /\ \A th \in Threads : chosen[th] # Nil =>
          LastKeys(chosen[th]) = [by |-> th, on |-> chosen[th]]
    /\ \A th \in Threads : failed[th] # Nil /\ ~At(th, "report") /\ ~At(th, "small") =>
          /\ LastError(failed[th]) # Nil
          /\ LastError(failed[th]).by = th

\* Waiting with the mutex held, for LMDB's writer, never closes a circle: the
\* writer needs the mutex only when its transaction has ended.
MutexHolderIsServed == lock # Nil => \E th \in Threads : ENABLED Continue(th)
=============================================================================
