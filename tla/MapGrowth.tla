------------------------------ MODULE MapGrowth ------------------------------
(***************************************************************************)
(* The memory map of one corpus and the lock around it (corpus.rs:         *)
(* txn_gate, read_txn, with_write, reserve_map, snapshot_to, and the       *)
(* IngestSession of the MPI ingest). LMDB refuses a write that does not    *)
(* fit its map. with_write then drops the transaction, grows the map and   *)
(* runs the whole body again; LMDB requires that the process holds no      *)
(* transaction while the map changes size, and txn_gate is what sees to    *)
(* it.                                                                     *)
(*                                                                         *)
(* A write is `Rows` puts. What pages a put takes is up to the B-trees, so *)
(* each call draws it, and draws the input size it is asked with.          *)
(***************************************************************************)
EXTENDS Integers, FiniteSets

CONSTANTS Threads,     \* threads of the process
          Kinds,       \* subset of {"read", "write", "ingest", "snapshot"}
          Rows,        \* puts of one write
          InputBytes,  \* sizes a caller may name for its input
          RowBytes,    \* sizes the pages of one put may take
          CommitBytes, \* sizes the pages of a commit may take
          FirstMap,    \* map sizes a corpus may be opened with
          Align,       \* MAP_ALIGN
          Retries,     \* MAP_GROW_RETRIES
          Factor,      \* INPUT_MAP_FACTOR
          MaxCalls,    \* bound on the calls made
          Nil

ASSUME MapAssumption ==
    /\ Nil \notin Threads \cup {"ok", "full", "refused"}
    /\ Kinds \subseteq {"read", "write", "ingest", "snapshot"}
    /\ Rows \in Nat \ {0} /\ Align \in Nat \ {0} /\ Retries \in Nat \ {0}
    /\ Factor \in Nat /\ MaxCalls \in Nat
    /\ InputBytes \subseteq Nat /\ RowBytes \subseteq Nat
    /\ CommitBytes \subseteq Nat /\ FirstMap \subseteq Nat \ {0}

VARIABLES
    mapSize,   \* map_size(): how far data.mdb may grow
    used,      \* used_bytes(): the length of data.mdb
    stored,    \* rows committed: <<call, row>>
    outcome,   \* call -> how it ended
    holder,    \* the thread with the write side of txn_gate
    call,      \* thread -> the call it is in
    calls      \* calls made so far

vars == <<mapSize, used, stored, outcome, holder, call, calls>>

NoCall == [at |-> "idle"]

NewCall(kind, id, input, row, commit) ==
    [at |-> "gate", kind |-> kind, id |-> id, input |-> input, row |-> row,
     commit |-> commit, since |-> 0, put |-> 0, tries |-> 0, from |-> mapSize,
     crowded |-> FALSE]

-----------------------------------------------------------------------------
(* Sizes.                                                                  *)

AlignMap(n) == ((n + Align - 1) \div Align) * Align

Larger(m, n) == IF m >= n THEN m ELSE n

\* with_write, before its first transaction: twice the input has to fit.
PreGrown(input) ==
    LET need == used + 2 * input
    IN  IF need > mapSize THEN AlignMap(Larger(need, 2 * mapSize)) ELSE mapSize

\* Mutant: the map grows to what the input needs and no further.
FittedAfterFull(input) ==
    LET want == AlignMap(Larger(mapSize, used + input))
    IN  IF want <= mapSize THEN AlignMap(mapSize + Align) ELSE want

\* grow_after_map_full
GrownAfterFull(input) ==
    LET want == AlignMap(Larger(2 * mapSize, used + input))
    IN  IF want <= mapSize THEN AlignMap(mapSize + Align) ELSE want

\* reserve_map
Reserved(extra) == Larger(mapSize, AlignMap(used + extra))

-----------------------------------------------------------------------------
(* The lock and the transactions.                                          *)

Readers == {th \in Threads : call[th].at = "reading"}

\* std::sync::RwLock lets no reader in while a writer waits.
Waiting == {th \in Threads :
               \/ call[th].at = "session"
               \/ call[th].at = "gate" /\ call[th].kind \in {"write", "ingest"}}

MayShare == holder = Nil /\ Waiting = {}

MayOwn == holder = Nil /\ Readers = {}

Goto(th, at) == call' = [call EXCEPT ![th].at = at]

Ended(th, how) ==
    /\ call' = [call EXCEPT ![th] = NoCall]
    /\ holder' = Nil
    /\ outcome' = [outcome EXCEPT ![call[th].id] = how]

\* A reader brings nothing to write. An ingest stays within what it reserves:
\* "frame text, index keys and B-tree overhead stay below INPUT_MAP_FACTOR
\* times the CON bytes".
Start(th) ==
    /\ call[th].at = "idle" /\ calls < MaxCalls
    /\ \/ \E kind \in Kinds \cap {"read", "snapshot"} :
              call' = [call EXCEPT ![th] = NewCall(kind, calls + 1, 0, 0, 0)]
       \/ \E kind \in Kinds \cap {"write", "ingest"}, input \in InputBytes,
             row \in RowBytes, commit \in CommitBytes :
              /\ kind = "ingest" => Rows * row + commit <= Factor * input
              /\ call' = [call EXCEPT ![th] = NewCall(kind, calls + 1, input, row, commit)]
    /\ calls' = calls + 1
    /\ UNCHANGED <<mapSize, used, stored, outcome, holder>>

-----------------------------------------------------------------------------
(* Readers.                                                                *)

\* Mutant: the transaction is opened and the lock forgotten.
OpenUnguarded(th) ==
    /\ call[th].at = "gate" /\ call[th].kind = "read"
    /\ Goto(th, "reading")
    /\ UNCHANGED <<mapSize, used, stored, outcome, holder, calls>>

\* read_txn: the guard first, then the transaction.
OpenRead(th) ==
    /\ call[th].at = "gate" /\ call[th].kind = "read"
    /\ MayShare
    /\ Goto(th, "reading")
    /\ UNCHANGED <<mapSize, used, stored, outcome, holder, calls>>

\* snapshot_to copies the environment under a transaction of LMDB's own and
\* takes no guard.
StartCopy(th) ==
    /\ call[th].at = "gate" /\ call[th].kind = "snapshot"
    /\ Goto(th, "copying")
    /\ UNCHANGED <<mapSize, used, stored, outcome, holder, calls>>

\* HeldRead drops the transaction first, then the guard.
EndRead(th) ==
    /\ call[th].at \in {"reading", "copying"}
    /\ call' = [call EXCEPT ![th] = NoCall]
    /\ UNCHANGED <<mapSize, used, stored, outcome, holder, calls>>

-----------------------------------------------------------------------------
(* with_write.                                                             *)

TakeWrite(th) ==
    /\ call[th].at = "gate" /\ call[th].kind = "write"
    /\ MayOwn
    /\ holder' = th
    /\ mapSize' = PreGrown(call[th].input)
    /\ call' = [call EXCEPT ![th].at = "try", ![th].from = mapSize']
    /\ UNCHANGED <<used, stored, outcome, calls>>

\* Mutant: the rows come from an iterator that outlives the attempt.
BeginWhereItStopped(th) ==
    /\ call[th].at = "try" /\ call[th].tries < Retries
    /\ call' = [call EXCEPT ![th].at = "writing", ![th].since = call[th].put]
    /\ UNCHANGED <<mapSize, used, stored, outcome, holder, calls>>

\* Mutant: one attempt too many.
BeginOnceMore(th) ==
    /\ call[th].at = "try" /\ call[th].tries <= Retries
    /\ call' = [call EXCEPT ![th].at = "writing", ![th].put = 0]
    /\ UNCHANGED <<mapSize, used, stored, outcome, holder, calls>>

\* Every attempt starts from the first row.
Begin(th) ==
    /\ call[th].at = "try" /\ call[th].tries < Retries
    /\ call' = [call EXCEPT ![th].at = "writing", ![th].put = 0]
    /\ UNCHANGED <<mapSize, used, stored, outcome, holder, calls>>

\* Pages the open transaction has taken beyond `used`.
Dirty(th) == call[th].row * (call[th].put - call[th].since)

Room(th, bytes) == used + Dirty(th) + bytes <= mapSize

Put(th) ==
    /\ call[th].at = "writing" /\ call[th].put < Rows
    /\ Room(th, call[th].row)
    /\ call' = [call EXCEPT ![th].put = @ + 1]
    /\ UNCHANGED <<mapSize, used, stored, outcome, holder, calls>>

\* The rows the open transaction has put.
RowsPut(th) == {<<call[th].id, i>> : i \in call[th].since + 1 .. call[th].put}

\* A commit takes room from the ingests that have reserved and not begun.
Crowd(th) == [c \in Threads |->
                 IF c # th /\ call[c].at = "session"
                 THEN [call[c] EXCEPT !.crowded = TRUE] ELSE call[c]]

Commit(th) ==
    /\ call[th].at = "writing" /\ call[th].put = Rows
    /\ Room(th, call[th].commit)
    /\ used' = used + Dirty(th) + call[th].commit
    /\ stored' = stored \cup RowsPut(th)
    /\ outcome' = [outcome EXCEPT ![call[th].id] = "ok"]
    /\ call' = [Crowd(th) EXCEPT ![th] = NoCall]
    /\ holder' = Nil
    /\ UNCHANGED <<mapSize, calls>>

\* MDB_MAP_FULL from a put or from the commit.
MapFull(th) ==
    /\ call[th].at = "writing"
    /\ ~Room(th, IF call[th].put < Rows THEN call[th].row ELSE call[th].commit)

\* The transaction is dropped; the guard stays.
Abort(th) ==
    /\ MapFull(th) /\ call[th].kind = "write"
    /\ Goto(th, "full")
    /\ UNCHANGED <<mapSize, used, stored, outcome, holder, calls>>

\* Mutant: growing goes through reserve_map, which takes the guard itself.
GrowByReserve(th) ==
    /\ call[th].at = "full"
    /\ holder = Nil
    /\ mapSize' = GrownAfterFull(call[th].input)
    /\ call' = [call EXCEPT ![th].at = "try", ![th].tries = @ + 1]
    /\ UNCHANGED <<used, stored, outcome, holder, calls>>

Grow(th) ==
    /\ call[th].at = "full"
    /\ mapSize' = GrownAfterFull(call[th].input)
    /\ call' = [call EXCEPT ![th].at = "try", ![th].tries = @ + 1]
    /\ UNCHANGED <<used, stored, outcome, holder, calls>>

GiveUp(th) ==
    /\ call[th].at = "try" /\ call[th].tries = Retries
    /\ Ended(th, "full")
    /\ UNCHANGED <<mapSize, used, stored, calls>>

\* The body returns an error of its own (TrajExists, a parse error) or
\* panics, and a guard that was poisoned is taken all the same; an ingest is
\* given up on another rank's error. The transaction is dropped.
Refuse(th) ==
    /\ call[th].at = "writing"
    /\ Ended(th, "refused")
    /\ UNCHANGED <<mapSize, used, stored, calls>>

-----------------------------------------------------------------------------
(* The MPI ingest: reserve_map, and then one transaction that is never     *)
(* retried, because its frames arrive from the other ranks.                *)

\* Mutant: room is reserved for the bytes of the input alone.
ReserveInputOnly(th) ==
    /\ call[th].at = "gate" /\ call[th].kind = "ingest"
    /\ MayOwn
    /\ mapSize' = Reserved(call[th].input)
    /\ Goto(th, "session")
    /\ UNCHANGED <<used, stored, outcome, holder, calls>>

Reserve(th) ==
    /\ call[th].at = "gate" /\ call[th].kind = "ingest"
    /\ MayOwn
    /\ mapSize' = Reserved(Factor * call[th].input)
    /\ Goto(th, "session")
    /\ UNCHANGED <<used, stored, outcome, holder, calls>>

BeginSession(th) ==
    /\ call[th].at = "session"
    /\ MayOwn
    /\ holder' = th
    /\ Goto(th, "writing")
    /\ UNCHANGED <<mapSize, used, stored, outcome, calls>>

SessionFull(th) ==
    /\ MapFull(th) /\ call[th].kind = "ingest"
    /\ Ended(th, "full")
    /\ UNCHANGED <<mapSize, used, stored, calls>>

-----------------------------------------------------------------------------
Init ==
    /\ mapSize \in {AlignMap(n) : n \in FirstMap}
    /\ used = 0 /\ stored = {} /\ calls = 0
    /\ outcome = [n \in 1 .. MaxCalls |-> Nil]
    /\ holder = Nil
    /\ call = [th \in Threads |-> NoCall]

Reading(th) == OpenRead(th) \/ StartCopy(th) \/ EndRead(th)

Writing(th) ==
    \/ TakeWrite(th) \/ Begin(th) \/ Put(th) \/ Commit(th)
    \/ Abort(th) \/ Grow(th) \/ GiveUp(th)

Ingesting(th) == Reserve(th) \/ BeginSession(th) \/ SessionFull(th)

Step(th) == Reading(th) \/ Writing(th) \/ Ingesting(th)

Next == \E th \in Threads : Start(th) \/ Step(th) \/ Refuse(th)

\* A call runs on: no caller stops inside one.
Spec == Init /\ [][Next]_vars /\ \A th \in Threads : WF_vars(Step(th))

-----------------------------------------------------------------------------
(* What has to hold.                                                       *)

Calls == [at : {"gate", "reading", "copying", "try", "writing", "full", "session"},
          kind : Kinds, id : 1 .. MaxCalls, input : InputBytes \cup {0},
          row : RowBytes \cup {0}, commit : CommitBytes \cup {0}, since : 0 .. Rows, put : 0 .. Rows,
          tries : 0 .. Retries,
          from : Nat, crowded : BOOLEAN]

\* The map, the rows and the calls are what the code can hold.
TypeOK ==
    /\ mapSize \in Nat /\ used \in 0 .. mapSize
    /\ stored \subseteq (1 .. MaxCalls) \X (1 .. Rows)
    /\ outcome \in [1 .. MaxCalls -> {Nil, "ok", "full", "refused"}]
    /\ holder \in Threads \cup {Nil}
    /\ call \in [Threads -> Calls \cup {NoCall}]
    /\ calls \in 0 .. MaxCalls

\* A call that says it was done has every row in the file, and one that
\* failed, was given up or is still running has none, however many attempts
\* it took (with_write retries the whole transaction).
WritesAreWhole ==
    \A n \in 1 .. MaxCalls :
        {r \in 1 .. Rows : <<n, r>> \in stored} =
            IF outcome[n] = "ok" THEN 1 .. Rows ELSE {}

\* with_write gives up only after as many attempts as it is allowed, each
\* with a map at least twice the one before ("Each attempt at least doubles
\* the map").
GivesUpOnlyAfterDoubling ==
    \A th \in Threads :
        call[th].at \in {"try", "writing", "full"} /\ call[th].kind = "write" =>
            mapSize >= call[th].from * 2 ^ call[th].tries

\* An ingest whose rows stay within what was reserved for it is refused for
\* want of room only when another write of the process got in between the
\* reservation and the transaction.
IngestFullOnlyWhenCrowded ==
    \A th \in Threads :
        MapFull(th) /\ call[th].kind = "ingest" => call[th].crowded

Within(places) == {th \in Threads : call[th].at \in places}

\* The map changes size only while no transaction of read_txn, with_write or
\* an IngestSession is open: the guard spans the transaction, the abort and
\* the resize.
ResizedPastEveryGuard ==
    [][mapSize' # mapSize =>
          Within({"reading", "writing"}) = {} /\ Within({"reading", "writing"})' = {}]_vars

\* The map changes size only while this process holds no transaction at all
\* ("LMDB requires that this process hold no transaction while the map
\* grows"). snapshot_to does not keep to it.
ResizedWithNothingOpen ==
    [][mapSize' # mapSize => Within({"reading", "writing", "copying"}) = {}]_vars

\* A corpus never has less room than it had ("Never shrinks").
MapNeverShrinks == [][mapSize' >= mapSize]_vars

\* Every call comes back: no lock is waited for by its own holder and no
\* write retries for ever.
CallsReturn == \A th \in Threads : call[th].at # "idle" ~> call[th].at = "idle"
=============================================================================
