---------------------------- MODULE HandlesProofs ----------------------------
(***************************************************************************)
(* What the handle table keeps for every number of threads, directories    *)
(* and leases: an id leads to its own handle until it is closed, calls     *)
(* stray only after that, and what a handle keeps of a call is what the    *)
(* caller is shown.                                                        *)
(***************************************************************************)
EXTENDS Handles, FiniteSetTheorems, SequenceTheorems, WellFoundedInduction, TLAPS

\* Leases are numbered as they are opened, get their id later and are closed
\* after that.
LeasesInOrder ==
    /\ \E n \in 0 .. MaxOpens : Opened = 1 .. n
    /\ \A l \in Leases : id[l] # Nil => dir[l] # Nil
    /\ \A l \in closed : id[l] # Nil

\* A handle is in the slot of a lease that is held, with the unit and the keys
\* of its own corpus, and the error of a corpus that was in the slot.
TableIsHeld ==
    \A i \in DOMAIN table : table[i] # Nil =>
        /\ table[i].lease \in Held /\ id[table[i].lease] = i
        /\ table[i].unit \in {table[i].lease, Nil}
        /\ table[i].keys # Nil => table[i].keys.on = table[i].lease
        /\ table[i].err # Nil => table[i].err.on \in {table[i].lease} \cup closed

\* Where a call is, what it may hold: a call that is past the mutex has a
\* corpus of the slot its id names, and one that keeps the mutex has the slot
\* still.
CallOk(th) ==
    call[th].op # "idle" =>
        /\ call[th].on # Nil => call[th].on = call[th].lease \/ call[th].lease \in closed
        /\ call[th].unit # Nil => call[th].unit = call[th].on
        /\ call[th].at = "push" <=> call[th].op = "open"
        /\ call[th].op = "open" =>
              /\ call[th].on = call[th].lease
              /\ id[call[th].lease] = Nil /\ dir[call[th].lease] # Nil
        /\ call[th].op # "open" =>
              /\ id[call[th].lease] # Nil
              /\ call[th].on # Nil => id[call[th].on] = id[call[th].lease]
        /\ call[th].at = "enter" <=> call[th].on = Nil
        /\ call[th].op \in Locked /\ call[th].at # "enter" =>
              lock = th /\ Slot(th) # Nil /\ Slot(th).lease = call[th].on
        /\ At(th, "report") \/ At(th, "small") => failed[th] \in {Nil, call[th].lease}

\* Nobody opens a lease twice.
OpensApart ==
    \A th, u \in Threads :
        th # u /\ call[th].op = "open" /\ call[u].op = "open" => call[th].lease # call[u].lease

\* The histories name handles that are there.
HistoriesHeld ==
    \A th \in Threads : chosen[th] \in Held \cup {Nil} /\ failed[th] \in Held \cup {Nil}

HandlesInv ==
    /\ TypeOK /\ LeasesInOrder /\ TableIsHeld
    /\ \A th \in Threads : CallOk(th)
    /\ OpensApart /\ HistoriesHeld /\ AnswersAreOwn

-----------------------------------------------------------------------------
(* Values and lookups.                                                     *)

CallRecords ==
    [op   : Locked \cup Shared \cup {"open", "unit"},
     at   : {"push", "enter", "prepare", "work", "collected", "report", "small"},
     lease : Leases, on : Leases \cup {Nil}, unit : Leases \cup {Nil}]

LEMMA NilFacts ==
    /\ MaxOpens \in Nat
    /\ \A th \in Threads : th # Nil
    /\ \A d \in Dirs : d # Nil
    /\ \A l \in Leases : l # Nil /\ l \in Nat
    /\ \A n \in Nat : n # Nil
    /\ \A m \in Marks : m # Nil
    /\ \A h \in LeaseHandles : h # Nil
  BY HandlesAssumption DEF Leases

LEMMA Kinds ==
    /\ Idle.op = "idle" /\ Calls = {Idle} \cup CallRecords
    /\ Locked = {"select", "get", "maintain"} /\ Shared = {"fetch", "h5md", "ingest"}
    /\ Writes = {"maintain", "ingest"}
    /\ Calling = Locked \cup Shared \cup {"unit"}
  BY DEF Idle, Calls, CallRecords, Locked, Shared, LockedReads, LockedWrites, SharedReads,
         SharedWrites, Writes, Calling

LEMMA CallFacts ==
    ASSUME TypeOK, NEW th \in Threads
    PROVE  /\ call[th] = Idle <=> call[th].op = "idle"
           /\ call[th].op # "idle" => call[th] \in CallRecords
           /\ call[th].op # "idle" => call[th].lease \in Leases /\ call[th].on \in Leases \cup {Nil}
  <1>1. call[th] \in {Idle} \cup CallRecords
    BY Kinds DEF TypeOK
  <1>2. \A c \in CallRecords : c.op # "idle" /\ c.lease \in Leases /\ c.on \in Leases \cup {Nil}
    BY Kinds DEF CallRecords
  <1> QED BY <1>1, <1>2, Kinds

\* The table as a function on slots.
LEMMA TableFacts ==
    ASSUME TypeOK
    PROVE  /\ Len(table) \in Nat /\ DOMAIN table = 1 .. Len(table)
           /\ \A i \in DOMAIN table : i \in Nat /\ i # Nil /\ table[i] \in LeaseHandles \cup {Nil}
           /\ table \in [1 .. Len(table) -> LeaseHandles \cup {Nil}]
  <1>1. table \in Seq(LeaseHandles \cup {Nil})
    BY DEF TypeOK
  <1>2. Len(table) \in Nat /\ DOMAIN table = 1 .. Len(table) /\ table \in [1 .. Len(table) -> LeaseHandles \cup {Nil}]
    BY <1>1, LenProperties
  <1> QED BY <1>2, NilFacts

LEMMA HeldFacts ==
    ASSUME TypeOK
    PROVE  /\ \A l \in Held : /\ l \in Leases /\ l # Nil /\ id[l] # Nil /\ l \notin closed /\ id[l] \in Nat
                              /\ id[l] \in DOMAIN table /\ table[id[l]] \in LeaseHandles
                              /\ table[id[l]] # Nil /\ table[id[l]].lease = l
           /\ \A l, m \in Held : id[l] = id[m] => l = m
           /\ \A l \in Leases : id[l] # Nil /\ l \notin closed => l \in Held
  <1>1. \A l \in Held : l \in Leases /\ id[l] # Nil /\ l \notin closed /\ id[l] \in Nat
    BY DEF Held, TypeOK
  <1>2. \A l \in Held : id[l] \in DOMAIN table /\ table[id[l]] # Nil /\ table[id[l]].lease = l
    BY DEF TypeOK
  <1> QED BY <1>1, <1>2, NilFacts, TableFacts DEF Held

\* The handle an id leads to: the lease's own, unless that was closed; and
\* that of the corpus the call has, unless that one's was.
LEMMA SlotFacts ==
    ASSUME HandlesInv, NEW th \in Threads, call[th].op \notin {"idle", "open"}, Slot(th) # Nil
    PROVE  /\ id[call[th].lease] \in DOMAIN table /\ Slot(th) = table[id[call[th].lease]]
           /\ Slot(th) \in LeaseHandles /\ Slot(th).lease \in Held
           /\ id[Slot(th).lease] = id[call[th].lease]
           /\ Slot(th).lease = call[th].lease \/ call[th].lease \in closed
           /\ call[th].on # Nil => Slot(th).lease = call[th].on \/ call[th].on \in closed
           /\ Slot(th).unit \in {Slot(th).lease, Nil}
  <1>1. TypeOK /\ TableIsHeld /\ CallOk(th)
    BY DEF HandlesInv
  <1>2. id[call[th].lease] \in DOMAIN table /\ Slot(th) = table[id[call[th].lease]]
    BY DEF Slot
  <1>3. /\ Slot(th) \in LeaseHandles /\ Slot(th).lease \in Held
        /\ id[Slot(th).lease] = id[call[th].lease]
        /\ Slot(th).unit \in {Slot(th).lease, Nil}
    BY <1>1, <1>2, TableFacts DEF TableIsHeld
  <1>4. call[th].lease \in Leases /\ call[th].on \in Leases \cup {Nil}
    BY <1>1, CallFacts
  <1>5. /\ id[call[th].lease] # Nil
        /\ call[th].on # Nil => id[call[th].on] = id[call[th].lease]
    BY <1>1 DEF CallOk
  <1> QED BY <1>1, <1>2, <1>3, <1>4, <1>5, HeldFacts

-----------------------------------------------------------------------------
(* What steps have in common.                                              *)

\* A step of th leaves the other calls as good as they were, if it changes
\* no handle that another call holds the mutex for.
LEMMA OthersOk ==
    ASSUME HandlesInv, NEW u \in Threads, call'[u] = call[u], UNCHANGED <<id, dir, closed>>,
           (lock' = lock /\ table' = table) \/ lock # u,
           failed'[u] \in {failed[u], Nil}
    PROVE  CallOk(u)'
  <1>1. CallOk(u)
    BY DEF HandlesInv
  <1>2. CASE lock # u
    BY <1>1, <1>2 DEF CallOk, At
  <1>3. CASE lock' = lock /\ table' = table
    BY <1>1, <1>3 DEF CallOk, At, Slot
  <1> QED BY <1>2, <1>3

\* Steps of a call that touch no handle and no history.
LEMMA CallStep ==
    ASSUME HandlesInv, NEW th \in Threads, NEW c \in Calls, call' = [call EXCEPT ![th] = c],
           UNCHANGED <<table, id, dir, closed, chosen, failed>>,
           writer' \in [Dirs -> Threads \cup {Nil}], lock' \in Threads \cup {Nil},
           lock' = lock \/ lock \in {Nil, th},
           ~At(th, "report"), ~At(th, "small"), c.op # "open", CallOk(th)'
    PROVE  HandlesInv'
  <1>1. TypeOK /\ LeasesInOrder /\ TableIsHeld /\ OpensApart /\ HistoriesHeld /\ AnswersAreOwn
    BY DEF HandlesInv
  <1>2. Held' = Held /\ Opened' = Opened
    BY DEF Held, Opened
  <1>3. call'[th] = c /\ \A u \in Threads : u # th => call'[u] = call[u]
    BY <1>1 DEF TypeOK
  <1>4. TypeOK'
    BY <1>1, <1>2 DEF TypeOK
  <1>5. LeasesInOrder' /\ TableIsHeld' /\ HistoriesHeld'
    BY <1>1, <1>2 DEF LeasesInOrder, TableIsHeld, HistoriesHeld
  <1>6. \A u \in Threads : CallOk(u)'
    <2>1. SUFFICES ASSUME NEW u \in Threads, u # th
                   PROVE  CallOk(u)'
      OBVIOUS
    <2> QED BY <1>3, <2>1, NilFacts, OthersOk
  <1>7. OpensApart'
    BY <1>1, <1>3 DEF OpensApart
  <1>8. AnswersAreOwn'
    BY <1>1, <1>3 DEF AnswersAreOwn, LastKeys, LastError, At
  <1> QED BY <1>4, <1>5, <1>6, <1>7, <1>8 DEF HandlesInv

\* A call returns.
LEMMA IdleIsOk ==
    ASSUME NEW th \in Threads, call'[th] = Idle
    PROVE  CallOk(th)'
  BY Kinds DEF CallOk

\* A change to one handle leaves the other ones and whose it is.
LEMMA HandleWritten ==
    ASSUME HandlesInv, NEW i \in DOMAIN table, table[i] # Nil, NEW h \in LeaseHandles,
           table' = [table EXCEPT ![i] = h], UNCHANGED <<id, dir, closed>>,
           h.lease = table[i].lease, h.unit \in {h.lease, Nil},
           h.keys # Nil => h.keys.on = h.lease,
           h.err # Nil => h.err.on \in {h.lease} \cup closed
    PROVE  /\ table' \in Seq(LeaseHandles \cup {Nil}) /\ TableIsHeld' /\ LeasesInOrder' /\ Held' = Held
           /\ table'[i] = h
           /\ \A l \in Held : id[l] \in DOMAIN table' /\ table'[id[l]] # Nil /\ table'[id[l]].lease = l
           /\ \A l \in Held : l # h.lease => table'[id[l]] = table[id[l]]
           /\ h.lease \in Held /\ id[h.lease] = i
  <1>1. TypeOK /\ TableIsHeld /\ LeasesInOrder
    BY DEF HandlesInv
  <1>2. Held' = Held /\ Opened' = Opened
    BY DEF Held, Opened
  <1>3. table \in Seq(LeaseHandles \cup {Nil}) /\ i \in 1 .. Len(table)
    BY <1>1, TableFacts DEF TypeOK
  <1>4. table' \in Seq(LeaseHandles \cup {Nil})
    BY <1>3, ExceptSeq
  <1>5. DOMAIN table' = DOMAIN table /\ \A j \in DOMAIN table : table'[j] = IF j = i THEN h ELSE table[j]
    BY <1>1, TableFacts
  <1>6. h.lease \in Held /\ id[h.lease] = i
    BY <1>1 DEF TableIsHeld
  <1>7. TableIsHeld'
    BY <1>1, <1>2, <1>5, <1>6 DEF TableIsHeld
  <1>8. LeasesInOrder'
    BY <1>1, <1>2 DEF LeasesInOrder
  <1>9. \A l \in Held : id[l] \in DOMAIN table' /\ table'[id[l]] # Nil /\ table'[id[l]].lease = l
                        /\ (l # h.lease => table'[id[l]] = table[id[l]])
    BY <1>1, <1>5, <1>6, HeldFacts, NilFacts
  <1> QED BY <1>2, <1>4, <1>5, <1>6, <1>7, <1>8, <1>9

\* A history without lease l, and with it for one thread.
LEMMA HistoryFacts ==
    ASSUME NEW hist \in [Threads -> Leases \cup {Nil}], NEW l \in Leases, NEW th \in Threads
    PROVE  /\ Without(hist, l) \in [Threads -> Leases \cup {Nil}]
           /\ \A u \in Threads : Without(hist, l)[u] = IF hist[u] = l THEN Nil ELSE hist[u]
           /\ Latest(hist, th, l) \in [Threads -> Leases \cup {Nil}]
           /\ \A u \in Threads : Latest(hist, th, l)[u] = IF u = th THEN l
                                                          ELSE IF hist[u] = l THEN Nil ELSE hist[u]
  BY DEF Without, Latest

-----------------------------------------------------------------------------
(* Calls that begin, enter, work and return.                               *)

LEMMA BeginKeeps ==
    ASSUME HandlesInv, NEW th \in Threads, NEW op \in Ops, NEW l \in Leases, Begin(th, op, l)
    PROVE  HandlesInv'
  <1> DEFINE c == [op |-> op, at |-> "enter", lease |-> l, on |-> Nil, unit |-> Nil]
  <1>1. TypeOK /\ op \in Calling /\ id[l] # Nil /\ call[th] = Idle /\ call' = [call EXCEPT ![th] = c]
        /\ UNCHANGED <<table, lock, writer, dir, id, closed, chosen, failed>>
    BY HandlesAssumption DEF HandlesInv, Begin
  <1>2. c \in CallRecords /\ c.op \notin {"open", "idle"}
    BY <1>1, Kinds DEF CallRecords
  <1>3. c.op = op /\ c.at = "enter" /\ c.lease = l /\ c.on = Nil /\ c.unit = Nil
    OBVIOUS
  <1> HIDE DEF c
  <1>4. call'[th] = c
    BY <1>1 DEF TypeOK
  <1>5. CallOk(th)'
    BY <1>1, <1>2, <1>3, <1>4 DEF CallOk, At
  <1>6. ~At(th, "report") /\ ~At(th, "small") /\ c \in Calls
    BY <1>1, <1>2, Kinds DEF At
  <1> QED BY <1>1, <1>2, <1>5, <1>6, CallStep DEF TypeOK

LEMMA ReturnKeeps ==
    ASSUME HandlesInv, NEW th \in Threads, EnterNull(th) \/ FinishLocked(th) \/ FinishShared(th)
    PROVE  HandlesInv'
  <1>1. /\ TypeOK /\ CallOk(th) /\ call' = [call EXCEPT ![th] = Idle]
        /\ UNCHANGED <<table, dir, id, closed, chosen, failed>>
    BY DEF HandlesInv, EnterNull, FinishLocked, FinishShared, Return
  <1>2. writer' \in [Dirs -> Threads \cup {Nil}]
    BY <1>1 DEF TypeOK, EnterNull, FinishLocked, FinishShared, EndWrite
  <1>3. call'[th] = Idle /\ Idle \in Calls
    BY <1>1, Kinds DEF TypeOK
  <1>4. lock' = lock \/ (lock = th /\ lock' = Nil)
    BY <1>1 DEF EnterNull, FinishLocked, FinishShared, At, CallOk, TypeOK
  <1>5. ~At(th, "report") /\ ~At(th, "small")
    BY DEF EnterNull, FinishLocked, FinishShared, At
  <1>6. CallOk(th)'
    BY <1>3, IdleIsOk
  <1> QED BY <1>1, <1>2, <1>3, <1>4, <1>5, <1>6, Kinds, CallStep DEF TypeOK

\* A call takes the corpus of the slot its id leads to.
LEMMA EnterKeeps ==
    ASSUME HandlesInv, NEW th \in Threads, EnterLocked(th) \/ CloneCorpus(th)
    PROVE  HandlesInv'
  <1> DEFINE m == Slot(th).lease
             at == Work(call[th].op)
             unit == IF call[th].op = "h5md" THEN Slot(th).unit ELSE Nil
  <1>1. /\ TypeOK /\ CallOk(th) /\ call[th].op \in Locked \cup Shared /\ call[th].at = "enter"
        /\ lock = Nil /\ Slot(th) # Nil
        /\ UNCHANGED <<table, writer, dir, id, closed, chosen, failed>>
    BY DEF HandlesInv, EnterLocked, CloneCorpus, At, Free
  <1>2. /\ m \in Leases /\ m # Nil /\ id[m] = id[call[th].lease]
        /\ m = call[th].lease \/ call[th].lease \in closed
        /\ Slot(th).unit \in {m, Nil}
    BY <1>1, Kinds, SlotFacts, HeldFacts
  <1>3. call[th] \in CallRecords /\ call[th].unit = Nil
    BY <1>1, Kinds, CallFacts DEF CallOk
  <1>4. at \in {"prepare", "work"}
    BY DEF Work
  <1> HIDE DEF at
  <1>5. CASE EnterLocked(th)
    <2> DEFINE c == [call[th] EXCEPT !.at = at, !.on = m]
    <2>1. call' = [call EXCEPT ![th] = c] /\ lock' = th /\ call[th].op \in Locked
      BY <1>1, <1>3, <1>5 DEF EnterLocked, at, TypeOK
    <2>2. /\ c \in CallRecords /\ c.at = at /\ c.on = m /\ c.unit = Nil /\ c.op = call[th].op
          /\ c.lease = call[th].lease
      BY <1>2, <1>3, <1>4 DEF CallRecords
    <2> HIDE DEF c
    <2>3. call'[th] = c
      BY <1>1, <2>1 DEF TypeOK
    <2>4. Slot(th)' = Slot(th)
      BY <1>1, <2>2, <2>3 DEF Slot
    <2>5. CallOk(th)'
      BY <1>1, <1>2, <1>4, <2>1, <2>2, <2>3, <2>4, Kinds DEF CallOk, At
    <2>6. ~At(th, "report") /\ ~At(th, "small") /\ c \in Calls /\ c.op # "open"
      BY <1>1, <2>1, <2>2, Kinds DEF At
    <2> QED BY <1>1, <2>1, <2>5, <2>6, CallStep DEF TypeOK
  <1>6. CASE CloneCorpus(th)
    <2> DEFINE c == [call[th] EXCEPT !.at = at, !.on = m, !.unit = unit]
    <2>1. call' = [call EXCEPT ![th] = c] /\ lock' = lock /\ call[th].op \in Shared
      BY <1>1, <1>3, <1>6 DEF CloneCorpus, at, TypeOK
    <2>2. unit \in {m, Nil}
      BY <1>2
    <2> HIDE DEF unit
    <2>3. /\ c \in CallRecords /\ c.at = at /\ c.on = m /\ c.unit = unit /\ c.op = call[th].op
          /\ c.lease = call[th].lease
      <3>1. unit \in Leases \cup {Nil}
        BY <1>2, <2>2
      <3> HIDE DEF m
      <3> QED BY <1>2, <1>3, <1>4, <3>1 DEF CallRecords
    <2> HIDE DEF c
    <2>4. call'[th] = c
      BY <1>1, <2>1 DEF TypeOK
    <2>5. CallOk(th)'
      BY <1>1, <1>2, <1>4, <2>1, <2>2, <2>3, <2>4, Kinds DEF CallOk, At
    <2>6. ~At(th, "report") /\ ~At(th, "small") /\ c \in Calls /\ c.op # "open"
      BY <1>1, <2>1, <2>3, Kinds DEF At
    <2> QED BY <1>1, <2>1, <2>5, <2>6, CallStep DEF TypeOK
  <1> QED BY <1>5, <1>6

\* A call goes from one place to the next with what it has.
LEMMA GotoKeeps ==
    ASSUME HandlesInv, NEW th \in Threads, BeginWrite(th) \/ Collect(th)
    PROVE  HandlesInv'
  <1>1. PICK at \in {"work", "collected"} :
            /\ call' = [call EXCEPT ![th].at = at]
            /\ UNCHANGED <<table, lock, dir, id, closed, chosen, failed>>
            /\ writer' \in [Dirs -> Threads \cup {Nil}]
            /\ at = "collected" => call[th].op = "h5md"
            /\ call[th].op # "idle" /\ call[th].at \in {"prepare", "work"}
    BY DEF HandlesInv, TypeOK, BeginWrite, Collect, Goto, At
  <1> DEFINE c == [call[th] EXCEPT !.at = at]
  <1>2. TypeOK /\ CallOk(th) /\ call[th] \in CallRecords
    BY <1>1, CallFacts DEF HandlesInv
  <1>3. /\ c \in CallRecords /\ c.at = at /\ c.on = call[th].on /\ c.unit = call[th].unit
        /\ c.op = call[th].op /\ c.lease = call[th].lease
    BY <1>1, <1>2 DEF CallRecords
  <1>4. call' = [call EXCEPT ![th] = c] /\ call'[th] = c
    BY <1>1, <1>2 DEF TypeOK
  <1> HIDE DEF c
  <1>5. Slot(th)' = Slot(th)
    BY <1>1, <1>3, <1>4 DEF Slot
  <1>6. CallOk(th)' /\ c.op # "open"
    BY <1>1, <1>2, <1>3, <1>4, <1>5 DEF CallOk, At
  <1>7. ~At(th, "report") /\ ~At(th, "small") /\ c \in Calls
    BY <1>1, <1>3, Kinds DEF At
  <1> QED BY <1>1, <1>2, <1>4, <1>6, <1>7, CallStep DEF TypeOK

-----------------------------------------------------------------------------
(* Opening and closing.                                                    *)

LEMMA OpenKeeps ==
    ASSUME HandlesInv, NEW th \in Threads, NEW d \in Dirs, OpenEnv(th, d)
    PROVE  HandlesInv'
  <1> DEFINE l == Cardinality(Opened) + 1
             c == [op |-> "open", at |-> "push", lease |-> l, on |-> l, unit |-> Nil]
  <1>1. /\ TypeOK /\ LeasesInOrder /\ TableIsHeld /\ OpensApart /\ HistoriesHeld /\ AnswersAreOwn
        /\ \A u \in Threads : CallOk(u)
    BY DEF HandlesInv
  <1>2. /\ call[th] = Idle /\ Cardinality(Opened) < MaxOpens
        /\ dir' = [dir EXCEPT ![l] = d] /\ call' = [call EXCEPT ![th] = c]
        /\ UNCHANGED <<table, lock, writer, id, closed, chosen, failed>>
    BY DEF OpenEnv
  <1>3. PICK n \in 0 .. MaxOpens : Opened = 1 .. n
    BY <1>1 DEF LeasesInOrder
  <1>4. n \in Nat /\ l = n + 1 /\ l \in Leases
    <2>1. n \in Nat
      BY NilFacts
    <2>2. Cardinality(1 .. n) = n
      BY <2>1, FS_Interval
    <2> QED BY <1>2, <1>3, <2>1, <2>2, NilFacts DEF Leases
  <1>5. dir[l] = Nil /\ id[l] = Nil
    <2>1. l \notin Opened
      BY <1>3, <1>4
    <2> QED BY <1>1, <1>4, <2>1 DEF Opened, LeasesInOrder
  <1>6. c \in CallRecords /\ c \in Calls
    BY <1>4, Kinds DEF CallRecords
  <1>7. c.op = "open" /\ c.at = "push" /\ c.lease = l /\ c.on = l /\ c.unit = Nil
    OBVIOUS
  <1> HIDE DEF l, c
  <1>8. call'[th] = c /\ \A u \in Threads : u # th => call'[u] = call[u]
    BY <1>1, <1>2 DEF TypeOK
  <1>9. dir'[l] = d /\ dir' \in [Leases -> Dirs \cup {Nil}] /\ \A m \in Leases : m # l => dir'[m] = dir[m]
    BY <1>1, <1>2, <1>4 DEF TypeOK
  <1>10. Held' = Held
    BY <1>2 DEF Held
  <1>11. TypeOK'
    BY <1>1, <1>2, <1>6, <1>9, <1>10 DEF TypeOK
  <1>12. LeasesInOrder'
    <2>1. Opened' = 1 .. n + 1
      <3>1. \A m : m \in Opened' <=> m \in Opened \/ m = l
        BY <1>4, <1>9, NilFacts DEF Opened
      <3>2. \A m : m \in 1 .. n + 1 <=> m \in 1 .. n \/ m = n + 1
        BY <1>4
      <3> QED BY <1>3, <1>4, <3>1, <3>2
    <2>2. n + 1 \in 0 .. MaxOpens
      BY <1>4, NilFacts DEF Leases
    <2> QED BY <1>1, <1>2, <1>9, <2>1, <2>2, NilFacts DEF LeasesInOrder
  <1>13. TableIsHeld' /\ HistoriesHeld'
    BY <1>1, <1>2, <1>10 DEF TableIsHeld, HistoriesHeld
  <1>14. \A u \in Threads : CallOk(u)'
    <2>1. CallOk(th)'
      BY <1>2, <1>4, <1>5, <1>7, <1>8, <1>9, NilFacts, Kinds DEF CallOk, At
    <2>2. ASSUME NEW u \in Threads, u # th
          PROVE  CallOk(u)'
      <3>1. CallOk(u) /\ call'[u] = call[u]
        BY <1>1, <1>8, <2>2
      <3>2. call[u].op # "idle" => call[u].lease \in Leases
        BY <1>1, CallFacts
      <3>3. call[u].op # "idle" /\ dir[call[u].lease] # Nil => dir'[call[u].lease] # Nil
        BY <1>5, <1>9, <3>2
      <3> QED BY <1>2, <3>1, <3>3 DEF CallOk, At, Slot
    <2> QED BY <2>1, <2>2
  <1>15. OpensApart'
    <2>1. \A u \in Threads : call[u].op = "open" => call[u].lease # l
      BY <1>1, <1>5 DEF CallOk
    <2> QED BY <1>1, <1>7, <1>8, <2>1 DEF OpensApart
  <1>16. AnswersAreOwn'
    <2>1. ~At(th, "report") /\ ~At(th, "small")
      BY <1>2, Kinds DEF At
    <2> QED BY <1>1, <1>2, <1>8, <2>1 DEF AnswersAreOwn, LastKeys, LastError, At
  <1> QED BY <1>11, <1>12, <1>13, <1>14, <1>15, <1>16 DEF HandlesInv

\* A nonempty set of slots has a first one.
LEMMA LeastSlot ==
    ASSUME NEW S, S \subseteq Nat, S # {}
    PROVE  \E m \in S : \A j \in S : m <= j
  <1> DEFINE R == OpToRel(<, Nat)
  <1>1. IsWellFoundedOn(R, Nat)
    BY NatLessThanWellFounded, Zenon
  <1>2. \A x, y \in Nat : x < y => <<x, y>> \in R
    BY DEF OpToRel
  <1> HIDE DEF R
  <1>3. PICK m \in S : \A j \in S : ~ (<<j, m>> \in R)
    BY <1>1, WFMin
  <1>4. \A j \in S : j \in Nat /\ m \in Nat
    OBVIOUS
  <1>5. \A j \in S : ~ (j < m)
    BY <1>2, <1>3, <1>4, Zenon
  <1> QED BY <1>4, <1>5

\* push_handle takes a slot that holds no handle, or the one behind the last.
LEMMA SlotIsFree ==
    ASSUME TypeOK
    PROVE  /\ FreeSlot \in DOMAIN table => table[FreeSlot] = Nil
           /\ FreeSlot \in DOMAIN table \/ FreeSlot = Len(table) + 1
           /\ FreeSlot \in Nat
  <1>1. CASE FreeSlots = {}
    <2>1. FreeSlot = Len(table) + 1 /\ Len(table) \in Nat /\ DOMAIN table = 1 .. Len(table)
      BY <1>1, TableFacts DEF FreeSlot
    <2> QED BY <2>1
  <1>2. CASE FreeSlots # {}
    <2>1. FreeSlots \subseteq Nat /\ FreeSlots \subseteq DOMAIN table
      BY TableFacts DEF FreeSlots
    <2>2. FreeSlot \in FreeSlots
      BY <1>2, <2>1, LeastSlot DEF FreeSlot
    <2> QED BY <2>1, <2>2 DEF FreeSlots
  <1> QED BY <1>1, <1>2

\* The lease gets its id: the slot it takes belonged to no lease that is held.
LEMMA PushKeeps ==
    ASSUME HandlesInv, NEW th \in Threads, Push(th)
    PROVE  HandlesInv'
  <1> DEFINE l == call[th].on
             i == FreeSlot
             h == [lease |-> l, keys |-> Nil, err |-> Nil, unit |-> Nil]
  <1>1. /\ TypeOK /\ LeasesInOrder /\ TableIsHeld /\ OpensApart /\ HistoriesHeld /\ AnswersAreOwn
        /\ \A u \in Threads : CallOk(u)
    BY DEF HandlesInv
  <1>2. /\ call[th].op # "idle" /\ call[th].at = "push" /\ lock = Nil
        /\ table' = [j \in DOMAIN table \cup {i} |-> IF j = i THEN h ELSE table[j]]
        /\ id' = [id EXCEPT ![l] = i] /\ call' = [call EXCEPT ![th] = Idle]
        /\ UNCHANGED <<lock, writer, dir, closed, chosen, failed>>
    BY DEF Push, At, Free, Return
  <1>3. call[th].op = "open" /\ l = call[th].lease /\ l \in Leases /\ id[l] = Nil /\ dir[l] # Nil
    BY <1>1, <1>2, CallFacts DEF CallOk
  <1>4. l \notin closed /\ l \notin Held
    BY <1>1, <1>3 DEF LeasesInOrder, Held
  <1>5. /\ Len(table) \in Nat /\ DOMAIN table = 1 .. Len(table)
        /\ i \in Nat /\ i # Nil /\ (i \in DOMAIN table => table[i] = Nil)
        /\ i \in DOMAIN table \/ i = Len(table) + 1
    BY <1>1, TableFacts, SlotIsFree, NilFacts
  <1>6. h \in LeaseHandles /\ h # Nil
    BY <1>3, NilFacts DEF LeaseHandles
  <1>7. h.lease = l /\ h.keys = Nil /\ h.err = Nil /\ h.unit = Nil
    OBVIOUS
  <1> HIDE DEF l, i, h
  <1>8. /\ id' \in [Leases -> Nat \cup {Nil}] /\ id'[l] = i
        /\ \A m \in Leases : m # l => id'[m] = id[m]
    BY <1>1, <1>2, <1>3, <1>5 DEF TypeOK
  <1>9. /\ DOMAIN table' = DOMAIN table \cup {i} /\ table'[i] = h
        /\ \A j \in DOMAIN table : j # i => table'[j] = table[j]
    BY <1>2
  <1>10. Held' = Held \cup {l}
    <2>1. \A m : m \in Held' <=> m \in Held \/ m = l
      BY <1>2, <1>3, <1>4, <1>5, <1>8 DEF Held
    <2> QED BY <2>1
  <1>11. \A m \in Held : m # l /\ id'[m] = id[m] /\ id[m] \in DOMAIN table /\ id[m] # i
                         /\ table'[id[m]] = table[id[m]]
    <2>1. SUFFICES ASSUME NEW m \in Held
                   PROVE  m # l /\ id'[m] = id[m] /\ id[m] \in DOMAIN table /\ id[m] # i
                          /\ table'[id[m]] = table[id[m]]
      OBVIOUS
    <2>2. m \in Leases /\ id[m] \in DOMAIN table /\ table[id[m]] # Nil
      BY <1>1, HeldFacts
    <2> QED BY <1>4, <1>5, <1>8, <1>9, <2>2
  <1>12. table' \in Seq(LeaseHandles \cup {Nil})
    <2>1. \A j \in DOMAIN table' : table'[j] \in LeaseHandles \cup {Nil}
      BY <1>1, <1>6, <1>9, TableFacts
    <2>2. PICK n \in Nat : DOMAIN table' = 1 .. n
      <3>1. CASE i \in DOMAIN table
        <4>1. DOMAIN table' = 1 .. Len(table) /\ Len(table) \in Nat
          BY <1>5, <1>9, <3>1
        <4> QED BY <4>1
      <3>2. CASE i = Len(table) + 1
        <4>1. DOMAIN table' = 1 .. Len(table) + 1 /\ Len(table) + 1 \in Nat
          BY <1>5, <1>9, <3>2
        <4> QED BY <4>1
      <3> QED BY <1>5, <3>1, <3>2
    <2>3. table' \in [1 .. n -> LeaseHandles \cup {Nil}]
      BY <1>2, <2>1, <2>2
    <2> QED BY <2>3
  <1>13. call' \in [Threads -> Calls] /\ call'[th] = Idle /\ \A u \in Threads : u # th => call'[u] = call[u]
    BY <1>1, <1>2, Kinds DEF TypeOK
  <1>14. TypeOK'
    <2>1. \A m \in Held' : id'[m] \in DOMAIN table' /\ table'[id'[m]] # Nil /\ table'[id'[m]].lease = m
      BY <1>1, <1>6, <1>7, <1>8, <1>9, <1>10, <1>11, HeldFacts
    <2> QED BY <1>1, <1>2, <1>8, <1>12, <1>13, <2>1 DEF TypeOK
  <1>15. LeasesInOrder'
    BY <1>1, <1>2, <1>3, <1>4, <1>8 DEF LeasesInOrder, Opened, TypeOK
  <1>16. TableIsHeld'
    <2>1. SUFFICES ASSUME NEW j \in DOMAIN table', table'[j] # Nil
                   PROVE  /\ table'[j].lease \in Held' /\ id'[table'[j].lease] = j
                          /\ table'[j].unit \in {table'[j].lease, Nil}
                          /\ table'[j].keys # Nil => table'[j].keys.on = table'[j].lease
                          /\ table'[j].err # Nil => table'[j].err.on \in {table'[j].lease} \cup closed'
      BY DEF TableIsHeld
    <2>2. CASE j = i
      BY <1>7, <1>8, <1>9, <1>10, <2>2
    <2>3. CASE j # i
      BY <1>1, <1>2, <1>9, <1>10, <1>11, <2>1, <2>3 DEF TableIsHeld
    <2> QED BY <2>2, <2>3
  <1>17. \A u \in Threads : CallOk(u)'
    <2>1. CallOk(th)'
      BY <1>13, IdleIsOk
    <2>2. ASSUME NEW u \in Threads, u # th
          PROVE  CallOk(u)'
      <3>1. CallOk(u) /\ call'[u] = call[u] /\ lock # u
        BY <1>1, <1>2, <1>13, <2>2, NilFacts
      <3>2. call[u].op # "idle" => call[u].lease \in Leases /\ call[u].on \in Leases \cup {Nil}
        BY <1>1, CallFacts
      <3>3. call[u].op = "open" => call[u].lease # l
        BY <1>1, <1>3, <2>2 DEF OpensApart
      <3>4. call[u].op \notin {"idle", "open"} => call[u].lease # l /\ (call[u].on # Nil => call[u].on # l)
        BY <1>3, <3>1 DEF CallOk
      <3>5. call[u].op # "idle" => id'[call[u].lease] = id[call[u].lease]
        BY <1>8, <3>2, <3>3, <3>4
      <3>6. call[u].op \notin {"idle", "open"} /\ call[u].on # Nil => id'[call[u].on] = id[call[u].on]
        BY <1>8, <3>2, <3>4
      <3> QED BY <1>2, <3>1, <3>5, <3>6 DEF CallOk, At
    <2> QED BY <2>1, <2>2
  <1>18. OpensApart'
    BY <1>1, <1>13, Kinds DEF OpensApart
  <1>19. HistoriesHeld'
    BY <1>1, <1>2, <1>10 DEF HistoriesHeld
  <1>20. AnswersAreOwn'
    <2>1. ~At(th, "report") /\ ~At(th, "small")
      BY <1>2 DEF At
    <2>2. ASSUME NEW u \in Threads
          PROVE  /\ chosen'[u] = chosen[u] /\ failed'[u] = failed[u]
                 /\ At(u, "report")' <=> At(u, "report")
                 /\ At(u, "small")' <=> At(u, "small")
                 /\ chosen[u] # Nil => table'[id'[chosen[u]]] = table[id[chosen[u]]]
                 /\ failed[u] # Nil => table'[id'[failed[u]]] = table[id[failed[u]]]
      BY <1>1, <1>2, <1>11, <1>13, <2>1, Kinds DEF HistoriesHeld, At
    <2>3. ASSUME NEW u \in Threads, chosen'[u] # Nil
          PROVE  LastKeys(chosen[u])' = [by |-> u, on |-> chosen[u]]'
      BY <1>1, <2>2, <2>3 DEF AnswersAreOwn, LastKeys
    <2>4. ASSUME NEW u \in Threads, failed'[u] # Nil, ~At(u, "report")', ~At(u, "small")'
          PROVE  (LastError(failed[u]) # Nil /\ LastError(failed[u]).by = u)'
      BY <1>1, <2>2, <2>4 DEF AnswersAreOwn, LastError
    <2> QED BY <2>3, <2>4 DEF AnswersAreOwn
  <1> QED BY <1>14, <1>15, <1>16, <1>17, <1>18, <1>19, <1>20 DEF HandlesInv

\* The slot is emptied for the next lease, and no history names this one.
LEMMA CloseKeeps ==
    ASSUME HandlesInv, NEW l \in Leases, Close(l)
    PROVE  HandlesInv'
  <1>1. /\ TypeOK /\ LeasesInOrder /\ TableIsHeld /\ OpensApart /\ HistoriesHeld /\ AnswersAreOwn
        /\ \A u \in Threads : CallOk(u)
    BY DEF HandlesInv
  <1>2. /\ id[l] # Nil /\ l \notin closed /\ lock = Nil
        /\ table' = [table EXCEPT ![id[l]] = Nil] /\ closed' = closed \cup {l}
        /\ chosen' = Without(chosen, l) /\ failed' = Without(failed, l)
        /\ UNCHANGED <<lock, writer, call, dir, id>>
    BY DEF Close, Free
  <1>3. l \in Held /\ id[l] \in DOMAIN table
    BY <1>1, <1>2, HeldFacts
  <1>4. Held' = Held \ {l}
    BY <1>2 DEF Held
  <1>5. table' \in Seq(LeaseHandles \cup {Nil}) /\ DOMAIN table' = DOMAIN table
        /\ \A j \in DOMAIN table : table'[j] = IF j = id[l] THEN Nil ELSE table[j]
    <2>1. table \in Seq(LeaseHandles \cup {Nil}) /\ id[l] \in 1 .. Len(table)
      BY <1>1, <1>3, TableFacts DEF TypeOK
    <2>2. table' \in Seq(LeaseHandles \cup {Nil})
      BY <1>2, <2>1, ExceptSeq
    <2> QED BY <1>1, <1>2, <1>3, <2>2, TableFacts
  <1>6. \A m \in Held' : id[m] # id[l] /\ id[m] \in DOMAIN table /\ table'[id[m]] = table[id[m]]
    BY <1>1, <1>3, <1>4, <1>5, HeldFacts
  <1>7. /\ chosen' \in [Threads -> Leases \cup {Nil}] /\ failed' \in [Threads -> Leases \cup {Nil}]
        /\ \A u \in Threads : /\ chosen'[u] = IF chosen[u] = l THEN Nil ELSE chosen[u]
                              /\ failed'[u] = IF failed[u] = l THEN Nil ELSE failed[u]
    BY <1>1, <1>2 DEF Without, TypeOK
  <1>8. TypeOK'
    <2>1. \A m \in Held' : id[m] \in DOMAIN table' /\ table'[id[m]] # Nil /\ table'[id[m]].lease = m
      BY <1>1, <1>4, <1>5, <1>6, HeldFacts
    <2> QED BY <1>1, <1>2, <1>5, <1>7, <2>1 DEF TypeOK
  <1>9. LeasesInOrder'
    BY <1>1, <1>2 DEF LeasesInOrder, Opened
  <1>10. TableIsHeld'
    <2>1. SUFFICES ASSUME NEW j \in DOMAIN table, table'[j] # Nil
                   PROVE  /\ table'[j].lease \in Held' /\ id[table'[j].lease] = j
                          /\ table'[j].unit \in {table'[j].lease, Nil}
                          /\ table'[j].keys # Nil => table'[j].keys.on = table'[j].lease
                          /\ table'[j].err # Nil => table'[j].err.on \in {table'[j].lease} \cup closed'
      BY <1>2, <1>5 DEF TableIsHeld
    <2>2. j # id[l] /\ table'[j] = table[j]
      BY <1>5, <2>1
    <2> QED BY <1>1, <1>2, <1>4, <2>1, <2>2 DEF TableIsHeld
  <1>11. \A u \in Threads : CallOk(u)'
    <2>1. ASSUME NEW u \in Threads
          PROVE  CallOk(u)'
      <3>1. CallOk(u) /\ lock # u /\ failed'[u] \in {failed[u], Nil}
        BY <1>1, <1>2, <1>7, NilFacts
      <3> QED BY <1>2, <3>1 DEF CallOk, At
    <2> QED BY <2>1
  <1>12. OpensApart'
    BY <1>1, <1>2 DEF OpensApart
  <1>13. HistoriesHeld'
    BY <1>1, <1>4, <1>7 DEF HistoriesHeld
  <1>14. AnswersAreOwn'
    <2>1. ASSUME NEW u \in Threads
          PROVE  /\ chosen'[u] # Nil => chosen'[u] = chosen[u] /\ LastKeys(chosen[u])' = LastKeys(chosen[u])
                 /\ failed'[u] # Nil => failed'[u] = failed[u] /\ LastError(failed[u])' = LastError(failed[u])
      <3>1. chosen'[u] # Nil => chosen'[u] = chosen[u] /\ chosen[u] \in Held'
        BY <1>7, <1>13 DEF HistoriesHeld
      <3>2. failed'[u] # Nil => failed'[u] = failed[u] /\ failed[u] \in Held'
        BY <1>7, <1>13 DEF HistoriesHeld
      <3>3. \A m \in Held' : LastKeys(m)' = LastKeys(m) /\ LastError(m)' = LastError(m)
        BY <1>2, <1>6 DEF LastKeys, LastError
      <3> QED BY <1>2, <1>6, <3>1, <3>2, <3>3 DEF LastKeys, LastError
    <2> QED BY <1>1, <1>2, <2>1 DEF AnswersAreOwn, At, LastKeys, LastError
  <1> QED BY <1>8, <1>9, <1>10, <1>11, <1>12, <1>13, <1>14 DEF HandlesInv

-----------------------------------------------------------------------------
(* Calls that change a handle, and calls that fail.                        *)

\* th returns after it changed the handle its id leads to; it had the mutex,
\* or nobody had it.
LEMMA WriteReturns ==
    ASSUME HandlesInv, NEW th \in Threads, call[th].op \notin {"idle", "open"}, Slot(th) # Nil,
           NEW h \in LeaseHandles, table' = [table EXCEPT ![id[call[th].lease]] = h],
           h.lease = Slot(th).lease, h.unit \in {h.lease, Nil},
           h.keys # Nil => h.keys.on = h.lease,
           h.err # Nil => h.err.on \in {h.lease} \cup closed,
           call' = [call EXCEPT ![th] = Idle], UNCHANGED <<id, dir, closed>>,
           writer' \in [Dirs -> Threads \cup {Nil}],
           lock \in {Nil, th}, lock' = Nil,
           chosen' \in [Threads -> Leases \cup {Nil}], failed' \in [Threads -> Leases \cup {Nil}],
           HistoriesHeld', AnswersAreOwn', \A u \in Threads : u # th => failed'[u] \in {failed[u], Nil}
    PROVE  HandlesInv'
  <1>1. TypeOK /\ OpensApart
    BY DEF HandlesInv
  <1> DEFINE i == id[call[th].lease]
  <1>2. i \in DOMAIN table /\ table[i] = Slot(th) /\ table[i] # Nil
    BY SlotFacts
  <1>3. /\ table' \in Seq(LeaseHandles \cup {Nil}) /\ TableIsHeld' /\ LeasesInOrder' /\ Held' = Held
        /\ \A l \in Held : id[l] \in DOMAIN table' /\ table'[id[l]] # Nil /\ table'[id[l]].lease = l
    <2> HIDE DEF i
    <2> QED BY <1>2, HandleWritten DEF i
  <1>4. call' \in [Threads -> Calls] /\ call'[th] = Idle /\ \A u \in Threads : u # th => call'[u] = call[u]
    BY <1>1, Kinds DEF TypeOK
  <1>5. TypeOK'
    BY <1>1, <1>3, <1>4 DEF TypeOK
  <1>6. \A u \in Threads : CallOk(u)'
    <2>1. CallOk(th)'
      BY <1>4, IdleIsOk
    <2>2. ASSUME NEW u \in Threads, u # th
          PROVE  CallOk(u)'
      <3>1. lock # u
        BY <2>2, NilFacts
      <3> QED BY <1>4, <2>2, <3>1, OthersOk
    <2> QED BY <2>1, <2>2
  <1>7. OpensApart'
    BY <1>1, <1>4, Kinds DEF OpensApart
  <1> QED BY <1>3, <1>5, <1>6, <1>7 DEF HandlesInv

\* th's histories and the other ones after a step in which th left a mark.
LEMMA AnswersKept ==
    ASSUME HandlesInv, NEW th \in Threads, NEW m \in Held, call'[th] = Idle,
           \A u \in Threads : u # th => call'[u] = call[u],
           UNCHANGED <<id, closed>>,
           \A l \in Held : l # m => table'[id[l]] = table[id[l]],
           \/ table'[id[m]].keys = table[id[m]].keys /\ chosen' = chosen
           \/ /\ table'[id[m]].keys = [by |-> th, on |-> m]
              /\ \A u \in Threads : chosen'[u] = IF u = th THEN m ELSE IF chosen[u] = m THEN Nil ELSE chosen[u],
           \/ /\ table'[id[m]].err = table[id[m]].err /\ failed' = failed
              /\ ~At(th, "report") /\ ~At(th, "small")
           \/ /\ table'[id[m]].err # Nil /\ table'[id[m]].err.by = th
              /\ \A u \in Threads : u # th => failed'[u] = IF failed[u] = m THEN Nil ELSE failed[u]
              /\ failed'[th] \in {m, Nil}
    PROVE  HistoriesHeld' /\ AnswersAreOwn'
  <1>1. TypeOK /\ HistoriesHeld /\ AnswersAreOwn /\ Held' = Held /\ m # Nil
    BY HeldFacts DEF HandlesInv, Held
  <1>2. HistoriesHeld'
    BY <1>1 DEF HistoriesHeld
  <1>3. ~At(th, "report")' /\ ~At(th, "small")'
        /\ \A u \in Threads : u # th => /\ At(u, "report")' <=> At(u, "report")
                                        /\ At(u, "small")' <=> At(u, "small")
    BY Kinds DEF At
  <1>4. ASSUME NEW u \in Threads, chosen'[u] # Nil
        PROVE  LastKeys(chosen[u])' = [by |-> u, on |-> chosen[u]]'
    <2>1. chosen'[u] \in Held
      BY <1>1, <1>2, <1>4 DEF HistoriesHeld
    <2>2. CASE table'[id[m]].keys = table[id[m]].keys /\ chosen' = chosen
      BY <1>1, <1>4, <2>1, <2>2 DEF AnswersAreOwn, LastKeys
    <2>3. CASE /\ table'[id[m]].keys = [by |-> th, on |-> m]
               /\ \A v \in Threads : chosen'[v] = IF v = th THEN m ELSE IF chosen[v] = m THEN Nil ELSE chosen[v]
      <3>1. CASE u = th
        BY <2>3, <3>1 DEF LastKeys
      <3>2. CASE u # th
        BY <1>1, <1>4, <2>1, <2>3, <3>2 DEF AnswersAreOwn, LastKeys
      <3> QED BY <3>1, <3>2
    <2> QED BY <2>2, <2>3
  <1>5. ASSUME NEW u \in Threads, failed'[u] # Nil, ~At(u, "report")', ~At(u, "small")'
        PROVE  (LastError(failed[u]) # Nil /\ LastError(failed[u]).by = u)'
    <2>1. failed'[u] \in Held
      BY <1>1, <1>2, <1>5 DEF HistoriesHeld
    <2>2. CASE /\ table'[id[m]].err = table[id[m]].err /\ failed' = failed
               /\ ~At(th, "report") /\ ~At(th, "small")
      <3>1. ~At(u, "report") /\ ~At(u, "small")
        BY <1>3, <1>5, <2>2
      <3> QED BY <1>1, <1>5, <2>1, <2>2, <3>1 DEF AnswersAreOwn, LastError
    <2>3. CASE /\ table'[id[m]].err # Nil /\ table'[id[m]].err.by = th
               /\ \A v \in Threads : v # th => failed'[v] = IF failed[v] = m THEN Nil ELSE failed[v]
               /\ failed'[th] \in {m, Nil}
      <3>1. CASE u = th
        BY <1>5, <2>3, <3>1 DEF LastError
      <3>2. CASE u # th
        <4>1. failed'[u] = failed[u] /\ failed[u] # m /\ ~At(u, "report") /\ ~At(u, "small")
          BY <1>3, <1>5, <2>3, <3>2
        <4> QED BY <1>1, <1>5, <2>1, <4>1 DEF AnswersAreOwn, LastError
      <3> QED BY <3>1, <3>2
    <2> QED BY <2>2, <2>3
  <1> QED BY <1>2, <1>4, <1>5 DEF AnswersAreOwn

LEMMA UnitKeeps ==
    ASSUME HandlesInv, NEW th \in Threads, NEW clear \in BOOLEAN, SetUnit(th, clear)
    PROVE  HandlesInv'
  <1> DEFINE i == id[call[th].lease]
             m == Slot(th).lease
             unit == IF clear THEN Nil ELSE m
             h == [table[i] EXCEPT !.unit = unit]
  <1>1. /\ TypeOK /\ TableIsHeld /\ call[th].op = "unit" /\ call[th].at = "enter" /\ lock = Nil /\ Slot(th) # Nil
        /\ table' = [table EXCEPT ![i].unit = unit]
        /\ call' = [call EXCEPT ![th] = Idle]
        /\ UNCHANGED <<lock, writer, dir, id, closed, chosen, failed>>
    BY DEF HandlesInv, SetUnit, At, Free, Return
  <1>2. i \in DOMAIN table /\ Slot(th) = table[i] /\ table[i] \in LeaseHandles /\ m \in Held /\ id[m] = i
    BY <1>1, SlotFacts
  <1>3. unit \in {m, Nil} /\ m \in Leases
    BY <1>1, <1>2, HeldFacts
  <1> HIDE DEF unit
  <1>4. /\ h \in LeaseHandles /\ h.lease = m /\ h.unit = unit /\ h.keys = table[i].keys
        /\ h.err = table[i].err
    BY <1>2, <1>3 DEF LeaseHandles
  <1>5. table' = [table EXCEPT ![i] = h] /\ table'[i] = h
        /\ \A j \in DOMAIN table : j # i => table'[j] = table[j]
    BY <1>1, <1>2, TableFacts
  <1>6. /\ h.keys # Nil => h.keys.on = h.lease
        /\ h.err # Nil => h.err.on \in {h.lease} \cup closed
    BY <1>1, <1>2, <1>4 DEF TableIsHeld
  <1> HIDE DEF h
  <1>7. call'[th] = Idle /\ \A u \in Threads : u # th => call'[u] = call[u]
    BY <1>1 DEF TypeOK
  <1>8. \A l \in Held : l # m => table'[id[l]] = table[id[l]]
    BY <1>1, <1>2, <1>5, HeldFacts
  <1>9. HistoriesHeld' /\ AnswersAreOwn'
    <2>1. table'[id[m]].keys = table[id[m]].keys /\ chosen' = chosen
      BY <1>1, <1>2, <1>4, <1>5
    <2>2. /\ table'[id[m]].err = table[id[m]].err /\ failed' = failed
          /\ ~At(th, "report") /\ ~At(th, "small")
      BY <1>1, <1>2, <1>4, <1>5 DEF At
    <2> HIDE DEF m, i
    <2> QED BY <1>1, <1>2, <1>7, <1>8, <2>1, <2>2, AnswersKept
  <1>10. writer' \in [Dirs -> Threads \cup {Nil}] /\ chosen' \in [Threads -> Leases \cup {Nil}]
         /\ failed' \in [Threads -> Leases \cup {Nil}]
    BY <1>1 DEF TypeOK
  <1> QED BY <1>1, <1>3, <1>4, <1>5, <1>6, <1>9, <1>10, WriteReturns

\* A call that keeps the mutex ends: a selection with its keys, any with its
\* error.
LEMMA LockedKeeps ==
    ASSUME HandlesInv, NEW th \in Threads, FinishSelect(th) \/ FailLocked(th)
    PROVE  HandlesInv'
  <1> DEFINE i == id[call[th].lease]
             m == call[th].on
             mark == By(th)
  <1>1. /\ TypeOK /\ TableIsHeld /\ HistoriesHeld /\ CallOk(th)
        /\ call[th].op \in Locked /\ call[th].at = "work"
        /\ call' = [call EXCEPT ![th] = Idle] /\ lock' = Nil
        /\ UNCHANGED <<dir, id, closed>>
    BY Kinds DEF HandlesInv, FinishSelect, FailLocked, At, Return
  <1>2. lock = th /\ Slot(th) # Nil /\ Slot(th).lease = m
    BY <1>1, Kinds DEF CallOk
  <1>3. i \in DOMAIN table /\ Slot(th) = table[i] /\ table[i] \in LeaseHandles /\ m \in Held /\ id[m] = i
    BY <1>1, <1>2, Kinds, SlotFacts
  <1>4. m \in Leases /\ mark = [by |-> th, on |-> m] /\ mark \in Marks /\ mark # Nil
    BY <1>1, <1>3, HeldFacts, NilFacts DEF By, Marks
  <1>5. call'[th] = Idle /\ \A u \in Threads : u # th => call'[u] = call[u]
    BY <1>1 DEF TypeOK
  <1>6. writer' \in [Dirs -> Threads \cup {Nil}]
    BY <1>1 DEF FinishSelect, FailLocked, EndWrite, TypeOK
  <1>7. table[i].lease = m /\ table[i].unit \in {m, Nil} /\ (table[i].keys # Nil => table[i].keys.on = m)
        /\ (table[i].err # Nil => table[i].err.on \in {m} \cup closed)
    BY <1>1, <1>2, <1>3 DEF TableIsHeld
  <1>8. chosen \in [Threads -> Leases \cup {Nil}] /\ failed \in [Threads -> Leases \cup {Nil}]
    BY <1>1 DEF TypeOK
  <1>9. CASE FinishSelect(th)
    <2> DEFINE h == [table[i] EXCEPT !.keys = mark]
    <2>1. /\ table' = [table EXCEPT ![i].keys = mark] /\ chosen' = Latest(chosen, th, m)
          /\ failed' = failed
      BY <1>9 DEF FinishSelect
    <2>2. /\ h \in LeaseHandles /\ h.lease = m /\ h.unit = table[i].unit /\ h.keys = mark
          /\ h.err = table[i].err
      BY <1>3, <1>4, <1>7 DEF LeaseHandles
    <2>3. table' = [table EXCEPT ![i] = h] /\ table'[i] = h
          /\ \A j \in DOMAIN table : j # i => table'[j] = table[j]
      BY <1>1, <1>3, <2>1, TableFacts
    <2> HIDE DEF h
    <2>4. \A l \in Held : l # m => table'[id[l]] = table[id[l]]
      BY <1>1, <1>3, <2>3, HeldFacts
    <2>5. /\ chosen' \in [Threads -> Leases \cup {Nil}]
          /\ \A u \in Threads : chosen'[u] = IF u = th THEN m ELSE IF chosen[u] = m THEN Nil ELSE chosen[u]
      BY <1>4, <1>8, <2>1, HistoryFacts
    <2>6. HistoriesHeld' /\ AnswersAreOwn'
      <3>1. table'[id[m]].keys = [by |-> th, on |-> m] /\ table'[id[m]].err = table[id[m]].err
        BY <1>3, <1>4, <2>2, <2>3
      <3>2. ~At(th, "report") /\ ~At(th, "small")
        BY <1>1 DEF At
      <3> HIDE DEF m, i, mark
      <3> QED BY <1>1, <1>3, <1>5, <2>1, <2>4, <2>5, <3>1, <3>2, AnswersKept
    <2>7. h.keys.on = h.lease
      BY <1>4, <2>2
    <2>8. /\ h.lease = Slot(th).lease /\ h.unit \in {h.lease, Nil}
          /\ h.keys # Nil => h.keys.on = h.lease
          /\ h.err # Nil => h.err.on \in {h.lease} \cup closed
          /\ call[th].op \notin {"idle", "open"} /\ lock \in {Nil, th}
      BY <1>1, <1>2, <1>7, <2>2, <2>7, Kinds
    <2>9. /\ chosen' \in [Threads -> Leases \cup {Nil}] /\ failed' \in [Threads -> Leases \cup {Nil}]
          /\ \A u \in Threads : u # th => failed'[u] \in {failed[u], Nil}
      BY <1>8, <2>1, <2>5
    <2> HIDE DEF m, mark
    <2> QED BY <1>1, <1>2, <1>6, <2>2, <2>3, <2>6, <2>8, <2>9, WriteReturns
  <1>10. CASE FailLocked(th)
    <2> DEFINE h == [table[i] EXCEPT !.err = mark]
    <2>1. /\ table' = [table EXCEPT ![i].err = mark] /\ failed' = Latest(failed, th, m)
          /\ chosen' = chosen
      BY <1>10 DEF FailLocked
    <2>2. /\ h \in LeaseHandles /\ h.lease = m /\ h.unit = table[i].unit /\ h.err = mark
          /\ h.keys = table[i].keys
      BY <1>3, <1>4, <1>7 DEF LeaseHandles
    <2>3. table' = [table EXCEPT ![i] = h] /\ table'[i] = h
          /\ \A j \in DOMAIN table : j # i => table'[j] = table[j]
      BY <1>1, <1>3, <2>1, TableFacts
    <2> HIDE DEF h
    <2>4. \A l \in Held : l # m => table'[id[l]] = table[id[l]]
      BY <1>1, <1>3, <2>3, HeldFacts
    <2>5. /\ failed' \in [Threads -> Leases \cup {Nil}]
          /\ \A u \in Threads : failed'[u] = IF u = th THEN m ELSE IF failed[u] = m THEN Nil ELSE failed[u]
      BY <1>4, <1>8, <2>1, HistoryFacts
    <2>6. HistoriesHeld' /\ AnswersAreOwn'
      <3>1. table'[id[m]].keys = table[id[m]].keys /\ table'[id[m]].err # Nil /\ table'[id[m]].err.by = th
        BY <1>3, <1>4, <2>2, <2>3
      <3>2. failed'[th] \in {m, Nil} /\ m \in Held
            /\ \A u \in Threads : u # th => failed'[u] = IF failed[u] = m THEN Nil ELSE failed[u]
        BY <1>3, <2>5
      <3>3. UNCHANGED <<id, closed, chosen>>
        BY <1>1, <2>1
      <3> HIDE DEF m, i, mark
      <3> QED BY <1>5, <2>4, <3>1, <3>2, <3>3, AnswersKept
    <2>7. h.err.on \in {h.lease} \cup closed
      BY <1>4, <2>2
    <2>8. /\ h.lease = Slot(th).lease /\ h.unit \in {h.lease, Nil}
          /\ h.keys # Nil => h.keys.on = h.lease
          /\ h.err # Nil => h.err.on \in {h.lease} \cup closed
          /\ call[th].op \notin {"idle", "open"} /\ lock \in {Nil, th}
      BY <1>1, <1>2, <1>7, <2>2, <2>7, Kinds
    <2>9. /\ chosen' \in [Threads -> Leases \cup {Nil}] /\ failed' \in [Threads -> Leases \cup {Nil}]
          /\ \A u \in Threads : u # th => failed'[u] \in {failed[u], Nil}
      BY <1>8, <2>1, <2>5
    <2> HIDE DEF m, mark
    <2> QED BY <1>1, <1>2, <1>6, <2>2, <2>3, <2>6, <2>8, <2>9, WriteReturns
  <1> QED BY <1>9, <1>10

\* A call fails, and has yet to leave its message.
LEMMA FailedCall ==
    ASSUME HandlesInv, NEW th \in Threads, NEW on \in Leases, NEW place \in {"report", "small"},
           call[th].op \notin {"idle", "open"}, NEW c \in CallRecords, call' = [call EXCEPT ![th] = c],
           c.op = call[th].op, c.at = place, c.lease = call[th].lease, c.on = on,
           c.unit = call[th].unit,
           on = call[th].on \/ (call[th].op = "unit" /\ on = call[th].lease /\ call[th].unit = Nil),
           Fails(th), writer' \in [Dirs -> Threads \cup {Nil}],
           UNCHANGED <<table, lock, dir, id, closed, chosen>>
    PROVE  HandlesInv'
  <1> DEFINE l == call[th].lease
             f == IF l \in closed THEN Nil ELSE l
  <1>1. TypeOK /\ LeasesInOrder /\ TableIsHeld /\ OpensApart /\ HistoriesHeld /\ AnswersAreOwn /\ CallOk(th)
    BY DEF HandlesInv
  <1>2. Held' = Held /\ Opened' = Opened
    BY DEF Held, Opened
  <1>3. call[th] \in CallRecords /\ l \in Leases /\ id[l] # Nil /\ on # Nil
    BY <1>1, CallFacts, NilFacts DEF CallOk
  <1>4. c \in CallRecords /\ c.op = call[th].op /\ c.at = place /\ c.lease = l /\ c.on = on
        /\ c.unit = call[th].unit
    OBVIOUS
  <1>5. failed' = [failed EXCEPT ![th] = f] /\ f \in {Nil, l}
    BY DEF Fails
  <1>6. f \in Held \cup {Nil}
    BY <1>1, <1>3, HeldFacts
  <1> HIDE DEF f
  <1>7. call' = [call EXCEPT ![th] = c]
    OBVIOUS
  <1>8. call'[th] = c /\ \A u \in Threads : u # th => call'[u] = call[u]
    BY <1>1, <1>7 DEF TypeOK
  <1>9. failed'[th] = f /\ \A u \in Threads : u # th => failed'[u] = failed[u]
    BY <1>1, <1>5 DEF TypeOK
  <1>10. TypeOK'
    <2>1. call' \in [Threads -> Calls] /\ failed' \in [Threads -> Leases \cup {Nil}]
      BY <1>1, <1>3, <1>4, <1>5, <1>7, Kinds DEF TypeOK
    <2> QED BY <1>1, <1>2, <2>1 DEF TypeOK
  <1>11. LeasesInOrder' /\ TableIsHeld'
    BY <1>1, <1>2 DEF LeasesInOrder, TableIsHeld
  <1>12. HistoriesHeld'
    BY <1>1, <1>2, <1>6, <1>9 DEF HistoriesHeld
  <1>13. CallOk(th)'
    <2>1. Slot(th)' = Slot(th)
      BY <1>4, <1>8 DEF Slot
    <2>2. (call[th].op = "unit" => call[th].op \notin Locked) /\ place # "push" /\ place # "enter"
      BY Kinds
    <2>3. /\ on = l \/ l \in closed
          /\ c.unit # Nil => c.unit = on
          /\ id[on] = id[l]
      BY <1>1, <1>3, <1>4 DEF CallOk
    <2>4. call[th].op \in Locked => lock = th /\ Slot(th) # Nil /\ Slot(th).lease = on
      BY <1>1, <1>3, <2>2 DEF CallOk
    <2> QED BY <1>3, <1>4, <1>5, <1>8, <1>9, <2>1, <2>2, <2>3, <2>4 DEF CallOk, At
  <1>14. \A u \in Threads : CallOk(u)'
    <2>1. SUFFICES ASSUME NEW u \in Threads, u # th
                   PROVE  CallOk(u)'
      BY <1>13
    <2> QED BY <1>8, <1>9, <2>1, OthersOk
  <1>15. OpensApart'
    BY <1>1, <1>4, <1>8 DEF OpensApart
  <1>16. AnswersAreOwn'
    <2>1. \A u \in Threads : ~At(u, "report")' /\ ~At(u, "small")' =>
              u # th /\ ~At(u, "report") /\ ~At(u, "small")
      BY <1>4, <1>8 DEF At
    <2> QED BY <1>1, <1>9, <2>1 DEF AnswersAreOwn, LastKeys, LastError
  <1> QED BY <1>10, <1>11, <1>12, <1>14, <1>15, <1>16 DEF HandlesInv

LEMMA FailsKeeps ==
    ASSUME HandlesInv, NEW th \in Threads, FailShared(th) \/ TooSmall(th) \/ RefuseUnit(th)
    PROVE  HandlesInv'
  <1>1. /\ TypeOK /\ CallOk(th) /\ Fails(th) /\ call[th].op # "idle"
        /\ UNCHANGED <<table, lock, dir, id, closed, chosen>>
    BY DEF HandlesInv, FailShared, TooSmall, RefuseUnit, At
  <1>2. call[th] \in CallRecords /\ call[th].lease \in Leases /\ call[th].on \in Leases \cup {Nil}
    BY <1>1, CallFacts
  <1>3. writer' \in [Dirs -> Threads \cup {Nil}]
    BY <1>1 DEF FailShared, TooSmall, RefuseUnit, EndWrite, TypeOK
  <1>4. CASE FailShared(th) \/ TooSmall(th)
    <2>1. PICK place \in {"report", "small"} : call' = [call EXCEPT ![th].at = place]
      BY <1>4 DEF FailShared, TooSmall, Goto
    <2>2. call[th].op \notin {"idle", "open"} /\ call[th].on \in Leases
      BY <1>1, <1>2, <1>4 DEF FailShared, TooSmall, At, CallOk
    <2> DEFINE c == [call[th] EXCEPT !.at = place]
    <2>3. /\ c \in CallRecords /\ c.op = call[th].op /\ c.at = place /\ c.lease = call[th].lease
          /\ c.on = call[th].on /\ c.unit = call[th].unit
      BY <1>2 DEF CallRecords
    <2>4. call' = [call EXCEPT ![th] = c]
      BY <2>1
    <2> HIDE DEF c
    <2> QED BY <1>1, <1>3, <2>2, <2>3, <2>4, FailedCall
  <1>5. CASE RefuseUnit(th)
    <2> DEFINE c == [call[th] EXCEPT !.at = "small", !.on = call[th].lease]
    <2>1. call[th].op = "unit" /\ call[th].unit = Nil
      BY <1>1, <1>5 DEF RefuseUnit, At, CallOk
    <2>2. call' = [call EXCEPT ![th] = c]
      BY <1>5 DEF RefuseUnit
    <2>3. /\ c \in CallRecords /\ c.op = call[th].op /\ c.at = "small" /\ c.lease = call[th].lease
          /\ c.on = call[th].lease /\ c.unit = call[th].unit
      BY <1>2 DEF CallRecords
    <2> HIDE DEF c
    <2> QED BY <1>1, <1>2, <1>3, <2>1, <2>2, <2>3, FailedCall
  <1> QED BY <1>4, <1>5

\* A failed call leaves its message in the handle its id leads to, if there is
\* one.
LEMMA ReportKeeps ==
    ASSUME HandlesInv, NEW th \in Threads, Report(th)
    PROVE  HandlesInv'
  <1> DEFINE i == id[call[th].lease]
             m == Slot(th).lease
             mark == By(th)
  <1>1. /\ TypeOK /\ TableIsHeld /\ HistoriesHeld /\ CallOk(th)
        /\ call[th].op # "idle" /\ call[th].at \in {"report", "small"} /\ lock = Nil
        /\ call' = [call EXCEPT ![th] = Idle]
        /\ UNCHANGED <<lock, dir, id, closed, chosen>>
    BY DEF HandlesInv, Report, At, Free, Return
  <1>2. /\ call[th] \in CallRecords /\ call[th].lease \in Leases /\ call[th].on \in Leases
        /\ call[th].op \notin {"idle", "open"} /\ id[call[th].lease] # Nil
        /\ failed[th] \in {Nil, call[th].lease}
    BY <1>1, CallFacts DEF CallOk, At
  <1>3. writer' \in [Dirs -> Threads \cup {Nil}]
    BY <1>1 DEF Report, EndWrite, TypeOK
  <1>4. call'[th] = Idle /\ \A u \in Threads : u # th => call'[u] = call[u]
    BY <1>1 DEF TypeOK
  <1>5. failed \in [Threads -> Leases \cup {Nil}] /\ chosen' \in [Threads -> Leases \cup {Nil}]
    BY <1>1 DEF TypeOK
  <1>6. failed[th] # Nil => /\ Slot(th) # Nil /\ m = call[th].lease
    <2>1. SUFFICES ASSUME failed[th] # Nil
                   PROVE  Slot(th) # Nil /\ m = call[th].lease
      OBVIOUS
    <2>2. call[th].lease \in Held
      BY <1>1, <1>2, <2>1 DEF HistoriesHeld
    <2> QED BY <1>1, <2>2, HeldFacts DEF Slot
  <1>7. CASE Slot(th) = Nil
    <2>1. table' = table /\ failed' = failed /\ failed[th] = Nil
      BY <1>6, <1>7 DEF Report, Overwritten
    <2>2. LeasesInOrder /\ OpensApart /\ AnswersAreOwn /\ Held' = Held /\ Opened' = Opened
      BY <1>1 DEF HandlesInv, Held, Opened
    <2>3. TypeOK'
      <3>1. call' \in [Threads -> Calls]
        BY <1>1, Kinds DEF TypeOK
      <3> QED BY <1>1, <1>3, <2>1, <2>2, <3>1 DEF TypeOK
    <2>4. LeasesInOrder' /\ TableIsHeld' /\ HistoriesHeld'
      BY <1>1, <2>1, <2>2 DEF LeasesInOrder, TableIsHeld, HistoriesHeld
    <2>5. OpensApart'
      BY <1>4, <2>2, Kinds DEF OpensApart
    <2>6. AnswersAreOwn'
      BY <1>1, <1>4, <2>1, <2>2 DEF AnswersAreOwn, LastKeys, LastError, At
    <2>7. \A u \in Threads : CallOk(u)'
      <3>1. CallOk(th)'
        BY <1>4, IdleIsOk
      <3>2. ASSUME NEW u \in Threads, u # th
            PROVE  CallOk(u)'
        BY <1>1, <1>4, <2>1, <3>2, OthersOk
      <3> QED BY <3>1, <3>2
    <2> QED BY <2>3, <2>4, <2>5, <2>6, <2>7 DEF HandlesInv
  <1>8. CASE Slot(th) # Nil
    <2> DEFINE h == [table[i] EXCEPT !.err = mark]
    <2>1. /\ table' = [table EXCEPT ![i].err = mark]
          /\ failed' = [Without(failed, m) EXCEPT ![th] = failed[th]]
      BY <1>8 DEF Report, Overwritten
    <2>2. /\ i \in DOMAIN table /\ Slot(th) = table[i] /\ table[i] \in LeaseHandles /\ m \in Held
          /\ id[m] = i /\ m \in Leases
          /\ m = call[th].on \/ call[th].on \in closed
      BY <1>1, <1>2, <1>8, NilFacts, SlotFacts, HeldFacts
    <2>3. mark = [by |-> th, on |-> call[th].on] /\ mark \in Marks /\ mark # Nil
      BY <1>2, NilFacts DEF By, Marks
    <2>4. table[i].lease = m /\ table[i].unit \in {m, Nil} /\ (table[i].keys # Nil => table[i].keys.on = m)
      BY <1>1, <1>8, <2>2 DEF TableIsHeld
    <2>5. /\ h \in LeaseHandles /\ h.lease = m /\ h.unit = table[i].unit /\ h.err = mark
          /\ h.keys = table[i].keys
      BY <2>2, <2>3, <2>4 DEF LeaseHandles
    <2>6. table' = [table EXCEPT ![i] = h] /\ table'[i] = h
          /\ \A j \in DOMAIN table : j # i => table'[j] = table[j]
      BY <1>1, <2>1, <2>2, TableFacts
    <2> HIDE DEF h
    <2>7. \A l \in Held : l # m => table'[id[l]] = table[id[l]]
      BY <1>1, <2>2, <2>6, HeldFacts
    <2>8. /\ failed' \in [Threads -> Leases \cup {Nil}] /\ failed'[th] = failed[th]
          /\ \A u \in Threads : u # th => failed'[u] = IF failed[u] = m THEN Nil ELSE failed[u]
      BY <1>5, <2>1, <2>2, HistoryFacts
    <2>9. HistoriesHeld' /\ AnswersAreOwn'
      <3>1. table'[id[m]].keys = table[id[m]].keys /\ table'[id[m]].err # Nil /\ table'[id[m]].err.by = th
        BY <2>2, <2>3, <2>5, <2>6
      <3>2. failed'[th] \in {m, Nil} /\ m \in Held
            /\ \A u \in Threads : u # th => failed'[u] = IF failed[u] = m THEN Nil ELSE failed[u]
        BY <1>2, <1>6, <2>2, <2>8
      <3> HIDE DEF m, i, mark
      <3> QED BY <1>1, <1>4, <2>7, <3>1, <3>2, AnswersKept
    <2>10. h.err.on \in {h.lease} \cup closed
      BY <2>2, <2>3, <2>5
    <2>11. /\ h.lease = Slot(th).lease /\ h.unit \in {h.lease, Nil}
           /\ h.keys # Nil => h.keys.on = h.lease
           /\ h.err # Nil => h.err.on \in {h.lease} \cup closed
           /\ lock \in {Nil, th} /\ lock' = Nil
           /\ \A u \in Threads : u # th => failed'[u] \in {failed[u], Nil}
      BY <1>1, <2>4, <2>5, <2>8, <2>10
    <2> HIDE DEF m, mark
    <2> QED BY <1>1, <1>2, <1>3, <1>5, <1>8, <2>5, <2>6, <2>8, <2>9, <2>11, WriteReturns
  <1> QED BY <1>7, <1>8

-----------------------------------------------------------------------------
(* The invariant and what follows from it.                                 *)

LEMMA HandlesInit ==
    ASSUME Init
    PROVE  HandlesInv
  <1>1. /\ table = <<>> /\ DOMAIN table = {} /\ lock = Nil /\ writer = [d \in Dirs |-> Nil]
        /\ call = [th \in Threads |-> Idle] /\ dir = [l \in Leases |-> Nil]
        /\ id = [l \in Leases |-> Nil] /\ closed = {}
        /\ chosen = [th \in Threads |-> Nil] /\ failed = [th \in Threads |-> Nil]
    BY DEF Init
  <1>2. Held = {} /\ Opened = {}
    BY <1>1 DEF Held, Opened
  <1>3. TypeOK
    <2>1. table \in Seq(LeaseHandles \cup {Nil})
      BY <1>1
    <2> QED BY <1>1, <1>2, <2>1, Kinds DEF TypeOK
  <1>4. LeasesInOrder
    <2>1. 0 \in 0 .. MaxOpens /\ 1 .. 0 = {}
      BY NilFacts
    <2> QED BY <1>1, <1>2, <2>1 DEF LeasesInOrder
  <1>5. TableIsHeld
    BY <1>1 DEF TableIsHeld
  <1>6. \A th \in Threads : CallOk(th)
    BY <1>1, Kinds DEF CallOk
  <1>7. OpensApart /\ HistoriesHeld /\ AnswersAreOwn
    BY <1>1, Kinds DEF OpensApart, HistoriesHeld, AnswersAreOwn
  <1> QED BY <1>3, <1>4, <1>5, <1>6, <1>7 DEF HandlesInv

LEMMA HandlesStutter ==
    ASSUME HandlesInv, UNCHANGED vars
    PROVE  HandlesInv'
  BY DEF HandlesInv, vars, TypeOK, LeasesInOrder, TableIsHeld, CallOk, OpensApart, HistoriesHeld,
         AnswersAreOwn, Held, Opened, Slot, At, LastKeys, LastError

LEMMA HandlesStep ==
    ASSUME HandlesInv, [Next]_vars
    PROVE  HandlesInv'
  <1>1. ASSUME NEW th \in Threads, NEW d \in Dirs, OpenEnv(th, d)
        PROVE  HandlesInv'
    BY <1>1, OpenKeeps
  <1>2. ASSUME NEW l \in Leases, Close(l)
        PROVE  HandlesInv'
    BY <1>2, CloseKeeps
  <1>3. ASSUME NEW th \in Threads, NEW op \in Ops, NEW l \in Leases, Begin(th, op, l)
        PROVE  HandlesInv'
    BY <1>3, BeginKeeps
  <1>4. ASSUME NEW th \in Threads, Continue(th)
        PROVE  HandlesInv'
    <2>1. CASE Push(th)
      BY <2>1, PushKeeps
    <2>2. CASE EnterNull(th) \/ FinishLocked(th) \/ FinishShared(th)
      BY <2>2, ReturnKeeps
    <2>3. CASE EnterLocked(th) \/ CloneCorpus(th)
      BY <2>3, EnterKeeps
    <2>4. CASE \E clear \in BOOLEAN : SetUnit(th, clear)
      BY <2>4, UnitKeeps
    <2>5. CASE BeginWrite(th) \/ Collect(th)
      BY <2>5, GotoKeeps
    <2>6. CASE FinishSelect(th) \/ FailLocked(th)
      BY <2>6, LockedKeeps
    <2>7. CASE FailShared(th) \/ TooSmall(th) \/ RefuseUnit(th)
      BY <2>7, FailsKeeps
    <2>8. CASE Report(th)
      BY <2>8, ReportKeeps
    <2> QED BY <1>4, <2>1, <2>2, <2>3, <2>4, <2>5, <2>6, <2>7, <2>8 DEF Continue
  <1>5. CASE UNCHANGED vars
    BY <1>5, HandlesStutter
  <1> QED BY <1>1, <1>2, <1>3, <1>4, <1>5 DEF Next

LEMMA HandlesInvariant == Spec => []HandlesInv
  <1>1. Init => HandlesInv
    BY HandlesInit
  <1>2. HandlesInv /\ [Next]_vars => HandlesInv'
    BY HandlesStep
  <1> QED BY <1>1, <1>2, PTL DEF Spec

\* rkrdb_open and rkrdb_close: an id leads to the handle it was given out for
\* until that is closed, however other threads open, close and call meanwhile;
\* the table and the calls hold what the code can put there.
THEOREM HandleTypes == Spec => []TypeOK
  <1>1. HandlesInv => TypeOK
    BY DEF HandlesInv
  <1> QED BY <1>1, HandlesInvariant, PTL

\* with_handle, corpus_arc, set_err_id: a call works on the corpus its caller
\* meant unless the caller's handle was closed while the call was under way,
\* and a handle's keys and error are of its own corpus with that exception.
THEOREM StraysAreLate == Spec => []StraysOnlyAfterClose
  <1>1. HandlesInv => StraysOnlyAfterClose
    BY DEF HandlesInv, StraysOnlyAfterClose, CallOk, TableIsHeld
  <1> QED BY <1>1, HandlesInvariant, PTL

\* The H5MD readers take the velocity unit with the corpus, so arrays are
\* never converted by a unit that was set on another one.
THEOREM UnitsFollowTheCorpus == Spec => []UnitIsOfTheCorpus
  <1>1. HandlesInv => UnitIsOfTheCorpus
    BY DEF HandlesInv, UnitIsOfTheCorpus, CallOk, At
  <1> QED BY <1>1, HandlesInvariant, PTL

\* rkrdb_result_key and rkrdb_last_error show a thread its own selection and
\* its own failure until another thread's succeeds or fails on the handle.
THEOREM EveryThreadGetsItsAnswer == Spec => []AnswersAreOwn
  <1>1. HandlesInv => AnswersAreOwn
    BY DEF HandlesInv
  <1> QED BY <1>1, HandlesInvariant, PTL
=============================================================================
