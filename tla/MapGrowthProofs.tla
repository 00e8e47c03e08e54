-------------------------- MODULE MapGrowthProofs ---------------------------
(***************************************************************************)
(* The lock of MapGrowth keeps transactions and resizes apart, the map     *)
(* never shrinks, and a retried write is stored once and whole: for every  *)
(* number of threads, every size and every number of attempts.             *)
(***************************************************************************)
EXTENDS MapGrowth, TLAPS

-----------------------------------------------------------------------------
(* Sizes.                                                                  *)

LEMMA DivCovers ==
    ASSUME NEW n \in Nat, NEW a \in Nat \ {0}
    PROVE  LET q == (n + a - 1) \div a IN q \in Nat /\ q * a >= n
  <1> DEFINE m == n + a - 1
             q == m \div a
  <1>1. m \in Nat /\ q \in Nat
    OBVIOUS
  <1>2. m = (a * q) + (m % a) /\ (m % a) \in 0 .. a - 1
    BY <1>1
  <1>3. a * q = q * a /\ q * a \in Nat
    BY <1>1
  <1> HIDE DEF q
  <1>4. q * a >= n
    BY <1>2, <1>3
  <1> QED BY <1>1, <1>4 DEF q

\* Rounding up to MAP_ALIGN loses nothing.
LEMMA AlignCovers ==
    ASSUME NEW n \in Nat
    PROVE  AlignMap(n) \in Nat /\ AlignMap(n) >= n
  <1>1. Align \in Nat \ {0}
    BY MapAssumption
  <1> QED BY <1>1, DivCovers DEF AlignMap

\* Every size with_write and reserve_map set is at least the one before.
LEMMA SizesGrow ==
    ASSUME NEW input \in Nat, mapSize \in Nat, used \in Nat
    PROVE  /\ PreGrown(input) \in Nat /\ PreGrown(input) >= mapSize
           /\ GrownAfterFull(input) \in Nat /\ GrownAfterFull(input) >= mapSize
           /\ Reserved(Factor * input) \in Nat /\ Reserved(Factor * input) >= mapSize
  <1>1. Align \in Nat \ {0} /\ Factor \in Nat
    BY MapAssumption
  <1>2. PreGrown(input) \in Nat /\ PreGrown(input) >= mapSize
    <2> DEFINE need == used + 2 * input
               want == Larger(need, 2 * mapSize)
    <2>1. want \in Nat /\ want >= mapSize
      BY DEF Larger
    <2>2. AlignMap(want) \in Nat /\ AlignMap(want) >= want
      BY <2>1, AlignCovers
    <2>3. PreGrown(input) = IF need > mapSize THEN AlignMap(want) ELSE mapSize
      BY DEF PreGrown
    <2> HIDE DEF want, need
    <2> QED BY <2>1, <2>2, <2>3
  <1>3. GrownAfterFull(input) \in Nat /\ GrownAfterFull(input) >= mapSize
    <2> DEFINE want == AlignMap(Larger(2 * mapSize, used + input))
    <2>1. Larger(2 * mapSize, used + input) \in Nat
      BY DEF Larger
    <2>2. want \in Nat
      BY <2>1, AlignCovers
    <2>3. AlignMap(mapSize + Align) \in Nat /\ AlignMap(mapSize + Align) >= mapSize + Align
      BY <1>1, AlignCovers
    <2>4. GrownAfterFull(input) = IF want <= mapSize THEN AlignMap(mapSize + Align) ELSE want
      BY DEF GrownAfterFull
    <2> HIDE DEF want
    <2> QED BY <1>1, <2>2, <2>3, <2>4
  <1>4. Reserved(Factor * input) \in Nat /\ Reserved(Factor * input) >= mapSize
    <2> DEFINE want == AlignMap(used + Factor * input)
    <2>1. used + Factor * input \in Nat
      BY <1>1
    <2>2. want \in Nat
      BY <2>1, AlignCovers
    <2>3. Reserved(Factor * input) = Larger(mapSize, want)
      BY DEF Reserved
    <2> HIDE DEF want
    <2> QED BY <2>2, <2>3 DEF Larger
  <1> QED BY <1>2, <1>3, <1>4

-----------------------------------------------------------------------------
(* The inductive invariant.                                                *)

Ats == {"gate", "reading", "copying", "try", "writing", "full", "session"}

\* How far a call can have got: only with_write retries, and the transaction
\* it has open is one of the attempts it is allowed.
CallOK(c) ==
    c # NoCall =>
        /\ c.since = 0
        /\ c.at \in {"try", "full"} => c.kind = "write"
        /\ c.at = "session" => c.kind = "ingest"
        /\ c.at = "writing" => c.kind \in {"write", "ingest"}
        /\ c.at \in {"writing", "full"} /\ c.kind = "write" => c.tries < Retries

\* Whoever writes owns txn_gate; while somebody reads nobody does.
LockInv ==
    \A th \in Threads :
        /\ call[th].at = "reading" => holder = Nil
        /\ call[th].at \in {"try", "writing", "full"} => holder = th

\* Calls in flight are distinct and have no outcome yet.
Numbered ==
    /\ \A n \in 1 .. MaxCalls : n > calls => outcome[n] = Nil
    /\ \A th \in Threads : call[th] # NoCall =>
           call[th].id <= calls /\ outcome[call[th].id] = Nil
    /\ \A th, u \in Threads : th # u /\ call[th] # NoCall /\ call[u] # NoCall =>
           call[th].id # call[u].id

Progress == \A th \in Threads : CallOK(call[th])

MapInv == TypeOK /\ Progress /\ LockInv /\ Numbered /\ WritesAreWhole

-----------------------------------------------------------------------------
(* Calls.                                                                  *)

LEMMA CallFields ==
    ASSUME NEW c \in Calls
    PROVE  /\ c.at \in Ats /\ c.id \in 1 .. MaxCalls /\ c.input \in Nat /\ c.row \in Nat
           /\ c.commit \in Nat /\ c.put \in 0 .. Rows /\ c.tries \in 0 .. Retries
           /\ c # NoCall /\ c.at # "idle"
  <1>1. c.at \in Ats /\ c.id \in 1 .. MaxCalls /\ c.put \in 0 .. Rows /\ c.tries \in 0 .. Retries
    BY DEF Calls, Ats
  <1>2. c.input \in InputBytes \cup {0} /\ c.row \in RowBytes \cup {0} /\ c.commit \in CommitBytes \cup {0}
    BY DEF Calls
  <1>5. InputBytes \cup {0} \subseteq Nat /\ RowBytes \cup {0} \subseteq Nat
        /\ CommitBytes \cup {0} \subseteq Nat
    BY MapAssumption
  <1>3. c.input \in Nat /\ c.row \in Nat /\ c.commit \in Nat
    BY <1>2, <1>5
  <1>4. c.at # "idle" /\ NoCall.at = "idle"
    BY <1>1 DEF Ats, NoCall
  <1> QED BY <1>1, <1>3, <1>4

\* What Start draws is a call.
LEMMA NewCallType ==
    ASSUME NEW kind \in Kinds, NEW id \in 1 .. MaxCalls, mapSize \in Nat,
           NEW input \in InputBytes \cup {0}, NEW row \in RowBytes \cup {0},
           NEW commit \in CommitBytes \cup {0}
    PROVE  /\ NewCall(kind, id, input, row, commit) \in Calls
           /\ NewCall(kind, id, input, row, commit).at = "gate"
           /\ NewCall(kind, id, input, row, commit).since = 0
           /\ NewCall(kind, id, input, row, commit).id = id
  <1>1. 0 \in 0 .. Rows /\ 0 \in 0 .. Retries
    BY MapAssumption
  <1> QED BY <1>1 DEF NewCall, Calls

\* The same for a reader, which brings nothing to write.
LEMMA NewReadType ==
    ASSUME NEW kind \in Kinds, NEW id \in 1 .. MaxCalls, mapSize \in Nat
    PROVE  /\ NewCall(kind, id, 0, 0, 0) \in Calls
           /\ NewCall(kind, id, 0, 0, 0).at = "gate"
           /\ NewCall(kind, id, 0, 0, 0).since = 0
           /\ NewCall(kind, id, 0, 0, 0).id = id
  <1>1. 0 \in 0 .. Rows /\ 0 \in 0 .. Retries
    BY MapAssumption
  <1> QED BY <1>1 DEF NewCall, Calls

LEMMA IdleOrCall ==
    ASSUME TypeOK, NEW th \in Threads
    PROVE  /\ call[th] \in Calls \cup {NoCall}
           /\ call[th] = NoCall <=> call[th].at = "idle"
           /\ call[th] # NoCall <=> call[th] \in Calls
  BY CallFields DEF TypeOK, NoCall

\* The invariant after a step that moves one call on.
LEMMA MoveKeepsInv ==
    ASSUME MapInv, NEW th \in Threads, call[th] # NoCall,
           NEW c \in Calls \cup {NoCall}, CallOK(c),
           c # NoCall => c.id = call[th].id,
           call' = [call EXCEPT ![th] = c],
           UNCHANGED <<used, stored, outcome, calls>>,
           mapSize' \in Nat, mapSize' >= mapSize,
           holder' \in Threads \cup {Nil}, LockInv'
    PROVE  MapInv'
  <1>1. /\ call' \in [Threads -> Calls \cup {NoCall}]
        /\ call'[th] = c
        /\ \A u \in Threads : u # th => call'[u] = call[u]
    BY DEF MapInv, TypeOK
  <1>2. TypeOK'
    BY <1>1 DEF MapInv, TypeOK
  <1>3. Progress'
    BY <1>1 DEF MapInv, Progress, CallOK
  <1>4. Numbered'
    BY <1>1 DEF MapInv, Numbered
  <1>5. WritesAreWhole'
    BY DEF MapInv, WritesAreWhole
  <1> QED BY <1>2, <1>3, <1>4, <1>5 DEF MapInv

\* The invariant after a call has ended with nothing stored.
LEMMA EndKeepsInv ==
    ASSUME MapInv, NEW th \in Threads, call[th].at \in {"try", "writing"},
           NEW how \in {"full", "refused"}, Ended(th, how),
           UNCHANGED <<mapSize, used, stored, calls>>
    PROVE  MapInv'
  <1> DEFINE id == call[th].id
  <1>1. call[th] \in Calls /\ call[th] # NoCall /\ id \in 1 .. MaxCalls /\ holder = th
    BY IdleOrCall, CallFields DEF MapInv, LockInv
  <1>2. /\ call' \in [Threads -> Calls \cup {NoCall}]
        /\ call'[th] = NoCall
        /\ \A u \in Threads : u # th => call'[u] = call[u]
    BY DEF MapInv, TypeOK, Ended
  <1>3. /\ outcome' \in [1 .. MaxCalls -> {Nil, "ok", "full", "refused"}]
        /\ outcome'[id] = how /\ outcome[id] = Nil
        /\ \A n \in 1 .. MaxCalls : n # id => outcome'[n] = outcome[n]
    BY <1>1 DEF MapInv, TypeOK, Ended, Numbered
  <1>4. TypeOK'
    BY <1>2, <1>3 DEF MapInv, TypeOK, Ended
  <1>5. Progress'
    BY <1>2 DEF MapInv, Progress, CallOK
  <1>6. LockInv'
    <2>1. \A u \in Threads : u # th => call[u].at \notin {"try", "writing", "full"}
      BY <1>1 DEF MapInv, LockInv
    <2> QED BY <1>2, <2>1 DEF LockInv, MapInv, Ended, NoCall
  <1>7. Numbered'
    BY <1>1, <1>2, <1>3, IdleOrCall, CallFields DEF MapInv, Numbered, TypeOK
  <1>8. WritesAreWhole'
    <2>1. outcome'[id] # "ok" /\ outcome[id] # "ok"
      BY <1>1, <1>3, MapAssumption
    <2> QED BY <1>3, <2>1 DEF MapInv, WritesAreWhole
  <1> QED BY <1>4, <1>5, <1>6, <1>7, <1>8 DEF MapInv

-----------------------------------------------------------------------------
(* One lemma for each action.                                              *)

LEMMA StartKeepsInv ==
    ASSUME MapInv, NEW th \in Threads, Start(th)
    PROVE  MapInv'
  <1>1. PICK c \in Calls :
            /\ call' = [call EXCEPT ![th] = c]
            /\ c.at = "gate" /\ c.since = 0 /\ c.id = calls + 1
    <2>1. mapSize \in Nat /\ calls + 1 \in 1 .. MaxCalls
      BY MapAssumption DEF MapInv, TypeOK, Start
    <2>2. CASE \E kind \in Kinds \cap {"read", "snapshot"} :
                  call' = [call EXCEPT ![th] = NewCall(kind, calls + 1, 0, 0, 0)]
      <3>1. PICK kind \in Kinds : call' = [call EXCEPT ![th] = NewCall(kind, calls + 1, 0, 0, 0)]
        BY <2>2
      <3> DEFINE d == NewCall(kind, calls + 1, 0, 0, 0)
      <3>2. d \in Calls /\ d.at = "gate" /\ d.since = 0 /\ d.id = calls + 1
        BY <2>1, NewReadType
      <3>3. call' = [call EXCEPT ![th] = d]
        BY <3>1
      <3> HIDE DEF d
      <3> QED BY <3>2, <3>3
    <2>3. CASE \E kind \in Kinds \cap {"write", "ingest"}, input \in InputBytes,
                  row \in RowBytes, commit \in CommitBytes :
                  call' = [call EXCEPT ![th] = NewCall(kind, calls + 1, input, row, commit)]
      <3>1. PICK kind \in Kinds, input \in InputBytes, row \in RowBytes, commit \in CommitBytes :
                call' = [call EXCEPT ![th] = NewCall(kind, calls + 1, input, row, commit)]
        BY <2>3
      <3> DEFINE d == NewCall(kind, calls + 1, input, row, commit)
      <3>2. d \in Calls /\ d.at = "gate" /\ d.since = 0 /\ d.id = calls + 1
        BY <2>1, NewCallType
      <3>3. call' = [call EXCEPT ![th] = d]
        BY <3>1
      <3> HIDE DEF d
      <3> QED BY <3>2, <3>3
    <2> QED BY <2>2, <2>3 DEF Start
  <1>2. /\ call[th] = NoCall
        /\ call' \in [Threads -> Calls \cup {NoCall}]
        /\ call'[th] = c
        /\ \A u \in Threads : u # th => call'[u] = call[u]
    BY <1>1, IdleOrCall DEF MapInv, TypeOK, Start
  <1>3. /\ UNCHANGED <<mapSize, used, stored, outcome, holder>>
        /\ calls \in Nat /\ calls < MaxCalls /\ calls' = calls + 1
        /\ calls' \in 0 .. MaxCalls
    BY MapAssumption DEF Start, MapInv, TypeOK
  <1>4. TypeOK'
    BY <1>2, <1>3 DEF MapInv, TypeOK
  <1>5. Progress'
    BY <1>1, <1>2 DEF MapInv, Progress, CallOK
  <1>6. LockInv'
    BY <1>1, <1>2, <1>3 DEF MapInv, LockInv
  <1>7. Numbered'
    <2>1. \A u \in Threads : call[u] # NoCall => call[u].id \in Nat /\ call[u].id <= calls
      BY IdleOrCall, CallFields DEF MapInv, Numbered
    <2>2. outcome[calls + 1] = Nil
      BY <1>3 DEF MapInv, Numbered
    <2> QED BY <1>1, <1>2, <1>3, <2>1, <2>2 DEF MapInv, Numbered
  <1>8. WritesAreWhole'
    BY <1>3 DEF MapInv, WritesAreWhole
  <1> QED BY <1>4, <1>5, <1>6, <1>7, <1>8 DEF MapInv

LEMMA ReadingKeepsInv ==
    ASSUME MapInv, NEW th \in Threads, Reading(th)
    PROVE  MapInv'
  <1>1. /\ mapSize \in Nat /\ mapSize >= mapSize /\ holder \in Threads \cup {Nil}
        /\ call \in [Threads -> Calls \cup {NoCall}] /\ CallOK(call[th])
    BY DEF MapInv, TypeOK, Progress
  <1>2. UNCHANGED <<mapSize, used, stored, outcome, holder, calls>>
    BY DEF Reading, OpenRead, StartCopy, EndRead
  <1>3. CASE OpenRead(th)
    <2> DEFINE c == [call[th] EXCEPT !.at = "reading"]
    <2>1. call[th] \in Calls /\ call[th] # NoCall /\ holder = Nil
      BY <1>3, IdleOrCall DEF MapInv, OpenRead, MayShare
    <2>2. c \in Calls /\ c.id = call[th].id /\ c.at = "reading" /\ CallOK(c)
      BY <1>1, <2>1 DEF Calls, CallOK
    <2>3. call' = [call EXCEPT ![th] = c]
      BY <1>3 DEF OpenRead, Goto
    <2> HIDE DEF c
    <2>4. LockInv'
      BY <1>1, <1>2, <2>1, <2>2, <2>3 DEF MapInv, LockInv
    <2> QED BY <1>1, <1>2, <2>1, <2>2, <2>3, <2>4, MoveKeepsInv
  <1>4. CASE StartCopy(th)
    <2> DEFINE c == [call[th] EXCEPT !.at = "copying"]
    <2>1. call[th] \in Calls /\ call[th] # NoCall
      BY <1>4, IdleOrCall DEF MapInv, StartCopy
    <2>2. c \in Calls /\ c.id = call[th].id /\ c.at = "copying" /\ CallOK(c)
      BY <1>1, <2>1 DEF Calls, CallOK
    <2>3. call' = [call EXCEPT ![th] = c]
      BY <1>4 DEF StartCopy, Goto
    <2> HIDE DEF c
    <2>4. LockInv'
      BY <1>1, <1>2, <2>1, <2>2, <2>3 DEF MapInv, LockInv
    <2> QED BY <1>1, <1>2, <2>1, <2>2, <2>3, <2>4, MoveKeepsInv
  <1>5. CASE EndRead(th)
    <2>1. call[th] # NoCall /\ call' = [call EXCEPT ![th] = NoCall]
      BY <1>5, IdleOrCall DEF MapInv, EndRead
    <2>2. LockInv'
      BY <1>1, <1>2, <2>1 DEF MapInv, LockInv, NoCall
    <2> QED BY <1>1, <1>2, <2>1, <2>2, MoveKeepsInv DEF CallOK
  <1> QED BY <1>3, <1>4, <1>5 DEF Reading

LEMMA TakeWriteKeepsInv ==
    ASSUME MapInv, NEW th \in Threads, TakeWrite(th)
    PROVE  MapInv' /\ mapSize' >= mapSize
  <1> DEFINE c == [call[th] EXCEPT !.at = "try", !.from = mapSize']
  <1>1. /\ call[th] \in Calls /\ call[th] # NoCall /\ CallOK(call[th])
        /\ call[th].kind = "write" /\ call[th].input \in Nat
    BY IdleOrCall, CallFields DEF MapInv, Progress, TakeWrite
  <1>2. mapSize' \in Nat /\ mapSize' >= mapSize
    BY <1>1, SizesGrow DEF TakeWrite, MapInv, TypeOK
  <1>3. c \in Calls /\ c.id = call[th].id /\ c.at = "try" /\ CallOK(c)
    BY <1>1, <1>2 DEF Calls, CallOK
  <1>4. call' = [call EXCEPT ![th] = c] /\ call \in [Threads -> Calls \cup {NoCall}]
    BY DEF TakeWrite, MapInv, TypeOK
  <1>5. holder' = th /\ holder = Nil /\ UNCHANGED <<used, stored, outcome, calls>>
    BY DEF TakeWrite, MayOwn
  <1>6. \A u \in Threads : call[u].at \notin {"reading", "try", "writing", "full"}
    BY MapAssumption DEF MapInv, LockInv, TakeWrite, MayOwn, Readers
  <1> HIDE DEF c
  <1>7. LockInv'
    BY <1>3, <1>4, <1>5, <1>6 DEF LockInv
  <1> QED BY <1>1, <1>2, <1>3, <1>4, <1>5, <1>7, MoveKeepsInv

\* What a call that owns the lock does next keeps the lock.
LEMMA OwnerMoves ==
    ASSUME MapInv, NEW th \in Threads, call[th].at \in {"try", "writing", "full"},
           NEW c \in Calls, CallOK(c), c.id = call[th].id,
           c.at \in {"try", "writing", "full"},
           call' = [call EXCEPT ![th] = c],
           UNCHANGED <<used, stored, outcome, holder, calls>>,
           mapSize' \in Nat, mapSize' >= mapSize
    PROVE  MapInv'
  <1>1. holder = th /\ call[th] # NoCall /\ call \in [Threads -> Calls \cup {NoCall}]
    BY DEF MapInv, LockInv, TypeOK, NoCall
  <1>2. LockInv'
    BY <1>1 DEF MapInv, LockInv
  <1> QED BY <1>1, <1>2, MoveKeepsInv

LEMMA AttemptKeepsInv ==
    ASSUME MapInv, NEW th \in Threads, Begin(th) \/ Put(th) \/ Abort(th) \/ Grow(th)
    PROVE  MapInv' /\ mapSize' >= mapSize
  <1>1. /\ call[th] \in Calls /\ CallOK(call[th])
        /\ call[th].input \in Nat /\ call[th].put \in 0 .. Rows /\ call[th].tries \in 0 .. Retries
        /\ call[th] # NoCall /\ mapSize \in Nat /\ used \in Nat
    BY IdleOrCall, CallFields DEF MapInv, TypeOK, Progress, Begin, Put, Abort, Grow, MapFull
  <1>2. Rows \in Nat /\ Retries \in Nat
    BY MapAssumption
  <1>3. CASE Begin(th)
    <2> DEFINE c == [call[th] EXCEPT !.at = "writing", !.put = 0]
    <2>1. c \in Calls /\ c.id = call[th].id /\ c.at = "writing" /\ CallOK(c)
      BY <1>1, <1>2, <1>3 DEF Calls, CallOK, Begin
    <2>2. call' = [call EXCEPT ![th] = c]
      BY <1>3 DEF Begin
    <2> HIDE DEF c
    <2>3. /\ call[th].at \in {"try", "writing", "full"}
          /\ UNCHANGED <<mapSize, used, stored, outcome, holder, calls>>
      BY <1>3 DEF Begin
    <2>4. mapSize' \in Nat /\ mapSize' >= mapSize
      BY <1>1, <2>3
    <2> QED BY <2>1, <2>2, <2>3, <2>4, OwnerMoves
  <1>4. CASE Put(th)
    <2> DEFINE c == [call[th] EXCEPT !.put = @ + 1]
    <2>1. c \in Calls /\ c.id = call[th].id /\ c.at = "writing" /\ CallOK(c)
      BY <1>1, <1>2, <1>4 DEF Calls, CallOK, Put
    <2>2. call' = [call EXCEPT ![th] = c]
      BY <1>4 DEF Put
    <2> HIDE DEF c
    <2>3. /\ call[th].at \in {"try", "writing", "full"}
          /\ UNCHANGED <<mapSize, used, stored, outcome, holder, calls>>
      BY <1>4 DEF Put
    <2>4. mapSize' \in Nat /\ mapSize' >= mapSize
      BY <1>1, <2>3
    <2> QED BY <2>1, <2>2, <2>3, <2>4, OwnerMoves
  <1>5. CASE Abort(th)
    <2> DEFINE c == [call[th] EXCEPT !.at = "full"]
    <2>1. c \in Calls /\ c.id = call[th].id /\ c.at = "full" /\ CallOK(c)
      BY <1>1, <1>5 DEF Calls, CallOK, Abort, MapFull
    <2>2. call' = [call EXCEPT ![th] = c]
      BY <1>5 DEF Abort, Goto
    <2> HIDE DEF c
    <2>3. /\ call[th].at \in {"try", "writing", "full"}
          /\ UNCHANGED <<mapSize, used, stored, outcome, holder, calls>>
      BY <1>5 DEF Abort, MapFull
    <2>4. mapSize' \in Nat /\ mapSize' >= mapSize
      BY <1>1, <2>3
    <2> QED BY <2>1, <2>2, <2>3, <2>4, OwnerMoves
  <1>6. CASE Grow(th)
    <2> DEFINE c == [call[th] EXCEPT !.at = "try", !.tries = @ + 1]
    <2>4. call[th].kind = "write" /\ call[th].since = 0 /\ call[th].tries + 1 \in 0 .. Retries
      BY <1>1, <1>2, <1>6 DEF CallOK, Grow
    <2>1. c \in Calls /\ c.id = call[th].id /\ c.at = "try" /\ CallOK(c)
      BY <1>1, <2>4 DEF Calls, CallOK
    <2>2. call' = [call EXCEPT ![th] = c]
      BY <1>6 DEF Grow
    <2>3. mapSize' \in Nat /\ mapSize' >= mapSize
      BY <1>1, <1>6, SizesGrow DEF Grow
    <2> HIDE DEF c
    <2> QED BY <1>1, <1>6, <2>1, <2>2, <2>3, OwnerMoves DEF Grow
  <1> QED BY <1>3, <1>4, <1>5, <1>6

LEMMA CommitKeepsInv ==
    ASSUME MapInv, NEW th \in Threads, Commit(th)
    PROVE  MapInv'
  <1> DEFINE id == call[th].id
  <1>1. /\ call[th] \in Calls /\ call[th] # NoCall /\ CallOK(call[th]) /\ call[th].put = Rows
        /\ id \in 1 .. MaxCalls /\ id <= calls /\ outcome[id] = Nil /\ holder = th
    BY IdleOrCall, CallFields DEF MapInv, Progress, LockInv, Numbered, Commit
  <1>2. /\ call' \in [Threads -> Calls \cup {NoCall}]
        /\ call'[th] = NoCall
        /\ \A u \in Threads : u # th =>
              \/ call'[u] = call[u]
              \/ call[u].at = "session" /\ call'[u] = [call[u] EXCEPT !.crowded = TRUE]
    <2>1. call \in [Threads -> Calls \cup {NoCall}]
      BY DEF MapInv, TypeOK
    <2>2. \A u \in Threads : u # th /\ call[u].at = "session" =>
              [call[u] EXCEPT !.crowded = TRUE] \in Calls
      <3>1. ASSUME NEW u \in Threads, call[u].at = "session"
            PROVE  [call[u] EXCEPT !.crowded = TRUE] \in Calls
        <4>1. call[u] \in Calls
          BY <3>1, IdleOrCall DEF MapInv
        <4> QED BY <4>1 DEF Calls
      <3> QED BY <3>1
    <2>3. /\ Crowd(th) \in [Threads -> Calls \cup {NoCall}]
          /\ \A u \in Threads : u # th =>
              \/ Crowd(th)[u] = call[u]
              \/ call[u].at = "session" /\ Crowd(th)[u] = [call[u] EXCEPT !.crowded = TRUE]
      BY <2>1, <2>2 DEF Crowd
    <2>4. call' = [Crowd(th) EXCEPT ![th] = NoCall]
      BY DEF Commit
    <2> QED BY <2>3, <2>4
  <1>3. \A u \in Threads : u # th =>
            /\ call'[u].at = call[u].at
            /\ call'[u] # NoCall => call[u] # NoCall /\ call'[u].id = call[u].id
            /\ CallOK(call'[u])
    <2>1. ASSUME NEW u \in Threads, u # th
          PROVE  /\ call'[u].at = call[u].at
                 /\ call'[u] # NoCall => call[u] # NoCall /\ call'[u].id = call[u].id
                 /\ CallOK(call'[u])
      <3>1. CASE call'[u] = call[u]
        BY <3>1 DEF MapInv, Progress
      <3>2. CASE call[u].at = "session" /\ call'[u] = [call[u] EXCEPT !.crowded = TRUE]
        <4>1. call[u] \in Calls /\ call[u] # NoCall /\ CallOK(call[u])
          BY <3>2, IdleOrCall DEF MapInv, Progress
        <4> QED BY <3>2, <4>1 DEF Calls, CallOK
      <3> QED BY <1>2, <2>1, <3>1, <3>2
    <2> QED BY <2>1
  <1>4. /\ outcome' \in [1 .. MaxCalls -> {Nil, "ok", "full", "refused"}]
        /\ outcome'[id] = "ok"
        /\ \A n \in 1 .. MaxCalls : n # id => outcome'[n] = outcome[n]
    BY <1>1 DEF MapInv, TypeOK, Commit
  <1>5. stored' = stored \cup {<<id, i>> : i \in 1 .. Rows}
    BY <1>1 DEF Commit, RowsPut, CallOK
  <1>6. mapSize' = mapSize /\ calls' = calls /\ holder' = Nil
    BY DEF Commit
  <1>7. used' \in 0 .. mapSize
    <2>1. used \in Nat /\ mapSize \in Nat /\ call[th].row \in Nat /\ call[th].commit \in Nat
      BY <1>1, CallFields DEF MapInv, TypeOK
    <2>2. Rows \in Nat /\ call[th].since = 0
      BY <1>1, MapAssumption DEF CallOK
    <2>3. Dirty(th) \in Nat
      BY <1>1, <2>1, <2>2 DEF Dirty
    <2>4. used' = used + Dirty(th) + call[th].commit /\ used' <= mapSize
      BY DEF Commit, Room
    <2> QED BY <2>1, <2>3, <2>4
  <1>8. TypeOK'
    BY <1>1, <1>2, <1>4, <1>5, <1>6, <1>7 DEF MapInv, TypeOK
  <1>9. Progress'
    BY <1>2, <1>3 DEF Progress, CallOK
  <1>10. LockInv'
    <2>1. \A u \in Threads : u # th => call[u].at \notin {"try", "writing", "full"}
      BY <1>1 DEF MapInv, LockInv
    <2> QED BY <1>2, <1>3, <1>6, <2>1 DEF LockInv, NoCall
  <1>11. Numbered'
    <2>1. \A u \in Threads : u # th /\ call[u] # NoCall =>
              call[u].id \in 1 .. MaxCalls /\ call[u].id # id
      BY <1>1, IdleOrCall, CallFields DEF MapInv, Numbered
    <2> QED BY <1>1, <1>2, <1>3, <1>4, <1>6, <2>1 DEF MapInv, Numbered, TypeOK
  <1>12. WritesAreWhole'
    <2>1. outcome[id] # "ok"
      BY <1>1, MapAssumption
    <2>2. {r \in 1 .. Rows : <<id, r>> \in stored'} = 1 .. Rows
      BY <1>5
    <2>3. \A n \in 1 .. MaxCalls : n # id =>
              {r \in 1 .. Rows : <<n, r>> \in stored'} = {r \in 1 .. Rows : <<n, r>> \in stored}
      BY <1>5
    <2> QED BY <1>4, <2>1, <2>2, <2>3 DEF MapInv, WritesAreWhole
  <1> QED BY <1>8, <1>9, <1>10, <1>11, <1>12 DEF MapInv

LEMMA IngestKeepsInv ==
    ASSUME MapInv, NEW th \in Threads, Reserve(th) \/ BeginSession(th)
    PROVE  MapInv' /\ mapSize' >= mapSize
  <1>1. /\ call[th] \in Calls /\ call[th] # NoCall /\ CallOK(call[th]) /\ call[th].input \in Nat
        /\ call \in [Threads -> Calls \cup {NoCall}]
        /\ mapSize \in Nat /\ used \in Nat /\ holder \in Threads \cup {Nil}
    BY IdleOrCall, CallFields DEF MapInv, TypeOK, Progress, Reserve, BeginSession
  <1>2. CASE Reserve(th)
    <2> DEFINE c == [call[th] EXCEPT !.at = "session"]
    <2>1. c \in Calls /\ c.id = call[th].id /\ c.at = "session" /\ CallOK(c)
      BY <1>1, <1>2 DEF Calls, CallOK, Reserve
    <2>2. call' = [call EXCEPT ![th] = c] /\ UNCHANGED <<used, stored, outcome, holder, calls>>
      BY <1>2 DEF Reserve, Goto
    <2>3. mapSize' \in Nat /\ mapSize' >= mapSize
      BY <1>1, <1>2, SizesGrow DEF Reserve
    <2> HIDE DEF c
    <2>4. LockInv'
      BY <1>1, <2>1, <2>2 DEF MapInv, LockInv
    <2> QED BY <1>1, <2>1, <2>2, <2>3, <2>4, MoveKeepsInv
  <1>3. CASE BeginSession(th)
    <2> DEFINE c == [call[th] EXCEPT !.at = "writing"]
    <2>1. c \in Calls /\ c.id = call[th].id /\ c.at = "writing" /\ CallOK(c)
      BY <1>1, <1>3 DEF Calls, CallOK, BeginSession
    <2>2. call' = [call EXCEPT ![th] = c] /\ UNCHANGED <<mapSize, used, stored, outcome, calls>>
          /\ holder' = th
      BY <1>3 DEF BeginSession, Goto
    <2>3. \A u \in Threads : call[u].at \notin {"reading", "try", "writing", "full"}
      BY <1>3, MapAssumption DEF MapInv, LockInv, BeginSession, MayOwn, Readers
    <2> HIDE DEF c
    <2>4. LockInv'
      BY <1>1, <2>1, <2>2, <2>3 DEF LockInv
    <2>5. mapSize' \in Nat /\ mapSize' >= mapSize
      BY <1>1, <2>2
    <2> QED BY <1>1, <2>1, <2>2, <2>4, <2>5, MoveKeepsInv
  <1> QED BY <1>2, <1>3

-----------------------------------------------------------------------------
(* The theorems.                                                           *)

LEMMA InitInv == Init => MapInv
  <1> SUFFICES ASSUME Init PROVE MapInv
    OBVIOUS
  <1>1. \A n \in FirstMap : AlignMap(n) \in Nat
    BY MapAssumption, AlignCovers
  <1>2. \A th \in Threads : call[th] = NoCall
    BY DEF Init
  <1>3. mapSize \in Nat /\ 0 \in 0 .. mapSize /\ 0 \in 0 .. MaxCalls
    BY <1>1, MapAssumption DEF Init
  <1>4. TypeOK
    BY <1>3 DEF Init, TypeOK
  <1>5. Progress /\ LockInv
    BY <1>2 DEF Progress, CallOK, LockInv, NoCall
  <1>6. Numbered /\ WritesAreWhole
    BY <1>2, MapAssumption DEF Init, Numbered, WritesAreWhole
  <1> QED BY <1>4, <1>5, <1>6 DEF MapInv

LEMMA NextKeepsInv == MapInv /\ [Next]_vars => MapInv' /\ mapSize' >= mapSize
  <1> SUFFICES ASSUME MapInv, [Next]_vars
               PROVE  MapInv' /\ mapSize' >= mapSize
    OBVIOUS
  <1>1. mapSize \in Nat /\ mapSize >= mapSize
    BY DEF MapInv, TypeOK
  <1>2. ASSUME NEW th \in Threads, Start(th) \/ Step(th) \/ Refuse(th)
        PROVE  MapInv' /\ mapSize' >= mapSize
    <2>1. CASE Start(th)
      BY <1>1, <2>1, StartKeepsInv DEF Start
    <2>2. CASE Reading(th)
      BY <1>1, <2>2, ReadingKeepsInv DEF Reading, OpenRead, StartCopy, EndRead
    <2>3. CASE TakeWrite(th)
      BY <2>3, TakeWriteKeepsInv
    <2>4. CASE Begin(th) \/ Put(th) \/ Abort(th) \/ Grow(th)
      BY <2>4, AttemptKeepsInv
    <2>5. CASE Commit(th)
      BY <1>1, <2>5, CommitKeepsInv DEF Commit
    <2>6. CASE GiveUp(th)
      BY <1>1, <2>6, EndKeepsInv DEF GiveUp
    <2>7. CASE Refuse(th)
      BY <1>1, <2>7, EndKeepsInv DEF Refuse
    <2>8. CASE SessionFull(th)
      BY <1>1, <2>8, EndKeepsInv DEF SessionFull, MapFull
    <2>9. CASE Reserve(th) \/ BeginSession(th)
      BY <2>9, IngestKeepsInv
    <2> QED BY <1>2, <2>1, <2>2, <2>3, <2>4, <2>5, <2>6, <2>7, <2>8, <2>9
            DEF Step, Writing, Ingesting
  <1>3. CASE UNCHANGED vars
    BY <1>1, <1>3 DEF vars, MapInv, TypeOK, Progress, LockInv, Numbered, WritesAreWhole
  <1> QED BY <1>2, <1>3 DEF Next

LEMMA MapInvariant == Spec => []MapInv
  <1>1. MapInv /\ [Next]_vars => MapInv'
    BY NextKeepsInv
  <1> QED BY <1>1, InitInv, PTL DEF Spec

\* The map, the rows and the calls stay what the code can hold; the attempts
\* of a write never exceed MAP_GROW_RETRIES.
THEOREM MapTypeCorrect == Spec => []TypeOK
  <1>1. MapInv => TypeOK
    BY DEF MapInv
  <1> QED BY <1>1, MapInvariant, PTL

\* A write that with_write reports as done is in the file with every row, and
\* one that failed, however often it was tried, with none.
THEOREM WritesStayWhole == Spec => []WritesAreWhole
  <1>1. MapInv => WritesAreWhole
    BY DEF MapInv
  <1> QED BY <1>1, MapInvariant, PTL

\* reserve_map, with_write and grow_after_map_full never shrink the map.
THEOREM NeverShrinks == Spec => MapNeverShrinks
  <1>1. MapInv /\ [Next]_vars => [mapSize' >= mapSize]_vars
    BY NextKeepsInv
  <1> QED BY <1>1, MapInvariant, PTL DEF Spec, MapNeverShrinks

\* A step that resizes is one of three, each with the lock to itself.
LEMMA ResizeFindsNobody ==
    ASSUME MapInv, Next, mapSize' # mapSize
    PROVE  Within({"reading", "writing"}) = {} /\ Within({"reading", "writing"})' = {}
  <1>1. PICK th \in Threads : TakeWrite(th) \/ Grow(th) \/ Reserve(th)
    BY DEF Next, Start, Refuse, Step, Reading, OpenRead, StartCopy, EndRead, Writing, Begin,
           Put, Commit, Abort, GiveUp, Ingesting, BeginSession, SessionFull
  <1>2. \A u \in Threads : call[u].at \notin {"reading", "writing"}
    <2>1. CASE TakeWrite(th) \/ Reserve(th)
      BY <2>1, MapAssumption DEF MapInv, LockInv, TakeWrite, Reserve, MayOwn, Readers
    <2>2. CASE Grow(th)
      BY <2>2, MapAssumption DEF MapInv, LockInv, Grow
    <2> QED BY <1>1, <2>1, <2>2
  <1>3. \A u \in Threads : call'[u].at \notin {"reading", "writing"}
    <2>1. call \in [Threads -> Calls \cup {NoCall}] /\ call[th] \in Calls
      BY <1>1, IdleOrCall DEF MapInv, TypeOK, TakeWrite, Grow, Reserve
    <2>2. /\ call'[th].at \in {"try", "session"}
          /\ \A u \in Threads : u # th => call'[u] = call[u]
      BY <1>1, <2>1 DEF TakeWrite, Grow, Reserve, Goto, Calls
    <2> QED BY <1>2, <2>2
  <1> QED BY <1>2, <1>3 DEF Within

\* txn_gate keeps every resize apart from the transactions of read_txn, of
\* with_write and of an IngestSession, for any number of threads.
THEOREM ResizesPastEveryGuard == Spec => ResizedPastEveryGuard
  <1>1. MapInv /\ [Next]_vars =>
            [mapSize' # mapSize =>
                Within({"reading", "writing"}) = {} /\ Within({"reading", "writing"})' = {}]_vars
    BY ResizeFindsNobody
  <1> QED BY <1>1, MapInvariant, PTL DEF Spec, ResizedPastEveryGuard

-----------------------------------------------------------------------------
(* What the map has room for.                                              *)

\* grow_after_map_full doubles, reserve_map reserves.
LEMMA SizesReach ==
    ASSUME NEW input \in Nat, mapSize \in Nat, used \in Nat
    PROVE  /\ GrownAfterFull(input) >= 2 * mapSize
           /\ Reserved(Factor * input) >= used + Factor * input
  <1>1. Align \in Nat \ {0} /\ Factor \in Nat
    BY MapAssumption
  <1>2. GrownAfterFull(input) >= 2 * mapSize
    <2> DEFINE want == AlignMap(Larger(2 * mapSize, used + input))
    <2>1. Larger(2 * mapSize, used + input) \in Nat /\ Larger(2 * mapSize, used + input) >= 2 * mapSize
      BY DEF Larger
    <2>2. want \in Nat /\ want >= 2 * mapSize
      BY <2>1, AlignCovers
    <2>3. AlignMap(mapSize + Align) \in Nat
      BY <1>1, AlignCovers
    <2>4. GrownAfterFull(input) = IF want <= mapSize THEN AlignMap(mapSize + Align) ELSE want
      BY DEF GrownAfterFull
    <2> HIDE DEF want
    <2> QED BY <2>2, <2>3, <2>4
  <1>3. Reserved(Factor * input) >= used + Factor * input
    <2> DEFINE extra == Factor * input
               want == AlignMap(used + extra)
    <2>1. extra \in Nat /\ used + extra \in Nat
      BY <1>1
    <2> HIDE DEF extra
    <2>2. want \in Nat /\ want >= used + extra
      BY <2>1, AlignCovers
    <2>3. Reserved(extra) = Larger(mapSize, want)
      BY DEF Reserved
    <2> HIDE DEF want
    <2>4. Reserved(extra) >= used + extra
      BY <2>1, <2>2, <2>3 DEF Larger
    <2> QED BY <2>4 DEF extra
  <1> QED BY <1>2, <1>3

\* What a caller asks for stays with the call.
SameRequest(c, d) ==
    /\ c.kind = d.kind /\ c.input = d.input /\ c.row = d.row /\ c.commit = d.commit
    /\ c.crowded = d.crowded

\* Where call d of a thread goes in a step that is no commit.
Advances(d, c) ==
    \/ c = NoCall
    \/ /\ c \in Calls /\ c.at = "gate" /\ c.tries = 0
       /\ c.kind = "ingest" => Rows * c.row + c.commit <= Factor * c.input
    \/ /\ c \in Calls /\ d \in Calls /\ SameRequest(c, d)
       /\ \/ c.at \in {"reading", "copying"}
          \/ /\ d.at = "gate" /\ c.at = "session" /\ c.kind = "ingest"
             /\ mapSize' >= used + Factor * c.input
          \/ d.at = "session" /\ c.at = "writing" /\ c.kind = "ingest"
          \/ d.at = "gate" /\ c.at = "try" /\ c.kind = "write" /\ c.from = mapSize' /\ c.tries = d.tries
          \/ /\ d.at \in {"try", "writing"} /\ c.at \in {"writing", "full"}
             /\ d.at = "try" \/ c.at = "full" => c.kind = "write"
             /\ c.from = d.from /\ c.tries = d.tries
          \/ /\ d.at = "full" /\ c.at = "try" /\ c.kind = "write"
             /\ mapSize' >= 2 * mapSize /\ c.from = d.from /\ c.tries = d.tries + 1

LEMMA StepsAdvance ==
    ASSUME MapInv, NEW th \in Threads, Start(th) \/ Step(th) \/ Refuse(th), ~Commit(th)
    PROVE  used' = used /\ \E c \in Calls \cup {NoCall} :
               call' = [call EXCEPT ![th] = c] /\ Advances(call[th], c)
  <1> DEFINE d == call[th]
  <1>1. call \in [Threads -> Calls \cup {NoCall}] /\ mapSize \in Nat /\ used \in Nat /\ CallOK(d)
        /\ (d # NoCall => d \in Calls /\ d.input \in Nat)
    BY CallFields DEF MapInv, TypeOK, Progress
  <1>2. CASE Start(th)
    <2>1. mapSize \in Nat /\ calls + 1 \in 1 .. MaxCalls
      BY <1>2, MapAssumption DEF MapInv, TypeOK, Start
    <2>2. CASE \E kind \in Kinds \cap {"read", "snapshot"} :
                  call' = [call EXCEPT ![th] = NewCall(kind, calls + 1, 0, 0, 0)]
      <3>1. PICK kind \in Kinds \cap {"read", "snapshot"} :
                call' = [call EXCEPT ![th] = NewCall(kind, calls + 1, 0, 0, 0)]
        BY <2>2
      <3> DEFINE c == NewCall(kind, calls + 1, 0, 0, 0)
      <3>2. c \in Calls /\ c.at = "gate" /\ c.tries = 0 /\ c.kind # "ingest"
        BY <2>1, NewReadType DEF NewCall
      <3>3. call' = [call EXCEPT ![th] = c] /\ used' = used
        BY <1>2, <3>1 DEF Start
      <3> HIDE DEF c, d
      <3> QED BY <3>2, <3>3 DEF Advances, d
    <2>3. CASE \E kind \in Kinds \cap {"write", "ingest"}, input \in InputBytes,
                  row \in RowBytes, commit \in CommitBytes :
                  /\ kind = "ingest" => Rows * row + commit <= Factor * input
                  /\ call' = [call EXCEPT ![th] = NewCall(kind, calls + 1, input, row, commit)]
      <3>1. PICK kind \in Kinds, input \in InputBytes, row \in RowBytes, commit \in CommitBytes :
                /\ kind = "ingest" => Rows * row + commit <= Factor * input
                /\ call' = [call EXCEPT ![th] = NewCall(kind, calls + 1, input, row, commit)]
        BY <2>3
      <3> DEFINE c == NewCall(kind, calls + 1, input, row, commit)
      <3>2. c \in Calls /\ c.at = "gate"
        BY <2>1, NewCallType
      <3>3. c.tries = 0 /\ c.kind = kind /\ c.row = row /\ c.commit = commit /\ c.input = input
        BY DEF NewCall
      <3>4. call' = [call EXCEPT ![th] = c] /\ used' = used
        BY <1>2, <3>1 DEF Start
      <3> HIDE DEF c
      <3>5. Advances(call[th], c)
        BY <3>1, <3>2, <3>3 DEF Advances
      <3> QED BY <3>2, <3>4, <3>5
    <2> QED BY <1>2, <2>2, <2>3 DEF Start
  <1>3. CASE EndRead(th) \/ GiveUp(th) \/ Refuse(th) \/ SessionFull(th)
    <2>1. call' = [call EXCEPT ![th] = NoCall] /\ used' = used
      BY <1>3 DEF EndRead, GiveUp, Refuse, SessionFull, Ended
    <2> QED BY <2>1 DEF Advances
  <1>4. CASE OpenRead(th) \/ StartCopy(th)
    <2>1. PICK at \in {"reading", "copying"} : call' = [call EXCEPT ![th].at = at]
      BY <1>4 DEF OpenRead, StartCopy, Goto
    <2>2. d \in Calls /\ used' = used
      BY <1>1, <1>4 DEF OpenRead, StartCopy, NoCall
    <2> DEFINE c == [d EXCEPT !.at = at]
    <2>3. c \in Calls /\ SameRequest(c, d) /\ c.at = at
      BY <2>2 DEF Calls, SameRequest
    <2>4. call' = [call EXCEPT ![th] = c]
      BY <2>1
    <2> HIDE DEF c
    <2> QED BY <2>2, <2>3, <2>4 DEF Advances
  <1>5. CASE TakeWrite(th)
    <2>1. d \in Calls /\ d.at = "gate" /\ d.kind = "write" /\ d.input \in Nat /\ used' = used
      BY <1>1, <1>5 DEF TakeWrite, NoCall
    <2>2. mapSize' \in Nat
      BY <1>1, <1>5, <2>1, SizesGrow DEF TakeWrite
    <2> DEFINE c == [d EXCEPT !.at = "try", !.from = mapSize']
    <2>3. c \in Calls /\ SameRequest(c, d) /\ c.at = "try" /\ c.from = mapSize' /\ c.tries = d.tries
          /\ c.kind = "write"
      BY <2>1, <2>2 DEF Calls, SameRequest
    <2>4. call' = [call EXCEPT ![th] = c]
      BY <1>5 DEF TakeWrite
    <2> HIDE DEF c
    <2> QED BY <2>1, <2>3, <2>4 DEF Advances
  <1>6. CASE Begin(th)
    <2>1. d \in Calls /\ d.at = "try" /\ d.kind = "write" /\ used' = used
      BY <1>1, <1>6 DEF Begin, NoCall, CallOK
    <2> DEFINE c == [d EXCEPT !.at = "writing", !.put = 0]
    <2>2. 0 \in 0 .. Rows
      BY MapAssumption
    <2>3. c \in Calls /\ SameRequest(c, d) /\ c.at = "writing" /\ c.from = d.from /\ c.tries = d.tries
          /\ c.kind = "write"
      BY <2>1, <2>2 DEF Calls, SameRequest
    <2>4. call' = [call EXCEPT ![th] = c]
      BY <1>6 DEF Begin
    <2> HIDE DEF c
    <2> QED BY <2>1, <2>3, <2>4 DEF Advances
  <1>7. CASE Put(th)
    <2>1. d \in Calls /\ d.at = "writing" /\ used' = used /\ d.put < Rows /\ d.put \in 0 .. Rows
      BY <1>1, <1>7, CallFields DEF Put, NoCall
    <2> DEFINE c == [d EXCEPT !.put = @ + 1]
    <2>2. d.put + 1 \in 0 .. Rows
      BY <2>1, MapAssumption
    <2>3. c \in Calls /\ SameRequest(c, d) /\ c.at = "writing" /\ c.from = d.from /\ c.tries = d.tries
      BY <2>1, <2>2 DEF Calls, SameRequest
    <2>4. call' = [call EXCEPT ![th] = c]
      BY <1>7 DEF Put
    <2> HIDE DEF c
    <2> QED BY <2>1, <2>3, <2>4 DEF Advances
  <1>8. CASE Abort(th)
    <2>1. d \in Calls /\ d.at = "writing" /\ d.kind = "write" /\ used' = used
      BY <1>1, <1>8 DEF Abort, MapFull, NoCall
    <2> DEFINE c == [d EXCEPT !.at = "full"]
    <2>2. c \in Calls /\ SameRequest(c, d) /\ c.at = "full" /\ c.from = d.from /\ c.tries = d.tries
          /\ c.kind = "write"
      BY <2>1 DEF Calls, SameRequest
    <2>3. call' = [call EXCEPT ![th] = c]
      BY <1>8 DEF Abort, Goto
    <2> HIDE DEF c
    <2> QED BY <2>1, <2>2, <2>3 DEF Advances
  <1>9. CASE Grow(th)
    <2>1. d \in Calls /\ d.at = "full" /\ d.kind = "write" /\ d.input \in Nat /\ used' = used
          /\ d.tries < Retries /\ d.tries \in 0 .. Retries
      BY <1>1, <1>9, CallFields DEF Grow, NoCall, CallOK
    <2>2. mapSize' >= 2 * mapSize
      BY <1>1, <1>9, <2>1, SizesReach DEF Grow
    <2> DEFINE c == [d EXCEPT !.at = "try", !.tries = @ + 1]
    <2>3. d.tries + 1 \in 0 .. Retries
      BY <2>1, MapAssumption
    <2>4. c \in Calls /\ SameRequest(c, d) /\ c.at = "try" /\ c.from = d.from /\ c.tries = d.tries + 1
          /\ c.kind = "write"
      BY <2>1, <2>3 DEF Calls, SameRequest
    <2>5. call' = [call EXCEPT ![th] = c]
      BY <1>9 DEF Grow
    <2> HIDE DEF c
    <2> QED BY <2>1, <2>2, <2>4, <2>5 DEF Advances
  <1>10. CASE Reserve(th)
    <2>1. d \in Calls /\ d.at = "gate" /\ d.kind = "ingest" /\ d.input \in Nat /\ used' = used
      BY <1>1, <1>10 DEF Reserve, NoCall
    <2>2. mapSize' >= used + Factor * d.input
      BY <1>1, <1>10, <2>1, SizesReach DEF Reserve
    <2> DEFINE c == [d EXCEPT !.at = "session"]
    <2>3. c \in Calls /\ SameRequest(c, d) /\ c.at = "session" /\ c.kind = "ingest" /\ c.input = d.input
      BY <2>1 DEF Calls, SameRequest
    <2>4. call' = [call EXCEPT ![th] = c]
      BY <1>10 DEF Reserve, Goto
    <2> HIDE DEF c
    <2> QED BY <2>1, <2>2, <2>3, <2>4 DEF Advances
  <1>11. CASE BeginSession(th)
    <2>1. d \in Calls /\ d.at = "session" /\ d.kind = "ingest" /\ used' = used
      BY <1>1, <1>11 DEF BeginSession, NoCall, CallOK
    <2> DEFINE c == [d EXCEPT !.at = "writing"]
    <2>2. c \in Calls /\ SameRequest(c, d) /\ c.at = "writing" /\ c.kind = "ingest"
      BY <2>1 DEF Calls, SameRequest
    <2>3. call' = [call EXCEPT ![th] = c]
      BY <1>11 DEF BeginSession, Goto
    <2> HIDE DEF c
    <2> QED BY <2>1, <2>2, <2>3 DEF Advances
  <1> QED BY <1>2, <1>3, <1>4, <1>5, <1>6, <1>7, <1>8, <1>9, <1>10, <1>11
          DEF Step, Reading, Writing, Ingesting

\* After a commit: the committer is idle, and who had room reserved and has
\* not begun is crowded.
LEMMA CommitCrowds ==
    ASSUME MapInv, NEW th \in Threads, Commit(th)
    PROVE  /\ mapSize' = mapSize /\ call'[th] = NoCall
           /\ \A u \in Threads : u # th /\ call[u].at # "session" => call'[u] = call[u]
           /\ \A u \in Threads : u # th /\ call[u].at = "session" =>
                  call[u] \in Calls /\ call'[u] = [call[u] EXCEPT !.crowded = TRUE]
           /\ \A u \in Threads : u # th => call[u].at \notin {"try", "writing", "full"}
  <1>1. mapSize' = mapSize /\ call' = [Crowd(th) EXCEPT ![th] = NoCall]
    BY DEF Commit
  <1>2. call'[th] = NoCall /\ \A u \in Threads : u # th =>
            call'[u] = IF call[u].at = "session" THEN [call[u] EXCEPT !.crowded = TRUE] ELSE call[u]
    BY <1>1 DEF Crowd
  <1>3. \A u \in Threads : call[u].at = "session" => call[u] \in Calls
    BY IdleOrCall DEF MapInv
  <1>4. \A u \in Threads : u # th => call[u].at \notin {"try", "writing", "full"}
    BY DEF MapInv, LockInv, Commit
  <1> QED BY <1>1, <1>2, <1>3, <1>4

\* An ingest stays within what it reserves, and what it reserved is there
\* until a commit gets in between.
RoomOK(c) ==
    c # NoCall /\ c.kind = "ingest" =>
        /\ Rows * c.row + c.commit <= Factor * c.input
        /\ c.at \in {"session", "writing"} /\ ~c.crowded => used + Factor * c.input <= mapSize

RoomInv == \A th \in Threads : RoomOK(call[th])

LEMMA RoomStep ==
    ASSUME MapInv, RoomInv, [Next]_vars
    PROVE  RoomInv'
  <1>1. mapSize \in Nat /\ used \in Nat /\ mapSize' \in Nat /\ mapSize' >= mapSize
        /\ call \in [Threads -> Calls \cup {NoCall}]
    BY NextKeepsInv DEF MapInv, TypeOK
  <1>2. Rows \in Nat /\ Factor \in Nat
    BY MapAssumption
  <1>3. CASE UNCHANGED vars
    BY <1>3 DEF vars, RoomInv, RoomOK
  <1>4. ASSUME NEW th \in Threads, Start(th) \/ Step(th) \/ Refuse(th)
        PROVE  RoomInv'
    <2>1. CASE Commit(th)
      <3>1. SUFFICES ASSUME NEW u \in Threads
                     PROVE  RoomOK(call[u])'
        BY DEF RoomInv
      <3>2. CASE u = th
        BY <2>1, <3>2, CommitCrowds DEF RoomOK
      <3>3. CASE u # th /\ call[u].at # "session"
        <4>1. call'[u] = call[u] /\ call[u].at # "writing" /\ RoomOK(call[u])
          BY <2>1, <3>3, CommitCrowds DEF RoomInv
        <4> QED BY <3>3, <4>1 DEF RoomOK
      <3>4. CASE u # th /\ call[u].at = "session"
        <4>1. call[u] \in Calls /\ call'[u] = [call[u] EXCEPT !.crowded = TRUE] /\ RoomOK(call[u])
          BY <2>1, <3>4, CommitCrowds DEF RoomInv
        <4>2. /\ call[u] # NoCall /\ call'[u].kind = call[u].kind /\ call'[u].row = call[u].row
              /\ call'[u].commit = call[u].commit /\ call'[u].input = call[u].input /\ call'[u].crowded
          BY <4>1, CallFields DEF Calls
        <4> QED BY <4>1, <4>2 DEF RoomOK
      <3> QED BY <3>2, <3>3, <3>4
    <2>2. CASE ~Commit(th)
      <3>1. used' = used
        BY <1>4, <2>2, StepsAdvance
      <3>2. PICK c \in Calls \cup {NoCall} :
                call' = [call EXCEPT ![th] = c] /\ Advances(call[th], c)
        BY <1>4, <2>2, StepsAdvance
      <3>3. RoomOK(c)'
        <4>1. SUFFICES ASSUME c # NoCall, c.kind = "ingest"
                       PROVE  /\ Rows * c.row + c.commit <= Factor * c.input
                              /\ c.at \in {"session", "writing"} /\ ~c.crowded =>
                                     used + Factor * c.input <= mapSize'
          BY <3>1 DEF RoomOK
        <4>2. CASE c.at = "gate"
          <5>1. c.tries = 0 /\ Rows * c.row + c.commit <= Factor * c.input
            BY <3>2, <4>1, <4>2 DEF Advances
          <5> QED BY <4>2, <5>1
        <4>3. CASE c.at # "gate"
          <5>1. call[th] \in Calls /\ SameRequest(c, call[th]) /\ call[th] # NoCall
            BY <3>2, <4>1, <4>3, CallFields DEF Advances
          <5>2. RoomOK(call[th]) /\ c.input \in Nat
            BY <4>1, CallFields DEF RoomInv
          <5>3. Factor * c.input \in Nat
            BY <1>2, <5>2
          <5>4. Rows * c.row + c.commit <= Factor * c.input
            BY <4>1, <5>1, <5>2 DEF RoomOK, SameRequest
          <5>5. call[th].at \in {"session", "writing"} /\ ~c.crowded => used + Factor * c.input <= mapSize
            BY <4>1, <5>1, <5>2 DEF RoomOK, SameRequest
          <5> DEFINE need == used + Factor * c.input
          <5>6. need \in Nat
            BY <1>1, <5>3
          <5>7. c.at \in {"session", "writing"} /\ ~c.crowded => need <= mapSize \/ need <= mapSize'
            <6>1. need <= mapSize' <=> mapSize' >= need
              BY <1>1, <5>6
            <6>2. c.at \in {"session", "writing"} => (call[th].at \in {"session", "writing"} \/ mapSize' >= need)
              BY <3>2, <4>1, <4>3 DEF Advances
            <6> QED BY <5>5, <6>1, <6>2
          <5> HIDE DEF need
          <5>8. c.at \in {"session", "writing"} /\ ~c.crowded => need <= mapSize'
            BY <1>1, <5>6, <5>7
          <5> QED BY <5>4, <5>8 DEF need
        <4> QED BY <4>2, <4>3
      <3>4. ASSUME NEW u \in Threads, u # th
            PROVE  RoomOK(call[u])'
        <4>1. call'[u] = call[u] /\ RoomOK(call[u]) /\ (call[u] # NoCall => call[u].input \in Nat)
          BY <1>1, <3>2, <3>4, CallFields DEF RoomInv
        <4>2. call[u] # NoCall => used + Factor * call[u].input \in Nat
          BY <1>1, <1>2, <4>1
        <4> QED BY <1>1, <3>1, <4>1, <4>2 DEF RoomOK
      <3>5. call'[th] = c
        BY <1>1, <3>2
      <3> QED BY <3>3, <3>4, <3>5 DEF RoomInv
    <2> QED BY <2>1, <2>2
  <1> QED BY <1>3, <1>4 DEF Next

\* The rows of an ingest that is not crowded find room, and so does the
\* commit.
LEMMA RoomForAll ==
    ASSUME MapInv, RoomInv
    PROVE  IngestFullOnlyWhenCrowded
  <1>1. SUFFICES ASSUME NEW th \in Threads, MapFull(th), call[th].kind = "ingest", ~call[th].crowded
                 PROVE  FALSE
    BY DEF IngestFullOnlyWhenCrowded
  <1> DEFINE c == call[th]
  <1>2. /\ c \in Calls /\ c # NoCall /\ c.at = "writing" /\ c.since = 0 /\ CallOK(c)
        /\ used \in Nat /\ mapSize \in Nat
    BY <1>1, IdleOrCall DEF MapInv, TypeOK, Progress, MapFull, CallOK
  <1>3. c.row \in Nat /\ c.commit \in Nat /\ c.input \in Nat /\ c.put \in 0 .. Rows
    BY <1>2, CallFields
  <1>4. Rows * c.row + c.commit <= Factor * c.input /\ used + Factor * c.input <= mapSize
    BY <1>1, <1>2 DEF RoomInv, RoomOK
  <1>5. Rows \in Nat /\ Factor \in Nat
    BY MapAssumption
  <1>6. Dirty(th) = c.row * c.put
    BY <1>2, <1>3, <1>5 DEF Dirty
  <1>7. ~(used + Dirty(th) + (IF c.put < Rows THEN c.row ELSE c.commit) <= mapSize)
    BY <1>1 DEF MapFull, Room
  <1> DEFINE row == c.row  put == c.put  all == Rows * c.row  room == Factor * c.input  done == c.row * c.put
  <1>8. all \in Nat /\ room \in Nat /\ done \in Nat
    BY <1>3, <1>5
  <1>9. c.put < Rows => done + c.row <= all
    <2>1. SUFFICES ASSUME c.put < Rows
                   PROVE  row * put + row <= Rows * row
      OBVIOUS
    <2>2. row \in Nat /\ put \in Nat /\ put < Rows
      BY <1>3, <2>1
    <2> HIDE DEF row, put
    <2>3. PICK k \in Nat : Rows = put + 1 + k
      <3>1. Rows - put - 1 \in Nat /\ Rows = put + 1 + (Rows - put - 1)
        BY <1>5, <2>2
      <3> QED BY <3>1
    <2>4. Rows * row = row * put + row + row * k
      BY <2>2, <2>3
    <2>5. row * k \in Nat /\ row * put \in Nat
      BY <2>2, <2>3
    <2> QED BY <2>2, <2>4, <2>5
  <1>10. ~(c.put < Rows) => done = all
    BY <1>3, <1>5
  <1>11. ~(used + done + (IF c.put < Rows THEN c.row ELSE c.commit) <= mapSize)
         /\ all + c.commit <= room /\ used + room <= mapSize
    BY <1>4, <1>6, <1>7
  <1> HIDE DEF all, room, done
  <1> QED BY <1>2, <1>3, <1>8, <1>9, <1>10, <1>11

\* reserve_map and the IngestSession: an ingest that stays within
\* INPUT_MAP_FACTOR times its input finds the map full only if another write
\* committed after the reservation, whatever the sizes are.
THEOREM RoomIsReserved == Spec => []IngestFullOnlyWhenCrowded
  <1>1. Init => RoomInv
    BY DEF Init, RoomInv, RoomOK
  <1>2. MapInv /\ RoomInv /\ [Next]_vars => RoomInv'
    BY RoomStep
  <1>3. MapInv /\ RoomInv => IngestFullOnlyWhenCrowded
    BY RoomForAll
  <1> QED BY <1>1, <1>2, <1>3, MapInvariant, PTL DEF Spec

-----------------------------------------------------------------------------
(* How often a write is tried.                                             *)

\* What the provers are not told of 2 ^ n.
PowersOfTwo == 2 ^ 0 = 1 /\ \A n \in Nat : 2 ^ n \in Nat /\ 2 ^ (n + 1) = 2 * 2 ^ n

\* Every attempt that failed has doubled the map.
DoubledOK(c) ==
    c # NoCall =>
        /\ c.at = "gate" => c.tries = 0
        /\ c.at \in {"try", "writing", "full"} /\ c.kind = "write" =>
               mapSize >= c.from * 2 ^ c.tries

DoubledInv == \A th \in Threads : DoubledOK(call[th])

\* Doubling once more.
LEMMA DoubleAgain ==
    ASSUME NEW from \in Nat, NEW p \in Nat, NEW m \in Nat, NEW n \in Nat, m >= from * p, n >= 2 * m
    PROVE  n >= from * (2 * p)
  <1> DEFINE q == from * p
  <1>1. q \in Nat /\ from * (2 * p) = 2 * q
    OBVIOUS
  <1>2. m >= q
    OBVIOUS
  <1> HIDE DEF q
  <1>3. n >= 2 * q
    BY <1>1, <1>2
  <1> QED BY <1>1, <1>3

LEMMA DoubledStep ==
    ASSUME PowersOfTwo, MapInv, DoubledInv, [Next]_vars
    PROVE  DoubledInv'
  <1>1. mapSize \in Nat /\ used \in Nat /\ mapSize' \in Nat /\ mapSize' >= mapSize
        /\ call \in [Threads -> Calls \cup {NoCall}]
    BY NextKeepsInv DEF MapInv, TypeOK
  <1>2. \A c \in Calls : c.from \in Nat /\ c.tries \in Nat /\ c # NoCall
    <2>1. Retries \in Nat
      BY MapAssumption
    <2>2. \A c \in Calls : c.from \in Nat /\ c.tries \in 0 .. Retries /\ c # NoCall
      BY CallFields DEF Calls
    <2> QED BY <2>1, <2>2
  <1>3. \A c \in Calls : c.from * 2 ^ c.tries \in Nat
    BY <1>2 DEF PowersOfTwo
  <1>4. CASE UNCHANGED vars
    BY <1>4 DEF vars, DoubledInv, DoubledOK
  <1>5. ASSUME NEW th \in Threads, Start(th) \/ Step(th) \/ Refuse(th)
        PROVE  DoubledInv'
    <2>1. CASE Commit(th)
      <3>1. SUFFICES ASSUME NEW u \in Threads
                     PROVE  DoubledOK(call[u])'
        BY DEF DoubledInv
      <3>2. CASE u = th
        BY <2>1, <3>2, CommitCrowds DEF DoubledOK
      <3>3. CASE u # th /\ call[u].at # "session"
        BY <2>1, <3>3, CommitCrowds DEF DoubledInv, DoubledOK
      <3>4. CASE u # th /\ call[u].at = "session"
        <4>1. call[u] \in Calls /\ call'[u] = [call[u] EXCEPT !.crowded = TRUE]
          BY <2>1, <3>4, CommitCrowds
        <4>2. call'[u].at = "session"
          BY <3>4, <4>1 DEF Calls
        <4> QED BY <4>2 DEF DoubledOK
      <3> QED BY <3>2, <3>3, <3>4
    <2>2. CASE ~Commit(th)
      <3>1. PICK c \in Calls \cup {NoCall} :
                call' = [call EXCEPT ![th] = c] /\ Advances(call[th], c)
        BY <1>5, <2>2, StepsAdvance
      <3> DEFINE d == call[th]
      <3>2. DoubledOK(d)
        BY DEF DoubledInv
      <3>3. DoubledOK(c)'
        <4>1. SUFFICES ASSUME c \in Calls
                       PROVE  DoubledOK(c)'
          BY DEF DoubledOK
        <4>2. CASE c.at \in {"gate", "reading", "copying", "session"}
          BY <3>1, <4>1, <4>2 DEF DoubledOK, Advances
        <4>3. CASE c.at = "try" /\ d.at = "gate" /\ d \in Calls /\ c.from = mapSize' /\ c.tries = d.tries
          <5>1. c.tries = 0
            BY <1>2, <3>2, <4>3 DEF DoubledOK
          <5>2. 2 ^ c.tries = 1
            BY <5>1 DEF PowersOfTwo
          <5>3. c.from * 2 ^ c.tries = c.from * 1
            BY <5>2
          <5>4. c.from * 2 ^ c.tries = c.from /\ mapSize' >= c.from
            BY <1>1, <4>3, <5>3
          <5>5. mapSize' >= c.from * 2 ^ c.tries
            BY <5>4
          <5> QED BY <4>3, <5>1, <5>5 DEF DoubledOK
        <4>4. CASE /\ d \in Calls /\ d.at \in {"try", "writing"} /\ SameRequest(c, d)
                   /\ c.from = d.from /\ c.tries = d.tries /\ c.at \in {"writing", "full"}
          <5>1. c.kind = "write" => mapSize >= c.from * 2 ^ c.tries
            BY <1>2, <3>2, <4>4 DEF DoubledOK, SameRequest
          <5>2. c.kind = "write" => mapSize' >= c.from * 2 ^ c.tries
            BY <1>1, <1>3, <4>1, <5>1
          <5> QED BY <4>4, <5>2 DEF DoubledOK
        <4>5. CASE /\ d \in Calls /\ d.at = "full" /\ c.at = "try" /\ c.kind = "write" /\ SameRequest(c, d)
                   /\ mapSize' >= 2 * mapSize /\ c.from = d.from /\ c.tries = d.tries + 1
          <5> DEFINE p == 2 ^ d.tries
          <5>1. mapSize >= d.from * p
            BY <1>2, <3>2, <4>5 DEF DoubledOK, SameRequest
          <5>2. p \in Nat /\ 2 ^ c.tries = 2 * p /\ d.from \in Nat
            BY <1>2, <4>5 DEF PowersOfTwo
          <5> HIDE DEF p
          <5>3. mapSize' >= d.from * (2 * p)
            BY <1>1, <4>5, <5>1, <5>2, DoubleAgain
          <5> QED BY <4>5, <5>2, <5>3 DEF DoubledOK
        <4>6. CASE d.at = "session" /\ c.at = "writing" /\ c.kind = "ingest"
          BY <4>6 DEF DoubledOK
        <4> QED BY <1>2, <3>1, <4>1, <4>2, <4>3, <4>4, <4>5, <4>6 DEF Advances
      <3>4. ASSUME NEW u \in Threads, u # th
            PROVE  DoubledOK(call[u])'
        <4>1. call'[u] = call[u] /\ DoubledOK(call[u]) /\ (call[u] # NoCall => call[u] \in Calls)
          BY <1>1, <3>1, <3>4 DEF DoubledInv
        <4>2. call[u] # NoCall => call[u].from * 2 ^ call[u].tries \in Nat
          BY <1>3, <4>1
        <4> QED BY <1>1, <4>1, <4>2 DEF DoubledOK
      <3>5. call'[th] = c
        BY <1>1, <3>1
      <3> QED BY <3>3, <3>4, <3>5 DEF DoubledInv
    <2> QED BY <2>1, <2>2
  <1> QED BY <1>4, <1>5 DEF Next

\* with_write: "Each attempt at least doubles the map", for every size and
\* every number of attempts; that 2 ^ n doubles with n is a hypothesis, the
\* provers have no rules for it.
THEOREM AttemptsDouble ==
    ASSUME PowersOfTwo
    PROVE  Spec => []GivesUpOnlyAfterDoubling
  <1>1. Init => DoubledInv
    BY DEF Init, DoubledInv, DoubledOK
  <1>2. MapInv /\ DoubledInv /\ [Next]_vars => DoubledInv'
    BY DoubledStep
  <1>3. MapInv /\ DoubledInv => GivesUpOnlyAfterDoubling
    <2>1. MapInv => \A th \in Threads : call[th].at # "idle" => call[th] # NoCall
      BY IdleOrCall DEF MapInv
    <2> QED BY <2>1 DEF DoubledInv, DoubledOK, GivesUpOnlyAfterDoubling
  <1> QED BY <1>1, <1>2, <1>3, MapInvariant, PTL DEF Spec
=============================================================================
