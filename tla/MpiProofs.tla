------------------------------ MODULE MpiProofs ------------------------------
(***************************************************************************)
(* The MPI ingest: its arithmetic, for every number of frames and ranks,   *)
(* every batch size and every width of the words, and what its barriers    *)
(* keep, for every communicator, layout and list of files.                 *)
(***************************************************************************)
EXTENDS Mpi, FiniteSetTheorems, SequenceTheorems, WellFoundedInduction, TLAPS

-----------------------------------------------------------------------------
(* The arithmetic of mpi_wire.rs.                                          *)

\* While a frame remains a batch has one: its end lies past its start and not
\* past the frames, even when the caller asks for usize::MAX frames
\* (mpi_wire.rs batch_end, "while any frame remains the end is strictly
\* greater than b0").
THEOREM BatchAdvances ==
    ASSUME NEW n \in 0 .. MaxWord, NEW b0 \in 0 .. MaxWord, b0 < n,
           NEW batch \in 0 .. MaxWord
    PROVE  b0 < BatchEnd(b0, batch, n) /\ BatchEnd(b0, batch, n) <= n
  BY WireAssumption, SMT DEF BatchEnd, SaturatingAdd, Least, Greatest

\* A batch that is halved still has a frame and is shorter than before; only
\* a batch of one frame stays as it is, and then the ingest gives up.
THEOREM ShrinkConverges ==
    ASSUME NEW b0 \in Nat, NEW b1 \in Nat, b0 < b1
    PROVE  /\ b0 < ShrinkBatchEnd(b0, b1)
           /\ b1 = b0 + 1 => ShrinkBatchEnd(b0, b1) = b1
           /\ b1 > b0 + 1 => ShrinkBatchEnd(b0, b1) < b1
  <1> DEFINE span == b1 - b0
  <1>1. span \in Nat /\ span > 0
    BY SMT
  <1>2. span > 1 => 0 < (span \div 2) /\ (span \div 2) < span
    BY <1>1, SMT
  <1>3. span <= 1 <=> b1 = b0 + 1
    BY SMT
  <1>4. CASE span <= 1
    BY <1>3, <1>4, SMT DEF ShrinkBatchEnd
  <1>5. CASE span > 1
    <2>1. ShrinkBatchEnd(b0, b1) = b0 + (span \div 2)
      BY <1>5, SMT DEF ShrinkBatchEnd
    <2>2. (span \div 2) \in Int
      BY <1>1, SMT
    <2> HIDE DEF span
    <2>3. b1 = b0 + span
      BY SMT DEF span
    <2> QED BY <2>1, <2>2, <2>3, <1>1, <1>2, <1>3, <1>5, SMT
  <1> QED BY <1>1, <1>4, <1>5, SMT

\* What a rank's block is made of.
LEMMA Division ==
    ASSUME NEW n \in Nat, NEW size \in Nat \ {0}
    PROVE  /\ n \div size \in Nat
           /\ n % size \in 0 .. size - 1
           /\ n = size * (n \div size) + (n % size)
  BY SMT

\* Blocks are dealt without gap or overlap: rank 0 begins at frame 0, each
\* rank ends where the next begins, the last ends at n, and no two ranks'
\* blocks differ by more than one frame (mpi_ingest.rs block_range).
THEOREM BlocksTile ==
    ASSUME NEW n \in Nat, NEW size \in Nat \ {0}
    PROVE  /\ BlockStart(n, size, 0) = 0
           /\ BlockEnd(n, size, size - 1) = n
           /\ \A r \in 0 .. size - 2 : BlockEnd(n, size, r) = BlockStart(n, size, r + 1)
           /\ \A r \in 0 .. size - 1 :
                  BlockEnd(n, size, r) - BlockStart(n, size, r) \in {n \div size, n \div size + 1}
  <1> DEFINE base == n \div size
             rem  == n % size
  <1>1. base \in Nat /\ rem \in 0 .. size - 1 /\ n = size * base + rem
    BY Division
  <1>2. \A r \in Nat : BlockStart(n, size, r) = r * base + Least(r, rem)
    BY DEF BlockStart
  <1>3. \A r \in Nat : BlockEnd(n, size, r)
                         = r * base + Least(r, rem) + base + (IF r < rem THEN 1 ELSE 0)
    BY DEF BlockEnd, BlockStart
  <1> HIDE DEF base, rem
  <1>4. BlockStart(n, size, 0) = 0
    BY <1>1, <1>2, SMT DEF Least
  <1>5. BlockEnd(n, size, size - 1) = n
    <2>1. size - 1 \in Nat
      BY SMT
    <2>2. BlockEnd(n, size, size - 1)
            = (size - 1) * base + Least(size - 1, rem) + base
                + (IF size - 1 < rem THEN 1 ELSE 0)
      BY <1>3, <2>1
    <2>3. Least(size - 1, rem) = rem /\ ~(size - 1 < rem)
      BY <1>1, SMT DEF Least
    <2>4. (size - 1) * base + base = size * base
      BY <1>1, SMT
    <2> QED BY <1>1, <2>2, <2>3, <2>4, SMT
  <1>6. ASSUME NEW r \in 0 .. size - 2
        PROVE  BlockEnd(n, size, r) = BlockStart(n, size, r + 1)
    <2>1. r \in Nat /\ r + 1 \in Nat
      BY SMT
    <2>2. BlockEnd(n, size, r)
            = r * base + Least(r, rem) + base + (IF r < rem THEN 1 ELSE 0)
      BY <1>3, <2>1
    <2>3. BlockStart(n, size, r + 1) = (r + 1) * base + Least(r + 1, rem)
      BY <1>2, <2>1
    <2>4. (r + 1) * base = r * base + base /\ r * base \in Int
      BY <1>1, <2>1, SMT
    <2>5. Least(r + 1, rem) = Least(r, rem) + (IF r < rem THEN 1 ELSE 0)
      BY <1>1, <2>1, SMT DEF Least
    <2>6. Least(r, rem) \in Int
      BY <1>1, <2>1, SMT DEF Least
    <2> QED BY <1>1, <2>2, <2>3, <2>4, <2>5, <2>6, SMT
  <1>7. ASSUME NEW r \in 0 .. size - 1
        PROVE  BlockEnd(n, size, r) - BlockStart(n, size, r) \in {base, base + 1}
    <2>1. r \in Nat /\ r * base \in Int /\ Least(r, rem) \in Int
      BY <1>1, SMT DEF Least
    <2>2. BlockEnd(n, size, r)
            = r * base + Least(r, rem) + base + (IF r < rem THEN 1 ELSE 0)
      BY <1>3, <2>1
    <2>3. BlockStart(n, size, r) = r * base + Least(r, rem)
      BY <1>2, <2>1
    <2> QED BY <1>1, <2>1, <2>2, <2>3, SMT
  <1> QED BY <1>4, <1>5, <1>6, <1>7 DEF base

\* A record is never shorter for carrying its bytes, so a message that fits
\* with every payload fits without some of them.
LEMMA CarryingCosts ==
    ASSUME NEW stored \in Nat, NEW carries \in BOOLEAN
    PROVE  RecordBytes(stored, carries) <= RecordBytes(stored, TRUE)
  BY WireAssumption, SMT DEF RecordBytes

-----------------------------------------------------------------------------
(* The barriers of mpi_ingest.rs.                                          *)

\* The steps of a call before anything is committed.
Preparing == {"scan", "open", "reserve", "begin", "parse", "hashes", "fit", "decode", "flush",
              "tail", "meta"}

\* What rank r sends and is sent of the batch fits the counts.
RankFits(r) ==
    /\ Fits([to \in Ranks |-> MessageBytes(r, to)])
    /\ Fits([from \in Ranks |-> MessageBytes(from, r)])

\* A rank that agreed to a batch has weighed that batch, and a batch that is
\* exchanged is one that all have agreed to.
Weighed ==
    /\ stage = "fit" => \A r \in Ranks : vote[r] = "ok" => RankFits(r)
    /\ stage = "decode" => \A r \in Ranks : RankFits(r)

\* Open transactions are those of ranks with files to write.
SessionsOwned ==
    /\ stage \in {"idle", "returned"} => \A e \in EnvIds : staged[e] = Nil
    /\ \A e \in EnvIds : staged[e] # Nil => \E r \in Ranks : e \in Mine(r)

\* While the commits go on an environment holds its files, or what it held
\* and has its transaction yet, or what it held and a rank has failed.
CommitsAreWhole ==
    stage = "commit" =>
        /\ \A e \in EnvIds :
              \/ envs[e] = Serial(e, before[e]) /\ staged[e] = Nil
              \/ envs[e] = before[e] /\ staged[e] # Nil /\ staged[e] = Serial(e, before[e])
              \/ envs[e] = before[e] /\ staged[e] = Nil /\ \E r \in Ranks : vote[r] = "err"
        /\ \A r \in Ranks : vote[r] = "ok" => \A e \in Mine(r) \cap EnvIds : staged[e] = Nil

BarrierInv ==
    /\ stage \in Preparing \cup {"idle", "commit", "returned"}
    /\ vote \in [Ranks -> {"none", "ok", "err"}]
    /\ DOMAIN result = Ranks /\ DOMAIN envs = EnvIds /\ DOMAIN staged = EnvIds
    /\ stage \notin {"commit", "returned"} => envs = before
    /\ Weighed /\ SessionsOwned /\ CommitsAreWhole
    /\ stage = "returned" => EnvIsOldOrSerial
    /\ \A r \in Ranks : result[r] = "ok" => stage = "returned"
    /\ OkMeansAllStored

LEMMA FitsStay ==
    ASSUME NEW r \in Ranks, UNCHANGED <<layout, call, range>>
    PROVE  RankFits(r)' <=> RankFits(r)
  BY DEF RankFits, Fits, MessageBytes, SentSet, Record, Winner, To, Frame, N, AllFrames, FramesOf,
         Route, RouteIn, Ranks

LEMMA SerialStays ==
    ASSUME UNCHANGED <<layout, call>>
    PROVE  /\ \A e \in EnvIds : Serial(e, before[e])' = SerialIn(layout, call.files, e, before'[e])
           /\ \A e \in EnvIds : Serial(e, before[e]) = SerialIn(layout, call.files, e, before[e])
  BY DEF Serial

LEMMA MineStays ==
    ASSUME UNCHANGED <<layout, call>>
    PROVE  \A r \in Ranks : Mine(r)' = Mine(r)
  BY DEF Mine, Route, RouteIn

\* Barriers follow each other in the order of engine().
LEMMA StagesInOrder ==
    ASSUME stage \in Preparing
    PROVE  /\ NextStage \in Preparing \cup {"commit"}
           /\ NextStage = "decode" => stage = "fit"
           /\ stage = "fit" => NextStage = "decode"
           /\ NextStage = "commit" <=> stage = "meta"
  <1>1. CASE stage \in {"hashes", "fit", "decode", "flush", "tail", "meta"}
    BY <1>1 DEF NextStage, Preparing
  <1>2. CASE stage \in {"scan", "open", "reserve", "begin", "parse"}
    <2> DEFINE k == CHOOSE i \in DOMAIN Order : Order[i] = stage
    <2>1. NextStage = Order[1 + k]
      BY <1>2 DEF NextStage
    <2>2. DOMAIN Order = 1 .. 6
      BY DEF Order
    <2>3. \E i \in 1 .. 5 : Order[i] = stage
      BY <1>2 DEF Order
    <2>4. Order[6] # stage
      BY <1>2 DEF Order
    <2>5. k \in 1 .. 6 /\ Order[k] = stage
      BY <2>2, <2>3
    <2> HIDE DEF k
    <2>6. 1 + k \in 2 .. 6
      BY <2>4, <2>5
    <2>7. \A j \in 2 .. 6 : Order[j] \in {"open", "reserve", "begin", "parse", "hashes"}
      BY DEF Order
    <2>8. NextStage \in {"open", "reserve", "begin", "parse", "hashes"}
      BY <2>1, <2>6, <2>7
    <2> QED BY <1>2, <2>8 DEF Preparing
  <1> QED BY <1>1, <1>2 DEF Preparing

\* A rank finishes its step and goes to the barrier.
LEMMA VoteKeeps ==
    ASSUME BarrierInv, NEW r \in Ranks, NEW v \in {"ok", "err"}, stage \in Preparing,
           vote' = [vote EXCEPT ![r] = v], stage = "fit" /\ v = "ok" => RankFits(r),
           UNCHANGED <<stage, result, layout, envs, before, call, range>>,
           DOMAIN staged' = EnvIds,
           \A e \in EnvIds : staged'[e] # Nil => staged[e] # Nil \/ e \in Mine(r)
    PROVE  BarrierInv'
  <1>1. /\ vote' \in [Ranks -> {"none", "ok", "err"}] /\ vote'[r] = v
        /\ \A u \in Ranks : u # r => vote'[u] = vote[u]
    BY DEF BarrierInv
  <1>2. Weighed'
    <2>1. \A u \in Ranks : RankFits(u)' <=> RankFits(u)
      BY FitsStay
    <2> QED BY <1>1, <2>1 DEF BarrierInv, Weighed
  <1>3. SessionsOwned'
    <2>1. \A u \in Ranks : Mine(u)' = Mine(u)
      BY MineStays
    <2> QED BY <2>1 DEF BarrierInv, SessionsOwned, Preparing
  <1>4. CommitsAreWhole'
    BY DEF CommitsAreWhole, Preparing
  <1>5. OkMeansAllStored'
    BY DEF BarrierInv, OkMeansAllStored, Preparing
  <1> QED BY <1>1, <1>2, <1>3, <1>4, <1>5 DEF BarrierInv, Preparing

StepsAlone(r) ==
    Work(r) \/ Begin(r) \/ Fit(r) \/ DecodeBatch(r) \/ Flush(r) \/ FlushTail(r) \/ Meta(r) \/ Fail(r)

\* What a rank does by itself before the commits.
LEMMA StepsVote ==
    ASSUME NEW r \in Ranks, StepsAlone(r)
    PROVE  /\ stage \in Preparing
           /\ UNCHANGED <<stage, result, layout, envs, before, call, range>>
           /\ \/ staged' = staged
              \/ /\ DOMAIN staged' = EnvIds
                 /\ \A e \in EnvIds : staged'[e] # Nil => staged[e] # Nil \/ e \in Mine(r)
           /\ \E v \in {"ok", "err"} : /\ vote' = [vote EXCEPT ![r] = v]
                                       /\ stage = "fit" /\ v = "ok" => RankFits(r)
  <1> DEFINE Voted(v) == vote' = [vote EXCEPT ![r] = v]
             Same == UNCHANGED <<stage, result, layout, envs, before, call, range>>
             Opens == /\ DOMAIN staged' = EnvIds
                      /\ \A e \in EnvIds : staged'[e] # Nil => staged[e] # Nil \/ e \in Mine(r)
  <1>1. CASE Fit(r)
    <2>1. stage \in Preparing /\ Same /\ staged' = staged
      BY <1>1 DEF Fit, Turn, Elsewhere, Preparing
    <2>2. PICK v \in {"ok", "err"} : Voted(v) /\ (v = "ok" => RankFits(r))
      BY <1>1 DEF Fit, Vote, RankFits
    <2> QED BY <2>1, <2>2
  <1>2. CASE Work(r)
    <2>1. stage \in Preparing /\ stage # "fit" /\ Same /\ staged' = staged
      BY <1>2 DEF Work, Turn, Elsewhere, Preparing
    <2>2. Voted("ok")
      BY <1>2 DEF Work, Vote
    <2> QED BY <2>1, <2>2
  <1>3. CASE DecodeBatch(r)
    <2>1. stage = "decode" /\ Same /\ staged' = staged
      BY <1>3, Zenon DEF DecodeBatch, Turn, Elsewhere
    <2>2. Voted("ok") \/ Voted("err")
      BY <1>3, Zenon DEF DecodeBatch, Vote
    <2> QED BY <2>1, <2>2, Zenon DEF Preparing
  <1>4. CASE Fail(r)
    <2>1. stage \in Preparing /\ stage # "fit" /\ Same /\ staged' = staged
      BY <1>4 DEF Fail, FailTogether, MayFail, Preparing
    <2>2. Voted("err")
      BY <1>4 DEF Fail, FailTogether, Vote
    <2> QED BY <2>1, <2>2
  <1>5. CASE Begin(r)
    <2>1. stage = "begin" /\ Same
      BY <1>5 DEF Begin, Turn, Elsewhere
    <2>2. Opens
      BY <1>5 DEF Begin
    <2>3. Voted("ok") \/ Voted("err")
      BY <1>5 DEF Begin, Vote
    <2> QED BY <2>1, <2>2, <2>3 DEF Preparing
  <1>6. CASE Flush(r) \/ FlushTail(r)
    <2>1. stage \in {"flush", "tail"} /\ Same
      BY <1>6 DEF Flush, FlushTail, Turn, Elsewhere
    <2>2. Opens
      BY <1>6 DEF Flush, FlushTail, Drain
    <2>3. Voted("ok") \/ Voted("err")
      BY <1>6 DEF Flush, FlushTail, Vote
    <2> QED BY <2>1, <2>2, <2>3 DEF Preparing
  <1>7. CASE Meta(r)
    <2>1. stage = "meta" /\ Same
      BY <1>7 DEF Meta, Turn, Elsewhere
    <2>2. Opens
      BY <1>7 DEF Meta
    <2>3. Voted("ok")
      BY <1>7 DEF Meta, Vote
    <2> QED BY <2>1, <2>2, <2>3 DEF Preparing
  <1> QED BY <1>1, <1>2, <1>3, <1>4, <1>5, <1>6, <1>7 DEF StepsAlone

LEMMA StepsKeep ==
    ASSUME BarrierInv, NEW r \in Ranks, StepsAlone(r)
    PROVE  BarrierInv'
  <1>1. PICK v \in {"ok", "err"} : /\ vote' = [vote EXCEPT ![r] = v]
                                   /\ stage = "fit" /\ v = "ok" => RankFits(r)
    BY StepsVote
  <1>2. /\ stage \in Preparing
        /\ UNCHANGED <<stage, result, layout, envs, before, call, range>>
        /\ DOMAIN staged' = EnvIds
        /\ \A e \in EnvIds : staged'[e] # Nil => staged[e] # Nil \/ e \in Mine(r)
    BY StepsVote DEF BarrierInv
  <1> QED BY <1>1, <1>2, VoteKeeps

\* A rank commits one environment, or is done with them all.
LEMMA CommitKeeps ==
    ASSUME BarrierInv, NEW r \in Ranks, NEW e \in EnvIds, Commit(r, e)
    PROVE  BarrierInv'
  <1>1. /\ stage = "commit" /\ vote[r] = "none" /\ e \in Mine(r) /\ staged[e] # Nil
        /\ envs' = [envs EXCEPT ![e] = staged[e]] /\ staged' = [staged EXCEPT ![e] = Nil]
        /\ UNCHANGED <<layout, before, call, stage, vote, result, range>>
    BY DEF Commit, Turn
  <1>2. envs[e] = before[e] /\ staged[e] = Serial(e, before[e])
    BY <1>1 DEF BarrierInv, CommitsAreWhole
  <1>3. \A d \in EnvIds : Serial(d, before[d])' = Serial(d, before[d])
    BY <1>1, SerialStays
  <1>4. /\ DOMAIN envs' = EnvIds /\ DOMAIN staged' = EnvIds
        /\ envs'[e] = staged[e] /\ staged'[e] = Nil
        /\ \A d \in EnvIds : d # e => envs'[d] = envs[d] /\ staged'[d] = staged[d]
    BY <1>1 DEF BarrierInv
  <1>5. CommitsAreWhole'
    <2>1. \A u \in Ranks : Mine(u)' = Mine(u)
      BY <1>1, MineStays
    <2>2. CommitsAreWhole
      BY DEF BarrierInv
    <2>3. \A d \in EnvIds :
              \/ envs'[d] = Serial(d, before[d])' /\ staged'[d] = Nil
              \/ envs'[d] = before'[d] /\ staged'[d] # Nil /\ staged'[d] = Serial(d, before[d])'
              \/ envs'[d] = before'[d] /\ staged'[d] = Nil /\ \E u \in Ranks : vote'[u] = "err"
      BY <1>1, <1>2, <1>3, <1>4, <2>2 DEF CommitsAreWhole
    <2>4. \A u \in Ranks : vote'[u] = "ok" => \A d \in Mine(u)' \cap EnvIds : staged'[d] = Nil
      BY <1>1, <1>4, <2>1, <2>2 DEF CommitsAreWhole
    <2> QED BY <2>3, <2>4 DEF CommitsAreWhole
  <1>6. Weighed'
    BY <1>1 DEF Weighed
  <1>7. SessionsOwned'
    <2>1. \A u \in Ranks : Mine(u)' = Mine(u)
      BY <1>1, MineStays
    <2> QED BY <1>1, <1>4, <2>1 DEF BarrierInv, SessionsOwned
  <1>8. OkMeansAllStored'
    BY <1>1 DEF BarrierInv, OkMeansAllStored
  <1> QED BY <1>1, <1>4, <1>5, <1>6, <1>7, <1>8 DEF BarrierInv

LEMMA CommitEndKeeps ==
    ASSUME BarrierInv, NEW r \in Ranks, NEW ok \in BOOLEAN, CommitEnd(r, ok)
    PROVE  BarrierInv'
  <1>1. /\ stage = "commit" /\ (ok <=> \A e \in Mine(r) : staged[e] = Nil)
        /\ staged' = [e \in EnvIds |-> IF e \in Mine(r) THEN Nil ELSE staged[e]]
        /\ vote' = [vote EXCEPT ![r] = IF ok THEN "ok" ELSE "err"]
        /\ UNCHANGED <<layout, envs, before, call, stage, result, range>>
    BY DEF CommitEnd, Turn, Vote, Elsewhere
  <1>2. /\ vote' \in [Ranks -> {"none", "ok", "err"}]
        /\ vote'[r] = (IF ok THEN "ok" ELSE "err")
        /\ \A u \in Ranks : u # r => vote'[u] = vote[u]
    BY <1>1 DEF BarrierInv
  <1>3. \A d \in EnvIds : Serial(d, before[d])' = Serial(d, before[d])
    BY <1>1, SerialStays
  <1>4. \A u \in Ranks : Mine(u)' = Mine(u)
    BY <1>1, MineStays
  <1>5. CommitsAreWhole /\ vote[r] = "none"
    BY DEF BarrierInv, CommitEnd, Turn
  <1>6. CommitsAreWhole'
    <2>1. (\E u \in Ranks : vote[u] = "err") => \E u \in Ranks : vote'[u] = "err"
      BY <1>2, <1>5
    <2>2. ~ok => vote'[r] = "err"
      BY <1>2
    <2>3. ASSUME NEW d \in EnvIds
          PROVE  \/ envs'[d] = Serial(d, before[d])' /\ staged'[d] = Nil
                 \/ envs'[d] = before'[d] /\ staged'[d] # Nil /\ staged'[d] = Serial(d, before[d])'
                 \/ envs'[d] = before'[d] /\ staged'[d] = Nil /\ \E u \in Ranks : vote'[u] = "err"
      <3>1. staged'[d] = IF d \in Mine(r) THEN Nil ELSE staged[d]
        BY <1>1
      <3>2. staged'[d] = staged[d] \/ (staged'[d] = Nil /\ ~ok)
        BY <1>1, <3>1
      <3>3. CASE staged'[d] = staged[d]
        BY <1>1, <1>3, <1>5, <2>1, <3>3 DEF CommitsAreWhole
      <3>4. CASE staged'[d] = Nil /\ ~ok
        BY <1>1, <1>3, <1>5, <2>2, <3>4 DEF CommitsAreWhole
      <3> QED BY <3>2, <3>3, <3>4
    <2>4. ASSUME NEW u \in Ranks, vote'[u] = "ok", NEW d \in Mine(u)' \cap EnvIds
          PROVE  staged'[d] = Nil
      <3>1. CASE u = r
        BY <1>1, <1>4, <2>4, <3>1
      <3>2. CASE u # r
        <4>1. staged[d] = Nil
          BY <1>1, <1>2, <1>4, <1>5, <2>4, <3>2 DEF CommitsAreWhole
        <4> QED BY <1>1, <2>4, <4>1
      <3> QED BY <3>1, <3>2
    <2> QED BY <1>1, <2>3, <2>4 DEF CommitsAreWhole
  <1>7. Weighed'
    BY <1>1 DEF Weighed
  <1>8. SessionsOwned' /\ DOMAIN staged' = EnvIds
    BY <1>1, <1>4 DEF BarrierInv, SessionsOwned
  <1>9. OkMeansAllStored'
    BY <1>1 DEF BarrierInv, OkMeansAllStored
  <1> QED BY <1>1, <1>2, <1>6, <1>7, <1>8, <1>9 DEF BarrierInv

\* All ranks return.
LEMMA ReturnKeeps ==
    ASSUME BarrierInv, NEW how \in {"ok", "err", "killed"}, Return(how),
           UNCHANGED <<layout, envs, before, call>>,
           \A e \in EnvIds : envs[e] \in {before[e], Serial(e, before[e])},
           how = "ok" => \A e \in EnvIds : envs[e] = Serial(e, before[e])
    PROVE  BarrierInv'
  <1>1. \A d \in EnvIds : Serial(d, before[d])' = Serial(d, before[d])
    BY SerialStays
  <1>2. /\ stage' = "returned" /\ vote' = [r \in Ranks |-> "none"] /\ result' = [r \in Ranks |-> how]
        /\ staged' = [e \in EnvIds |-> Nil]
    BY DEF Return
  <1>3. Weighed' /\ CommitsAreWhole'
    BY <1>2 DEF Weighed, CommitsAreWhole
  <1>4. SessionsOwned'
    BY <1>2 DEF SessionsOwned
  <1>5. EnvIsOldOrSerial' /\ OkMeansAllStored'
    BY <1>1, <1>2 DEF EnvIsOldOrSerial, OkMeansAllStored
  <1> QED BY <1>2, <1>3, <1>4, <1>5 DEF BarrierInv

\* Wherever a call is, an environment is as it was or as it shall be.
LEMMA OldOrSerial ==
    ASSUME BarrierInv
    PROVE  EnvIsOldOrSerial
  <1>1. CASE stage = "commit"
    BY <1>1 DEF BarrierInv, CommitsAreWhole, EnvIsOldOrSerial
  <1>2. CASE stage # "commit"
    BY <1>2 DEF BarrierInv, EnvIsOldOrSerial
  <1> QED BY <1>1, <1>2

\* All ranks go on together.
LEMMA AgreeKeeps ==
    ASSUME BarrierInv, StagedIsSerial, Agree
    PROVE  BarrierInv'
  <1>1. /\ \A r \in Ranks : vote[r] = "ok"
        /\ UNCHANGED <<layout, envs, before, call>>
        /\ stage \in Preparing \cup {"commit"}
    BY DEF Agree, BarrierInv
  <1>2. CASE stage = "commit"
    <2>1. \A e \in EnvIds : staged[e] = Nil
      BY <1>1, <1>2 DEF BarrierInv, SessionsOwned, CommitsAreWhole
    <2>2. \A e \in EnvIds : envs[e] = Serial(e, before[e])
      BY <1>1, <1>2, <2>1 DEF BarrierInv, CommitsAreWhole
    <2>3. Return("ok")
      BY <1>2 DEF Agree
    <2>4. EnvIsOldOrSerial
      BY OldOrSerial
    <2> QED BY <1>1, <2>2, <2>3, ReturnKeeps
  <1>3. CASE stage # "commit"
    <2>1. /\ stage' = NextStage /\ vote' = [r \in Ranks |-> "none"] /\ UNCHANGED <<result, staged>>
          /\ range' = IF NextStage # "fit" THEN range
                      ELSE LET b0 == IF stage = "hashes" THEN 0 ELSE range.b1
                           IN  [b0 |-> b0, b1 |-> BatchEnd(b0, Greatest(call.batch, 1), N)]
      BY <1>3 DEF Agree, GoTo
    <2>2. /\ NextStage \in Preparing \cup {"commit"}
          /\ NextStage = "decode" => stage = "fit"
          /\ NextStage = "commit" <=> stage = "meta"
      BY <1>1, <1>3, StagesInOrder
    <2>3. Weighed'
      <3>1. CASE stage' = "decode"
        <4>1. stage = "fit" /\ range' = range
          BY <2>1, <2>2, <3>1
        <4>2. \A u \in Ranks : RankFits(u) /\ (RankFits(u)' <=> RankFits(u))
          BY <1>1, <4>1, FitsStay DEF BarrierInv, Weighed
        <4> QED BY <3>1, <4>2 DEF Weighed
      <3>2. CASE stage' # "decode"
        BY <2>1, <3>2 DEF Weighed
      <3> QED BY <3>1, <3>2
    <2>4. SessionsOwned'
      <3>1. \A u \in Ranks : Mine(u)' = Mine(u)
        BY <1>1, MineStays
      <3> QED BY <2>1, <2>2, <3>1 DEF BarrierInv, SessionsOwned, Preparing
    <2>5. CommitsAreWhole'
      <3>1. SUFFICES ASSUME stage' = "commit"
                     PROVE  CommitsAreWhole'
        BY DEF CommitsAreWhole
      <3>2. stage = "meta" /\ envs = before
        BY <2>1, <2>2, <3>1 DEF BarrierInv
      <3>3. \A e \in EnvIds : (IF staged[e] = Nil THEN before[e] ELSE staged[e]) = Serial(e, before[e])
        BY <1>1, <3>2 DEF StagedIsSerial
      <3>4. \A d \in EnvIds : Serial(d, before[d])' = Serial(d, before[d])
        BY <1>1, SerialStays
      <3>5. \A d \in EnvIds :
                \/ envs'[d] = Serial(d, before[d])' /\ staged'[d] = Nil
                \/ envs'[d] = before'[d] /\ staged'[d] # Nil /\ staged'[d] = Serial(d, before[d])'
        BY <1>1, <2>1, <3>2, <3>3, <3>4
      <3> QED BY <2>1, <3>5 DEF CommitsAreWhole
    <2>6. OkMeansAllStored' /\ \A r \in Ranks : result'[r] # "ok"
      BY <1>1, <1>3, <2>1 DEF BarrierInv, OkMeansAllStored, Preparing
    <2>7. envs' = before' \/ stage' = "commit"
      BY <1>1, <1>3, <2>1 DEF BarrierInv, Preparing
    <2>8. stage' # "returned"
      BY <2>1, <2>2 DEF Preparing
    <2> QED BY <1>1, <2>1, <2>2, <2>3, <2>4, <2>5, <2>6, <2>7, <2>8 DEF BarrierInv
  <1> QED BY <1>2, <1>3

\* A batch is halved, or all ranks return with an error, or the job dies.
LEMMA DisagreeKeeps ==
    ASSUME BarrierInv, Disagree \/ Kill
    PROVE  BarrierInv'
  <1>1. UNCHANGED <<layout, envs, before, call>>
    BY DEF Disagree, Kill
  <1>2. CASE Return("err") \/ Return("killed")
    <2>1. \A e \in EnvIds : envs[e] \in {before[e], Serial(e, before[e])}
      BY OldOrSerial DEF EnvIsOldOrSerial
    <2> QED BY <1>1, <1>2, <2>1, ReturnKeeps
  <1>3. CASE stage = "fit" /\ GoTo("fit") /\ UNCHANGED staged
    <2>1. stage' = "fit" /\ vote' = [r \in Ranks |-> "none"] /\ UNCHANGED <<result, staged>>
      BY <1>3 DEF GoTo
    <2>2. Weighed' /\ CommitsAreWhole'
      BY <2>1 DEF Weighed, CommitsAreWhole
    <2>3. SessionsOwned'
      <3>1. \A u \in Ranks : Mine(u)' = Mine(u)
        BY <1>1, MineStays
      <3> QED BY <2>1, <3>1 DEF BarrierInv, SessionsOwned
    <2>4. OkMeansAllStored'
      BY <1>3, <2>1 DEF BarrierInv, OkMeansAllStored
    <2> QED BY <1>1, <1>3, <2>1, <2>2, <2>3, <2>4 DEF BarrierInv, Preparing
  <1> QED BY <1>2, <1>3 DEF Disagree, Kill

LEMMA CallKeeps ==
    ASSUME BarrierInv, NEW files, NEW batch, Call(files, batch)
    PROVE  BarrierInv'
  <1>1. /\ stage \in {"idle", "returned"} /\ before' = envs /\ UNCHANGED <<envs, vote, staged>>
        /\ \/ result' = [r \in Ranks |-> "err"] /\ stage' = "returned"
           \/ result' = [r \in Ranks |-> "running"] /\ stage' = "scan"
    BY DEF Call, job
  <1>2. \A e \in EnvIds : staged'[e] = Nil
    BY <1>1 DEF BarrierInv, SessionsOwned
  <1>3. SessionsOwned' /\ Weighed' /\ CommitsAreWhole'
    BY <1>1, <1>2 DEF SessionsOwned, Weighed, CommitsAreWhole
  <1>4. EnvIsOldOrSerial' /\ OkMeansAllStored'
    BY <1>1 DEF EnvIsOldOrSerial, OkMeansAllStored
  <1> QED BY <1>1, <1>3, <1>4 DEF BarrierInv, Preparing

LEMMA BarrierInit ==
    ASSUME Init
    PROVE  BarrierInv
  BY DEF Init, BarrierInv, Weighed, SessionsOwned, CommitsAreWhole, EnvIsOldOrSerial,
         OkMeansAllStored, Preparing

LEMMA BarrierStutter ==
    ASSUME BarrierInv, UNCHANGED vars
    PROVE  BarrierInv'
  <1>1. UNCHANGED <<layout, envs, before, call, stage, vote, result, staged, range>>
    BY DEF vars
  <1>2. \A d \in EnvIds : Serial(d, before[d])' = Serial(d, before[d])
    BY <1>1, SerialStays
  <1>3. \A u \in Ranks : Mine(u)' = Mine(u) /\ (RankFits(u)' <=> RankFits(u))
    BY <1>1, MineStays, FitsStay
  <1>4. Weighed' /\ SessionsOwned' /\ CommitsAreWhole'
    BY <1>1, <1>2, <1>3 DEF BarrierInv, Weighed, SessionsOwned, CommitsAreWhole
  <1>5. OkMeansAllStored' /\ (stage' = "returned" => EnvIsOldOrSerial')
    BY <1>1, <1>2 DEF BarrierInv, OkMeansAllStored, EnvIsOldOrSerial
  <1> QED BY <1>1, <1>4, <1>5 DEF BarrierInv

LEMMA BarrierStep ==
    ASSUME BarrierInv, StagedIsSerial, [Next]_vars
    PROVE  BarrierInv'
  <1>1. ASSUME NEW r \in Ranks, Step(r) \/ Fail(r)
        PROVE  BarrierInv'
    BY <1>1, StepsKeep, CommitKeeps, CommitEndKeeps DEF Step, StepsAlone
  <1>2. ASSUME NEW files \in FileLists, NEW batch \in Batches, Call(files, batch)
        PROVE  BarrierInv'
    BY <1>2, CallKeeps
  <1> QED BY <1>1, <1>2, AgreeKeeps, DisagreeKeeps, BarrierStutter DEF Next

-----------------------------------------------------------------------------
(* Naturals and definitions by recursion on them.                          *)

\* A nonempty set of naturals has a least element.
LEMMA LeastNat ==
    ASSUME NEW S, S \subseteq Nat, S # {}
    PROVE  \E m \in S : \A j \in S : m <= j
  <1> DEFINE R == OpToRel(<, Nat)
  <1>1. IsWellFoundedOn(R, Nat)
    BY NatLessThanWellFounded
  <1>2. \A x, y \in Nat : x < y => <<x, y>> \in R
    BY DEF OpToRel
  <1> HIDE DEF R
  <1>3. PICK m \in S : \A j \in S : ~ (<<j, m>> \in R)
    BY <1>1, WFMin
  <1>4. ASSUME NEW j \in S
        PROVE  m <= j
    <2>1. j \in Nat /\ m \in Nat
      OBVIOUS
    <2>2. ~ (j < m)
      BY <1>2, <1>3, <2>1, Zenon
    <2> QED BY <2>1, <2>2
  <1> QED BY <1>4

\* A function on 1..n is a sequence of length n.
LEMMA FunctionIsSeq ==
    ASSUME NEW S, NEW n \in Nat, NEW f \in [1 .. n -> S]
    PROVE  f \in Seq(S) /\ Len(f) = n /\ DOMAIN f = 1 .. n
  OBVIOUS

\* A set of the naturals up to n that holds 0, and i + 1 with i, is all of them.
LEMMA AllUpTo ==
    ASSUME NEW n \in Nat, NEW Good,
           0 \in Good, \A i \in 0 .. n - 1 : i \in Good => i + 1 \in Good
    PROVE  0 .. n \subseteq Good
  <1> DEFINE Bad == {i \in 0 .. n : i \notin Good}
  <1>1. SUFFICES ASSUME Bad # {} PROVE FALSE
    OBVIOUS
  <1>8. Bad \subseteq Nat
    OBVIOUS
  <1>2. PICK m \in Bad : \A j \in Bad : m <= j
    <2> HIDE DEF Bad
    <2> QED BY <1>1, <1>8, LeastNat
  <1>3. m # 0 /\ m \in 0 .. n /\ m \notin Good
    OBVIOUS
  <1>4. m - 1 \in 0 .. n - 1 /\ (m - 1) + 1 = m /\ m - 1 < m
    BY <1>3
  <1>5. m - 1 \notin Bad
    BY <1>2, <1>3, <1>4
  <1>6. m - 1 \in Good
    BY <1>3, <1>4, <1>5
  <1>7. (m - 1) + 1 \in Good
    BY <1>4, <1>6
  <1> QED BY <1>3, <1>4, <1>7

\* f starts with b and takes the steps st.
Chain(n, b, st, f) == f[0] = b /\ \A i \in 1 .. n : f[i] = st[<<i, f[i - 1]>>]

\* There is a function that starts with b and goes on by the steps st.
LEMMA Recursion ==
    ASSUME NEW n \in Nat, NEW T, NEW b \in T, NEW st \in [(1 .. n) \X T -> T]
    PROVE  \E f \in [0 .. n -> T] : Chain(n, b, st, f)
  <1> DEFINE Upto(m) == \E f \in [0 .. m -> T] :
                           f[0] = b /\ \A i \in 1 .. m : f[i] = st[<<i, f[i - 1]>>]
             Good == {m \in 0 .. n : Upto(m)}
  <1>1. Upto(0)
    <2>1. [i \in 0 .. 0 |-> b] \in [0 .. 0 -> T]
      OBVIOUS
    <2>2. [i \in 0 .. 0 |-> b][0] = b
      OBVIOUS
    <2>3. \A i \in 1 .. 0 : FALSE
      OBVIOUS
    <2> QED BY <2>1, <2>2, <2>3
  <1>2. ASSUME NEW m \in 0 .. n - 1, Upto(m)
        PROVE  Upto(m + 1)
    <2>1. PICK f \in [0 .. m -> T] : f[0] = b /\ \A i \in 1 .. m : f[i] = st[<<i, f[i - 1]>>]
      BY <1>2
    <2> DEFINE h == [i \in 0 .. m + 1 |-> IF i = m + 1 THEN st[<<m + 1, f[m]>>] ELSE f[i]]
    <2>2. m \in Nat /\ m + 1 \in 1 .. n /\ f[m] \in T
      OBVIOUS
    <2>3. st[<<m + 1, f[m]>>] \in T
      BY <2>2
    <2>4. h \in [0 .. m + 1 -> T]
      BY <2>2, <2>3
    <2>5. h[0] = b
      BY <2>1, <2>2
    <2>6. ASSUME NEW i \in 1 .. m + 1
          PROVE  h[i] = st[<<i, h[i - 1]>>]
      <3>1. CASE i = m + 1
        <4>1. h[i] = st[<<m + 1, f[m]>>] /\ h[i - 1] = f[m]
          BY <2>2, <3>1
        <4> QED BY <3>1, <4>1
      <3>2. CASE i # m + 1
        <4>1. i \in 1 .. m /\ i - 1 \in 0 .. m /\ i - 1 # m + 1
          BY <2>2, <3>2
        <4>2. h[i] = f[i] /\ h[i - 1] = f[i - 1]
          BY <2>2, <3>2, <4>1
        <4>3. f[i] = st[<<i, f[i - 1]>>]
          BY <2>1, <4>1
        <4> QED BY <4>2, <4>3
      <3> QED BY <3>1, <3>2
    <2> QED BY <2>4, <2>5, <2>6
  <1> HIDE DEF Upto
  <1>3. 0 \in Good /\ \A i \in 0 .. n - 1 : i \in Good => i + 1 \in Good
    BY <1>1, <1>2
  <1>4. n \in Good
    <2> HIDE DEF Good
    <2> QED BY <1>3, AllUpTo
  <1> QED BY <1>4 DEF Upto, Chain

-----------------------------------------------------------------------------
(* Lists of frame numbers.                                                 *)

\* s has the members of S, from the lowest to the highest.
Lists(s, S) ==
    /\ s \in Seq(Nat)
    /\ \A i \in 1 .. Len(s) : s[i] \in S
    /\ \A i, j \in 1 .. Len(s) : i < j => s[i] < s[j]
    /\ \A g \in S : \E i \in 1 .. Len(s) : s[i] = g

\* Ascending(S) lists S, for a finite S.
LEMMA AscendingLists ==
    ASSUME NEW n \in Nat, NEW S \in SUBSET (0 .. n - 1)
    PROVE  Lists(Ascending(S), S)
  <1> DEFINE Sorts(s, U) == /\ \A i, j \in DOMAIN s : i < j => s[i] < s[j]
                            /\ \A g \in U : \E i \in DOMAIN s : s[i] = g
             Ex(U) == \E s \in [1 .. Cardinality(U) -> U] : Sorts(s, U)
             Good == {m \in 0 .. n : \A U \in SUBSET (0 .. m - 1) : Ex(U)}
  <1>1. 0 \in Good
    <2>1. ASSUME NEW U \in SUBSET (0 .. 0 - 1)
          PROVE  Ex(U)
      <3>1. U = {}
        OBVIOUS
      <3>2. Cardinality(U) = 0
        BY <3>1, FS_EmptySet
      <3>3. [i \in 1 .. 0 |-> 0] \in [1 .. Cardinality(U) -> U]
        BY <3>2
      <3>4. Sorts([i \in 1 .. 0 |-> 0], U)
        BY <3>1
      <3> QED BY <3>3, <3>4
    <2> HIDE DEF Ex
    <2> QED BY <2>1
  <1>2. ASSUME NEW m \in 0 .. n - 1, \A U \in SUBSET (0 .. m - 1) : Ex(U),
               NEW U \in SUBSET (0 .. (m + 1) - 1)
        PROVE  Ex(U)
    <2> DEFINE V == U \ {m}
               c == Cardinality(V)
    <2>1. V \in SUBSET (0 .. m - 1)
      OBVIOUS
    <2>2. IsFiniteSet(V) /\ c \in Nat
      <3>1. IsFiniteSet(0 .. m - 1)
        BY FS_Interval
      <3> QED BY <2>1, <3>1, FS_Subset, FS_CardinalityType
    <2>3. PICK s \in [1 .. c -> V] : Sorts(s, V)
      BY <1>2, <2>1
    <2>4. CASE m \notin U
      <3>1. V = U
        BY <2>4
      <3> QED BY <2>3, <3>1
    <2>5. CASE m \in U
      <3>1. U = V \cup {m} /\ m \notin V
        BY <2>5
      <3>2. Cardinality(U) = c + 1
        BY <2>2, <3>1, FS_AddElement
      <3> HIDE DEF c
      <3> DEFINE t == [i \in 1 .. c + 1 |-> IF i = c + 1 THEN m ELSE s[i]]
      <3>3. t \in [1 .. c + 1 -> U]
        BY <2>2, <3>1
      <3>4. \A i \in 1 .. c : i # c + 1 /\ i \in 1 .. c + 1 /\ t[i] = s[i]
        BY <2>2
      <3>5. t[c + 1] = m
        BY <2>2
      <3>6. \A i \in 1 .. c : s[i] < m
        <4>1. \A i \in 1 .. c : s[i] \in V
          BY <2>3
        <4>2. \A v \in V : v < m
          BY <2>1
        <4> HIDE DEF V
        <4> QED BY <4>1, <4>2
      <3>7. ASSUME NEW i \in 1 .. c + 1, NEW j \in 1 .. c + 1, i < j
            PROVE  t[i] < t[j]
        <4>1. i \in 1 .. c
          BY <2>2, <3>7
        <4>2. CASE j = c + 1
          BY <3>4, <3>5, <3>6, <4>1, <4>2
        <4>3. CASE j # c + 1
          <5>1. j \in 1 .. c
            BY <2>2, <4>3
          <5>2. s[i] < s[j]
            BY <2>3, <3>7, <4>1, <5>1
          <5> QED BY <3>4, <4>1, <5>1, <5>2
        <4> QED BY <4>2, <4>3
      <3>8. ASSUME NEW g \in U
            PROVE  \E i \in 1 .. c + 1 : t[i] = g
        <4>1. CASE g = m
          BY <2>2, <3>5, <4>1
        <4>2. CASE g # m
          <5>1. PICK i \in 1 .. c : s[i] = g
            BY <2>3, <3>1, <4>2
          <5> QED BY <3>4, <5>1
        <4> QED BY <4>1, <4>2
      <3>9. Sorts(t, U)
        BY <3>3, <3>7, <3>8
      <3> QED BY <3>2, <3>3, <3>9
    <2> QED BY <2>4, <2>5
  <1>3. \A i \in 0 .. n - 1 : i \in Good => i + 1 \in Good
    <2>1. ASSUME NEW i \in 0 .. n - 1, i \in Good
          PROVE  i + 1 \in Good
      <3>1. i + 1 \in 0 .. n
        OBVIOUS
      <3>2. \A U \in SUBSET (0 .. i - 1) : Ex(U)
        BY <2>1
      <3>3. \A U \in SUBSET (0 .. (i + 1) - 1) : Ex(U)
        BY <1>2, <3>2
      <3> HIDE DEF Ex
      <3> QED BY <3>1, <3>3
    <2> QED BY <2>1
  <1>4. n \in Good
    <2> HIDE DEF Good
    <2> QED BY <1>1, <1>3, AllUpTo
  <1>5. Ex(S)
    BY <1>4
  <1>6. Ascending(S) = CHOOSE s \in [1 .. Cardinality(S) -> S] : Sorts(s, S)
    BY DEF Ascending
  <1>7. Ascending(S) \in [1 .. Cardinality(S) -> S] /\ Sorts(Ascending(S), S)
    <2> HIDE DEF Sorts
    <2> QED BY <1>5, <1>6
  <1>8. Cardinality(S) \in Nat
    <2>1. IsFiniteSet(0 .. n - 1)
      BY FS_Interval
    <2> QED BY <2>1, FS_Subset, FS_CardinalityType
  <1>9. DOMAIN Ascending(S) = 1 .. Cardinality(S) /\ Len(Ascending(S)) = Cardinality(S)
        /\ Ascending(S) \in Seq(Nat)
    <2>1. S \subseteq Nat
      OBVIOUS
    <2>2. Ascending(S) \in [1 .. Cardinality(S) -> Nat]
      BY <1>7, <2>1
    <2> QED BY <1>8, <2>2, FunctionIsSeq
  <1> QED BY <1>7, <1>9 DEF Lists

\* A list is in order and has no member twice.
LEMMA ListedTwice ==
    ASSUME NEW S, NEW s, Lists(s, S), NEW i \in 1 .. Len(s), NEW j \in 1 .. Len(s)
    PROVE  /\ s[i] \in Nat /\ Len(s) \in Nat
           /\ s[i] < s[j] <=> i < j
           /\ s[i] = s[j] <=> i = j
  <1>1. s \in Seq(Nat) /\ Len(s) \in Nat /\ s[i] \in Nat /\ s[j] \in Nat
    BY DEF Lists
  <1>2. (i < j => s[i] < s[j]) /\ (j < i => s[j] < s[i])
    BY DEF Lists
  <1>3. i \in Nat /\ j \in Nat
    BY <1>1
  <1>4. i < j \/ j < i \/ i = j
    BY <1>3
  <1> QED BY <1>1, <1>2, <1>3, <1>4

\* The empty list.
LEMMA ListsEmpty == Lists(<<>>, {})
  BY DEF Lists

\* A list followed by one of later members.
LEMMA ListsConcat ==
    ASSUME NEW S, NEW T, NEW s, NEW t, Lists(s, S), Lists(t, T),
           \A g \in S, h \in T : g < h
    PROVE  /\ Lists(s \o t, S \cup T)
           /\ Len(s \o t) = Len(s) + Len(t)
           /\ \A i \in 1 .. Len(s \o t) :
                  (s \o t)[i] = IF i <= Len(s) THEN s[i] ELSE t[i - Len(s)]
  <1> DEFINE u == s \o t
  <1>1. s \in Seq(Nat) /\ t \in Seq(Nat) /\ Len(s) \in Nat /\ Len(t) \in Nat
    BY DEF Lists
  <1>2. /\ u \in Seq(Nat) /\ Len(u) = Len(s) + Len(t)
        /\ \A i \in 1 .. Len(u) : u[i] = IF i <= Len(s) THEN s[i] ELSE t[i - Len(s)]
    BY <1>1
  <1> HIDE DEF u
  <1>3. ASSUME NEW i \in 1 .. Len(u)
        PROVE  \/ i \in 1 .. Len(s) /\ u[i] = s[i] /\ u[i] \in S
               \/ i - Len(s) \in 1 .. Len(t) /\ u[i] = t[i - Len(s)] /\ u[i] \in T /\ i > Len(s)
    <2>1. CASE i <= Len(s)
      BY <1>1, <1>2, <2>1 DEF Lists
    <2>2. CASE ~ (i <= Len(s))
      <3>1. i - Len(s) \in 1 .. Len(t) /\ i > Len(s)
        BY <1>1, <1>2, <2>2
      <3>2. u[i] = t[i - Len(s)]
        BY <1>2, <2>2
      <3> QED BY <3>1, <3>2 DEF Lists
    <2> QED BY <2>1, <2>2
  <1>4. ASSUME NEW i \in 1 .. Len(u), NEW j \in 1 .. Len(u), i < j
        PROVE  u[i] < u[j]
    <2>1. CASE j <= Len(s)
      <3>1. i \in 1 .. Len(s) /\ j \in 1 .. Len(s)
        BY <1>1, <1>2, <1>4, <2>1
      <3>2. u[i] = s[i] /\ u[j] = s[j]
        BY <1>2, <1>4, <2>1, <3>1
      <3> QED BY <1>4, <3>1, <3>2 DEF Lists
    <2>2. CASE ~ (j <= Len(s)) /\ i <= Len(s)
      <3>1. u[i] \in S
        BY <1>1, <1>2, <1>3, <2>2
      <3>2. u[j] \in T
        BY <1>1, <1>2, <1>3, <2>2
      <3> QED BY <3>1, <3>2
    <2>3. CASE ~ (j <= Len(s)) /\ ~ (i <= Len(s))
      <3>1. i - Len(s) \in 1 .. Len(t) /\ j - Len(s) \in 1 .. Len(t) /\ i - Len(s) < j - Len(s)
        BY <1>1, <1>2, <1>4, <2>3
      <3>2. u[i] = t[i - Len(s)] /\ u[j] = t[j - Len(s)]
        BY <1>2, <2>3
      <3> QED BY <3>1, <3>2 DEF Lists
    <2> QED BY <2>1, <2>2, <2>3
  <1>5. ASSUME NEW g \in S \cup T
        PROVE  \E i \in 1 .. Len(u) : u[i] = g
    <2>1. CASE g \in S
      <3>1. PICK i \in 1 .. Len(s) : s[i] = g
        BY <2>1 DEF Lists
      <3>2. i \in 1 .. Len(u) /\ i <= Len(s)
        BY <1>1, <1>2
      <3> QED BY <1>2, <3>1, <3>2
    <2>2. CASE g \in T
      <3>1. PICK i \in 1 .. Len(t) : t[i] = g
        BY <2>2 DEF Lists
      <3>2. /\ i + Len(s) \in 1 .. Len(u) /\ ~ (i + Len(s) <= Len(s))
            /\ (i + Len(s)) - Len(s) = i
        BY <1>1, <1>2
      <3> QED BY <1>2, <3>1, <3>2
    <2> QED BY <2>1, <2>2
  <1>6. Lists(u, S \cup T)
    <2>1. \A i \in 1 .. Len(u) : u[i] \in S \cup T
      BY <1>3
    <2> QED BY <1>2, <1>4, <1>5, <2>1 DEF Lists
  <1> QED BY <1>2, <1>6 DEF u

\* The first k members of s, and the others.
Low(s, k) == {s[i] : i \in 1 .. k}

\* Its members after the first k.
High(s, k) == {s[i] : i \in k + 1 .. Len(s)}

\* Cut after k: the first k and the others, the ones below the others.
LEMMA ListsCut ==
    ASSUME NEW S, NEW s, Lists(s, S), NEW k \in 0 .. Len(s)
    PROVE  /\ Lists(SubSeq(s, 1, k), Low(s, k))
           /\ Lists(SubSeq(s, k + 1, Len(s)), High(s, k))
           /\ Low(s, k) \cup High(s, k) = S
           /\ \A g \in Low(s, k), h \in High(s, k) : g < h
           /\ Len(SubSeq(s, 1, k)) = k /\ Len(SubSeq(s, k + 1, Len(s))) = Len(s) - k
           /\ \A i \in 1 .. k : SubSeq(s, 1, k)[i] = s[i]
           /\ \A i \in 1 .. Len(s) - k : SubSeq(s, k + 1, Len(s))[i] = s[k + i]
  <1> DEFINE low  == {s[i] : i \in 1 .. k}
             high == {s[i] : i \in k + 1 .. Len(s)}
             a    == SubSeq(s, 1, k)
             b    == SubSeq(s, k + 1, Len(s))
  <1>1. s \in Seq(Nat) /\ Len(s) \in Nat /\ k \in Nat /\ k <= Len(s)
    BY DEF Lists
  <1>2. a \in Seq(Nat) /\ Len(a) = k /\ \A i \in 1 .. k : a[i] = s[i]
    <2>1. a = [i \in 1 .. k |-> s[i]]
      BY <1>1
    <2> QED BY <1>1, <2>1
  <1>3. /\ b \in Seq(Nat) /\ Len(b) = Len(s) - k
        /\ \A i \in 1 .. Len(s) - k : b[i] = s[k + i]
    <2>1. b = [i \in 1 .. Len(s) - k |-> s[k + i]]
      BY <1>1
    <2>2. \A i \in 1 .. Len(s) - k : s[k + i] \in Nat
      BY <1>1
    <2>4. Len(s) - k \in Nat
      BY <1>1
    <2> HIDE DEF b
    <2>3. b \in [1 .. Len(s) - k -> Nat] /\ Len(s) - k \in Nat
      BY <2>1, <2>2, <2>4
    <2> QED BY <2>1, <2>3, FunctionIsSeq
  <1> HIDE DEF a, b
  <1>4. \A i \in 1 .. k : i \in 1 .. Len(s)
    BY <1>1
  <1>5. \A i \in 1 .. Len(s) - k : k + i \in 1 .. Len(s) /\ k + i \in k + 1 .. Len(s)
    BY <1>1
  <1>6. Lists(a, low)
    <2>1. \A i \in 1 .. Len(a) : a[i] \in low
      BY <1>2
    <2>2. \A i, j \in 1 .. Len(a) : i < j => a[i] < a[j]
      BY <1>2, <1>4 DEF Lists
    <2>3. \A g \in low : \E i \in 1 .. Len(a) : a[i] = g
      BY <1>2
    <2> QED BY <1>2, <2>1, <2>2, <2>3 DEF Lists
  <1>7. Lists(b, high)
    <2>1. \A i \in 1 .. Len(b) : b[i] \in high
      BY <1>3, <1>5
    <2>2. ASSUME NEW i \in 1 .. Len(b), NEW j \in 1 .. Len(b), i < j
          PROVE  b[i] < b[j]
      <3>1. k + i < k + j
        BY <1>1, <1>3, <2>2
      <3>2. s[k + i] < s[k + j]
        BY <1>3, <1>5, <3>1 DEF Lists
      <3> QED BY <1>3, <3>2
    <2>3. ASSUME NEW i \in k + 1 .. Len(s)
          PROVE  \E j \in 1 .. Len(b) : b[j] = s[i]
      <3>1. i - k \in 1 .. Len(b) /\ k + (i - k) = i
        BY <1>1, <1>3
      <3> QED BY <1>3, <3>1
    <2>4. \A g \in high : \E i \in 1 .. Len(b) : b[i] = g
      BY <2>3
    <2> HIDE DEF high
    <2> QED BY <1>3, <2>1, <2>2, <2>4 DEF Lists
  <1>8. low \cup high = S
    <2>1. \A i \in 1 .. Len(s) : i \in 1 .. k \/ i \in k + 1 .. Len(s)
      BY <1>1
    <2>2. \A i \in k + 1 .. Len(s) : i \in 1 .. Len(s)
      BY <1>1
    <2>3. low \subseteq S /\ high \subseteq S
      BY <1>4, <2>2 DEF Lists
    <2>4. ASSUME NEW g \in S
          PROVE  g \in low \cup high
      <3>1. PICK i \in 1 .. Len(s) : s[i] = g
        BY DEF Lists
      <3> QED BY <2>1, <3>1
    <2> QED BY <2>3, <2>4
  <1>9. ASSUME NEW i \in 1 .. k, NEW j \in k + 1 .. Len(s)
        PROVE  s[i] < s[j]
    <2>1. i \in 1 .. Len(s) /\ j \in 1 .. Len(s) /\ i < j
      BY <1>1
    <2> QED BY <2>1 DEF Lists
  <1>10. \A g \in low, h \in high : g < h
    BY <1>9
  <1> QED BY <1>2, <1>3, <1>6, <1>7, <1>8, <1>10 DEF a, b, Low, High

\* The places of s where a member of T is, and what is at the places o.
Places(s, T) == {i \in 1 .. Len(s) : s[i] \in T}

\* The members of s at the places of o, in order.
At(s, o) == [j \in DOMAIN o |-> s[o[j]]]

\* The members of a list at some of its places, in order.
LEMMA ListsSome ==
    ASSUME NEW S, NEW T, NEW s, Lists(s, S), NEW o, Lists(o, Places(s, T))
    PROVE  /\ Lists(At(s, o), S \cap T)
           /\ DOMAIN At(s, o) = 1 .. Len(o)
           /\ Len(At(s, o)) = Len(o)
           /\ \A j \in 1 .. Len(o) : o[j] \in 1 .. Len(s)
  <1> DEFINE r == [j \in DOMAIN o |-> s[o[j]]]
             P == {i \in 1 .. Len(s) : s[i] \in T}
  <1>1. s \in Seq(Nat) /\ o \in Seq(Nat) /\ DOMAIN o = 1 .. Len(o) /\ Len(o) \in Nat /\ Len(s) \in Nat
    BY DEF Lists, Places
  <1>2. \A j \in 1 .. Len(o) : o[j] \in P
    BY DEF Lists, Places
  <1>3. \A j \in 1 .. Len(o) : o[j] \in 1 .. Len(s) /\ s[o[j]] \in T /\ s[o[j]] \in Nat /\ s[o[j]] \in S
    BY <1>1, <1>2 DEF Lists, Places
  <1>4. r \in [1 .. Len(o) -> Nat]
    BY <1>1, <1>3
  <1>5. r \in Seq(Nat) /\ Len(r) = Len(o) /\ DOMAIN r = 1 .. Len(o)
    BY <1>1, <1>4, FunctionIsSeq
  <1>6. \A j \in 1 .. Len(o) : r[j] = s[o[j]]
    BY <1>1
  <1> HIDE DEF r
  <1>7. ASSUME NEW i \in 1 .. Len(o), NEW j \in 1 .. Len(o), i < j
        PROVE  r[i] < r[j]
    <2>1. o[i] < o[j]
      BY <1>7 DEF Lists, Places
    <2>2. s[o[i]] < s[o[j]]
      BY <1>3, <2>1 DEF Lists, Places
    <2> QED BY <1>6, <2>2
  <1>8. ASSUME NEW g \in S \cap T
        PROVE  \E j \in 1 .. Len(o) : r[j] = g
    <2>1. PICK i \in 1 .. Len(s) : s[i] = g
      BY DEF Lists, Places
    <2>2. i \in P
      BY <2>1
    <2>3. PICK j \in 1 .. Len(o) : o[j] = i
      <3> HIDE DEF P
      <3>1. Lists(o, P)
        BY DEF P, Places
      <3> QED BY <2>2, <3>1 DEF Lists, Places
    <2> QED BY <1>6, <2>1, <2>3
  <1>9. Lists(r, S \cap T)
    BY <1>3, <1>5, <1>6, <1>7, <1>8 DEF Lists, Places
  <1> QED BY <1>3, <1>5, <1>9 DEF r, At, Places

\* Consecutive members are at consecutive places.
LEMMA ListsRun ==
    ASSUME NEW S, NEW s, Lists(s, S), NEW p \in 1 .. Len(s), NEW len \in Nat,
           \A j \in 0 .. len : s[p] + j \in S
    PROVE  \A j \in 0 .. len : p + j \in 1 .. Len(s) /\ s[p + j] = s[p] + j
  <1> DEFINE Good == {j \in 0 .. len : p + j \in 1 .. Len(s) /\ s[p + j] = s[p] + j}
  <1>1. s \in Seq(Nat) /\ Len(s) \in Nat /\ p \in Nat /\ s[p] \in Nat
    BY DEF Lists
  <1>2. 0 \in Good
    BY <1>1
  <1>3. ASSUME NEW j \in 0 .. len - 1, j \in Good
        PROVE  j + 1 \in Good
    <2>1. p + j \in 1 .. Len(s) /\ s[p + j] = s[p] + j /\ j \in Nat /\ j + 1 \in 0 .. len
      BY <1>3
    <2>2. PICK q \in 1 .. Len(s) : s[q] = s[p] + (j + 1)
      BY <2>1 DEF Lists
    <2>3. s[p + j] < s[q]
      BY <1>1, <2>1, <2>2
    <2>4. p + j < q
      BY <2>1, <2>3, ListedTwice
    <2>5. p + (j + 1) \in 1 .. Len(s)
      BY <1>1, <2>1, <2>4
    <2>6. q = p + (j + 1)
      <3>1. SUFFICES ASSUME p + (j + 1) < q PROVE FALSE
        BY <1>1, <2>1, <2>4
      <3>2. s[p + j] < s[p + (j + 1)] /\ s[p + (j + 1)] < s[q]
        <4>1. p + j < p + (j + 1)
          BY <1>1, <2>1
        <4> QED BY <2>1, <2>5, <3>1, <4>1 DEF Lists
      <3>3. s[p + (j + 1)] \in Nat
        BY <2>5, ListedTwice
      <3>4. PICK v \in Nat, m \in Nat : v = s[p] /\ m = s[p + (j + 1)]
        BY <1>1, <3>3
      <3>5. v + j < m /\ m < v + (j + 1)
        BY <2>1, <2>2, <3>2, <3>4
      <3> QED BY <2>1, <3>4, <3>5
    <2> QED BY <2>1, <2>2, <2>5, <2>6
  <1>4. 0 .. len \subseteq Good
    <2> HIDE DEF Good
    <2> QED BY <1>2, <1>3, AllUpTo
  <1> QED BY <1>4

-----------------------------------------------------------------------------
(* FlattenSeq.                                                             *)

\* The elements of a concatenation.
LEMMA ConcatAt ==
    ASSUME NEW X, NEW s \in Seq(X), NEW t \in Seq(X)
    PROVE  /\ s \o t \in Seq(X) /\ Len(s \o t) = Len(s) + Len(t)
           /\ \A i \in 1 .. Len(s) : (s \o t)[i] = s[i]
           /\ \A i \in 1 .. Len(t) : (s \o t)[Len(s) + i] = t[i]
  OBVIOUS

\* FlattenSeq concatenates from the left.
LEMMA Flattened ==
    ASSUME NEW X, NEW ss \in Seq(Seq(X))
    PROVE  \E fl \in [0 .. Len(ss) -> Seq(X)] :
               /\ fl[0] = <<>>
               /\ \A i \in 1 .. Len(ss) : fl[i] = fl[i - 1] \o ss[i]
               /\ FlattenSeq(ss) = fl[Len(ss)]
  <1>0. PICK len \in Nat : len = Len(ss)
    OBVIOUS
  <1> DEFINE st == [p \in (1 .. len) \X Seq(X) |-> p[2] \o ss[p[1]]]
             Solves(f) == f = [i \in 1 .. len |-> IF i = 1 THEN ss[i] ELSE f[i - 1] \o ss[i]]
             c == CHOOSE f : Solves(f)
  <1>1. len \in Nat /\ \A i \in 1 .. len : ss[i] \in Seq(X)
    BY <1>0
  <1>2. st \in [(1 .. len) \X Seq(X) -> Seq(X)]
    <2>1. ASSUME NEW p \in (1 .. len) \X Seq(X)
          PROVE  p[2] \o ss[p[1]] \in Seq(X)
      <3>1. p[1] \in 1 .. len /\ p[2] \in Seq(X)
        OBVIOUS
      <3>2. ss[p[1]] \in Seq(X)
        BY <1>1, <3>1
      <3> QED BY <3>1, <3>2
    <2> QED BY <2>1
  <1>3. PICK f \in [0 .. len -> Seq(X)] : f[0] = <<>> /\ \A i \in 1 .. len : f[i] = st[<<i, f[i - 1]>>]
    <2>1. <<>> \in Seq(X)
      OBVIOUS
    <2> DEFINE T == Seq(X)
    <2>2. st \in [(1 .. len) \X T -> T] /\ <<>> \in T
      BY <1>2, <2>1
    <2> HIDE DEF st, T
    <2>3. \E f \in [0 .. len -> T] : Chain(len, <<>>, st, f)
      BY <1>0, <2>2, Recursion
    <2> QED BY <2>3 DEF T, Chain
  <1>4. \A i \in 1 .. len : f[i] = f[i - 1] \o ss[i] /\ f[i - 1] \in Seq(X)
    <2>1. ASSUME NEW i \in 1 .. len
          PROVE  f[i] = f[i - 1] \o ss[i] /\ f[i - 1] \in Seq(X)
      <3>1. i - 1 \in 0 .. len
        OBVIOUS
      <3>2. f[i - 1] \in Seq(X)
        BY <3>1
      <3>3. st[<<i, f[i - 1]>>] = f[i - 1] \o ss[i]
        BY <3>2
      <3> QED BY <1>3, <3>2, <3>3
    <2> QED BY <2>1
  <1> HIDE DEF st
  <1>5. Solves([i \in 1 .. len |-> f[i]])
    <2> DEFINE h == [i \in 1 .. len |-> f[i]]
    <2>1. ASSUME NEW i \in 1 .. len
          PROVE  h[i] = IF i = 1 THEN ss[i] ELSE h[i - 1] \o ss[i]
      <3>1. CASE i = 1
        <4>1. f[i - 1] = <<>>
          BY <1>3, <3>1
        <4>2. <<>> \o ss[i] = ss[i]
          BY <1>1
        <4> QED BY <1>4, <3>1, <4>1, <4>2
      <3>2. CASE i # 1
        <4>1. i - 1 \in 1 .. len
          BY <1>1, <3>2
        <4> QED BY <1>4, <3>2, <4>1
      <3> QED BY <3>1, <3>2
    <2> QED BY <2>1
  <1>6. Solves(c)
    <2> HIDE DEF Solves
    <2> QED BY <1>5
  <1>7. \A i \in 1 .. len : c[i] = IF i = 1 THEN ss[i] ELSE c[i - 1] \o ss[i]
    <2> HIDE DEF c
    <2> QED BY <1>6
  <1>8. len # 0 => FlattenSeq(ss) = c[len]
    BY <1>0, Zenon DEF FlattenSeq
  <1>9. len = 0 => FlattenSeq(ss) = <<>>
    <2>1. len = 0 => ss = <<>>
      BY <1>0, EmptySeq
    <2> QED BY <1>0, <2>1 DEF FlattenSeq
  <1> HIDE DEF c
  <1> DEFINE Good == {i \in 0 .. len : i = 0 \/ c[i] = f[i]}
  <1>10. 0 \in Good
    BY <1>1
  <1>11. ASSUME NEW i \in 0 .. len - 1, i \in Good
         PROVE  i + 1 \in Good
    <2>1. i + 1 \in 1 .. len /\ (i + 1) - 1 = i /\ i \in Nat
      BY <1>1
    <2>2. f[i + 1] = f[i] \o ss[i + 1]
      BY <1>4, <2>1
    <2>3. c[i + 1] = IF i + 1 = 1 THEN ss[i + 1] ELSE c[i] \o ss[i + 1]
      BY <1>7, <2>1
    <2>4. CASE i = 0
      <3>1. f[i] = <<>> /\ <<>> \o ss[i + 1] = ss[i + 1]
        BY <1>1, <1>3, <2>1, <2>4
      <3> QED BY <2>1, <2>2, <2>3, <2>4, <3>1
    <2>5. CASE i # 0
      <3>1. i + 1 # 1
        BY <2>1, <2>5
      <3>2. c[i] = f[i]
        BY <1>11, <2>5
      <3>3. c[i + 1] = f[i + 1]
        BY <2>2, <2>3, <3>1, <3>2
      <3>4. i + 1 \in 0 .. len
        BY <2>1
      <3> QED BY <3>3, <3>4
    <2> QED BY <2>4, <2>5
  <1>12. len \in Good
    <2> HIDE DEF Good
    <2>1. 0 .. len \subseteq Good
      BY <1>0, <1>10, <1>11, AllUpTo
    <2> QED BY <1>0, <2>1
  <1>13. FlattenSeq(ss) = f[len]
    BY <1>3, <1>8, <1>9, <1>12
  <1> QED BY <1>0, <1>3, <1>4, <1>13

-----------------------------------------------------------------------------
(* The numbers of the frames of a call.                                    *)

\* What a file of a call is.
FileSet == [traj : Trajs, texts : Seq(Texts)]

\* off[f] is the number of the first frame of file f.
Numbers(files, off) ==
    /\ off \in [1 .. Len(files) + 1 -> Nat]
    /\ off[1] = 0 /\ off[Len(files) + 1] = Len(AllFrames(files))
    /\ \A f \in 1 .. Len(files) : off[f + 1] = off[f] + Len(files[f].texts)
    /\ \A f \in 1 .. Len(files) : \A i \in 0 .. Len(files[f].texts) - 1 :
          AllFrames(files)[off[f] + i + 1] = [key |-> <<files[f].traj, i>>, text |-> files[f].texts[i + 1]]

\* The frames of one file.
LEMMA FramesOfFile ==
    ASSUME NEW file \in FileSet
    PROVE  /\ FramesOf(file) \in Seq([key : Trajs \X Nat, text : Texts])
           /\ Len(FramesOf(file)) = Len(file.texts) /\ Len(file.texts) \in Nat
           /\ \A i \in 0 .. Len(file.texts) - 1 :
                  FramesOf(file)[i + 1] = [key |-> <<file.traj, i>>, text |-> file.texts[i + 1]]
           /\ \A i \in 0 .. Len(file.texts) - 1 : file.texts[i + 1] \in Texts
  <1> DEFINE X == [key : Trajs \X Nat, text : Texts]
  <1>1. PICK len \in Nat : len = Len(file.texts)
    BY DEF FileSet
  <1>2. file.traj \in Trajs /\ file.texts \in Seq(Texts) /\ DOMAIN file.texts = 1 .. len
    BY <1>1 DEF FileSet
  <1>3. \A i \in 1 .. len : file.texts[i] \in Texts
    BY <1>1, <1>2
  <1>4. FramesOf(file) = [i \in 1 .. len |-> [key |-> <<file.traj, i - 1>>, text |-> file.texts[i]]]
    BY <1>2 DEF FramesOf
  <1>5. \A i \in 1 .. len : [key |-> <<file.traj, i - 1>>, text |-> file.texts[i]] \in X
    BY <1>2, <1>3
  <1>6. FramesOf(file) \in [1 .. len -> X]
    <2> HIDE DEF X
    <2> QED BY <1>4, <1>5
  <1>7. FramesOf(file) \in Seq(X) /\ Len(FramesOf(file)) = len
    <2> HIDE DEF X
    <2> QED BY <1>6, FunctionIsSeq
  <1>8. \A i \in 0 .. len - 1 : /\ FramesOf(file)[i + 1] = [key |-> <<file.traj, i>>, text |-> file.texts[i + 1]]
                                /\ file.texts[i + 1] \in Texts
    <2>1. ASSUME NEW i \in 0 .. len - 1
          PROVE  /\ FramesOf(file)[i + 1] = [key |-> <<file.traj, i>>, text |-> file.texts[i + 1]]
                 /\ file.texts[i + 1] \in Texts
      <3>1. i + 1 \in 1 .. len /\ (i + 1) - 1 = i
        OBVIOUS
      <3> QED BY <1>3, <1>4, <3>1
    <2> QED BY <2>1
  <1> QED BY <1>1, <1>7, <1>8

\* The frames of the files follow one another.
LEMMA Numbered ==
    ASSUME NEW files \in Seq(FileSet)
    PROVE  \E off : Numbers(files, off)
  <1> DEFINE X  == [key : Trajs \X Nat, text : Texts]
             ss == [f \in DOMAIN files |-> FramesOf(files[f])]
  <1>1. PICK last \in Nat : last = Len(files)
    OBVIOUS
  <1>2. DOMAIN files = 1 .. last /\ \A f \in 1 .. last : files[f] \in FileSet
    BY <1>1
  <1>3. ss \in Seq(Seq(X)) /\ Len(ss) = last
    <2>1. \A f \in 1 .. last : FramesOf(files[f]) \in Seq(X)
      BY <1>2, FramesOfFile
    <2>2. ss \in [1 .. last -> Seq(X)]
      <3> HIDE DEF X
      <3> QED BY <1>2, <2>1
    <2> DEFINE Y == Seq(X)
    <2>3. ss \in [1 .. last -> Y]
      BY <2>2
    <2> HIDE DEF ss, Y
    <2>4. ss \in Seq(Y) /\ Len(ss) = last
      BY <1>1, <2>3, FunctionIsSeq
    <2> QED BY <2>4 DEF Y
  <1>4. \A f \in 1 .. last : ss[f] = FramesOf(files[f])
    BY <1>2
  <1> HIDE DEF ss, X
  <1>5. PICK fl \in [0 .. last -> Seq(X)] :
            /\ fl[0] = <<>>
            /\ \A i \in 1 .. last : fl[i] = fl[i - 1] \o ss[i]
            /\ FlattenSeq(ss) = fl[last]
    BY <1>3, Flattened
  <1>6. AllFrames(files) = fl[last]
    BY <1>5 DEF AllFrames, ss
  <1>7. \A i \in 0 .. last : fl[i] \in Seq(X) /\ Len(fl[i]) \in Nat
    BY <1>5
  <1>8. \A f \in 1 .. last : /\ ss[f] \in Seq(X) /\ Len(ss[f]) = Len(files[f].texts) /\ Len(ss[f]) \in Nat
                             /\ \A i \in 0 .. Len(files[f].texts) - 1 :
                                  ss[f][i + 1] = [key |-> <<files[f].traj, i>>, text |-> files[f].texts[i + 1]]
    BY <1>2, <1>4, FramesOfFile DEF X
  <1>9. ASSUME NEW m \in 1 .. last
        PROVE  /\ Len(fl[m]) = Len(fl[m - 1]) + Len(ss[m])
               /\ \A i \in 1 .. Len(fl[m - 1]) : fl[m][i] = fl[m - 1][i]
               /\ \A i \in 1 .. Len(ss[m]) : fl[m][Len(fl[m - 1]) + i] = ss[m][i]
    <2>1. m - 1 \in 0 .. last /\ m \in 0 .. last
      OBVIOUS
    <2>2. fl[m - 1] \in Seq(X) /\ ss[m] \in Seq(X) /\ fl[m] = fl[m - 1] \o ss[m]
      BY <1>5, <1>7, <1>8, <2>1
    <2>3. \A a \in Seq(X), b \in Seq(X) :
             /\ Len(a \o b) = Len(a) + Len(b)
             /\ \A i \in 1 .. Len(a) : (a \o b)[i] = a[i]
             /\ \A i \in 1 .. Len(b) : (a \o b)[Len(a) + i] = b[i]
      BY ConcatAt
    <2>4. /\ Len(fl[m - 1] \o ss[m]) = Len(fl[m - 1]) + Len(ss[m])
          /\ \A i \in 1 .. Len(fl[m - 1]) : (fl[m - 1] \o ss[m])[i] = fl[m - 1][i]
          /\ \A i \in 1 .. Len(ss[m]) : (fl[m - 1] \o ss[m])[Len(fl[m - 1]) + i] = ss[m][i]
      BY <2>2, <2>3, Zenon
    <2> QED BY <2>2, <2>4, Zenon
  <1> DEFINE Holds(m) == \A f \in 1 .. last : f <= m =>
                            \A i \in 1 .. Len(ss[f]) : /\ Len(fl[f - 1]) + i <= Len(fl[m])
                                                       /\ fl[m][Len(fl[f - 1]) + i] = ss[f][i]
             Good == {m \in 0 .. last : Holds(m)}
  <1>10. 0 \in Good
    OBVIOUS
  <1>11. ASSUME NEW m \in 0 .. last - 1, Holds(m)
         PROVE  Holds(m + 1)
    <2>1. m + 1 \in 1 .. last /\ (m + 1) - 1 = m /\ m \in 0 .. last
      OBVIOUS
    <2>3. /\ Len(fl[m + 1]) = Len(fl[m]) + Len(ss[m + 1])
          /\ \A i \in 1 .. Len(fl[m]) : fl[m + 1][i] = fl[m][i]
          /\ \A i \in 1 .. Len(ss[m + 1]) : fl[m + 1][Len(fl[m]) + i] = ss[m + 1][i]
      <3>1. \A k \in 1 .. last : k - 1 = m =>
              /\ Len(fl[k]) = Len(fl[m]) + Len(ss[k])
              /\ \A i \in 1 .. Len(fl[m]) : fl[k][i] = fl[m][i]
              /\ \A i \in 1 .. Len(ss[k]) : fl[k][Len(fl[m]) + i] = ss[k][i]
        BY <1>9
      <3> QED BY <2>1, <3>1
    <2>2. ASSUME NEW f \in 1 .. last, f <= m + 1, NEW i \in 1 .. Len(ss[f])
          PROVE  /\ Len(fl[f - 1]) + i <= Len(fl[m + 1])
                 /\ fl[m + 1][Len(fl[f - 1]) + i] = ss[f][i]
      <3>1. f - 1 \in 0 .. last /\ Len(fl[f - 1]) \in Nat /\ Len(fl[m]) \in Nat /\ Len(ss[m + 1]) \in Nat
            /\ Len(ss[f]) \in Nat
        BY <1>7, <1>8, <2>1
      <3>2. CASE f = m + 1
        <4>1. f - 1 = m
          BY <2>1, <3>2
        <4>2. PICK a \in Nat, b \in Nat : a = Len(fl[m]) /\ b = Len(ss[m + 1])
          BY <3>1
        <4>3. Len(fl[m + 1]) = a + b /\ Len(fl[f - 1]) = a /\ i \in 1 .. b
          BY <2>3, <3>2, <4>1, <4>2
        <4>4. fl[m + 1][a + i] = ss[m + 1][i]
          BY <2>3, <4>2, <4>3
        <4>5. a + i <= a + b
          BY <4>3
        <4> QED BY <3>2, <4>3, <4>4, <4>5
      <3>3. CASE f # m + 1
        <4>1. f <= m
          BY <2>1, <2>2, <3>3
        <4>2. /\ Len(fl[f - 1]) + i <= Len(fl[m])
              /\ fl[m][Len(fl[f - 1]) + i] = ss[f][i]
          BY <1>11, <2>2, <4>1
        <4>3. Len(fl[f - 1]) + i \in 1 .. Len(fl[m])
          BY <3>1, <4>2
        <4>4. Len(fl[m]) <= Len(fl[m + 1])
          <5>1. Len(fl[m + 1]) = Len(fl[m]) + Len(ss[m + 1])
            BY <2>3
          <5>2. \A a, b \in Nat : a <= a + b
            OBVIOUS
          <5>3. Len(fl[m]) \in Nat /\ Len(ss[m + 1]) \in Nat
            BY <3>1
          <5> QED BY <5>1, <5>2, <5>3, Zenon
        <4>5. fl[m + 1][Len(fl[f - 1]) + i] = fl[m][Len(fl[f - 1]) + i]
          BY <2>3, <4>3
        <4>6. Len(fl[m + 1]) \in Nat
          BY <1>7, <2>1
        <4>7. Len(fl[f - 1]) + i <= Len(fl[m + 1])
          BY <3>1, <4>2, <4>4, <4>6
        <4> QED BY <4>2, <4>5, <4>7
      <3> QED BY <3>2, <3>3
    <2> QED BY <2>2
  <1>12. Holds(last)
    <2> HIDE DEF Holds
    <2>1. \A i \in 0 .. last - 1 : i \in Good => i + 1 \in Good
      BY <1>11
    <2> HIDE DEF Good
    <2>2. 0 .. last \subseteq Good
      BY <1>10, <2>1, AllUpTo
    <2>3. last \in Good
      BY <2>2
    <2> QED BY <2>3 DEF Good
  <1> DEFINE off == [f \in 1 .. last + 1 |-> Len(fl[f - 1])]
  <1>13. \A f \in 1 .. last + 1 : off[f] = Len(fl[f - 1]) /\ off[f] \in Nat
    <2>1. \A f \in 1 .. last + 1 : f - 1 \in 0 .. last
      OBVIOUS
    <2> QED BY <1>7, <2>1
  <1>14. off \in [1 .. last + 1 -> Nat]
    BY <1>13
  <1> HIDE DEF off
  <1>15. off[1] = 0
    <2>1. 1 \in 1 .. last + 1 /\ 1 - 1 = 0
      OBVIOUS
    <2>2. Len(fl[0]) = 0
      BY <1>5
    <2> QED BY <1>13, <2>1, <2>2
  <1>16. off[last + 1] = Len(AllFrames(files))
    <2>1. last + 1 \in 1 .. last + 1 /\ (last + 1) - 1 = last
      OBVIOUS
    <2> QED BY <1>6, <1>13, <2>1
  <1>17. ASSUME NEW f \in 1 .. last
         PROVE  /\ off[f + 1] = off[f] + Len(files[f].texts)
                /\ \A i \in 0 .. Len(files[f].texts) - 1 :
                     AllFrames(files)[off[f] + i + 1]
                       = [key |-> <<files[f].traj, i>>, text |-> files[f].texts[i + 1]]
    <2>1. f \in 1 .. last + 1 /\ f + 1 \in 1 .. last + 1 /\ (f + 1) - 1 = f /\ f <= last
      OBVIOUS
    <2>2. off[f] = Len(fl[f - 1]) /\ off[f + 1] = Len(fl[f]) /\ off[f] \in Nat
      BY <1>13, <2>1
    <2>3. off[f + 1] = off[f] + Len(files[f].texts)
      BY <1>8, <1>9, <2>2
    <2>4. ASSUME NEW i \in 0 .. Len(files[f].texts) - 1
          PROVE  AllFrames(files)[off[f] + i + 1]
                       = [key |-> <<files[f].traj, i>>, text |-> files[f].texts[i + 1]]
      <3>1. i + 1 \in 1 .. Len(ss[f]) /\ i \in Int
        BY <1>8
      <3>2. fl[last][Len(fl[f - 1]) + (i + 1)] = ss[f][i + 1]
        BY <1>12, <2>1, <3>1
      <3>3. off[f] + i + 1 = Len(fl[f - 1]) + (i + 1)
        <4>1. \A a, b \in Int : a + b + 1 = a + (b + 1)
          OBVIOUS
        <4>2. off[f] \in Int /\ off[f] = Len(fl[f - 1])
          BY <2>2
        <4> QED BY <3>1, <4>1, <4>2, Zenon
      <3> QED BY <1>6, <1>8, <3>2, <3>3
    <2> QED BY <2>3, <2>4
  <1> QED BY <1>1, <1>14, <1>15, <1>16, <1>17 DEF Numbers

\* The numbers at which the files begin.
Off(files) == CHOOSE off : Numbers(files, off)

\* The file of frame g.
FileOf(files, g) ==
    CHOOSE f \in 1 .. Len(files) : Off(files)[f] <= g /\ g < Off(files)[f + 1]

\* Off numbers the frames.
LEMMA OffNumbers ==
    ASSUME NEW files \in Seq(FileSet)
    PROVE  /\ Numbers(files, Off(files))
           /\ Len(AllFrames(files)) \in Nat
           /\ \A f \in 1 .. Len(files) : /\ Off(files)[f] \in Nat /\ Off(files)[f + 1] \in Nat
                                         /\ files[f] \in FileSet /\ Len(files[f].texts) \in Nat
           /\ \A d, f \in 1 .. Len(files) : d < f => Off(files)[d + 1] <= Off(files)[f]
           /\ \A f \in 1 .. Len(files) : Off(files)[f + 1] <= Len(AllFrames(files))
  <1>0. Numbers(files, Off(files))
    BY Numbered DEF Off
  <1>1. PICK last \in Nat : last = Len(files)
    OBVIOUS
  <1>2. PICK off \in [1 .. last + 1 -> Nat] :
           /\ off = Off(files) /\ off[1] = 0 /\ off[last + 1] = Len(AllFrames(files))
           /\ \A f \in 1 .. last : off[f + 1] = off[f] + Len(files[f].texts)
    BY <1>0, <1>1 DEF Numbers
  <1>3. \A f \in 1 .. last : files[f] \in FileSet /\ Len(files[f].texts) \in Nat
    BY <1>1, FramesOfFile
  <1>4. \A f \in 1 .. last : f \in 1 .. last + 1 /\ f + 1 \in 1 .. last + 1
    OBVIOUS
  <1>5. \A f \in 1 .. last : off[f] \in Nat /\ off[f + 1] \in Nat /\ off[f] <= off[f + 1]
    <2>1. ASSUME NEW f \in 1 .. last
          PROVE  off[f] \in Nat /\ off[f + 1] \in Nat /\ off[f] <= off[f + 1]
      <3>1. off[f] \in Nat /\ off[f + 1] \in Nat
        BY <1>2, <1>4
      <3>2. Len(files[f].texts) \in Nat /\ off[f + 1] = off[f] + Len(files[f].texts)
        BY <1>2, <1>3
      <3> QED BY <3>1, <3>2
    <2> QED BY <2>1
  <1> DEFINE Holds(m) == \A d \in 1 .. last : d <= m => off[d] <= off[m + 1] /\ off[d + 1] <= off[m + 1]
             Good == {m \in 0 .. last : Holds(m)}
  <1>6. 0 \in Good
    OBVIOUS
  <1>7. ASSUME NEW m \in 0 .. last - 1, m \in Good
        PROVE  m + 1 \in Good
    <2>1. m + 1 \in 1 .. last /\ m \in Nat /\ m + 1 \in 0 .. last
      OBVIOUS
    <2>2. off[m + 1] <= off[(m + 1) + 1] /\ off[m + 1] \in Nat /\ off[(m + 1) + 1] \in Nat
      BY <1>5, <2>1
    <2>3. ASSUME NEW d \in 1 .. last, d <= m + 1
          PROVE  off[d] <= off[(m + 1) + 1] /\ off[d + 1] <= off[(m + 1) + 1]
      <3>1. CASE d <= m
        <4>1. off[d] <= off[m + 1] /\ off[d + 1] <= off[m + 1] /\ off[d] \in Nat /\ off[d + 1] \in Nat
          BY <1>5, <1>7, <3>1
        <4> QED BY <2>2, <4>1
      <3>2. CASE d = m + 1
        BY <2>2, <3>2
      <3> QED BY <2>1, <2>3, <3>1, <3>2
    <2> QED BY <2>1, <2>3
  <1>8. 0 .. last \subseteq Good
    <2> HIDE DEF Good
    <2> QED BY <1>6, <1>7, AllUpTo
  <1>9. ASSUME NEW d \in 1 .. last, NEW f \in 1 .. last, d < f
        PROVE  off[d + 1] <= off[f]
    <2>1. f - 1 \in 0 .. last /\ (f - 1) + 1 = f /\ d <= f - 1
      BY <1>9
    <2>2. Holds(f - 1)
      BY <1>8, <2>1
    <2> QED BY <2>1, <2>2
  <1>10. ASSUME NEW f \in 1 .. last
         PROVE  off[f + 1] <= Len(AllFrames(files))
    <2>1. Holds(last) /\ f <= last
      BY <1>8
    <2> QED BY <1>2, <2>1
  <1>11. Len(AllFrames(files)) \in Nat
    BY <1>2
  <1> QED BY <1>0, <1>1, <1>2, <1>3, <1>5, <1>9, <1>10, <1>11

\* Frame g is frame i of its file.
LEMMA FrameAt ==
    ASSUME NEW files \in Seq(FileSet), NEW g \in 0 .. Len(AllFrames(files)) - 1
    PROVE  LET f == FileOf(files, g)
               i == g - Off(files)[f]
           IN  /\ f \in 1 .. Len(files) /\ files[f] \in FileSet
               /\ Off(files)[f] \in Nat /\ Len(files[f].texts) \in Nat
               /\ i \in 0 .. Len(files[f].texts) - 1
               /\ g = Off(files)[f] + i
               /\ files[f].texts[i + 1] \in Texts
               /\ AllFrames(files)[g + 1] = [key |-> <<files[f].traj, i>>, text |-> files[f].texts[i + 1]]
  <1>1. PICK last \in Nat : last = Len(files)
    OBVIOUS
  <1>2. PICK off : /\ off = Off(files) /\ Numbers(files, off) /\ off[1] = 0
                   /\ off[last + 1] = Len(AllFrames(files)) /\ Len(AllFrames(files)) \in Nat
                   /\ \A f \in 1 .. last : /\ off[f] \in Nat /\ off[f + 1] \in Nat
                                           /\ files[f] \in FileSet /\ Len(files[f].texts) \in Nat
                                           /\ off[f + 1] = off[f] + Len(files[f].texts)
    <2>1. Numbers(files, Off(files))
      BY OffNumbers
    <2> QED BY <1>1, <2>1, OffNumbers DEF Numbers
  <1> DEFINE Past == {f \in 0 .. last : g < off[f + 1]}
  <1>3. last \in Past /\ Past \subseteq Nat
    BY <1>2
  <1>4. PICK m \in Past : \A f \in Past : m <= f
    <2> HIDE DEF Past
    <2> QED BY <1>3, LeastNat
  <1>5. m # 0
    BY <1>2
  <1>6. m \in 1 .. last /\ m - 1 \in 0 .. last /\ m - 1 < m /\ (m - 1) + 1 = m
    BY <1>5
  <1>7. ~ (g < off[m])
    <2>1. m - 1 \notin Past
      BY <1>4, <1>6
    <2> QED BY <1>6, <2>1
  <1>8. off[m] <= g /\ g < off[m + 1]
    BY <1>2, <1>4, <1>6, <1>7
  <1> DEFINE f == FileOf(files, g)
  <1>9. f \in 1 .. last /\ off[f] <= g /\ g < off[f + 1]
    <2>1. f = CHOOSE d \in 1 .. last : off[d] <= g /\ g < off[d + 1]
      BY <1>1, <1>2 DEF FileOf
    <2> HIDE DEF f
    <2> QED BY <1>6, <1>8, <2>1
  <1> HIDE DEF f
  <1> DEFINE i == g - off[f]
  <1>10. i \in 0 .. Len(files[f].texts) - 1 /\ g = off[f] + i /\ off[f] + i + 1 = g + 1
    <2>1. /\ off[f] \in Nat /\ Len(files[f].texts) \in Nat /\ g \in Int
          /\ off[f + 1] = off[f] + Len(files[f].texts)
      BY <1>2, <1>9
    <2> QED BY <1>9, <2>1
  <1>11. AllFrames(files)[off[f] + i + 1] = [key |-> <<files[f].traj, i>>, text |-> files[f].texts[i + 1]]
    <2> HIDE DEF i
    <2> QED BY <1>1, <1>2, <1>9, <1>10 DEF Numbers
  <1>12. files[f].texts[i + 1] \in Texts /\ files[f] \in FileSet
    <2> HIDE DEF i
    <2>1. files[f] \in FileSet
      BY <1>2, <1>9
    <2> QED BY <1>10, <2>1, FramesOfFile
  <1> QED BY <1>1, <1>2, <1>9, <1>10, <1>11, <1>12 DEF f

\* Frame i of file f.
LEMMA FrameOfFile ==
    ASSUME NEW files \in Seq(FileSet), NEW f \in 1 .. Len(files),
           NEW i \in 0 .. Len(files[f].texts) - 1
    PROVE  /\ Off(files)[f] + i \in 0 .. Len(AllFrames(files)) - 1
           /\ FileOf(files, Off(files)[f] + i) = f
           /\ (Off(files)[f] + i) - Off(files)[f] = i
  <1> DEFINE off == Off(files)
             g == off[f] + i
             d == FileOf(files, g)
  <1>1. /\ off[f] \in Nat /\ off[f + 1] \in Nat /\ Len(files[f].texts) \in Nat
        /\ off[f + 1] <= Len(AllFrames(files)) /\ Len(AllFrames(files)) \in Nat
        /\ off[f + 1] = off[f] + Len(files[f].texts)
    BY OffNumbers DEF Numbers
  <1>2. g \in 0 .. Len(AllFrames(files)) - 1 /\ g < off[f + 1] /\ off[f] <= g /\ g - off[f] = i /\ g \in Nat
    BY <1>1
  <1> HIDE DEF g, off
  <1>3. d \in 1 .. Len(files) /\ off[d] \in Nat /\ Len(files[d].texts) \in Nat
        /\ g - off[d] \in 0 .. Len(files[d].texts) - 1
    BY <1>2, FrameAt DEF off
  <1>4. off[d + 1] = off[d] + Len(files[d].texts)
    BY <1>3, OffNumbers DEF off, Numbers
  <1>5. off[d] <= g /\ g < off[d + 1] /\ off[d + 1] \in Nat
    <2>1. PICK a \in Nat, len \in Nat : a = off[d] /\ len = Len(files[d].texts)
      BY <1>3
    <2>2. g - a \in 0 .. len - 1 /\ off[d + 1] = a + len /\ g \in Nat
      BY <1>2, <1>3, <1>4, <2>1
    <2>3. a <= g /\ g < a + len
      BY <2>2
    <2> QED BY <2>1, <2>2, <2>3
  <1>6. d = f
    <2>1. CASE d < f
      <3>1. off[d + 1] <= off[f]
        BY <1>3, <2>1, OffNumbers DEF off
      <3>2. PICK a \in Nat, b \in Nat : a = off[d + 1] /\ b = off[f]
        BY <1>1, <1>5
      <3>3. a <= b /\ b <= g /\ g < a
        BY <1>2, <1>5, <3>1, <3>2
      <3> QED BY <1>2, <3>3
    <2>2. CASE f < d
      <3>1. off[f + 1] <= off[d]
        BY <1>3, <2>2, OffNumbers DEF off
      <3> QED BY <1>1, <1>2, <1>3, <1>5, <3>1
    <2>3. d \in Nat /\ f \in Nat
      BY <1>3
    <2> QED BY <2>1, <2>2, <2>3
  <1> QED BY <1>2, <1>6 DEF g, off

-----------------------------------------------------------------------------
(* Groups.                                                                 *)

\* Where the aligned group of frame i begins, and where it ends in a trajectory
\* of n frames.
GroupStart(i) == (i \div GroupLen) * GroupLen

\* Where the group of index i ends in a file of n frames.
GroupEnd(n, i) == Least(GroupStart(i) + GroupLen, n)

\* Multiples of c lie at least c apart.
LEMMA Multiples ==
    ASSUME NEW a \in Int, NEW b \in Int, NEW c \in Nat, a < b
    PROVE  a * c + c <= b * c
  <1>1. PICK k \in Nat : b = a + 1 + k
    <2>1. b - a - 1 \in Nat /\ b = a + 1 + (b - a - 1)
      OBVIOUS
    <2> QED BY <2>1
  <1>2. b * c = a * c + c + k * c
    BY <1>1, SMT
  <1>3. k * c \in Nat
    BY SMT
  <1>4. a * c \in Int
    BY SMT
  <1> QED BY <1>2, <1>3, <1>4, SMT

\* A frame lies in its aligned group.
LEMMA GroupBounds ==
    ASSUME NEW i \in Nat
    PROVE  /\ GroupStart(i) \in Nat /\ GroupStart(i) <= i /\ i < GroupStart(i) + GroupLen
           /\ i \div GroupLen \in Nat
           /\ i = GroupStart(i) + (i % GroupLen) /\ i % GroupLen \in Nat
  <1>1. GroupLen \in Nat \ {0}
    BY CodecAssumption
  <1>2. i \div GroupLen \in Nat /\ i % GroupLen \in 0 .. GroupLen - 1 
        /\ i = GroupLen * (i \div GroupLen) + (i % GroupLen)
    BY <1>1, SMT
  <1>3. GroupLen * (i \div GroupLen) = GroupStart(i)
    BY <1>1, <1>2, SMT DEF GroupStart
  <1>4. GroupStart(i) \in Nat
    BY <1>1, <1>2, SMT DEF GroupStart
  <1> QED BY <1>1, <1>2, <1>3, <1>4, SMT

\* Two indices are of one group when the one lies where the other's group is.
LEMMA OneGroup ==
    ASSUME NEW i \in Nat, NEW j \in Nat
    PROVE  j \div GroupLen = i \div GroupLen
               <=> GroupStart(i) <= j /\ j < GroupStart(i) + GroupLen
  <1> DEFINE a == j \div GroupLen
             b == i \div GroupLen
             x == a * GroupLen
             y == b * GroupLen
  <1>1. GroupLen \in Nat \ {0} /\ a \in Nat /\ b \in Nat
    BY CodecAssumption, GroupBounds
  <1>2. x = GroupStart(j) /\ y = GroupStart(i)
    BY DEF GroupStart
  <1>3. x \in Nat /\ x <= j /\ j < x + GroupLen /\ y \in Nat
    BY <1>2, GroupBounds
  <1>4. a < b => x + GroupLen <= y
    <2> HIDE DEF a, b
    <2> QED BY <1>1, Multiples
  <1>5. b < a => y + GroupLen <= x
    <2> HIDE DEF a, b
    <2> QED BY <1>1, Multiples
  <1>6. a = b => x = y
    OBVIOUS
  <1> HIDE DEF x, y
  <1>7. a < b \/ b < a \/ a = b
    <2> HIDE DEF a, b
    <2> QED BY <1>1
  <1> HIDE DEF a, b
  <1>8. a = b <=> y <= j /\ j < y + GroupLen
    BY <1>1, <1>3, <1>4, <1>5, <1>6, <1>7
  <1> QED BY <1>2, <1>8 DEF a, b

\* The bounds of a frame's group in a trajectory of n frames.
LEMMA GroupEnds ==
    ASSUME NEW n \in Nat, NEW i \in 0 .. n - 1
    PROVE  /\ GroupStart(i) \in Nat /\ GroupEnd(n, i) \in Nat
           /\ GroupStart(i) <= i /\ i < GroupEnd(n, i)
           /\ GroupEnd(n, i) <= n
           /\ \A j \in 0 .. n - 1 : j \div GroupLen = i \div GroupLen
                                      <=> GroupStart(i) <= j /\ j < GroupEnd(n, i)
  <1>1. i \in Nat /\ GroupLen \in Nat
    BY CodecAssumption
  <1>2. GroupStart(i) \in Nat /\ GroupStart(i) <= i /\ i < GroupStart(i) + GroupLen
    BY <1>1, GroupBounds
  <1>3. /\ GroupEnd(n, i) \in Nat /\ i < GroupEnd(n, i) /\ GroupEnd(n, i) <= n
        /\ \A j \in 0 .. n - 1 : j < GroupStart(i) + GroupLen <=> j < GroupEnd(n, i)
    BY <1>1, <1>2 DEF GroupEnd, Least
  <1>4. \A j \in 0 .. n - 1 : j \div GroupLen = i \div GroupLen
                                <=> GroupStart(i) <= j /\ j < GroupStart(i) + GroupLen
    BY <1>1, OneGroup
  <1> QED BY <1>2, <1>3, <1>4

-----------------------------------------------------------------------------
(* A group packed alone is packed as in its whole file.                    *)

\* The run that PackAligned stores together is the frame's group.
LEMMA RunIs ==
    ASSUME NEW n \in Nat, NEW i \in 0 .. n - 1, NEW lo \in Nat, NEW hi \in Int,
           lo <= GroupStart(i), GroupEnd(n, i) - 1 <= hi, hi <= n - 1
    PROVE  /\ Run(lo, hi, i) = GroupStart(i) .. GroupEnd(n, i) - 1
           /\ RunHead(lo, hi, i) = GroupStart(i)
           /\ RunLast(lo, hi, i) = GroupEnd(n, i) - 1
  <1> DEFINE s == GroupStart(i)
             e == GroupEnd(n, i)
  <1>1. /\ s \in Nat /\ e \in Nat /\ s <= i /\ i < e /\ e <= n
        /\ \A j \in 0 .. n - 1 : j \div GroupLen = i \div GroupLen <=> s <= j /\ j < e
    BY GroupEnds
  <1> HIDE DEF s, e
  <1>2. lo <= s /\ e - 1 <= hi /\ hi <= n - 1
    BY DEF s, e
  <1>3. Run(lo, hi, i) = s .. e - 1
    <2>1. \A j : j \in lo .. hi /\ j \div GroupLen = i \div GroupLen => j \in s .. e - 1
      BY <1>1, <1>2
    <2>2. \A j : j \in s .. e - 1 => j \in lo .. hi /\ j \div GroupLen = i \div GroupLen
      BY <1>1, <1>2
    <2> QED BY <2>1, <2>2 DEF Run
  <1>4. RunHead(lo, hi, i) = s
    <2>1. RunHead(lo, hi, i) = CHOOSE h \in s .. e - 1 : \A j \in s .. e - 1 : h <= j
      BY <1>3 DEF RunHead
    <2>2. s \in s .. e - 1 /\ \A j \in s .. e - 1 : s <= j
      BY <1>1
    <2>3. \A h \in s .. e - 1 : (\A j \in s .. e - 1 : h <= j) => h = s
      BY <1>1, <2>2
    <2> QED BY <2>1, <2>2, <2>3
  <1>5. RunLast(lo, hi, i) = e - 1
    <2>1. RunLast(lo, hi, i) = CHOOSE h \in s .. e - 1 : \A j \in s .. e - 1 : j <= h
      BY <1>3 DEF RunLast
    <2>2. e - 1 \in s .. e - 1 /\ \A j \in s .. e - 1 : j <= e - 1
      BY <1>1
    <2>3. \A h \in s .. e - 1 : (\A j \in s .. e - 1 : j <= h) => h = e - 1
      BY <1>1, <2>2
    <2> QED BY <2>1, <2>2, <2>3
  <1> QED BY <1>3, <1>4, <1>5 DEF s, e

\* The texts of the group of index i.
GroupTexts(texts, i) ==
    [k \in 1 .. GroupEnd(Len(texts), i) - GroupStart(i) |-> texts[GroupStart(i) + k]]

\* The texts of a group are a sequence.
LEMMA GroupTextsType ==
    ASSUME NEW texts \in Seq(Texts), NEW i \in 0 .. Len(texts) - 1
    PROVE  /\ GroupTexts(texts, i) \in Seq(Texts)
           /\ Len(GroupTexts(texts, i)) = GroupEnd(Len(texts), i) - GroupStart(i)
  <1>1. PICK n \in Nat : n = Len(texts) /\ DOMAIN texts = 1 .. n /\ \A k \in 1 .. n : texts[k] \in Texts
    OBVIOUS
  <1>2. PICK s \in Nat : s = GroupStart(i)
    BY <1>1, GroupEnds
  <1>3. PICK e \in Nat : e = GroupEnd(n, i) /\ s <= i /\ i < e /\ e <= n
    BY <1>1, <1>2, GroupEnds
  <1>4. GroupTexts(texts, i) = [k \in 1 .. e - s |-> texts[s + k]]
    BY <1>1, <1>2, <1>3 DEF GroupTexts
  <1>5. \A k \in 1 .. e - s : s + k \in 1 .. n
    BY <1>3
  <1>6. e - s \in Nat /\ [k \in 1 .. e - s |-> texts[s + k]] \in [1 .. e - s -> Texts]
    BY <1>1, <1>3, <1>5
  <1> DEFINE part == [k \in 1 .. e - s |-> texts[s + k]]
  <1>7. part \in Seq(Texts) /\ Len(part) = e - s
    <2> HIDE DEF part
    <2>1. part \in [1 .. e - s -> Texts] /\ e - s \in Nat
      BY <1>6 DEF part
    <2> QED BY <2>1, FunctionIsSeq
  <1> HIDE DEF part
  <1>8. GroupTexts(texts, i) = part
    BY <1>4 DEF part
  <1> QED BY <1>1, <1>2, <1>3, <1>7, <1>8

\* What frame i of a file is stored as.
StoredAs(texts, i) ==
    LET run == GroupTexts(texts, i)
    IN  IF Len(run) > 1 /\ GroupIsShorter(run)
        THEN IF i = GroupStart(i) THEN Group(run) ELSE Redirect(GroupStart(i), i - GroupStart(i))
        ELSE Single(texts[i + 1])

\* What packing a whole trajectory stores of a frame.
LEMMA PackedWhole ==
    ASSUME NEW texts \in Seq(Texts), NEW i \in 0 .. Len(texts) - 1
    PROVE  PackAligned(0, texts)[i] = StoredAs(texts, i)
  <1>1. PICK n \in Nat : n = Len(texts)
    OBVIOUS
  <1>2. PICK s \in Nat : s = GroupStart(i)
    BY <1>1, GroupEnds
  <1>3. PICK e \in Nat : e = GroupEnd(n, i) /\ s <= i /\ i < e /\ e <= n
    BY <1>1, <1>2, GroupEnds
  <1>4. RunHead(0, n - 1, i) = s /\ RunLast(0, n - 1, i) = e - 1
    <2>1. 0 <= GroupStart(i) /\ GroupEnd(n, i) - 1 <= n - 1 /\ n - 1 <= n - 1 /\ i \in 0 .. n - 1
      BY <1>1, <1>2, <1>3
    <2>2. RunHead(0, n - 1, i) = GroupStart(i) /\ RunLast(0, n - 1, i) = GroupEnd(n, i) - 1
      BY <2>1, RunIs
    <2> QED BY <1>2, <1>3, <2>2
  <1>5. RunTexts(0, n - 1, i, texts) = GroupTexts(texts, i)
    <2>1. RunTexts(0, n - 1, i, texts) = [k \in 1 .. (e - 1) - s + 1 |-> texts[s - 0 + k]]
      BY <1>4 DEF RunTexts
    <2>2. (e - 1) - s + 1 = e - s /\ s - 0 = s
      OBVIOUS
    <2>3. GroupTexts(texts, i) = [k \in 1 .. e - s |-> texts[s + k]]
      BY <1>1, <1>2, <1>3 DEF GroupTexts
    <2> QED BY <2>1, <2>2, <2>3
  <1>6. 0 + n - 1 = n - 1 /\ i - 0 + 1 = i + 1 /\ i \in 0 .. n - 1
    BY <1>1
  <1>7. PackAligned(0, texts)[i] =
            LET run == RunTexts(0, n - 1, i, texts)
            IN  IF Len(run) > 1 /\ GroupIsShorter(run)
                THEN IF i = RunHead(0, n - 1, i) THEN Group(run)
                     ELSE Redirect(RunHead(0, n - 1, i), i - RunHead(0, n - 1, i))
                ELSE Single(texts[i + 1])
    BY <1>1, <1>6 DEF PackAligned
  <1> QED BY <1>2, <1>4, <1>5, <1>7 DEF StoredAs

\* Packing one group stores the same of its frames.
LEMMA PackedAlone ==
    ASSUME NEW texts \in Seq(Texts), NEW i \in 0 .. Len(texts) - 1
    PROVE  PackAligned(GroupStart(i), GroupTexts(texts, i))[i] = StoredAs(texts, i)
  <1> DEFINE part == GroupTexts(texts, i)
  <1>1. PICK n \in Nat : n = Len(texts)
    OBVIOUS
  <1>2. PICK s \in Nat : s = GroupStart(i)
    BY <1>1, GroupEnds
  <1>3. PICK e \in Nat : e = GroupEnd(n, i) /\ s <= i /\ i < e /\ e <= n
    BY <1>1, <1>2, GroupEnds
  <1>4. Len(part) = e - s /\ part = [k \in 1 .. e - s |-> texts[s + k]]
    BY <1>1, <1>2, <1>3, GroupTextsType DEF GroupTexts
  <1> HIDE DEF part
  <1>5. RunHead(s, e - 1, i) = s /\ RunLast(s, e - 1, i) = e - 1
    <2>1. s <= GroupStart(i) /\ GroupEnd(n, i) - 1 <= e - 1 /\ e - 1 <= n - 1 /\ i \in 0 .. n - 1 /\ e - 1 \in Int
      BY <1>1, <1>2, <1>3
    <2>2. RunHead(s, e - 1, i) = GroupStart(i) /\ RunLast(s, e - 1, i) = GroupEnd(n, i) - 1
      BY <2>1, RunIs
    <2> QED BY <1>2, <1>3, <2>2
  <1>6. RunTexts(s, e - 1, i, part) = part
    <2>1. RunTexts(s, e - 1, i, part) = [k \in 1 .. (e - 1) - s + 1 |-> part[s - s + k]]
      BY <1>5 DEF RunTexts
    <2>2. (e - 1) - s + 1 = e - s /\ \A k \in 1 .. e - s : s - s + k = k
      OBVIOUS
    <2> QED BY <1>4, <2>1, <2>2
  <1>7. s + (e - s) - 1 = e - 1 /\ i \in s .. e - 1
    BY <1>3
  <1>8. PackAligned(s, part)[i] =
            LET run == RunTexts(s, e - 1, i, part)
            IN  IF Len(run) > 1 /\ GroupIsShorter(run)
                THEN IF i = RunHead(s, e - 1, i) THEN Group(run)
                     ELSE Redirect(RunHead(s, e - 1, i), i - RunHead(s, e - 1, i))
                ELSE Single(part[i - s + 1])
    BY <1>4, <1>7 DEF PackAligned
  <1>9. part[i - s + 1] = texts[i + 1]
    <2>1. i - s + 1 \in 1 .. e - s /\ s + (i - s + 1) = i + 1
      BY <1>3
    <2> QED BY <1>4, <2>1
  <1> QED BY <1>2, <1>5, <1>6, <1>8, <1>9 DEF StoredAs, part

\* What is stored of a frame is a value.
LEMMA StoredType ==
    ASSUME NEW texts \in Seq(Texts), NEW i \in 0 .. Len(texts) - 1, Len(texts) <= MaxFrames
    PROVE  StoredAs(texts, i) \in Values
  <1> DEFINE run == GroupTexts(texts, i)
  <1>1. run \in Seq(Texts)
    BY GroupTextsType
  <1>2. /\ GroupStart(i) \in FrameIdx
        /\ i # GroupStart(i) => i - GroupStart(i) \in Nat \ {0}
    <2>1. Len(texts) \in Nat /\ MaxFrames \in Nat
      BY CodecAssumption
    <2>2. GroupStart(i) \in Nat /\ GroupStart(i) <= i
      BY <2>1, GroupEnds
    <2> QED BY <2>1, <2>2 DEF FrameIdx
  <1> HIDE DEF run
  <1>3. Group(run) \in Values
    BY <1>1 DEF Group, Values
  <1>4. i # GroupStart(i) => Redirect(GroupStart(i), i - GroupStart(i)) \in Values
    BY <1>2 DEF Redirect, Values
  <1>5. Single(texts[i + 1]) \in Values
    <2>1. texts[i + 1] \in Texts
      OBVIOUS
    <2>2. <<texts[i + 1]>> \in Seq(Texts)
      BY <2>1
    <2> QED BY <2>2 DEF Single, Values
  <1> QED BY <1>3, <1>4, <1>5 DEF StoredAs, run

-----------------------------------------------------------------------------
(* What a set of frames leaves in the tables.                              *)

\* The files of a call that goes on: no trajectory is named twice.
GoodFiles(files) ==
    /\ files \in Seq(FileSet)
    /\ \A f \in 1 .. Len(files) : Len(files[f].texts) <= MaxFrames
    /\ \A f, d \in 1 .. Len(files) : f # d => files[f].traj # files[d].traj

\* The numbers of the frames, and what a frame is stored under and as.
Numbers0(files) == 0 .. Len(AllFrames(files)) - 1

KeyOf(files, g) == AllFrames(files)[g + 1].key

TextOf(files, g) == AllFrames(files)[g + 1].text

ValueOf(files, g) ==
    StoredAs(files[FileOf(files, g)].texts, g - Off(files)[FileOf(files, g)])

\* The key, the text and the value of a frame.
LEMMA FrameFacts ==
    ASSUME NEW files, GoodFiles(files), NEW g \in Numbers0(files)
    PROVE  /\ g \in Nat
           /\ KeyOf(files, g) \in Keys /\ TextOf(files, g) \in Texts /\ ValueOf(files, g) \in Values
           /\ AllFrames(files)[g + 1] = [key |-> KeyOf(files, g), text |-> TextOf(files, g)]
           /\ KeyOf(files, g) = <<files[FileOf(files, g)].traj, g - Off(files)[FileOf(files, g)]>>
           /\ TextOf(files, g)
                = files[FileOf(files, g)].texts[(g - Off(files)[FileOf(files, g)]) + 1]
  <1> DEFINE f == FileOf(files, g)
             i == g - Off(files)[f]
  <1>1. files \in Seq(FileSet) /\ Len(AllFrames(files)) \in Nat
    BY OffNumbers DEF GoodFiles
  <1>2. /\ f \in 1 .. Len(files) /\ files[f] \in FileSet /\ Len(files[f].texts) \in Nat
        /\ i \in 0 .. Len(files[f].texts) - 1
        /\ files[f].texts[i + 1] \in Texts
        /\ AllFrames(files)[g + 1] = [key |-> <<files[f].traj, i>>, text |-> files[f].texts[i + 1]]
    BY <1>1, FrameAt DEF Numbers0
  <1> HIDE DEF i, f
  <1>3. Len(files[f].texts) <= MaxFrames /\ MaxFrames \in Nat
    BY <1>2, CodecAssumption DEF GoodFiles
  <1>4. files[f].traj \in Trajs /\ files[f].texts \in Seq(Texts)
    BY <1>2 DEF FileSet
  <1>5. i \in FrameIdx
    BY <1>2, <1>3 DEF FrameIdx
  <1>6. KeyOf(files, g) = <<files[f].traj, i>> /\ TextOf(files, g) = files[f].texts[i + 1]
    BY <1>2 DEF KeyOf, TextOf
  <1>7. StoredAs(files[f].texts, i) \in Values
    BY <1>2, <1>3, <1>4, StoredType
  <1>8. g \in Nat
    BY <1>1 DEF Numbers0
  <1> QED BY <1>2, <1>4, <1>5, <1>6, <1>7, <1>8 DEF Keys, ValueOf, i, f

\* Two frames have two keys.
LEMMA KeysApart ==
    ASSUME NEW files, GoodFiles(files), NEW g \in Numbers0(files), NEW h \in Numbers0(files),
           KeyOf(files, g) = KeyOf(files, h)
    PROVE  g = h
  <1>1. files \in Seq(FileSet)
    BY DEF GoodFiles
  <1>2. /\ files[FileOf(files, g)].traj = files[FileOf(files, h)].traj
        /\ g - Off(files)[FileOf(files, g)] = h - Off(files)[FileOf(files, h)]
    <2> DEFINE tg == files[FileOf(files, g)].traj
               th == files[FileOf(files, h)].traj
               ig == g - Off(files)[FileOf(files, g)]
               ih == h - Off(files)[FileOf(files, h)]
    <2>1. KeyOf(files, g) = <<tg, ig>> /\ KeyOf(files, h) = <<th, ih>>
      BY FrameFacts
    <2>2. <<tg, ig>> = <<th, ih>>
      BY <2>1
    <2> HIDE DEF tg, th, ig, ih
    <2>3. tg = th /\ ig = ih
      BY <2>2
    <2> QED BY <2>3 DEF tg, th, ig, ih
  <1>3. FileOf(files, g) \in 1 .. Len(files) /\ FileOf(files, h) \in 1 .. Len(files)
    BY <1>1, FrameAt DEF Numbers0
  <1>4. FileOf(files, g) = FileOf(files, h)
    BY <1>2, <1>3 DEF GoodFiles
  <1>5. g \in Nat /\ h \in Nat /\ Off(files)[FileOf(files, g)] \in Nat
    BY <1>1, FrameAt, FrameFacts DEF Numbers0
  <1> QED BY <1>2, <1>4, <1>5

\* The frame of D with key k, and the first of D with digest h.
FrameWith(files, D, k) == CHOOSE g \in D : KeyOf(files, g) = k

FirstWith(files, D, h) ==
    CHOOSE g \in D : TextOf(files, g) = h /\ \A j \in D : TextOf(files, j) = h => g <= j

\* Tables env with the frames D, and the metadata meta.
StoredIn(env, files, D, meta) ==
    [frames |-> [k \in Keys |-> IF \E g \in D : KeyOf(files, g) = k
                                THEN ValueOf(files, FrameWith(files, D, k)) ELSE env.frames[k]],
     hash_by_frame |-> [k \in Keys |-> IF \E g \in D : KeyOf(files, g) = k
                                       THEN TextOf(files, FrameWith(files, D, k))
                                       ELSE env.hash_by_frame[k]],
     frame_by_hash |-> [h \in Texts |-> IF /\ env.frame_by_hash[h] = Nil
                                           /\ \E g \in D : TextOf(files, g) = h
                                        THEN KeyOf(files, FirstWith(files, D, h))
                                        ELSE env.frame_by_hash[h]],
     traj_meta |-> meta]

\* What the counts of trajectories are.
Metas == [Trajs -> Nat \cup {Nil}]

\* The frame that has a key, and the first that has a digest.
LEMMA WithFacts ==
    ASSUME NEW files, GoodFiles(files), NEW D, D \subseteq Numbers0(files)
    PROVE  /\ \A g \in D : FrameWith(files, D, KeyOf(files, g)) = g
           /\ \A h : (\E g \in D : TextOf(files, g) = h) =>
                 /\ FirstWith(files, D, h) \in D
                 /\ TextOf(files, FirstWith(files, D, h)) = h
                 /\ \A g \in D : TextOf(files, g) = h => FirstWith(files, D, h) <= g
  <1>1. ASSUME NEW g \in D
        PROVE  FrameWith(files, D, KeyOf(files, g)) = g
    <2> DEFINE c == FrameWith(files, D, KeyOf(files, g))
    <2>1. c \in D /\ KeyOf(files, c) = KeyOf(files, g)
      BY DEF FrameWith
    <2> HIDE DEF c
    <2>2. c = g
      BY <2>1, KeysApart
    <2> QED BY <2>2 DEF c
  <1>2. ASSUME NEW h, \E g \in D : TextOf(files, g) = h
        PROVE  /\ FirstWith(files, D, h) \in D
               /\ TextOf(files, FirstWith(files, D, h)) = h
               /\ \A g \in D : TextOf(files, g) = h => FirstWith(files, D, h) <= g
    <2> DEFINE E == {g \in D : TextOf(files, g) = h}
    <2>1. E \subseteq Nat /\ E # {}
      BY <1>2, FrameFacts
    <2>2. PICK m \in E : \A j \in E : m <= j
      <3> HIDE DEF E
      <3> QED BY <2>1, LeastNat
    <2>3. m \in D /\ TextOf(files, m) = h /\ \A j \in D : TextOf(files, j) = h => m <= j
      BY <2>2
    <2> QED BY <2>3 DEF FirstWith
  <1> QED BY <1>1, <1>2

\* Tables that store frames are tables.
LEMMA StoredInType ==
    ASSUME NEW files, GoodFiles(files), NEW D, D \subseteq Numbers0(files),
           NEW env \in Tables, NEW meta \in Metas
    PROVE  StoredIn(env, files, D, meta) \in Tables
  <1>1. \A k \in Keys : env.frames[k] \in Values \cup {Nil} /\ env.hash_by_frame[k] \in Texts \cup {Nil}
    BY DEF Tables
  <1>2. \A h \in Texts : env.frame_by_hash[h] \in Keys \cup {Nil}
    BY DEF Tables
  <1>3. \A k : (\E g \in D : KeyOf(files, g) = k) => FrameWith(files, D, k) \in D
    BY DEF FrameWith
  <1>4. \A g \in D : /\ KeyOf(files, g) \in Keys /\ TextOf(files, g) \in Texts
                     /\ ValueOf(files, g) \in Values
    BY FrameFacts
  <1>5. \A h : (\E g \in D : TextOf(files, g) = h) => FirstWith(files, D, h) \in D
    BY WithFacts
  <1> DEFINE x == StoredIn(env, files, D, meta)
  <1>6. x.frames \in [Keys -> Values \cup {Nil}]
    BY <1>1, <1>3, <1>4 DEF StoredIn
  <1>7. x.hash_by_frame \in [Keys -> Texts \cup {Nil}]
    BY <1>1, <1>3, <1>4 DEF StoredIn
  <1>8. x.frame_by_hash \in [Texts -> Keys \cup {Nil}]
    BY <1>2, <1>4, <1>5 DEF StoredIn
  <1>9. x = [frames |-> x.frames, hash_by_frame |-> x.hash_by_frame,
             frame_by_hash |-> x.frame_by_hash, traj_meta |-> meta]
    BY DEF StoredIn
  <1> HIDE DEF x
  <1>10. x \in Tables
    BY <1>6, <1>7, <1>8, <1>9 DEF Tables, Metas
  <1> QED BY <1>10 DEF x

\* Nothing is stored.
LEMMA StoredNone ==
    ASSUME NEW files, NEW env \in Tables
    PROVE  StoredIn(env, files, {}, env.traj_meta) = env
  <1>1. env = [frames |-> [k \in Keys |-> env.frames[k]],
               hash_by_frame |-> [k \in Keys |-> env.hash_by_frame[k]],
               frame_by_hash |-> [h \in Texts |-> env.frame_by_hash[h]],
               traj_meta |-> env.traj_meta]
    BY DEF Tables
  <1>2. StoredIn(env, files, {}, env.traj_meta)
            = [frames |-> [k \in Keys |-> env.frames[k]],
               hash_by_frame |-> [k \in Keys |-> env.hash_by_frame[k]],
               frame_by_hash |-> [h \in Texts |-> env.frame_by_hash[h]],
               traj_meta |-> env.traj_meta]
    BY DEF StoredIn
  <1> QED BY <1>1, <1>2

\* Rows that hold the frames S, in order.
RowsHold(rows, files, S) ==
    \E s : /\ Lists(s, S) /\ DOMAIN rows = 1 .. Len(s)
           /\ \A i \in 1 .. Len(s) : /\ rows[i].key = KeyOf(files, s[i])
                                     /\ rows[i].hash = TextOf(files, s[i])
                                     /\ rows[i].value = ValueOf(files, s[i])

\* put_encoded of the frames S after the frames D.
LEMMA PutStored ==
    ASSUME NEW files, GoodFiles(files), NEW D, NEW S,
           D \subseteq Numbers0(files), S \subseteq Numbers0(files), \A g \in D, h \in S : g < h,
           NEW env \in Tables, NEW meta \in Metas,
           NEW rows, RowsHold(rows, files, S)
    PROVE  Put(StoredIn(env, files, D, meta), rows) = StoredIn(env, files, D \cup S, meta)
  <1>1. PICK s : /\ Lists(s, S) /\ DOMAIN rows = 1 .. Len(s)
                 /\ \A i \in 1 .. Len(s) : /\ rows[i].key = KeyOf(files, s[i])
                                           /\ rows[i].hash = TextOf(files, s[i])
                                           /\ rows[i].value = ValueOf(files, s[i])
    BY DEF RowsHold
  <1> DEFINE x == StoredIn(env, files, D, meta)
             y == StoredIn(env, files, D \cup S, meta)
             at(k) == {i \in DOMAIN rows : rows[i].key = k}
             of(h) == {i \in DOMAIN rows : rows[i].hash = h}
             first(A) == CHOOSE i \in A : \A j \in A : i <= j
             F == [k \in Keys |-> IF at(k) = {} THEN x.frames[k] ELSE rows[first(at(k))].value]
             H == [k \in Keys |-> IF at(k) = {} THEN x.hash_by_frame[k] ELSE rows[first(at(k))].hash]
             P == [h \in Texts |-> IF x.frame_by_hash[h] # Nil \/ of(h) = {} THEN x.frame_by_hash[h]
                                   ELSE rows[first(of(h))].key]
  <1>2. Put(x, rows) = [x EXCEPT !.frames = F, !.hash_by_frame = H, !.frame_by_hash = P]
    BY DEF Put
  <1>3. [x EXCEPT !.frames = F, !.hash_by_frame = H, !.frame_by_hash = P]
            = [frames |-> F, hash_by_frame |-> H, frame_by_hash |-> P, traj_meta |-> meta]
    <2>1. PICK a, b, c : x = [frames |-> a, hash_by_frame |-> b, frame_by_hash |-> c, traj_meta |-> meta]
      BY DEF StoredIn
    <2> HIDE DEF F, H, P, x
    <2> DEFINE z  == [x EXCEPT !.frames = F]
               x1 == [frames |-> F, hash_by_frame |-> b, frame_by_hash |-> c, traj_meta |-> meta]
               x2 == [frames |-> F, hash_by_frame |-> H, frame_by_hash |-> c, traj_meta |-> meta]
               x3 == [frames |-> F, hash_by_frame |-> H, frame_by_hash |-> P, traj_meta |-> meta]
    <2>2. z = x1
      BY <2>1
    <2>3. [x1 EXCEPT !.hash_by_frame = H] = x2
      OBVIOUS
    <2>4. [x2 EXCEPT !.frame_by_hash = P] = x3
      OBVIOUS
    <2>5. [x EXCEPT !.frames = F, !.hash_by_frame = H, !.frame_by_hash = P]
            = [[z EXCEPT !.hash_by_frame = H] EXCEPT !.frame_by_hash = P]
      BY Zenon
    <2> HIDE DEF z, x1, x2, x3
    <2>6. [[z EXCEPT !.hash_by_frame = H] EXCEPT !.frame_by_hash = P] = x3
      BY <2>2, <2>3, <2>4
    <2>7. [x EXCEPT !.frames = F, !.hash_by_frame = H, !.frame_by_hash = P] = x3
      BY <2>5, <2>6, Zenon
    <2> QED BY <2>7 DEF x3
  <1>4. Len(s) \in Nat /\ \A i \in 1 .. Len(s) : s[i] \in S /\ s[i] \in Nat
    BY <1>1 DEF Lists
  <1>5. \A g \in S : \E i \in 1 .. Len(s) : s[i] = g
    BY <1>1 DEF Lists
  <1>6. ASSUME NEW A, A \subseteq 1 .. Len(s), A # {}
        PROVE  first(A) \in A /\ \A j \in A : first(A) <= j
    <2>1. PICK m \in A : \A j \in A : m <= j
      <3>1. A \subseteq Nat
        BY <1>4, <1>6
      <3> QED BY <1>6, <3>1, LeastNat
    <2> QED BY <2>1
  <1>7. D \cup S \subseteq Numbers0(files)
    OBVIOUS
  <1>8. \A g \in D \cup S : FrameWith(files, D \cup S, KeyOf(files, g)) = g
    BY <1>7, WithFacts
  <1>9. \A g \in D : FrameWith(files, D, KeyOf(files, g)) = g
    BY WithFacts
  <1>10. /\ y.frames = [k \in Keys |-> IF \E g \in D \cup S : KeyOf(files, g) = k
                                       THEN ValueOf(files, FrameWith(files, D \cup S, k))
                                       ELSE env.frames[k]]
         /\ y.hash_by_frame = [k \in Keys |-> IF \E g \in D \cup S : KeyOf(files, g) = k
                                              THEN TextOf(files, FrameWith(files, D \cup S, k))
                                              ELSE env.hash_by_frame[k]]
    BY DEF StoredIn
  <1>11. /\ x.frames = [k \in Keys |-> IF \E g \in D : KeyOf(files, g) = k
                                       THEN ValueOf(files, FrameWith(files, D, k)) ELSE env.frames[k]]
         /\ x.hash_by_frame = [k \in Keys |-> IF \E g \in D : KeyOf(files, g) = k
                                              THEN TextOf(files, FrameWith(files, D, k))
                                              ELSE env.hash_by_frame[k]]
    BY DEF StoredIn
  <1>12. /\ x.frame_by_hash = [h \in Texts |-> IF /\ env.frame_by_hash[h] = Nil
                                                  /\ \E g \in D : TextOf(files, g) = h
                                               THEN KeyOf(files, FirstWith(files, D, h))
                                               ELSE env.frame_by_hash[h]]
         /\ y.frame_by_hash = [h \in Texts |-> IF /\ env.frame_by_hash[h] = Nil
                                                  /\ \E g \in D \cup S : TextOf(files, g) = h
                                               THEN KeyOf(files, FirstWith(files, D \cup S, h))
                                               ELSE env.frame_by_hash[h]]
    BY DEF StoredIn
  <1>13. y = [frames |-> y.frames, hash_by_frame |-> y.hash_by_frame,
              frame_by_hash |-> y.frame_by_hash, traj_meta |-> meta]
    BY DEF StoredIn
  <1> HIDE DEF x, y, first
  <1>14. ASSUME NEW k \in Keys
         PROVE  F[k] = y.frames[k] /\ H[k] = y.hash_by_frame[k]
    <2>1. at(k) \subseteq 1 .. Len(s)
      BY <1>1
    <2>2. CASE at(k) # {}
      <3>1. PICK i \in at(k) : first(at(k)) = i
        BY <1>6, <2>1, <2>2
      <3>2. i \in 1 .. Len(s) /\ KeyOf(files, s[i]) = k
        BY <1>1, <2>1, <3>1
      <3>3. F[k] = ValueOf(files, s[i]) /\ H[k] = TextOf(files, s[i])
        BY <1>1, <2>2, <3>1, <3>2
      <3>4. s[i] \in D \cup S /\ FrameWith(files, D \cup S, k) = s[i]
        BY <1>4, <1>8, <3>2
      <3> QED BY <1>10, <3>2, <3>3, <3>4
    <2>3. CASE at(k) = {}
      <3>1. F[k] = x.frames[k] /\ H[k] = x.hash_by_frame[k]
        BY <2>3
      <3>2. \A g \in S : KeyOf(files, g) # k
        BY <1>1, <1>5, <2>3
      <3>3. CASE \E g \in D : KeyOf(files, g) = k
        <4>1. PICK g \in D : KeyOf(files, g) = k
          BY <3>3
        <4>2. FrameWith(files, D, k) = g /\ FrameWith(files, D \cup S, k) = g
          BY <1>8, <1>9, <4>1
        <4> QED BY <1>10, <1>11, <3>1, <4>1, <4>2
      <3>4. CASE ~ \E g \in D : KeyOf(files, g) = k
        BY <1>10, <1>11, <3>1, <3>2, <3>4
      <3> QED BY <3>3, <3>4
    <2> QED BY <2>2, <2>3
  <1>15. ASSUME NEW h \in Texts
         PROVE  P[h] = y.frame_by_hash[h]
    <2> DEFINE p == FirstWith(files, D, h)
               q == FirstWith(files, D \cup S, h)
    <2>1. (\E g \in D : TextOf(files, g) = h) =>
             p \in D /\ TextOf(files, p) = h /\ \A g \in D : TextOf(files, g) = h => p <= g
      BY WithFacts
    <2>2. (\E g \in D \cup S : TextOf(files, g) = h) =>
             /\ q \in D \cup S /\ TextOf(files, q) = h
             /\ \A g \in D \cup S : TextOf(files, g) = h => q <= g
      <3> DEFINE U == D \cup S
      <3>1. U \subseteq Numbers0(files)
        BY <1>7
      <3> HIDE DEF U
      <3>2. (\E g \in U : TextOf(files, g) = h) =>
               /\ FirstWith(files, U, h) \in U
               /\ TextOf(files, FirstWith(files, U, h)) = h
               /\ \A g \in U : TextOf(files, g) = h => FirstWith(files, U, h) <= g
        BY <3>1, WithFacts
      <3> QED BY <3>2 DEF U
    <2>3. \A g \in D \cup S : g \in Nat /\ KeyOf(files, g) \in Keys /\ KeyOf(files, g) # Nil
      BY <1>7, FrameFacts, NilAssumption
    <2> HIDE DEF p, q
    <2>4. CASE env.frame_by_hash[h] # Nil
      BY <1>12, <2>4
    <2>5. CASE env.frame_by_hash[h] = Nil /\ \E g \in D : TextOf(files, g) = h
      <3>1. x.frame_by_hash[h] = KeyOf(files, p) /\ p \in D /\ KeyOf(files, p) # Nil
        BY <1>12, <2>1, <2>3, <2>5 DEF p
      <3>2. P[h] = KeyOf(files, p)
        BY <3>1
      <3>3. q \in D \cup S /\ TextOf(files, q) = h /\ q <= p
        BY <2>1, <2>2, <2>5
      <3>4. q \in D
        BY <2>3, <3>1, <3>3
      <3>5. p <= q
        BY <2>1, <3>3, <3>4
      <3>6. p = q
        BY <2>3, <3>1, <3>3, <3>5
      <3> QED BY <1>12, <2>5, <3>2, <3>6 DEF q
    <2>6. CASE env.frame_by_hash[h] = Nil /\ ~ (\E g \in D : TextOf(files, g) = h)
      <3>1. x.frame_by_hash[h] = Nil
        BY <1>12, <2>6
      <3>2. of(h) \subseteq 1 .. Len(s)
        BY <1>1
      <3>3. CASE of(h) = {}
        <4>1. \A g \in S : TextOf(files, g) # h
          BY <1>1, <1>5, <3>3
        <4> QED BY <1>12, <2>6, <3>1, <3>3, <4>1
      <3>4. CASE of(h) # {}
        <4>1. PICK i \in of(h) : first(of(h)) = i /\ \A j \in of(h) : i <= j
          BY <1>6, <3>2, <3>4
        <4>2. i \in 1 .. Len(s) /\ TextOf(files, s[i]) = h /\ s[i] \in S
          BY <1>1, <1>4, <3>2, <4>1
        <4>3. P[h] = KeyOf(files, s[i])
          BY <1>1, <3>1, <3>4, <4>1, <4>2
        <4>4. q \in S /\ TextOf(files, q) = h /\ q <= s[i]
          BY <2>2, <2>6, <4>2
        <4>5. PICK j \in 1 .. Len(s) : s[j] = q
          BY <1>5, <4>4
        <4>6. j \in of(h)
          BY <1>1, <4>4, <4>5
        <4>7. i <= j
          BY <4>1, <4>6
        <4>8. s[i] <= s[j]
          BY <1>1, <1>4, <4>2, <4>5, <4>7, ListedTwice
        <4>9. s[i] = q
          BY <1>4, <4>2, <4>4, <4>5, <4>8
        <4> QED BY <1>12, <2>6, <4>2, <4>3, <4>9 DEF q
      <3> QED BY <3>3, <3>4
    <2> QED BY <2>4, <2>5, <2>6
  <1>16. F = y.frames /\ H = y.hash_by_frame /\ P = y.frame_by_hash
    <2>1. DOMAIN y.frames = Keys /\ DOMAIN y.hash_by_frame = Keys /\ DOMAIN y.frame_by_hash = Texts
      BY <1>10, <1>12
    <2>2. F = [k \in Keys |-> F[k]] /\ H = [k \in Keys |-> H[k]] /\ P = [h \in Texts |-> P[h]]
      OBVIOUS
    <2>3. /\ y.frames = [k \in Keys |-> y.frames[k]]
          /\ y.hash_by_frame = [k \in Keys |-> y.hash_by_frame[k]]
          /\ y.frame_by_hash = [h \in Texts |-> y.frame_by_hash[h]]
      BY <1>10, <1>12
    <2> HIDE DEF F, H, P
    <2> QED BY <1>14, <1>15, <2>2, <2>3
  <1> HIDE DEF F, H, P
  <1>17. Put(x, rows) = y
    BY <1>2, <1>3, <1>13, <1>16
  <1> QED BY <1>17 DEF x, y

-----------------------------------------------------------------------------
(* What appending the files one after another stores.                      *)

\* Where frame g goes, and how many frames its trajectory has.
EnvOf(shards, files, g) == RouteIn(shards, KeyOf(files, g)[1]).env

CountIn(files, t) ==
    LET f == CHOOSE d \in DOMAIN files : files[d].traj = t IN Len(files[f].texts)

\* The frames and the counts that the first n files give environment e, and
\* its tables when they are stored.
FramesUpto(shards, files, e, n) ==
    {g \in Numbers0(files) : FileOf(files, g) <= n /\ EnvOf(shards, files, g) = e}

MetaUpto(shards, files, e, env, n) ==
    [t \in Trajs |-> IF RouteIn(shards, t).env = e /\ \E f \in 1 .. n : files[f].traj = t
                     THEN CountIn(files, t) ELSE env.traj_meta[t]]

After(shards, files, e, env, n) ==
    StoredIn(env, files, FramesUpto(shards, files, e, n), MetaUpto(shards, files, e, env, n))

\* The count of a trajectory is its file's.
LEMMA CountInIs ==
    ASSUME NEW files, GoodFiles(files), NEW f \in 1 .. Len(files)
    PROVE  CountIn(files, files[f].traj) = Len(files[f].texts) /\ Len(files[f].texts) \in Nat
  <1>1. DOMAIN files = 1 .. Len(files) /\ files[f] \in FileSet
    BY DEF GoodFiles
  <1> DEFINE c == CHOOSE d \in DOMAIN files : files[d].traj = files[f].traj
  <1>2. c \in 1 .. Len(files) /\ files[c].traj = files[f].traj
    BY <1>1
  <1>3. CountIn(files, files[f].traj) = Len(files[c].texts)
    BY DEF CountIn
  <1> HIDE DEF c
  <1>4. c = f
    BY <1>2 DEF GoodFiles
  <1> QED BY <1>1, <1>3, <1>4, FramesOfFile

\* The counts of a trajectory are counts.
LEMMA MetaType ==
    ASSUME NEW shards, NEW files, GoodFiles(files), NEW e, NEW env \in Tables,
           NEW n \in 0 .. Len(files)
    PROVE  MetaUpto(shards, files, e, env, n) \in Metas
  <1>1. \A f \in 1 .. n : f \in 1 .. Len(files)
    BY DEF GoodFiles
  <1>2. \A t \in Trajs : (\E f \in 1 .. n : files[f].traj = t) => CountIn(files, t) \in Nat
    BY <1>1, CountInIs
  <1>3. env.traj_meta \in [Trajs -> Nat \cup {Nil}]
    BY DEF Tables
  <1> QED BY <1>2, <1>3 DEF MetaUpto, Metas

\* No file appended.
LEMMA AfterNone ==
    ASSUME NEW shards, NEW files, GoodFiles(files), NEW e, NEW env \in Tables
    PROVE  After(shards, files, e, env, 0) = env
  <1>1. FramesUpto(shards, files, e, 0) = {}
    <2>1. ASSUME NEW g \in Numbers0(files)
          PROVE  ~ (FileOf(files, g) <= 0)
      <3>1. FileOf(files, g) \in 1 .. Len(files)
        BY FrameAt DEF GoodFiles, Numbers0
      <3>2. Len(files) \in Nat
        BY DEF GoodFiles
      <3> QED BY <3>1, <3>2
    <2> QED BY <2>1 DEF FramesUpto
  <1>2. MetaUpto(shards, files, e, env, 0) = env.traj_meta
    <2>1. env.traj_meta = [t \in Trajs |-> env.traj_meta[t]]
      BY DEF Tables
    <2>2. MetaUpto(shards, files, e, env, 0) = [t \in Trajs |-> env.traj_meta[t]]
      BY DEF MetaUpto
    <2> QED BY <2>1, <2>2
  <1> QED BY <1>1, <1>2, StoredNone DEF After

\* A frame goes where its file goes.
LEMMA EnvOfFile ==
    ASSUME NEW shards, NEW files, GoodFiles(files), NEW g \in Numbers0(files)
    PROVE  EnvOf(shards, files, g) = RouteIn(shards, files[FileOf(files, g)].traj).env
  <1>1. PICK i : KeyOf(files, g) = <<files[FileOf(files, g)].traj, i>>
    BY FrameFacts
  <1>2. KeyOf(files, g)[1] = files[FileOf(files, g)].traj
    BY <1>1
  <1> QED BY <1>2 DEF EnvOf

\* The frames one more file brings.
LEMMA UptoNext ==
    ASSUME NEW shards, NEW files, GoodFiles(files), NEW e, NEW n \in 1 .. Len(files)
    PROVE  \A g : g \in FramesUpto(shards, files, e, n)
                     <=> \/ g \in FramesUpto(shards, files, e, n - 1)
                         \/ g \in Numbers0(files) /\ FileOf(files, g) = n /\ EnvOf(shards, files, g) = e
  <1>1. files \in Seq(FileSet) /\ Len(files) \in Nat /\ n \in Nat
    BY DEF GoodFiles
  <1>2. \A g \in Numbers0(files) : FileOf(files, g) \in 1 .. Len(files)
    BY <1>1, FrameAt DEF Numbers0
  <1>3. \A f \in 1 .. Len(files) : f <= n <=> f <= n - 1 \/ f = n
    BY <1>1
  <1> QED BY <1>2, <1>3 DEF FramesUpto

\* A file of another environment leaves the tables as they are.
LEMMA AfterOther ==
    ASSUME NEW shards, NEW files, GoodFiles(files), NEW e, NEW env \in Tables,
           NEW n \in 1 .. Len(files), RouteIn(shards, files[n].traj).env # e
    PROVE  After(shards, files, e, env, n) = After(shards, files, e, env, n - 1)
  <1>1. FramesUpto(shards, files, e, n) = FramesUpto(shards, files, e, n - 1)
    <2>1. \A g \in Numbers0(files) : FileOf(files, g) = n => EnvOf(shards, files, g) # e
      BY EnvOfFile
    <2>2. \A g : g \in FramesUpto(shards, files, e, n) <=> g \in FramesUpto(shards, files, e, n - 1)
      BY <2>1, UptoNext
    <2> QED BY <2>2 DEF FramesUpto
  <1>2. MetaUpto(shards, files, e, env, n) = MetaUpto(shards, files, e, env, n - 1)
    <2>1. \A f : f \in 1 .. n <=> f \in 1 .. n - 1 \/ f = n
      BY DEF GoodFiles
    <2>2. \A t \in Trajs : (RouteIn(shards, t).env = e /\ \E f \in 1 .. n : files[f].traj = t)
                       <=> (RouteIn(shards, t).env = e /\ \E f \in 1 .. n - 1 : files[f].traj = t)
      BY <2>1
    <2> QED BY <2>2 DEF MetaUpto
  <1> QED BY <1>1, <1>2 DEF After

\* One more file appended.
LEMMA AfterAppend ==
    ASSUME NEW shards, NEW files, GoodFiles(files), NEW e, NEW env \in Tables,
           NEW n \in 1 .. Len(files), RouteIn(shards, files[n].traj).env = e
    PROVE  After(shards, files, e, env, n)
              = SerialAppend(After(shards, files, e, env, n - 1), files[n])
  <1> DEFINE D  == FramesUpto(shards, files, e, n - 1)
             S  == {g \in Numbers0(files) : FileOf(files, g) = n}
             m0 == MetaUpto(shards, files, e, env, n - 1)
             m1 == MetaUpto(shards, files, e, env, n)
             texts == files[n].texts
             traj == files[n].traj
             values == PackAligned(0, texts)
             rows == [i \in DOMAIN texts |->
                        [key |-> <<traj, i - 1>>, hash |-> texts[i], value |-> values[i - 1]]]
             off == Off(files)[n]
             x == StoredIn(env, files, D, m0)
  <1>1. /\ n \in Nat /\ n - 1 \in 0 .. Len(files) /\ files[n] \in FileSet
        /\ texts \in Seq(Texts) /\ traj \in Trajs
    <2>1. files \in Seq(FileSet) /\ Len(files) \in Nat
      BY DEF GoodFiles
    <2>2. files[n] \in FileSet /\ n \in Nat /\ n - 1 \in 0 .. Len(files)
      BY <2>1
    <2> QED BY <2>2 DEF FileSet
  <1>2. PICK len \in Nat : len = Len(texts) /\ DOMAIN texts = 1 .. len /\ off \in Nat
    BY <1>1, OffNumbers DEF GoodFiles
  <1>3. FramesUpto(shards, files, e, n) = D \cup S
    <2>1. \A g \in Numbers0(files) : FileOf(files, g) = n => EnvOf(shards, files, g) = e
      BY EnvOfFile
    <2>2. \A g : g \in FramesUpto(shards, files, e, n) <=> g \in D \/ g \in S
      <3> HIDE DEF D
      <3> QED BY <2>1, UptoNext DEF D
    <2> QED BY <2>2 DEF FramesUpto
  <1>4. ASSUME NEW i \in 0 .. len - 1
        PROVE  /\ off + i \in S
               /\ KeyOf(files, off + i) = <<traj, i>>
               /\ TextOf(files, off + i) = texts[i + 1]
               /\ ValueOf(files, off + i) = values[i]
    <2>1. i \in 0 .. Len(texts) - 1
      BY <1>2
    <2>2. /\ off + i \in Numbers0(files) /\ FileOf(files, off + i) = n
          /\ (off + i) - Off(files)[n] = i
      BY <2>1, FrameOfFile DEF GoodFiles, Numbers0
    <2>3. ValueOf(files, off + i) = StoredAs(texts, i)
      BY <2>2 DEF ValueOf
    <2>4. values[i] = StoredAs(texts, i)
      BY <1>1, <2>1, PackedWhole
    <2> DEFINE g == off + i
    <2>6. /\ KeyOf(files, g) = <<files[FileOf(files, g)].traj, g - Off(files)[FileOf(files, g)]>>
          /\ TextOf(files, g)
                = files[FileOf(files, g)].texts[(g - Off(files)[FileOf(files, g)]) + 1]
      BY <2>2, FrameFacts
    <2>5. KeyOf(files, off + i) = <<traj, i>> /\ TextOf(files, off + i) = texts[i + 1]
      BY <2>2, <2>6
    <2> QED BY <2>2, <2>3, <2>4, <2>5
  <1>5. ASSUME NEW g \in S
        PROVE  \E i \in 0 .. len - 1 : g = off + i
    <2>1. /\ g - Off(files)[n] \in 0 .. Len(files[n].texts) - 1
          /\ g = Off(files)[n] + (g - Off(files)[n])
      BY FrameAt DEF GoodFiles, Numbers0
    <2> QED BY <1>2, <2>1
  <1>6. RowsHold(rows, files, S)
    <2> DEFINE s == [i \in 1 .. len |-> off + (i - 1)]
    <2>1. s \in [1 .. len -> Nat]
      BY <1>2
    <2>2. s \in Seq(Nat) /\ Len(s) = len
      <3> HIDE DEF s
      <3> QED BY <2>1, FunctionIsSeq
    <2>3. \A i \in 1 .. len : s[i] = off + (i - 1) /\ i - 1 \in 0 .. len - 1
      OBVIOUS
    <2>4. \A i \in 1 .. len : /\ rows[i].key = <<traj, i - 1>> /\ rows[i].hash = texts[i]
                               /\ rows[i].value = values[i - 1]
      <3> HIDE DEF values, texts, traj
      <3> QED BY <1>2
    <2>5. DOMAIN rows = 1 .. len
      BY <1>2
    <2> HIDE DEF s, rows, values, S, off, texts, traj
    <2>6. Lists(s, S)
      <3>1. \A i \in 1 .. len : s[i] \in S
        BY <1>4, <2>3
      <3>2. \A i, j \in 1 .. len : i < j => s[i] < s[j]
        BY <1>2, <2>3
      <3>3. ASSUME NEW g \in S
            PROVE  \E i \in 1 .. len : s[i] = g
        <4>1. PICK i \in 0 .. len - 1 : g = off + i
          BY <1>5
        <4>2. i + 1 \in 1 .. len /\ (i + 1) - 1 = i
          OBVIOUS
        <4>3. s[i + 1] = off + ((i + 1) - 1)
          BY <2>3, <4>2
        <4> QED BY <4>1, <4>2, <4>3
      <3> QED BY <2>2, <3>1, <3>2, <3>3 DEF Lists
    <2>7. ASSUME NEW i \in 1 .. len
          PROVE  /\ rows[i].key = KeyOf(files, s[i])
                 /\ rows[i].hash = TextOf(files, s[i])
                 /\ rows[i].value = ValueOf(files, s[i])
      <3>1. i - 1 \in 0 .. len - 1 /\ (i - 1) + 1 = i
        OBVIOUS
      <3>2. rows[i].key = <<traj, i - 1>> /\ rows[i].hash = texts[i] /\ rows[i].value = values[i - 1]
        BY <2>4
      <3>3. s[i] = off + (i - 1)
        BY <2>3
      <3>4. /\ KeyOf(files, off + (i - 1)) = <<traj, i - 1>>
            /\ TextOf(files, off + (i - 1)) = texts[(i - 1) + 1]
            /\ ValueOf(files, off + (i - 1)) = values[i - 1]
        BY <1>4, <3>1
      <3> QED BY <3>1, <3>2, <3>3, <3>4
    <2> QED BY <2>2, <2>5, <2>6, <2>7 DEF RowsHold
  <1>7. Put(x, rows) = StoredIn(env, files, D \cup S, m0)
    <2>1. D \subseteq Numbers0(files) /\ S \subseteq Numbers0(files)
      BY DEF FramesUpto
    <2>2. m0 \in Metas
      BY <1>1, MetaType
    <2>3. ASSUME NEW g \in D, NEW h \in S
          PROVE  g < h
      <3> DEFINE d == FileOf(files, g)
      <3>1. /\ d \in 1 .. Len(files) /\ Off(files)[d] \in Nat /\ Len(files[d].texts) \in Nat
            /\ g - Off(files)[d] \in 0 .. Len(files[d].texts) - 1
            /\ g = Off(files)[d] + (g - Off(files)[d]) /\ d <= n - 1
        BY <2>1, FrameAt DEF GoodFiles, Numbers0, FramesUpto
      <3> HIDE DEF d
      <3>2. d < n
        BY <1>1, <3>1
      <3>3. Off(files)[d + 1] <= off /\ Off(files)[d + 1] = Off(files)[d] + Len(files[d].texts)
        BY <3>1, <3>2, OffNumbers DEF GoodFiles, Numbers
      <3>4. g < Off(files)[d + 1]
        BY <3>1, <3>3
      <3>5. off <= h
        BY <1>2, <1>5
      <3>6. g \in Nat /\ h \in Nat /\ Off(files)[d + 1] \in Nat
        BY <2>1, <3>1, OffNumbers, FrameFacts DEF GoodFiles
      <3> QED BY <1>2, <3>3, <3>4, <3>5, <3>6
    <2> HIDE DEF D, S, m0, rows
    <2> QED BY <1>6, <2>1, <2>2, <2>3, PutStored
  <1>8. m1 = [m0 EXCEPT ![traj] = Len(texts)]
    <2>1. \A f : f \in 1 .. n <=> f \in 1 .. n - 1 \/ f = n
      BY <1>1
    <2>2. m1[traj] = Len(texts)
      <3>1. CountIn(files, traj) = Len(texts)
        BY CountInIs
      <3> QED BY <1>1, <2>1, <3>1 DEF MetaUpto
    <2>3. ASSUME NEW t \in Trajs, t # traj
          PROVE  m1[t] = m0[t]
      BY <2>1, <2>3 DEF MetaUpto
    <2>4. m1 = [t \in Trajs |-> m1[t]] /\ m0 = [t \in Trajs |-> m0[t]]
      BY DEF MetaUpto
    <2> HIDE DEF m0, m1, traj, texts
    <2> QED BY <1>1, <2>2, <2>3, <2>4
  <1>9. [StoredIn(env, files, D \cup S, m0) EXCEPT !.traj_meta[traj] = Len(texts)]
            = StoredIn(env, files, D \cup S, m1)
    <2>1. PICK a, b, c : \A m : StoredIn(env, files, D \cup S, m)
                = [frames |-> a, hash_by_frame |-> b, frame_by_hash |-> c, traj_meta |-> m]
      BY DEF StoredIn
    <2>2. StoredIn(env, files, D \cup S, m0)
             = [frames |-> a, hash_by_frame |-> b, frame_by_hash |-> c, traj_meta |-> m0]
      BY <2>1
    <2>3. StoredIn(env, files, D \cup S, m1)
             = [frames |-> a, hash_by_frame |-> b, frame_by_hash |-> c, traj_meta |-> m1]
      BY <2>1
    <2> DEFINE y == StoredIn(env, files, D \cup S, m0)
    <2> HIDE DEF m0, m1, traj, texts, D, S, y
    <2>4. [y EXCEPT !.traj_meta[traj] = Len(texts)]
             = [y EXCEPT !.traj_meta = [y.traj_meta EXCEPT ![traj] = Len(texts)]]
      BY Zenon
    <2>5. y.traj_meta = m0
      BY <2>2 DEF y
    <2>7. y = [frames |-> a, hash_by_frame |-> b, frame_by_hash |-> c, traj_meta |-> m0]
      BY <2>2 DEF y
    <2>6. [y EXCEPT !.traj_meta = m1]
             = [frames |-> a, hash_by_frame |-> b, frame_by_hash |-> c, traj_meta |-> m1]
      BY <2>7
    <2> QED BY <1>8, <2>3, <2>4, <2>5, <2>6 DEF y
  <1>10. SerialAppend(x, files[n]) = [Put(x, rows) EXCEPT !.traj_meta[traj] = Len(texts)]
    BY DEF SerialAppend
  <1> HIDE DEF x, rows, D, S
  <1> QED BY <1>3, <1>7, <1>9, <1>10 DEF After, x, D

\* The call's files appended in order store each routed file whole.
LEMMA SerialStores ==
    ASSUME NEW shards, NEW files, GoodFiles(files), NEW e, NEW env \in Tables
    PROVE  SerialIn(shards, files, e, env) = After(shards, files, e, env, Len(files))
  <1> DEFINE Turns(f, n) == IF n = 0 THEN env
                            ELSE IF RouteIn(shards, files[n].traj).env = e
                                 THEN SerialAppend(f[n - 1], files[n])
                                 ELSE f[n - 1]
             Solves(f) == f = [n \in 0 .. Len(files) |-> Turns(f, n)]
             c == CHOOSE f : Solves(f)
             w == [n \in 0 .. Len(files) |-> After(shards, files, e, env, n)]
  <1>1. PICK len \in Nat : len = Len(files)
    BY DEF GoodFiles
  <1>2. SerialIn(shards, files, e, env) = c[Len(files)]
    BY DEF SerialIn
  <1>3. ASSUME NEW n \in 1 .. len
        PROVE  After(shards, files, e, env, n) =
                 IF RouteIn(shards, files[n].traj).env = e
                 THEN SerialAppend(After(shards, files, e, env, n - 1), files[n])
                 ELSE After(shards, files, e, env, n - 1)
    BY <1>1, AfterAppend, AfterOther
  <1>4. \A n \in 0 .. len : After(shards, files, e, env, n) = Turns(w, n)
    <2>1. ASSUME NEW n \in 0 .. len
          PROVE  After(shards, files, e, env, n) = Turns(w, n)
      <3>1. CASE n = 0
        BY <3>1, AfterNone
      <3>2. CASE n # 0
        <4>1. n \in 1 .. len /\ n - 1 \in 0 .. Len(files)
          BY <1>1, <3>2
        <4>2. w[n - 1] = After(shards, files, e, env, n - 1)
          BY <4>1
        <4> QED BY <1>3, <3>2, <4>1, <4>2
      <3> QED BY <3>1, <3>2
    <2> QED BY <2>1
  <1>5. Solves(w)
    <2>1. w = [n \in 0 .. len |-> After(shards, files, e, env, n)]
      BY <1>1
    <2>2. [n \in 0 .. len |-> After(shards, files, e, env, n)] = [n \in 0 .. len |-> Turns(w, n)]
      <3> HIDE DEF Turns, w
      <3> QED BY <1>4
    <2> HIDE DEF Turns, w
    <2> QED BY <1>1, <2>1, <2>2
  <1>6. Solves(c)
    <2> HIDE DEF w, Solves
    <2> QED BY <1>5
  <1>7. \A n \in 0 .. len : c[n] = Turns(c, n)
    <2> HIDE DEF c, Turns
    <2> QED BY <1>1, <1>6
  <1> HIDE DEF c
  <1> DEFINE Good == {n \in 0 .. len : c[n] = After(shards, files, e, env, n)}
  <1>8. 0 \in Good
    BY <1>7, AfterNone
  <1>9. ASSUME NEW n \in 0 .. len - 1, n \in Good
        PROVE  n + 1 \in Good
    <2>1. n + 1 \in 1 .. len /\ n + 1 # 0 /\ (n + 1) - 1 = n /\ n + 1 \in 0 .. len
      OBVIOUS
    <2>2. c[n + 1] = Turns(c, n + 1)
      BY <1>7, <2>1
    <2>3. c[n] = After(shards, files, e, env, n)
      BY <1>9
    <2>4. c[n + 1] = After(shards, files, e, env, n + 1)
      BY <1>3, <2>1, <2>2, <2>3
    <2> QED BY <2>1, <2>4
  <1>10. len \in Good
    <2> HIDE DEF Good
    <2> QED BY <1>8, <1>9, AllUpTo
  <1> QED BY <1>1, <1>2, <1>10

-----------------------------------------------------------------------------
(* Going through a list by jumps.                                          *)

\* f[p] is where the jumps from p end: before the first place that is not in go.
Jumps(len, go, nx, f) ==
    \A p \in 1 .. len + 1 : f[p] = IF p \in go THEN f[nx[p]] ELSE p - 1

\* Every jump goes on, and none past the end.
Forward(len, go, nx) ==
    /\ go \subseteq 1 .. len
    /\ \A p \in go : nx[p] \in p + 1 .. len + 1

\* There is a function that follows the jumps.
LEMMA JumpsExist ==
    ASSUME NEW len \in Nat, NEW go, NEW nx, Forward(len, go, nx)
    PROVE  \E f \in [1 .. len + 1 -> Nat] : Jumps(len, go, nx, f)
  <1> DEFINE Ends(m) == \E f \in [len + 1 - m .. len + 1 -> Nat] :
                           \A p \in len + 1 - m .. len + 1 :
                              f[p] = IF p \in go THEN f[nx[p]] ELSE p - 1
             Good == {m \in 0 .. len : Ends(m)}
  <1>1. Ends(0)
    <2> DEFINE f == [p \in len + 1 .. len + 1 |-> len]
    <2>1. f \in [len + 1 - 0 .. len + 1 -> Nat]
      OBVIOUS
    <2>2. \A p \in len + 1 - 0 .. len + 1 : p = len + 1 /\ p \notin go /\ f[p] = p - 1
      BY DEF Forward
    <2> QED BY <2>1, <2>2
  <1>2. ASSUME NEW m \in 0 .. len - 1, Ends(m)
        PROVE  Ends(m + 1)
    <2> DEFINE a == len + 1 - m
               b == len + 1 - (m + 1)
    <2>1. PICK f \in [a .. len + 1 -> Nat] :
             \A p \in a .. len + 1 : f[p] = IF p \in go THEN f[nx[p]] ELSE p - 1
      BY <1>2
    <2>2. a = b + 1 /\ b \in 1 .. len
      OBVIOUS
    <2> HIDE DEF a, b
    <2> DEFINE h == [p \in b .. len + 1 |-> IF p = b THEN (IF p \in go THEN f[nx[p]] ELSE p - 1)
                                            ELSE f[p]]
    <2>3. \A p \in go : p \in b .. len + 1 => nx[p] \in a .. len + 1
      BY <2>2 DEF Forward
    <2>4. \A p \in a .. len + 1 : h[p] = f[p] /\ f[p] \in Nat
      BY <2>2
    <2>5. \A p \in b .. len + 1 : p = b \/ p \in a .. len + 1
      BY <2>2
    <2>6. h[b] = IF b \in go THEN f[nx[b]] ELSE b - 1
      BY <2>2
    <2>7. DOMAIN h = b .. len + 1 /\ h = [p \in b .. len + 1 |-> h[p]]
      OBVIOUS
    <2> HIDE DEF h
    <2>8. b \in b .. len + 1 /\ b - 1 \in Nat
      BY <2>2
    <2>9. h[b] \in Nat /\ h[b] = IF b \in go THEN h[nx[b]] ELSE b - 1
      BY <2>3, <2>4, <2>6, <2>8
    <2>10. \A p \in b .. len + 1 : h[p] \in Nat /\ h[p] = IF p \in go THEN h[nx[p]] ELSE p - 1
      BY <2>1, <2>3, <2>4, <2>5, <2>9
    <2>11. h \in [b .. len + 1 -> Nat]
      BY <2>7, <2>10
    <2> QED BY <2>10, <2>11 DEF b
  <1> HIDE DEF Ends
  <1>3. len \in Good
    <2>1. 0 \in Good
      BY <1>1
    <2>2. \A i \in 0 .. len - 1 : i \in Good => i + 1 \in Good
      BY <1>2
    <2> HIDE DEF Good
    <2> QED BY <2>1, <2>2, AllUpTo
  <1>4. Ends(len)
    BY <1>3
  <1>5. len + 1 - len = 1
    OBVIOUS
  <1> QED BY <1>4, <1>5 DEF Ends, Jumps

\* What lies before the end has been jumped over.
LEMMA JumpsCover ==
    ASSUME NEW len \in Nat, NEW go, NEW nx, Forward(len, go, nx), NEW f, Jumps(len, go, nx, f)
    PROVE  /\ f[1] \in 0 .. len
           /\ \A i \in 1 .. f[1] : \E q \in go : q <= i /\ i < nx[q] /\ nx[q] - 1 <= f[1]
           /\ f[1] + 1 \notin go
  <1> DEFINE Covers(p) == /\ f[p] \in p - 1 .. len /\ f[p] + 1 \notin go
                          /\ \A i \in p .. f[p] :
                                \E q \in go : q <= i /\ i < nx[q] /\ nx[q] - 1 <= f[p]
             Good == {m \in 0 .. len : \A p \in len + 1 - m .. len + 1 : Covers(p)}
  <1>1. ASSUME NEW p \in 1 .. len + 1, p \notin go
        PROVE  Covers(p)
    <2>1. f[p] = p - 1 /\ (p - 1) + 1 = p
      BY <1>1 DEF Jumps
    <2> QED BY <1>1, <2>1
  <1>2. 0 \in Good
    <2>1. \A p \in len + 1 - 0 .. len + 1 : p = len + 1 /\ p \in 1 .. len + 1 /\ p \notin go
      BY DEF Forward
    <2> HIDE DEF Covers
    <2> QED BY <1>1, <2>1
  <1>3. ASSUME NEW m \in 0 .. len - 1, m \in Good
        PROVE  m + 1 \in Good
    <2>1. PICK b \in 1 .. len : b = len + 1 - (m + 1) /\ len + 1 - m = b + 1
      BY <1>3
    <2>2. \A p \in b + 1 .. len + 1 : Covers(p)
      BY <1>3, <2>1
    <2>3. Covers(b)
      <3>1. CASE b \notin go
        BY <1>1, <3>1
      <3>2. CASE b \in go
        <4>1. nx[b] \in b + 1 .. len + 1 /\ f[b] = f[nx[b]]
          BY <3>2 DEF Forward, Jumps
        <4>2. Covers(nx[b])
          <5> HIDE DEF Covers
          <5> QED BY <2>2, <4>1
        <4>3. f[b] \in b - 1 .. len /\ f[b] + 1 \notin go
          BY <4>1, <4>2
        <4>4. ASSUME NEW i \in b .. f[b]
              PROVE  \E q \in go : q <= i /\ i < nx[q] /\ nx[q] - 1 <= f[b]
          <5>1. CASE i < nx[b]
            <6>1. nx[b] - 1 <= f[b]
              BY <4>1, <4>2
            <6> QED BY <3>2, <5>1, <6>1
          <5>2. CASE i >= nx[b]
            <6>1. i \in nx[b] .. f[nx[b]]
              BY <4>1, <5>2
            <6> QED BY <4>1, <4>2, <6>1
          <5> QED BY <4>1, <5>1, <5>2
        <4> QED BY <4>3, <4>4
      <3> QED BY <3>1, <3>2
    <2> HIDE DEF Covers
    <2>4. \A p \in b .. len + 1 : p = b \/ p \in b + 1 .. len + 1
      OBVIOUS
    <2>5. m + 1 \in 0 .. len
      OBVIOUS
    <2> QED BY <2>1, <2>2, <2>3, <2>4, <2>5
  <1>4. len \in Good
    <2> HIDE DEF Good
    <2> QED BY <1>2, <1>3, AllUpTo
  <1>5. Covers(1)
    <2>1. 1 \in len + 1 - len .. len + 1
      OBVIOUS
    <2> HIDE DEF Covers
    <2> QED BY <1>4, <2>1
  <1>6. 1 - 1 = 0
    OBVIOUS
  <1> QED BY <1>5, <1>6

-----------------------------------------------------------------------------
(* The groups that wait in an environment.                                 *)

\* A frame that waits for its group, and a list of them.
RowOf(files, g) ==
    [key |-> KeyOf(files, g), hash |-> TextOf(files, g), text |-> TextOf(files, g)]

RowsFor(files, s) == [i \in 1 .. Len(s) |-> RowOf(files, s[i])]

\* Between two frames of B every frame of the same file is in B.
Unbroken(files, B) ==
    /\ B \subseteq Numbers0(files)
    /\ \A g, h \in B : \A m \in Numbers0(files) :
          FileOf(files, m) = FileOf(files, g) /\ g <= m /\ m <= h => m \in B

\* The frames from place p on to place l are one whole group of file f.
GroupAt(files, s, p, l, f, i) ==
    /\ f \in 1 .. Len(files) /\ i \in 0 .. Len(files[f].texts) - 1 /\ GroupStart(i) = i
    /\ l = p + (GroupEnd(Len(files[f].texts), i) - i) - 1
    /\ p \in 1 .. Len(s) /\ l \in p .. Len(s)
    /\ s[p] = Off(files)[f] + i
    /\ \A j \in 0 .. l - p : s[p + j] = s[p] + j

\* What drain_ready takes for a whole group is one.
LEMMA WholeIsGroup ==
    ASSUME NEW files, GoodFiles(files), NEW B, Unbroken(files, B), NEW s, Lists(s, B),
           NEW p \in 1 .. Len(s), NEW l,
           KeyOf(files, s[p])[2] = GroupStart(KeyOf(files, s[p])[2]),
           l = p + GroupEnd(CountIn(files, KeyOf(files, s[p])[1]), KeyOf(files, s[p])[2])
                 - GroupStart(KeyOf(files, s[p])[2]) - 1,
           l <= Len(s),
           KeyOf(files, s[l])
             = <<KeyOf(files, s[p])[1],
                 GroupEnd(CountIn(files, KeyOf(files, s[p])[1]), KeyOf(files, s[p])[2]) - 1>>
    PROVE  /\ GroupAt(files, s, p, l, FileOf(files, s[p]), s[p] - Off(files)[FileOf(files, s[p])])
           /\ l >= p
  <1>1. PICK a \in B : a = s[p] /\ a \in Numbers0(files) /\ a \in Nat
    BY FrameFacts DEF Lists, Unbroken
  <1>2. PICK f : f = FileOf(files, a)
    OBVIOUS
  <1>3. PICK i : i = a - Off(files)[f]
    OBVIOUS
  <1>4. /\ files \in Seq(FileSet) /\ f \in 1 .. Len(files) /\ Off(files)[f] \in Nat
        /\ Len(files[f].texts) \in Nat /\ i \in 0 .. Len(files[f].texts) - 1
        /\ a = Off(files)[f] + i
    <2>1. files \in Seq(FileSet)
      BY DEF GoodFiles
    <2> QED BY <1>1, <1>2, <1>3, <2>1, FrameAt DEF Numbers0
  <1>5. KeyOf(files, a) = <<files[f].traj, i>>
    BY <1>1, <1>2, <1>3, FrameFacts
  <1>6. KeyOf(files, a)[1] = files[f].traj /\ KeyOf(files, a)[2] = i
    BY <1>5
  <1>7. PICK n \in Nat : n = Len(files[f].texts) /\ CountIn(files, files[f].traj) = n
    BY <1>4, CountInIs
  <1>8. PICK end \in Nat : end = GroupEnd(n, i) /\ i < end /\ end <= n
    BY <1>4, <1>7, GroupEnds
  <1>9. /\ GroupStart(i) = i /\ l = p + end - i - 1 /\ l <= Len(s)
        /\ KeyOf(files, s[l]) = <<files[f].traj, end - 1>>
    BY <1>1, <1>6, <1>7, <1>8
  <1>10. s \in Seq(Nat) /\ Len(s) \in Nat /\ p \in Nat /\ i \in Nat
    <2>1. s \in Seq(Nat) /\ i \in Nat
      BY <1>4 DEF Lists
    <2> QED BY <2>1
  <1>11. l \in p .. Len(s) /\ l \in 1 .. Len(s) /\ end - i - 1 \in Nat /\ l = p + (end - i - 1)
         /\ l - p = end - i - 1
    BY <1>8, <1>9, <1>10
  <1>12. PICK z \in B : z = s[l] /\ z \in Numbers0(files) /\ z \in Nat
    BY <1>11, FrameFacts DEF Lists, Unbroken
  <1>13. z = Off(files)[f] + (end - 1)
    <2> DEFINE y == Off(files)[f] + (end - 1)
    <2>1. end - 1 \in 0 .. Len(files[f].texts) - 1
      <3>1. end - 1 \in 0 .. n - 1
        BY <1>8, <1>10
      <3> QED BY <1>7, <3>1
    <2>2. /\ y \in Numbers0(files) /\ FileOf(files, y) = f /\ y - Off(files)[f] = end - 1
      BY <1>4, <2>1, FrameOfFile DEF Numbers0
    <2> HIDE DEF y
    <2>3. KeyOf(files, y) = <<files[f].traj, end - 1>>
      BY <2>2, FrameFacts
    <2>4. KeyOf(files, y) = KeyOf(files, z)
      BY <1>9, <1>12, <2>3
    <2>5. y = z
      BY <1>12, <2>2, <2>4, KeysApart
    <2> QED BY <2>5 DEF y
  <1>14. ASSUME NEW j \in 0 .. end - i - 1
         PROVE  a + j \in B
    <2>1. i + j \in 0 .. Len(files[f].texts) - 1 /\ Off(files)[f] + (i + j) = a + j
          /\ a <= a + j /\ a + j <= z
      <3>1. i + j \in 0 .. n - 1 /\ j \in Nat /\ j <= end - i - 1
        BY <1>8, <1>10
      <3>2. PICK o \in Nat : o = Off(files)[f]
        BY <1>4
      <3>4. a = o + i /\ z = o + (end - 1)
        BY <1>4, <1>13, <3>2
      <3>3. o + (i + j) = a + j /\ a <= a + j /\ a + j <= z
        <4>1. \A x, u, v, w \in Int : v <= w - u - 1 /\ 0 <= v =>
                 x + (u + v) = (x + u) + v /\ x + u <= (x + u) + v /\ (x + u) + v <= x + (w - 1)
          OBVIOUS
        <4>2. o \in Int /\ i \in Int /\ j \in Int /\ end \in Int /\ 0 <= j
          BY <1>8, <1>10, <3>1, <3>2
        <4> QED BY <3>1, <3>4, <4>1, <4>2, Zenon
      <3> QED BY <1>7, <3>1, <3>2, <3>3
    <2>2. Off(files)[f] + (i + j) \in Numbers0(files) /\ FileOf(files, Off(files)[f] + (i + j)) = f
      BY <1>4, <2>1, FrameOfFile DEF Numbers0
    <2> QED BY <1>1, <1>2, <1>12, <2>1, <2>2 DEF Unbroken
  <1>15. \A j \in 0 .. end - i - 1 : s[p + j] = s[p] + j
    <2> DEFINE len == end - i - 1
    <2>1. len \in Nat
      BY <1>11
    <2>2. \A j \in 0 .. len : s[p] + j \in B
      BY <1>1, <1>14
    <2> HIDE DEF len
    <2>3. \A j \in 0 .. len : p + j \in 1 .. Len(s) /\ s[p + j] = s[p] + j
      BY <2>1, <2>2, ListsRun
    <2> QED BY <2>3 DEF len
  <1>16. l = p + (GroupEnd(Len(files[f].texts), i) - i) - 1
    BY <1>7, <1>8, <1>9, <1>10
  <1>17. GroupAt(files, s, p, l, f, i)
    BY <1>1, <1>4, <1>9, <1>11, <1>15, <1>16 DEF GroupAt
  <1> QED BY <1>1, <1>2, <1>3, <1>11, <1>17

\* The rows of a list of frames.
LEMMA RowsForFacts ==
    ASSUME NEW files, NEW S, NEW s, Lists(s, S)
    PROVE  /\ DOMAIN RowsFor(files, s) = 1 .. Len(s) /\ Len(s) \in Nat
           /\ Len(RowsFor(files, s)) = Len(s)
           /\ \A i \in 1 .. Len(s) : /\ RowsFor(files, s)[i] = RowOf(files, s[i])
                                     /\ RowsFor(files, s)[i].key = KeyOf(files, s[i])
                                     /\ RowsFor(files, s)[i].hash = TextOf(files, s[i])
                                     /\ RowsFor(files, s)[i].text = TextOf(files, s[i])
  <1>1. PICK n \in Nat : n = Len(s)
    BY DEF Lists
  <1>2. RowsFor(files, s) = [i \in 1 .. n |-> RowOf(files, s[i])]
    BY <1>1 DEF RowsFor
  <1>3. Len(RowsFor(files, s)) = n /\ DOMAIN RowsFor(files, s) = 1 .. n
    BY <1>2
  <1>4. \A i \in 1 .. n : RowsFor(files, s)[i] = RowOf(files, s[i])
    BY <1>2
  <1>5. \A i : /\ RowOf(files, s[i]).key = KeyOf(files, s[i])
               /\ RowOf(files, s[i]).hash = TextOf(files, s[i])
               /\ RowOf(files, s[i]).text = TextOf(files, s[i])
    BY DEF RowOf
  <1> QED BY <1>1, <1>3, <1>4, <1>5

\* The bounds of the group of a frame, from its key.
LEMMA GroupOfFrame ==
    ASSUME NEW files, GoodFiles(files), NEW g \in Numbers0(files)
    PROVE  LET k == KeyOf(files, g)
               end == GroupEnd(CountIn(files, k[1]), k[2])
           IN  k[2] \in Nat /\ GroupStart(k[2]) \in Nat /\ end \in Nat
               /\ GroupStart(k[2]) <= k[2] /\ k[2] < end
  <1>1. PICK f : f = FileOf(files, g)
    OBVIOUS
  <1>2. PICK i : i = g - Off(files)[f]
    OBVIOUS
  <1>3. files \in Seq(FileSet)
    BY DEF GoodFiles
  <1>4. f \in 1 .. Len(files) /\ Len(files[f].texts) \in Nat /\ i \in 0 .. Len(files[f].texts) - 1
    BY <1>1, <1>2, <1>3, FrameAt DEF Numbers0
  <1>5. KeyOf(files, g) = <<files[f].traj, i>>
    BY <1>1, <1>2, FrameFacts
  <1>6. KeyOf(files, g)[1] = files[f].traj /\ KeyOf(files, g)[2] = i
    BY <1>5
  <1>7. CountIn(files, files[f].traj) = Len(files[f].texts)
    BY <1>4, CountInIs
  <1> QED BY <1>4, <1>6, <1>7, GroupEnds

\* Place p begins a whole group, as far as drain_ready looks.
WholeAt(files, s, p) ==
    LET k   == KeyOf(files, s[p])
        end == GroupEnd(CountIn(files, k[1]), k[2])
        l   == p + end - GroupStart(k[2]) - 1
    IN  /\ k[2] = GroupStart(k[2]) /\ l <= Len(s)
        /\ KeyOf(files, s[l]) = <<k[1], end - 1>>

\* drain_ready takes whole groups, and stops where there is none.
LEMMA ReadyGroups ==
    ASSUME GoodFiles(call.files), NEW B, Unbroken(call.files, B), NEW s, Lists(s, B)
    PROVE  LET k == Ready(RowsFor(call.files, s))
           IN  /\ k \in 0 .. Len(s)
               /\ \A x \in 1 .. k : \E q, l, f, i : /\ GroupAt(call.files, s, q, l, f, i)
                                                    /\ q <= x /\ x <= l /\ l <= k
               /\ k < Len(s) => ~ WholeAt(call.files, s, k + 1)
  <1> DEFINE files == call.files
             buf == RowsFor(files, s)
             start(p) == (buf[p].key[2] \div GroupLen) * GroupLen
             end(p)   == Least(start(p) + GroupLen, CountOf(buf[p].key[1]))
             last(p)  == p + end(p) - start(p) - 1
             whole(p) == /\ buf[p].key[2] = start(p)
                         /\ last(p) <= Len(buf)
                         /\ buf[last(p)].key = <<buf[p].key[1], end(p) - 1>>
             Solves(u) == u = [p \in 1 .. Len(buf) + 1 |->
                                 IF p <= Len(buf) /\ whole(p) THEN u[last(p) + 1] ELSE p - 1]
             c == CHOOSE u : Solves(u)
  <1>1. Ready(buf) = c[1]
    BY DEF Ready
  <1>2. PICK len \in Nat : len = Len(s) /\ len = Len(buf)
    BY RowsForFacts
  <1>3. \A p \in 1 .. len : buf[p].key = KeyOf(files, s[p])
    BY <1>2, RowsForFacts
  <1> DEFINE go == {p \in 1 .. len : whole(p)}
             nx == [p \in go |-> last(p) + 1]
  <1>4. ASSUME NEW p \in go
        PROVE  \E f, i : /\ GroupAt(files, s, p, last(p), f, i)
                         /\ last(p) \in p .. len /\ nx[p] = last(p) + 1
    <2> DEFINE k == KeyOf(files, s[p])
    <2>1. p \in 1 .. len /\ whole(p) /\ buf[p].key = k
      BY <1>3
    <2>2. start(p) = GroupStart(k[2])
      BY <2>1 DEF GroupStart
    <2>3. end(p) = GroupEnd(CountIn(files, k[1]), k[2])
      BY <2>1, <2>2 DEF GroupEnd, CountOf, CountIn
    <2>4. last(p) = p + GroupEnd(CountIn(files, k[1]), k[2]) - GroupStart(k[2]) - 1
      BY <2>2, <2>3
    <2>5. k[2] = GroupStart(k[2]) /\ last(p) <= len
          /\ buf[last(p)].key = <<k[1], GroupEnd(CountIn(files, k[1]), k[2]) - 1>>
      BY <1>2, <2>1, <2>2, <2>3
    <2>9. nx[p] = last(p) + 1
      OBVIOUS
    <2> DEFINE l == last(p)
               e == GroupEnd(CountIn(files, k[1]), k[2])
               z == GroupStart(k[2])
    <2> HIDE DEF start, end, last, whole, buf, go, nx
    <2>6. s[p] \in Numbers0(files)
      BY <1>2, <2>1 DEF Lists, Unbroken
    <2>7. k[2] \in Nat /\ z \in Nat /\ e \in Nat /\ z <= k[2] /\ k[2] < e
      BY <2>6, GroupOfFrame
    <2>8. l = p + e - z - 1 /\ l <= len
      BY <2>4, <2>5
    <2> HIDE DEF l, e, z
    <2>10. l \in p .. len /\ l \in 1 .. len
      BY <2>1, <2>7, <2>8
    <2>11. KeyOf(files, s[l]) = <<k[1], e - 1>>
      BY <1>3, <2>5, <2>10 DEF l, e
    <2>12. GroupAt(files, s, p, l, FileOf(files, s[p]), s[p] - Off(files)[FileOf(files, s[p])])
      <3>1. p \in 1 .. Len(s) /\ l <= Len(s)
        BY <1>2, <2>1, <2>8
      <3>2. k[2] = z /\ l = p + e - z - 1
        BY <2>5, <2>8 DEF z
      <3> QED BY <2>11, <3>1, <3>2, WholeIsGroup DEF e, z, k
    <2> QED BY <2>9, <2>10, <2>12 DEF l
  <1>15. ASSUME NEW p \in 1 .. len, WholeAt(files, s, p)
         PROVE  p \in go
    <2> DEFINE k == KeyOf(files, s[p])
               e == GroupEnd(CountIn(files, k[1]), k[2])
               z == GroupStart(k[2])
               l == p + e - z - 1
    <2>1. buf[p].key = k
      BY <1>3
    <2>2. start(p) = z
      BY <2>1 DEF GroupStart
    <2>3. end(p) = e
      BY <2>1, <2>2 DEF GroupEnd, CountOf, CountIn
    <2>4. last(p) = l
      BY <2>2, <2>3
    <2>5. k[2] = z /\ l <= Len(s) /\ KeyOf(files, s[l]) = <<k[1], e - 1>>
      BY <1>15 DEF WholeAt
    <2>6. buf[l].key = <<k[1], e - 1>>
      <3> HIDE DEF start, end, last, whole, buf, go, nx
      <3>1. s[p] \in Numbers0(files)
        BY <1>2 DEF Lists, Unbroken
      <3>2. k[2] \in Nat /\ z \in Nat /\ e \in Nat /\ z <= k[2] /\ k[2] < e
        BY <3>1, GroupOfFrame
      <3> HIDE DEF k, e, z
      <3>3. l \in 1 .. len
        BY <1>2, <2>5, <3>2
      <3> QED BY <1>3, <2>5, <3>3
    <2>7. whole(p)
      <3> HIDE DEF k, e, z, l, start, end, last, buf
      <3> QED BY <1>2, <2>1, <2>2, <2>3, <2>4, <2>5, <2>6
    <2> QED BY <2>7
  <1>5. Forward(len, go, nx)
    <2>1. go \subseteq 1 .. len
      OBVIOUS
    <2> HIDE DEF go, nx, last
    <2>2. ASSUME NEW p \in go
          PROVE  nx[p] \in p + 1 .. len + 1
      <3>1. last(p) \in p .. len /\ nx[p] = last(p) + 1 /\ p \in 1 .. len
        BY <1>4, <2>1
      <3> QED BY <3>1
    <2> QED BY <2>1, <2>2 DEF Forward
  <1>6. \A u : \A p \in 1 .. len + 1 :
           (IF p <= Len(buf) /\ whole(p) THEN u[last(p) + 1] ELSE p - 1)
              = IF p \in go THEN u[nx[p]] ELSE p - 1
    <2>1. ASSUME NEW u, NEW p \in 1 .. len + 1
          PROVE  (IF p <= Len(buf) /\ whole(p) THEN u[last(p) + 1] ELSE p - 1)
                    = IF p \in go THEN u[nx[p]] ELSE p - 1
      <3>1. p <= Len(buf) /\ whole(p) <=> p \in go
        <4> HIDE DEF whole, buf
        <4> QED BY <1>2
      <3>2. p \in go => nx[p] = last(p) + 1
        BY <1>4
      <3> HIDE DEF whole, go, nx, last
      <3> QED BY <3>1, <3>2
    <2> QED BY <2>1
  <1>7. PICK f \in [1 .. len + 1 -> Nat] : Jumps(len, go, nx, f)
    <2> HIDE DEF go, nx
    <2> QED BY <1>5, JumpsExist
  <1> DEFINE Hop(u, p) == IF p <= Len(buf) /\ whole(p) THEN u[last(p) + 1] ELSE p - 1
  <1>8. \A u : \A p \in 1 .. len + 1 : Hop(u, p) = IF p \in go THEN u[nx[p]] ELSE p - 1
    BY <1>6
  <1>9. \A u : Solves(u) <=> u = [p \in 1 .. len + 1 |-> Hop(u, p)]
    BY <1>2
  <1> HIDE DEF Hop, whole, last, go, nx
  <1>10. Solves(f)
    <2>1. \A p \in 1 .. len + 1 : f[p] = Hop(f, p)
      BY <1>7, <1>8 DEF Jumps
    <2>2. f = [p \in 1 .. len + 1 |-> Hop(f, p)]
      BY <1>7, <2>1
    <2> HIDE DEF Solves
    <2> QED BY <1>9, <2>2
  <1>11. Solves(c)
    <2> HIDE DEF Solves
    <2> QED BY <1>10
  <1> HIDE DEF Solves, c
  <1>12. Jumps(len, go, nx, c)
    <2>1. c = [p \in 1 .. len + 1 |-> Hop(c, p)]
      BY <1>9, <1>11
    <2>2. \A p \in 1 .. len + 1 : c[p] = Hop(c, p)
      BY <2>1
    <2> QED BY <1>8, <2>2 DEF Jumps
  <1>13. /\ c[1] \in 0 .. len
         /\ \A x \in 1 .. c[1] : \E q \in go : q <= x /\ x < nx[q] /\ nx[q] - 1 <= c[1]
         /\ c[1] + 1 \notin go
    BY <1>2, <1>5, <1>12, JumpsCover
  <1>14. ASSUME NEW x \in 1 .. c[1]
         PROVE  \E q, l, g, i : /\ GroupAt(files, s, q, l, g, i)
                                /\ q <= x /\ x <= l /\ l <= c[1]
    <2>1. PICK q \in go : q <= x /\ x < nx[q] /\ nx[q] - 1 <= c[1]
      BY <1>13
    <2>2. PICK g, i : GroupAt(files, s, q, last(q), g, i)
                      /\ last(q) \in q .. len /\ nx[q] = last(q) + 1
      BY <1>4, <2>1
    <2>3. x <= last(q) /\ last(q) <= c[1]
      <3>1. q \in Int
        BY <1>5 DEF Forward
      <3> QED BY <1>13, <2>1, <2>2, <3>1
    <2> QED BY <2>1, <2>2, <2>3
  <1>16. c[1] < Len(s) => ~ WholeAt(files, s, c[1] + 1)
    <2>1. c[1] < Len(s) => c[1] + 1 \in 1 .. len
      BY <1>2, <1>13
    <2> QED BY <1>13, <1>15, <2>1
  <1> QED BY <1>1, <1>2, <1>13, <1>14, <1>16

\* The places q to l of s hold the frames from i on of file f, which are a
\* whole group, and no other place has a frame of that group.
Members(files, s, q, l, f, i) ==
    /\ i \in Nat /\ q \in Nat /\ l \in Nat /\ Len(s) \in Nat
    /\ files[f].texts \in Seq(Texts) /\ Len(files[f].texts) \in Nat
    /\ i \div GroupLen \in Nat
    /\ GroupEnd(Len(files[f].texts), i) = i + (l - q) + 1
    /\ \A j \in 0 .. l - q :
         /\ q + j \in 1 .. Len(s) /\ s[q + j] \in Numbers0(files)
         /\ i + j \in 0 .. Len(files[f].texts) - 1
         /\ KeyOf(files, s[q + j]) = <<files[f].traj, i + j>>
         /\ TextOf(files, s[q + j]) = files[f].texts[i + j + 1]
         /\ ValueOf(files, s[q + j]) = StoredAs(files[f].texts, i + j)
         /\ (i + j) \div GroupLen = i \div GroupLen
    /\ \A y \in 1 .. Len(s) :
         /\ KeyOf(files, s[y])[1] = files[f].traj
         /\ KeyOf(files, s[y])[2] \div GroupLen = i \div GroupLen
         => y \in q .. l

\* The rows of a group are its frames, and no other row is of the group.
LEMMA GroupMembers ==
    ASSUME NEW files, GoodFiles(files), NEW B, B \subseteq Numbers0(files), NEW s, Lists(s, B),
           NEW q, NEW l, NEW f, NEW i, GroupAt(files, s, q, l, f, i)
    PROVE  Members(files, s, q, l, f, i)
  <1>1. PICK n \in Nat : n = Len(files[f].texts)
    BY OffNumbers DEF GroupAt, GoodFiles
  <1>2. /\ files \in Seq(FileSet) /\ f \in 1 .. Len(files) /\ files[f] \in FileSet
        /\ files[f].texts \in Seq(Texts)
    <2>1. files \in Seq(FileSet) /\ f \in 1 .. Len(files)
      BY DEF GoodFiles, GroupAt
    <2>2. files[f] \in FileSet
      BY <2>1
    <2> QED BY <2>1, <2>2 DEF FileSet
  <1>3. PICK off \in Nat : off = Off(files)[f]
    BY <1>2, OffNumbers
  <1>4. i \in 0 .. n - 1 /\ GroupStart(i) = i /\ i \in Nat
    BY <1>1 DEF GroupAt
  <1>5. PICK end \in Nat : /\ end = GroupEnd(n, i) /\ i < end /\ end <= n
                           /\ \A j \in 0 .. n - 1 : j \div GroupLen = i \div GroupLen
                                                      <=> i <= j /\ j < end
    <2>1. /\ GroupEnd(n, i) \in Nat /\ GroupStart(i) <= i /\ i < GroupEnd(n, i)
          /\ GroupEnd(n, i) <= n
          /\ \A j \in 0 .. n - 1 : j \div GroupLen = i \div GroupLen
                                     <=> GroupStart(i) <= j /\ j < GroupEnd(n, i)
      BY <1>4, GroupEnds
    <2> QED BY <1>4, <2>1
  <1>6. /\ q \in 1 .. Len(s) /\ l \in q .. Len(s) /\ Len(s) \in Nat /\ q \in Nat /\ l \in Nat
    <2>1. Len(s) \in Nat
      BY DEF Lists
    <2>2. q \in 1 .. Len(s) /\ l \in q .. Len(s)
      BY DEF GroupAt
    <2> QED BY <2>1, <2>2
  <1>7. l = q + (end - i) - 1 /\ s[q] = off + i /\ \A j \in 0 .. l - q : s[q + j] = s[q] + j
    BY <1>1, <1>3, <1>5 DEF GroupAt
  <1>8. l - q = end - i - 1 /\ end = i + (l - q) + 1
    <2>1. \A u, v, w \in Int : (u + (v - w) - 1) - u = v - w - 1
                                /\ v = w + ((u + (v - w) - 1) - u) + 1
      OBVIOUS
    <2>2. q \in Int /\ end \in Int /\ i \in Int /\ l = q + (end - i) - 1
      BY <1>4, <1>5, <1>6, <1>7
    <2> QED BY <2>1, <2>2, Zenon
  <1>9. ASSUME NEW j \in 0 .. l - q
        PROVE  /\ q + j \in 1 .. Len(s) /\ s[q + j] \in Numbers0(files)
               /\ i + j \in 0 .. Len(files[f].texts) - 1
               /\ KeyOf(files, s[q + j]) = <<files[f].traj, i + j>>
               /\ TextOf(files, s[q + j]) = files[f].texts[i + j + 1]
               /\ ValueOf(files, s[q + j]) = StoredAs(files[f].texts, i + j)
               /\ (i + j) \div GroupLen = i \div GroupLen
    <2>1. q + j \in 1 .. Len(s)
      BY <1>6
    <2>2. i + j \in 0 .. n - 1 /\ i <= i + j /\ i + j < end
      <3>1. j \in Nat /\ j <= end - i - 1
        BY <1>6, <1>8
      <3> QED BY <1>4, <1>5, <3>1
    <2> DEFINE g == off + (i + j)
    <2>3. s[q + j] = g
      <3>1. off + i + j = off + (i + j)
        BY <1>3, <1>4
      <3> QED BY <1>7, <3>1
    <2>4. i + j \in 0 .. Len(files[f].texts) - 1
      BY <1>1, <2>2
    <2>5. g \in Numbers0(files) /\ FileOf(files, g) = f /\ g - Off(files)[f] = i + j
      BY <1>2, <1>3, <2>4, FrameOfFile DEF Numbers0
    <2> HIDE DEF g
    <2>6. /\ KeyOf(files, g) = <<files[f].traj, i + j>>
          /\ TextOf(files, g) = files[f].texts[i + j + 1]
      BY <2>5, FrameFacts
    <2>7. ValueOf(files, g) = StoredAs(files[f].texts, i + j)
      BY <2>5 DEF ValueOf
    <2>8. (i + j) \div GroupLen = i \div GroupLen
      BY <1>5, <2>2
    <2> QED BY <2>1, <2>3, <2>4, <2>5, <2>6, <2>7, <2>8
  <1>10. ASSUME NEW y \in 1 .. Len(s),
                KeyOf(files, s[y])[1] = files[f].traj,
                KeyOf(files, s[y])[2] \div GroupLen = i \div GroupLen
         PROVE  y \in q .. l
    <2>1. s[y] \in Numbers0(files)
      BY DEF Lists
    <2>2. PICK d \in 1 .. Len(files) : d = FileOf(files, s[y])
      BY <1>2, <2>1, FrameAt DEF Numbers0
    <2>3. PICK k : k = s[y] - Off(files)[d] /\ k \in 0 .. Len(files[d].texts) - 1
                   /\ s[y] = Off(files)[d] + k
      <3>1. /\ s[y] - Off(files)[d] \in 0 .. Len(files[d].texts) - 1
            /\ s[y] = Off(files)[d] + (s[y] - Off(files)[d])
        BY <1>2, <2>1, <2>2, FrameAt DEF Numbers0
      <3> QED BY <3>1
    <2>4. KeyOf(files, s[y]) = <<files[d].traj, k>>
      BY <2>1, <2>2, <2>3, FrameFacts
    <2>5. KeyOf(files, s[y])[1] = files[d].traj /\ KeyOf(files, s[y])[2] = k
      BY <2>4
    <2>6. d = f
      BY <1>2, <1>10, <2>5 DEF GoodFiles
    <2>7. k \in 0 .. n - 1 /\ i <= k /\ k < end
      BY <1>1, <1>5, <1>10, <2>3, <2>5, <2>6
    <2>8. k - i \in 0 .. l - q
      BY <1>4, <1>8, <2>7
    <2>9. s[q + (k - i)] = s[q] + (k - i) /\ q + (k - i) \in 1 .. Len(s) /\ q + (k - i) \in q .. l
      BY <1>6, <1>7, <2>8
    <2>10. s[q] + (k - i) = s[y]
      <3>1. s[q] = off + i /\ s[y] = off + k
        BY <1>3, <1>7, <2>3, <2>6
      <3>2. \A u, v, w \in Int : (u + v) + (w - v) = u + w
        OBVIOUS
      <3>3. off \in Int /\ i \in Int /\ k \in Int
        BY <1>3, <1>4, <2>7
      <3>4. (off + i) + (k - i) = off + k
        BY <3>2, <3>3
      <3> QED BY <3>1, <3>4
    <2>11. s[q + (k - i)] = s[y]
      BY <2>9, <2>10
    <2>12. y = q + (k - i)
      BY <2>9, <2>11, ListedTwice
    <2> QED BY <2>9, <2>12
  <1>11. i \div GroupLen \in Nat
    BY <1>4, GroupBounds
  <1> QED BY <1>1, <1>2, <1>4, <1>5, <1>6, <1>8, <1>9, <1>10, <1>11 DEF Members

\* Frames of one group have the same group.
LEMMA SameGroup ==
    ASSUME NEW n \in Nat, NEW i \in 0 .. n - 1, NEW j \in 0 .. n - 1,
           i \div GroupLen = j \div GroupLen
    PROVE  GroupStart(i) = GroupStart(j) /\ GroupEnd(n, i) = GroupEnd(n, j)
  <1>1. GroupStart(i) = GroupStart(j)
    BY DEF GroupStart
  <1> QED BY <1>1 DEF GroupEnd

\* pack_held stores whole groups as the serial ingest stores their frames.
LEMMA PackedGroups ==
    ASSUME NEW files, GoodFiles(files), NEW B, B \subseteq Numbers0(files), NEW s, Lists(s, B),
           NEW k \in 0 .. Len(s),
           \A x \in 1 .. k : \E q, l, f, i : /\ GroupAt(files, s, q, l, f, i)
                                             /\ q <= x /\ x <= l /\ l <= k
    PROVE  RowsHold(Packed(SubSeq(RowsFor(files, s), 1, k)), files, Low(s, k))
  <1> DEFINE rows == SubSeq(RowsFor(files, s), 1, k)
             P == Packed(rows)
  <1>1. PICK len \in Nat : len = Len(s) /\ k \in Nat /\ k <= len
    BY DEF Lists
  <1>2. DOMAIN rows = 1 .. k /\ \A j \in 1 .. k : rows[j] = RowsFor(files, s)[j]
    <2>1. RowsFor(files, s) = [i \in 1 .. len |-> RowOf(files, s[i])]
      BY <1>1 DEF RowsFor
    <2> DEFINE all == [i \in 1 .. len |-> RowOf(files, s[i])]
               X == {RowOf(files, s[i]) : i \in 1 .. len}
    <2>2. all \in [1 .. len -> X]
      OBVIOUS
    <2>3. all \in Seq(X) /\ Len(all) = len
      <3> HIDE DEF all, X
      <3> QED BY <2>2, FunctionIsSeq
    <2> HIDE DEF all
    <2>4. DOMAIN SubSeq(all, 1, k) = 1 .. k /\ \A j \in 1 .. k : SubSeq(all, 1, k)[j] = all[j]
      BY <1>1, <2>3
    <2> QED BY <2>1, <2>4 DEF all
  <1>3. \A j \in 1 .. k : /\ j \in 1 .. len /\ rows[j].key = KeyOf(files, s[j])
                          /\ rows[j].hash = TextOf(files, s[j]) /\ rows[j].text = TextOf(files, s[j])
    <2>1. \A j \in 1 .. k : j \in 1 .. Len(s)
      BY <1>1
    <2> HIDE DEF rows
    <2> QED BY <1>1, <1>2, <2>1, RowsForFacts
  <1> HIDE DEF rows
  <1> DEFINE group(x) == {j \in DOMAIN rows : /\ rows[j].key[1] = rows[x].key[1]
                                         /\ rows[j].key[2] \div GroupLen = rows[x].key[2] \div GroupLen}
             first(x) == CHOOSE p \in group(x) : \A j \in group(x) : p <= j
             last(x) == CHOOSE p \in group(x) : \A j \in group(x) : j <= p
             texts(x) == [j \in 1 .. last(x) - first(x) + 1 |-> rows[first(x) + j - 1].text]
  <1>4. P = [x \in DOMAIN rows |-> [key |-> rows[x].key, hash |-> rows[x].hash,
                               value |-> PackAligned(rows[first(x)].key[2], texts(x))[rows[x].key[2]]]]
    BY DEF Packed
  <1>5. ASSUME NEW x \in 1 .. k
        PROVE  PackAligned(rows[first(x)].key[2], texts(x))[rows[x].key[2]] = ValueOf(files, s[x])
    <2>1. PICK q, l, f, i : /\ GroupAt(files, s, q, l, f, i)
                            /\ q <= x /\ x <= l /\ l <= k
      OBVIOUS
    <2>0. Members(files, s, q, l, f, i)
      BY <2>1, GroupMembers
    <2>2. PICK n, file : n \in Nat /\ file = files[f].texts /\ n = Len(file) /\ file \in Seq(Texts)
      BY <2>0 DEF Members
    <2>3. /\ i \in Nat /\ q \in Nat /\ l \in Nat /\ i \div GroupLen \in Nat
          /\ GroupEnd(n, i) = i + (l - q) + 1
      BY <2>0, <2>2 DEF Members
    <2>4. \A j \in 0 .. l - q :
            /\ q + j \in 1 .. len /\ s[q + j] \in Numbers0(files)
            /\ i + j \in 0 .. n - 1
            /\ KeyOf(files, s[q + j]) = <<files[f].traj, i + j>>
            /\ TextOf(files, s[q + j]) = file[i + j + 1]
            /\ ValueOf(files, s[q + j]) = StoredAs(file, i + j)
            /\ (i + j) \div GroupLen = i \div GroupLen
      BY <1>1, <2>0, <2>2 DEF Members
    <2>5. \A y \in 1 .. k :
            /\ KeyOf(files, s[y])[1] = files[f].traj
            /\ KeyOf(files, s[y])[2] \div GroupLen = i \div GroupLen
            => y \in q .. l
      BY <1>1, <1>3, <2>0 DEF Members
    <2>6. i \in 0 .. n - 1 /\ GroupStart(i) = i
      BY <2>1, <2>2 DEF GroupAt
    <2>7. q \in 1 .. k /\ l \in q .. k /\ x \in q .. l
      BY <1>1, <2>1, <2>3 DEF GroupAt
    <2>8. PICK u \in 0 .. l - q : x = q + u
      BY <2>3, <2>7
    <2>9. \A j \in 0 .. l - q : rows[q + j].key = <<files[f].traj, i + j>> /\ q + j \in 1 .. k
                                /\ rows[q + j].text = file[i + j + 1]
      <3>1. \A j \in 0 .. l - q : q + j \in 1 .. k
        BY <1>1, <2>3, <2>7
      <3> QED BY <1>3, <2>4, <3>1
    <2>10. \A j \in 0 .. l - q : rows[q + j].key[1] = files[f].traj /\ rows[q + j].key[2] = i + j
      BY <2>9
    <2>11. group(x) = q .. l
      <3>1. rows[x].key[1] = files[f].traj /\ rows[x].key[2] \div GroupLen = i \div GroupLen
        BY <2>4, <2>8, <2>10
      <3>2. ASSUME NEW j \in group(x)
            PROVE  j \in q .. l
        <4>1. j \in 1 .. k /\ KeyOf(files, s[j])[1] = files[f].traj
              /\ KeyOf(files, s[j])[2] \div GroupLen = i \div GroupLen
          BY <1>2, <1>3, <3>1
        <4> QED BY <2>5, <4>1
      <3>3. ASSUME NEW j \in q .. l
            PROVE  j \in group(x)
        <4>1. PICK v \in 0 .. l - q : j = q + v
          BY <2>3
        <4>2. rows[j].key[1] = files[f].traj /\ rows[j].key[2] \div GroupLen = i \div GroupLen
              /\ j \in 1 .. k
          BY <2>4, <2>9, <2>10, <4>1
        <4> QED BY <1>2, <3>1, <4>2
      <3> QED BY <3>2, <3>3
    <2>12. first(x) = q /\ last(x) = l
      <3>1. q \in q .. l /\ l \in q .. l /\ \A j \in q .. l : q <= j /\ j <= l
        BY <2>3, <2>7
      <3>2. \A p \in q .. l : (p <= q => p = q) /\ (l <= p => p = l)
        BY <2>3
      <3> HIDE DEF group
      <3>3. first(x) \in q .. l /\ \A j \in q .. l : first(x) <= j
        BY <2>11, <3>1
      <3>4. last(x) \in q .. l /\ \A j \in q .. l : j <= last(x)
        BY <2>11, <3>1
      <3> HIDE DEF first, last
      <3> QED BY <3>1, <3>2, <3>3, <3>4
    <2>13. rows[first(x)].key[2] = i
      <3>1. 0 \in 0 .. l - q /\ q + 0 = q /\ i + 0 = i
        BY <2>3, <2>7
      <3> HIDE DEF first
      <3> QED BY <2>10, <2>12, <3>1
    <2>14. texts(x) = GroupTexts(file, i)
      <3> DEFINE w == l - q + 1
      <3>1. w \in Nat
        BY <2>3, <2>7
      <3>2. ASSUME NEW j \in 1 .. w
            PROVE  rows[q + j - 1].text = file[i + j]
        <4>1. j - 1 \in 0 .. l - q /\ q + (j - 1) = q + j - 1 /\ i + (j - 1) + 1 = i + j
          BY <2>3, <3>1
        <4> QED BY <2>9, <4>1
      <3>3. texts(x) = [j \in 1 .. w |-> rows[q + j - 1].text]
        <4> HIDE DEF first, last
        <4> QED BY <2>12
      <3>4. [j \in 1 .. w |-> rows[q + j - 1].text] = [j \in 1 .. w |-> file[i + j]]
        BY <3>2
      <3>5. GroupEnd(n, i) - GroupStart(i) = w
        BY <2>3, <2>6
      <3>6. GroupTexts(file, i) = [j \in 1 .. w |-> file[i + j]]
        BY <2>2, <2>6, <3>5 DEF GroupTexts
      <3> QED BY <3>3, <3>4, <3>6
    <2> DEFINE j == i + u
    <2>15. /\ rows[x].key[2] = j /\ j \in 0 .. n - 1 /\ j \div GroupLen = i \div GroupLen
           /\ ValueOf(files, s[x]) = StoredAs(file, j)
      BY <2>4, <2>8, <2>10
    <2> HIDE DEF j
    <2>16. GroupStart(j) = i /\ GroupTexts(file, j) = GroupTexts(file, i)
      <3>1. GroupStart(j) = GroupStart(i) /\ GroupEnd(n, j) = GroupEnd(n, i)
        BY <2>2, <2>6, <2>15, SameGroup
      <3>2. \A y : GroupTexts(file, y) = [z \in 1 .. GroupEnd(Len(file), y) - GroupStart(y) |->
                                          file[GroupStart(y) + z]]
        BY Zenon DEF GroupTexts
      <3>3. PICK a, b : /\ a = GroupStart(i) /\ b = GroupEnd(Len(file), i)
                       /\ GroupStart(j) = a /\ GroupEnd(Len(file), j) = b
        BY <2>2, <3>1
      <3>4. GroupTexts(file, j) = [z \in 1 .. b - a |-> file[a + z]]
        BY <3>2, <3>3, Zenon
      <3>5. GroupTexts(file, i) = [z \in 1 .. b - a |-> file[a + z]]
        BY <3>2, <3>3, Zenon
      <3>6. GroupStart(j) = i
        BY <2>6, <3>1
      <3> QED BY <3>4, <3>5, <3>6
    <2>17. PackAligned(GroupStart(j), GroupTexts(file, j))[j] = StoredAs(file, j)
      BY <2>2, <2>15, PackedAlone
    <2> HIDE DEF texts, first
    <2> QED BY <2>13, <2>14, <2>15, <2>16, <2>17
  <1> DEFINE low == Low(s, k)
             t == SubSeq(s, 1, k)
  <1>6. Lists(t, low) /\ Len(t) = k /\ \A j \in 1 .. k : t[j] = s[j]
    <2>1. k \in 0 .. Len(s)
      OBVIOUS
    <2>2. Lists(t, low)
      BY <2>1, ListsCut
    <2>3. Len(t) = k
      BY <2>1, ListsCut
    <2>4. \A j \in 1 .. k : t[j] = s[j]
      BY <2>1, ListsCut
    <2> QED BY <2>2, <2>3, <2>4
  <1>7. \A x \in 1 .. k : /\ P[x].key = rows[x].key /\ P[x].hash = rows[x].hash
                          /\ P[x].value = PackAligned(rows[first(x)].key[2], texts(x))[rows[x].key[2]]
    <2> HIDE DEF P, texts, first
    <2> QED BY <1>2, <1>4
  <1>8. DOMAIN P = 1 .. k
    <2> HIDE DEF P, texts, first
    <2> QED BY <1>2, <1>4
  <1> HIDE DEF P, texts, first, t, low
  <1>9. \A x \in 1 .. k : /\ P[x].key = KeyOf(files, t[x]) /\ P[x].hash = TextOf(files, t[x])
                          /\ P[x].value = ValueOf(files, t[x])
    BY <1>3, <1>5, <1>6, <1>7
  <1>10. RowsHold(P, files, low)
    BY <1>6, <1>8, <1>9 DEF RowsHold
  <1> QED BY <1>10 DEF P, rows, low

-----------------------------------------------------------------------------
(* What a batch brings.                                                    *)

\* The frames of environment e.
InEnv(e) == {g \in Numbers0(call.files) : To(g).env = e}

\* Rank r writes environment e.
Owns(r, e) == e % Size = r

\* The frames of the batch that rank r writes.
SentTo(r) == {g \in range.b0 .. range.b1 - 1 : To(g).owner = r}

\* The records of a list of frames.
RecordsFor(s) == [i \in 1 .. Len(s) |-> Record(s[i])]

\* A frame, its environment and its owner, by its number.
LEMMA ToIs ==
    ASSUME NEW g
    PROVE  /\ Frame(g).key = KeyOf(call.files, g) /\ Frame(g).text = TextOf(call.files, g)
           /\ To(g).env = EnvOf(layout, call.files, g)
           /\ To(g).owner = To(g).env % Size
           /\ Route(KeyOf(call.files, g)[1]).env = To(g).env
  BY DEF Frame, KeyOf, TextOf, To, EnvOf, Route, RouteIn

\* A winner is its own winner.
LEMMA WinnerIs ==
    ASSUME NEW g \in Nat
    PROVE  /\ Winner(g) \in 0 .. g
           /\ Frame(Winner(g)).text = Frame(g).text
           /\ To(Winner(g)).env = To(g).env
           /\ Winner(Winner(g)) = Winner(g)
  <1> DEFINE Same(w, h) == Frame(w).text = Frame(h).text /\ To(w).env = To(h).env
             Wins(w, h) == Same(w, h) /\ \A v \in 0 .. w - 1 : ~ Same(v, h)
  <1>1. \A h : Winner(h) = CHOOSE w \in 0 .. h : Wins(w, h)
    BY DEF Winner
  <1> HIDE DEF Same
  <1>2. ASSUME NEW h \in Nat
        PROVE  Winner(h) \in 0 .. h /\ Wins(Winner(h), h)
    <2> DEFINE E == {w \in 0 .. h : Same(w, h)}
    <2>1. h \in E /\ E \subseteq Nat
      BY DEF Same
    <2>2. PICK m \in E : \A j \in E : m <= j
      <3> HIDE DEF E
      <3> QED BY <2>1, LeastNat
    <2>3. m \in 0 .. h /\ Wins(m, h)
      BY <2>2
    <2> HIDE DEF Wins
    <2> QED BY <1>1, <2>3
  <1>3. PICK w \in 0 .. g : w = Winner(g) /\ Wins(w, g)
    BY <1>2
  <1>4. PICK v \in 0 .. w : v = Winner(w) /\ Wins(v, w)
    <2> HIDE DEF Wins
    <2> QED BY <1>2, <1>3
  <1>5. Same(v, g)
    BY <1>3, <1>4 DEF Same
  <1>6. v = w
    BY <1>3, <1>4, <1>5
  <1> QED BY <1>3, <1>4, <1>6 DEF Same

\* A record that decodes stands for its frame's own text.
LEMMA PayloadIs ==
    ASSUME NEW r, NEW s, NEW S, Lists(s, S), range.b0 \in Nat, inbox[r] = RecordsFor(s),
           NEW i \in 1 .. Len(s),
           Payload(r, i) # Nil \/ Winner(inbox[r][i].g) < range.b0
    PROVE  inbox[r][i].g = s[i] /\ Payload(r, i) = Frame(s[i]).text
  <1>1. PICK len \in Nat : len = Len(s) /\ \A j \in 1 .. len : s[j] \in Nat
    <2>1. s \in Seq(Nat)
      BY DEF Lists
    <2>2. Len(s) \in Nat /\ \A j \in 1 .. Len(s) : s[j] \in Nat
      BY <2>1
    <2> QED BY <2>2
  <1>2. \A j \in 1 .. len : /\ inbox[r][j].g = s[j]
                            /\ inbox[r][j].text = IF Winner(s[j]) = s[j] \/ Winner(s[j]) < range.b0
                                                  THEN Frame(s[j]).text ELSE Nil
    <2>1. inbox[r] = [j \in 1 .. len |-> Record(s[j])]
      BY <1>1 DEF RecordsFor
    <2>2. \A j \in 1 .. len : inbox[r][j] = Record(s[j])
      BY <2>1
    <2>3. \A g : /\ Record(g).g = g
                 /\ Record(g).text = IF Winner(g) = g \/ Winner(g) < range.b0
                                     THEN Frame(g).text ELSE Nil
      BY DEF Record, SendStoredBytes
    <2> QED BY <2>2, <2>3
  <1>3. PICK g \in Nat : g = s[i] /\ inbox[r][i].g = g
    BY <1>1, <1>2
  <1>4. PICK w \in 0 .. g : /\ w = Winner(g) /\ Frame(w).text = Frame(g).text /\ Winner(w) = w
    BY WinnerIs
  <1> DEFINE kept == {j \in 1 .. i - 1 : inbox[r][j].g = w}
  <1>5. Payload(r, i) = IF w = g \/ w < range.b0 \/ kept = {}
                        THEN inbox[r][i].text
                        ELSE inbox[r][CHOOSE j \in kept : TRUE].text
    BY <1>3, <1>4 DEF Payload
  <1>6. inbox[r][i].text = IF w = g \/ w < range.b0 THEN Frame(g).text ELSE Nil
    BY <1>1, <1>2, <1>3, <1>4
  <1>7. CASE w = g \/ w < range.b0
    BY <1>3, <1>5, <1>6, <1>7
  <1>8. CASE ~ (w = g \/ w < range.b0)
    <2>1. kept # {}
      BY <1>3, <1>4, <1>5, <1>6, <1>8
    <2>2. PICK j \in kept : j = CHOOSE k \in kept : TRUE
      BY <2>1
    <2>3. j \in 1 .. len /\ s[j] = w
      BY <1>1, <1>2
    <2>4. inbox[r][j].text = Frame(w).text
      BY <1>2, <1>4, <2>3
    <2>5. Payload(r, i) = inbox[r][j].text
      <3> HIDE DEF kept
      <3> QED BY <1>5, <1>8, <2>1, <2>2
    <2> QED BY <1>3, <1>4, <2>4, <2>5
  <1> QED BY <1>7, <1>8

\* What decode_batch adds to the frames that wait.
LEMMA Decoded ==
    ASSUME GoodFiles(call.files), range.b0 \in Nat, range.b1 \in Nat, range.b1 <= N,
           NEW r \in Ranks, DecodeBatch(r), vote \in [Ranks -> {"none", "ok", "err"}],
           vote'[r] = "ok",
           NEW s, Lists(s, SentTo(r)), inbox[r] = RecordsFor(s),
           NEW e \in EnvIds, Owns(r, e)
    PROVE  \E t : /\ Lists(t, {g \in InEnv(e) : range.b0 <= g /\ g < range.b1})
                  /\ bufs'[e] = bufs[e] \o RowsFor(call.files, t)
  <1> DEFINE files == call.files
             rows == [i \in DOMAIN inbox[r] |->
                        [key |-> Frame(inbox[r][i].g).key, hash |-> Frame(inbox[r][i].g).text,
                         text |-> Payload(r, i)]]
  <1>1. PICK len \in Nat : len = Len(s) /\ DOMAIN inbox[r] = 1 .. len
    BY DEF Lists, RecordsFor
  <1>0. \A i \in 1 .. Len(s) :
            Payload(r, i) # Nil \/ Winner(inbox[r][i].g) < range.b0
              => inbox[r][i].g = s[i] /\ Payload(r, i) = Frame(s[i]).text
    BY PayloadIs
  <1>2. /\ vote' = [vote EXCEPT ![r] = IF \A i \in DOMAIN rows :
                                            rows[i].text # Nil \/ Winner(inbox[r][i].g) < range.b0
                                       THEN "ok" ELSE "err"]
        /\ bufs' = [d \in EnvIds |-> IF d % Size # r THEN bufs[d] ELSE bufs[d] \o RowsOf(rows, d)]
    BY DEF DecodeBatch, Vote
  <1>3. \A i \in DOMAIN rows : rows[i].text # Nil \/ Winner(inbox[r][i].g) < range.b0
    <2> DEFINE Fine == \A i \in DOMAIN rows :
                         rows[i].text # Nil \/ Winner(inbox[r][i].g) < range.b0
    <2> HIDE DEF Fine
    <2>1. vote' = [vote EXCEPT ![r] = IF Fine THEN "ok" ELSE "err"]
      BY <1>2 DEF Fine
    <2>2. Fine
      BY <2>1
    <2> QED BY <2>2 DEF Fine
  <1>4. bufs'[e] = bufs[e] \o RowsOf(rows, e)
    BY <1>2 DEF Owns
  <1>5. DOMAIN rows = 1 .. len /\ \A i \in 1 .. len : rows[i].text = Payload(r, i)
    BY <1>1
  <1>6. ASSUME NEW i \in 1 .. len
        PROVE  rows[i] = RowOf(files, s[i])
    <2>1. inbox[r][i].g = s[i] /\ Payload(r, i) = Frame(s[i]).text
      <3>1. Payload(r, i) # Nil \/ Winner(inbox[r][i].g) < range.b0
        BY <1>3, <1>5
      <3>2. i \in 1 .. Len(s)
        BY <1>1
      <3> QED BY <1>0, <3>1, <3>2
    <2>2. rows[i] = [key |-> Frame(s[i]).key, hash |-> Frame(s[i]).text, text |-> Frame(s[i]).text]
      BY <1>1, <2>1
    <2> QED BY <2>2, ToIs DEF RowOf
  <1> HIDE DEF rows
  <1> DEFINE T == {g \in Numbers0(files) : To(g).env = e}
             o == Ascending({i \in DOMAIN rows : Route(rows[i].key[1]).env = e})
             t == At(s, o)
  <1>7. \A i \in 1 .. len : s[i] \in Numbers0(files)
    <2>1. N \in Nat
      BY OffNumbers DEF N, GoodFiles
    <2>2. \A i \in 1 .. len : s[i] \in range.b0 .. range.b1 - 1
      BY <1>1 DEF Lists, SentTo
    <2> QED BY <2>1, <2>2 DEF Numbers0, N
  <1>8. {i \in DOMAIN rows : Route(rows[i].key[1]).env = e} = Places(s, T)
    <2>1. ASSUME NEW i \in 1 .. len
          PROVE  Route(rows[i].key[1]).env = To(s[i]).env
      <3>1. rows[i].key = KeyOf(files, s[i])
        <4>1. RowOf(files, s[i]).key = KeyOf(files, s[i])
          BY DEF RowOf
        <4> QED BY <1>6, <4>1
      <3> QED BY <3>1, ToIs
    <2> QED BY <1>1, <1>5, <1>7, <2>1 DEF Places
  <1>9. Lists(o, Places(s, T))
    <2>1. PICK m \in Nat : m = len + 1
      BY <1>1
    <2>2. Places(s, T) \in SUBSET (0 .. m - 1)
      BY <1>1, <2>1 DEF Places
    <2>3. Lists(Ascending(Places(s, T)), Places(s, T))
      <3> HIDE DEF T
      <3> QED BY <2>2, AscendingLists
    <2> QED BY <1>8, <2>3
  <1>10. /\ Lists(t, SentTo(r) \cap T) /\ DOMAIN t = 1 .. Len(o) /\ Len(t) = Len(o)
         /\ \A j \in 1 .. Len(o) : o[j] \in 1 .. Len(s)
    <2> HIDE DEF o, T
    <2>1. Lists(s, SentTo(r)) /\ Lists(o, Places(s, T))
      BY <1>9
    <2>2. Lists(At(s, o), SentTo(r) \cap T)
      BY <2>1, ListsSome, Zenon
    <2>3. DOMAIN At(s, o) = 1 .. Len(o) /\ Len(At(s, o)) = Len(o)
      <3>1. DOMAIN At(s, o) = 1 .. Len(o)
        BY <2>1 DEF Lists, At
      <3>2. Len(At(s, o)) = Len(o)
        BY <2>1, <2>2, <3>1 DEF Lists
      <3> QED BY <3>1, <3>2
    <2>4. \A j \in 1 .. Len(o) : o[j] \in 1 .. Len(s)
      BY <2>1, ListsSome, Zenon
    <2> QED BY <2>2, <2>3, <2>4
  <1>11. RowsOf(rows, e) = RowsFor(files, t)
    <2>1. RowsOf(rows, e) = [j \in DOMAIN o |-> rows[o[j]]]
      BY DEF RowsOf
    <2>2. DOMAIN o = 1 .. Len(o) /\ Len(o) \in Nat
      <3> HIDE DEF o, T
      <3> QED BY <1>9 DEF Lists
    <2>3. \A j \in 1 .. Len(o) : t[j] = s[o[j]] /\ rows[o[j]] = RowOf(files, s[o[j]])
      <3> HIDE DEF o
      <3> QED BY <1>1, <1>6, <1>10, <2>2 DEF At
    <2> HIDE DEF o, t
    <2>4. RowsFor(files, t) = [j \in 1 .. Len(o) |-> RowOf(files, t[j])]
      BY <1>10 DEF RowsFor
    <2> QED BY <2>1, <2>2, <2>3, <2>4
  <1>12. SentTo(r) \cap T = {g \in InEnv(e) : range.b0 <= g /\ g < range.b1}
    <2>1. \A g : To(g).env = e => To(g).owner = r
      BY ToIs DEF Owns
    <2>2. \A g \in Numbers0(files) : g \in range.b0 .. range.b1 - 1
                                        <=> range.b0 <= g /\ g < range.b1
      BY OffNumbers DEF Numbers0, GoodFiles
    <2> QED BY <2>1, <2>2 DEF SentTo, InEnv
  <1> HIDE DEF t
  <1> QED BY <1>4, <1>10, <1>11, <1>12

-----------------------------------------------------------------------------
(* What an exchange brings.                                                *)

\* Blocks begin and end at frame numbers.
BlockTypes(n, size) ==
    \A r \in 0 .. size - 1 : BlockStart(n, size, r) \in Nat /\ BlockEnd(n, size, r) \in Nat

\* Blocks begin and end at frame numbers.
LEMMA BlocksAreNat ==
    ASSUME NEW n \in Nat, NEW size \in Nat \ {0}
    PROVE  BlockTypes(n, size)
  <1> DEFINE base == n \div size
             rem  == n % size
  <1>1. base \in Nat /\ rem \in 0 .. size - 1
    BY Division
  <1>2. ASSUME NEW r \in 0 .. size - 1
        PROVE  BlockStart(n, size, r) \in Nat /\ BlockEnd(n, size, r) \in Nat
    <2>1. BlockStart(n, size, r) = r * base + Least(r, rem)
      BY DEF BlockStart
    <2>2. BlockEnd(n, size, r)
            = BlockStart(n, size, r) + base + (IF r < rem THEN 1 ELSE 0)
      BY DEF BlockEnd
    <2> HIDE DEF base, rem
    <2>3. r * base \in Nat /\ Least(r, rem) \in Nat
      BY <1>1, SMT DEF Least
    <2>4. BlockStart(n, size, r) \in Nat
      BY <2>1, <2>3
    <2> QED BY <1>1, <2>2, <2>4
  <1> QED BY <1>2 DEF BlockTypes

\* Where the first i blocks end.
EndOf(i) == IF i = 0 THEN 0 ELSE BlockEnd(N, Size, i - 1)

\* Each block begins where the one before it ends.
LEMMA EndsOfBlocks ==
    ASSUME N \in Nat
    PROVE  /\ EndOf(0) = 0 /\ EndOf(Size) = N
           /\ \A i \in 0 .. Size : EndOf(i) \in Nat
           /\ \A i \in 1 .. Size : /\ BlockStart(N, Size, i - 1) = EndOf(i - 1)
                                   /\ BlockEnd(N, Size, i - 1) = EndOf(i)
                                   /\ EndOf(i - 1) <= EndOf(i)
  <1>1. PICK n \in Nat, size \in Nat \ {0} : n = N /\ size = Size
    BY MpiAssumption
  <1>2. /\ BlockStart(n, size, 0) = 0 /\ BlockEnd(n, size, size - 1) = n
        /\ \A r \in 0 .. size - 2 : BlockEnd(n, size, r) = BlockStart(n, size, r + 1)
        /\ \A r \in 0 .. size - 1 :
               BlockEnd(n, size, r) - BlockStart(n, size, r) \in {n \div size, n \div size + 1}
    BY BlocksTile
  <1>3. \A r \in 0 .. size - 1 : BlockStart(n, size, r) \in Nat /\ BlockEnd(n, size, r) \in Nat
    BY BlocksAreNat DEF BlockTypes
  <1>4. EndOf(0) = 0 /\ \A i : i # 0 => EndOf(i) = BlockEnd(n, size, i - 1)
    BY <1>1 DEF EndOf
  <1>5. EndOf(size) = n
    BY <1>2, <1>4
  <1>6. \A i \in 0 .. size : EndOf(i) \in Nat
    BY <1>3, <1>4
  <1>7. ASSUME NEW i \in 1 .. size
        PROVE  BlockStart(n, size, i - 1) = EndOf(i - 1) /\ BlockEnd(n, size, i - 1) = EndOf(i)
    <2>1. CASE i = 1
      BY <1>2, <1>4, <2>1
    <2>2. CASE i # 1
      <3>1. i - 2 \in 0 .. size - 2 /\ (i - 2) + 1 = i - 1 /\ (i - 1) - 1 = i - 2 /\ i - 1 # 0
        BY <2>2
      <3> QED BY <1>2, <1>4, <3>1
    <2> QED BY <2>1, <2>2
  <1>8. ASSUME NEW i \in 1 .. size
        PROVE  EndOf(i - 1) <= EndOf(i)
    <2>1. PICK d \in Nat : d = n \div size
      BY Division
    <2>2. BlockEnd(n, size, i - 1) - BlockStart(n, size, i - 1) \in {d, d + 1}
      BY <1>2, <2>1
    <2>3. EndOf(i) \in Nat /\ EndOf(i - 1) \in Nat
      BY <1>6
    <2> QED BY <1>7, <2>2, <2>3
  <1> QED BY <1>1, <1>4, <1>5, <1>6, <1>7, <1>8

\* What rank r is sent of frames lo .. hi - 1.
SentOf(r, lo, hi) == {g \in SentTo(r) : lo <= g /\ g < hi}

\* What a rank sends another is of its block.
LEMMA BlockSends ==
    ASSUME N \in Nat, range.b0 \in Nat, range.b1 \in Nat, NEW r, NEW i \in 1 .. Size
    PROVE  SentSet(i - 1, r) = SentOf(r, EndOf(i - 1), EndOf(i))
  <1>1. PICK lo \in Nat, hi \in Nat : lo = EndOf(i - 1) /\ hi = EndOf(i)
    <2>1. PICK size \in Nat : size = Size
      BY MpiAssumption
    <2>2. i - 1 \in 0 .. size /\ i \in 0 .. size
      BY <2>1
    <2> QED BY <2>1, <2>2, EndsOfBlocks
  <1>2. PICK b0 \in Nat, b1 \in Nat : b0 = range.b0 /\ b1 = range.b1
    OBVIOUS
  <1>3. SentSet(i - 1, r) = {g \in Greatest(lo, b0) .. Least(hi, b1) - 1 : To(g).owner = r}
    BY <1>1, <1>2, EndsOfBlocks DEF SentSet
  <1>4. SentOf(r, lo, hi) = {g \in b0 .. b1 - 1 : To(g).owner = r /\ lo <= g /\ g < hi}
    BY <1>2 DEF SentOf, SentTo
  <1>5. \A g : g \in Greatest(lo, b0) .. Least(hi, b1) - 1
                 <=> g \in b0 .. b1 - 1 /\ lo <= g /\ g < hi
    BY DEF Greatest, Least
  <1> QED BY <1>1, <1>3, <1>4, <1>5

\* The records of two lists.
LEMMA RecordsConcat ==
    ASSUME NEW S, NEW T, NEW s, NEW t, Lists(s, S), Lists(t, T),
           \A g \in S, h \in T : g < h
    PROVE  RecordsFor(s \o t) = RecordsFor(s) \o RecordsFor(t)
  <1>1. PICK m \in Nat, n \in Nat : m = Len(s) /\ n = Len(t)
    BY DEF Lists
  <1>2. /\ Len(s \o t) = m + n
        /\ \A i \in 1 .. m + n : (s \o t)[i] = IF i <= m THEN s[i] ELSE t[i - m]
    BY <1>1, ListsConcat
  <1>3. RecordsFor(s \o t) = [i \in 1 .. m + n |-> Record((s \o t)[i])]
    BY <1>2 DEF RecordsFor
  <1>4. /\ RecordsFor(s) = [i \in 1 .. m |-> Record(s[i])]
        /\ RecordsFor(t) = [i \in 1 .. n |-> Record(t[i])]
    BY <1>1 DEF RecordsFor
  <1> DEFINE X == {Record(g) : g \in Nat}
  <1>5. (\A i \in 1 .. m : s[i] \in Nat) /\ (\A i \in 1 .. n : t[i] \in Nat)
    BY <1>1 DEF Lists
  <1>6. /\ RecordsFor(s) \in [1 .. m -> X] /\ RecordsFor(t) \in [1 .. n -> X]
    BY <1>4, <1>5
  <1> HIDE DEF X
  <1>7. /\ RecordsFor(s) \in Seq(X) /\ Len(RecordsFor(s)) = m
        /\ RecordsFor(t) \in Seq(X) /\ Len(RecordsFor(t)) = n
    BY <1>6, FunctionIsSeq
  <1> DEFINE a == RecordsFor(s)
             b == RecordsFor(t)
             c == a \o b
  <1>8. /\ c \in Seq(X) /\ Len(c) = m + n
        /\ \A i \in 1 .. m : c[i] = a[i]
        /\ \A i \in 1 .. n : c[m + i] = b[i]
    <2> HIDE DEF a, b
    <2>1. a \in Seq(X) /\ Len(a) = m /\ b \in Seq(X) /\ Len(b) = n
      BY <1>7 DEF a, b
    <2> QED BY <2>1, ConcatAt
  <1>9. c = [i \in 1 .. m + n |-> c[i]]
    <2> HIDE DEF c
    <2> QED BY <1>8
  <1>10. ASSUME NEW i \in 1 .. m + n
         PROVE  c[i] = Record((s \o t)[i])
    <2>1. CASE i <= m
      <3>1. c[i] = a[i] /\ (s \o t)[i] = s[i] /\ i \in 1 .. m
        BY <1>2, <1>8, <2>1
      <3> QED BY <1>4, <3>1
    <2>2. CASE ~ (i <= m)
      <3>1. PICK j \in 1 .. n : i = m + j
        BY <2>2
      <3>2. c[i] = b[j] /\ (s \o t)[i] = t[j]
        BY <1>2, <1>8, <2>2, <3>1
      <3> QED BY <1>4, <3>2
    <2> QED BY <2>1, <2>2
  <1> HIDE DEF c
  <1>11. c = RecordsFor(s \o t)
    BY <1>3, <1>9, <1>10
  <1> QED BY <1>11 DEF c

\* What rank r has been brought of the batch.
Brought(r, box) == \E s : Lists(s, SentTo(r)) /\ box = RecordsFor(s)

\* A message lists a block's frames, and is a sequence of records.
LEMMA MessageIs ==
    ASSUME N \in Nat, range.b0 \in Nat, range.b1 \in Nat, NEW r, NEW i \in 1 .. Size
    PROVE  LET o == Ascending(SentSet(i - 1, r))
           IN  /\ Lists(o, SentOf(r, EndOf(i - 1), EndOf(i)))
               /\ Message(i - 1, r) = RecordsFor(o)
               /\ Message(i - 1, r) \in Seq({Record(g) : g \in Nat})
  <1> DEFINE S == SentSet(i - 1, r)
             o == Ascending(S)
             X == {Record(g) : g \in Nat}
  <1>1. S = SentOf(r, EndOf(i - 1), EndOf(i))
    BY BlockSends
  <1>2. PICK b1 \in Nat : b1 = range.b1
    OBVIOUS
  <1>3. S \in SUBSET (0 .. b1 - 1)
    <2>1. SentTo(r) \subseteq 0 .. b1 - 1
      BY <1>2 DEF SentTo
    <2> QED BY <1>1, <2>1 DEF SentOf
  <1> HIDE DEF S
  <1>4. Lists(o, S)
    BY <1>3, AscendingLists
  <1>5. Message(i - 1, r) = [k \in DOMAIN o |-> Record(o[k])]
    BY DEF Message, S
  <1> HIDE DEF o
  <1>6. PICK len \in Nat : len = Len(o) /\ DOMAIN o = 1 .. len
    BY <1>4 DEF Lists
  <1>7. Message(i - 1, r) = RecordsFor(o)
    BY <1>5, <1>6 DEF RecordsFor
  <1>8. Message(i - 1, r) \in [1 .. len -> X]
    <2>1. \A k \in 1 .. len : o[k] \in Nat
      BY <1>4, <1>6 DEF Lists
    <2> QED BY <1>5, <1>6, <2>1
  <1> HIDE DEF X
  <1>9. Message(i - 1, r) \in Seq(X)
    BY <1>8, FunctionIsSeq
  <1> QED BY <1>1, <1>4, <1>7, <1>9 DEF o, S, X

\* exchange_batch brings a rank the frames of the batch it writes, in order.
LEMMA Exchanged ==
    ASSUME N \in Nat, range.b0 \in Nat, range.b1 \in Nat, range.b1 <= N, NEW r
    PROVE  Brought(r, FlattenSeq([q \in 1 .. Size |-> Message(q - 1, r)]))
  <1> DEFINE X == {Record(g) : g \in Nat}
             ss == [q \in 1 .. Size |-> Message(q - 1, r)]
  <1>1. PICK size \in Nat : size = Size
    BY MpiAssumption
  <1>2. \A i \in 1 .. Size : Message(i - 1, r) \in Seq(X)
    BY MessageIs
  <1>3. ss \in Seq(Seq(X)) /\ Len(ss) = size
    <2>1. ss \in [1 .. size -> Seq(X)]
      BY <1>1, <1>2
    <2> HIDE DEF ss, X
    <2> QED BY <2>1, FunctionIsSeq
  <1>4. PICK fl : /\ fl[0] = <<>>
                  /\ \A i \in 1 .. size : fl[i] = fl[i - 1] \o ss[i]
                  /\ FlattenSeq(ss) = fl[size]
    <2> HIDE DEF ss, X
    <2>1. \E fl \in [0 .. Len(ss) -> Seq(X)] :
               /\ fl[0] = <<>>
               /\ \A i \in 1 .. Len(ss) : fl[i] = fl[i - 1] \o ss[i]
               /\ FlattenSeq(ss) = fl[Len(ss)]
      BY <1>3, Flattened
    <2> QED BY <1>3, <2>1
  <1>5. \A i \in 1 .. size : fl[i] = fl[i - 1] \o Message(i - 1, r)
    BY <1>1, <1>4
  <1> DEFINE Has(i) == \E s : Lists(s, SentOf(r, 0, EndOf(i))) /\ fl[i] = RecordsFor(s)
             Reached == {i \in 0 .. size : Has(i)}
  <1>6. Has(0)
    <2>1. EndOf(0) = 0
      BY DEF EndOf
    <2>2. SentOf(r, 0, EndOf(0)) = {}
      BY <2>1 DEF SentOf, SentTo
    <2>3. RecordsFor(<<>>) = <<>>
      BY DEF RecordsFor
    <2> QED BY <1>4, <2>2, <2>3, ListsEmpty
  <1>7. ASSUME NEW i \in 0 .. size - 1, Has(i)
        PROVE  Has(i + 1)
    <2>1. PICK s : Lists(s, SentOf(r, 0, EndOf(i))) /\ fl[i] = RecordsFor(s)
      BY <1>7
    <2>2. i + 1 \in 1 .. size /\ (i + 1) - 1 = i
      OBVIOUS
    <2>3. PICK t : Lists(t, SentOf(r, EndOf(i), EndOf(i + 1))) /\ Message(i, r) = RecordsFor(t)
      BY <1>1, <2>2, MessageIs
    <2>4. PICK a \in Nat, b \in Nat : a = EndOf(i) /\ b = EndOf(i + 1) /\ a <= b
      <3>1. EndOf(i) \in Nat /\ EndOf(i + 1) \in Nat
        BY <1>1, EndsOfBlocks
      <3>2. EndOf(i) <= EndOf(i + 1)
        BY <1>1, <2>2, EndsOfBlocks
      <3> QED BY <3>1, <3>2
    <2>5. PICK b0 \in Nat, b1 \in Nat : b0 = range.b0 /\ b1 = range.b1
      OBVIOUS
    <2>6. \A g \in SentTo(r) : g \in Nat
      BY <2>5 DEF SentTo
    <2>7. /\ SentOf(r, 0, EndOf(i)) \cup SentOf(r, EndOf(i), EndOf(i + 1))
               = SentOf(r, 0, EndOf(i + 1))
          /\ \A g \in SentOf(r, 0, EndOf(i)), h \in SentOf(r, EndOf(i), EndOf(i + 1)) : g < h
      BY <2>4, <2>6 DEF SentOf
    <2>8. /\ Lists(s \o t, SentOf(r, 0, EndOf(i + 1)))
          /\ RecordsFor(s \o t) = RecordsFor(s) \o RecordsFor(t)
      <3> DEFINE A == SentOf(r, 0, EndOf(i))
                 B == SentOf(r, EndOf(i), EndOf(i + 1))
      <3>1. Lists(s, A) /\ Lists(t, B) /\ \A g \in A, h \in B : g < h
        BY <2>1, <2>3, <2>7
      <3>2. A \cup B = SentOf(r, 0, EndOf(i + 1))
        BY <2>7
      <3> HIDE DEF A, B
      <3>3. Lists(s \o t, A \cup B)
        BY <3>1, ListsConcat
      <3>4. RecordsFor(s \o t) = RecordsFor(s) \o RecordsFor(t)
        BY <3>1, RecordsConcat
      <3> QED BY <3>2, <3>3, <3>4
    <2>9. fl[i + 1] = RecordsFor(s \o t)
      BY <1>5, <2>1, <2>2, <2>3, <2>8
    <2> QED BY <2>8, <2>9
  <1>8. 0 .. size \subseteq Reached
    <2>1. 0 \in Reached /\ \A i \in 0 .. size - 1 : i \in Reached => i + 1 \in Reached
      <3> HIDE DEF Has
      <3> QED BY <1>6, <1>7
    <2> HIDE DEF Reached
    <2> QED BY <2>1, AllUpTo
  <1>9. PICK s : Lists(s, SentOf(r, 0, EndOf(size))) /\ fl[size] = RecordsFor(s)
    BY <1>8
  <1>10. SentOf(r, 0, EndOf(size)) = SentTo(r)
    <2>1. EndOf(size) = N
      BY <1>1, EndsOfBlocks
    <2>2. \A g \in SentTo(r) : 0 <= g /\ g < N
      BY DEF SentTo
    <2> QED BY <2>1, <2>2 DEF SentOf
  <1> HIDE DEF ss
  <1>11. FlattenSeq(ss) = RecordsFor(s)
    BY <1>4, <1>9
  <1> QED BY <1>9, <1>10, <1>11 DEF Brought, ss

\* Two frames of one group.
Kin(files, g, h) ==
    /\ KeyOf(files, g)[1] = KeyOf(files, h)[1]
    /\ KeyOf(files, g)[2] \div GroupLen = KeyOf(files, h)[2] \div GroupLen

\* S holds no part of a group without the rest of it.
Grouped(files, S) == \A g \in S : \A h \in Numbers0(files) : Kin(files, g, h) => h \in S

\* Frame g has index i in file f, whose n frames begin at o.
Lies(files, g, f, o, n, i) ==
    /\ f = FileOf(files, g) /\ o = Off(files)[f] /\ n = Len(files[f].texts)
    /\ g = o + i /\ i < n
    /\ KeyOf(files, g) = <<files[f].traj, i>>
    /\ CountIn(files, files[f].traj) = n

\* Every frame has its place in a file.
LEMMA FramePlace ==
    ASSUME NEW files, GoodFiles(files), NEW g \in Numbers0(files)
    PROVE  \E f \in 1 .. Len(files), o \in Nat, n \in Nat, i \in Nat : Lies(files, g, f, o, n, i)
  <1>1. PICK f : f = FileOf(files, g)
    OBVIOUS
  <1>2. files \in Seq(FileSet)
    BY DEF GoodFiles
  <1>3. /\ f \in 1 .. Len(files) /\ Off(files)[f] \in Nat /\ Len(files[f].texts) \in Nat
        /\ g - Off(files)[f] \in 0 .. Len(files[f].texts) - 1
        /\ g = Off(files)[f] + (g - Off(files)[f])
    BY <1>1, <1>2, FrameAt DEF Numbers0
  <1>4. KeyOf(files, g) = <<files[f].traj, g - Off(files)[f]>>
    BY <1>1, FrameFacts
  <1>5. CountIn(files, files[f].traj) = Len(files[f].texts)
    BY <1>3, CountInIs
  <1>6. PICK i \in Nat, n \in Nat : i = g - Off(files)[f] /\ n = Len(files[f].texts) /\ i < n
    BY <1>3
  <1>7. PICK o \in Nat : o = Off(files)[f]
    BY <1>3
  <1>8. Lies(files, g, f, o, n, i)
    BY <1>1, <1>3, <1>4, <1>5, <1>6, <1>7 DEF Lies
  <1> QED BY <1>3, <1>8

\* A frame of a file, and another index of it.
LEMMA FrameBeside ==
    ASSUME NEW files, GoodFiles(files), NEW f \in 1 .. Len(files), NEW o \in Nat,
           o = Off(files)[f], NEW n \in Nat, n = Len(files[f].texts), NEW i \in 0 .. n - 1
    PROVE  /\ o + i \in Numbers0(files) /\ FileOf(files, o + i) = f
           /\ KeyOf(files, o + i) = <<files[f].traj, i>>
  <1>1. files \in Seq(FileSet) /\ i \in 0 .. Len(files[f].texts) - 1
    BY DEF GoodFiles
  <1>2. /\ o + i \in Numbers0(files) /\ FileOf(files, o + i) = f
        /\ (o + i) - Off(files)[f] = i
    BY <1>1, FrameOfFile DEF Numbers0
  <1>3. PICK g \in Numbers0(files) : g = o + i
    BY <1>2
  <1>4. KeyOf(files, g) = <<files[FileOf(files, g)].traj, g - Off(files)[FileOf(files, g)]>>
    BY FrameFacts
  <1> QED BY <1>2, <1>3, <1>4

\* What drain_ready takes is whole groups.
LEMMA LowGrouped ==
    ASSUME NEW files, GoodFiles(files), NEW B, B \subseteq Numbers0(files), NEW s, Lists(s, B),
           NEW k \in 0 .. Len(s),
           \A x \in 1 .. k : \E q, l, f, i : /\ GroupAt(files, s, q, l, f, i)
                                             /\ q <= x /\ x <= l /\ l <= k
    PROVE  Grouped(files, Low(s, k))
  <1> SUFFICES ASSUME NEW x \in 1 .. k, NEW h \in Numbers0(files), Kin(files, s[x], h)
               PROVE  h \in Low(s, k)
    BY DEF Grouped, Low
  <1>1. PICK q, l, f, i : GroupAt(files, s, q, l, f, i) /\ q <= x /\ x <= l /\ l <= k
    OBVIOUS
  <1>2. Members(files, s, q, l, f, i)
    BY <1>1, GroupMembers
  <1>3. i \in Nat /\ q \in Nat /\ l \in Nat /\ k \in Nat /\ x \in Nat
    BY <1>2 DEF Members, Lists
  <1>4. /\ KeyOf(files, h)[1] = files[f].traj
        /\ KeyOf(files, h)[2] \div GroupLen = i \div GroupLen
    <2>1. PICK j \in 0 .. l - q : x = q + j
      <3>1. x - q \in 0 .. l - q /\ x = q + (x - q)
        BY <1>1, <1>3
      <3> QED BY <3>1
    <2>2. KeyOf(files, s[x]) = <<files[f].traj, i + j>> /\ (i + j) \div GroupLen = i \div GroupLen
      BY <1>2, <2>1 DEF Members
    <2> QED BY <2>2 DEF Kin
  <1>5. PICK d \in 1 .. Len(files), n \in Nat, m \in Nat :
           n = Len(files[d].texts) /\ m < n /\ KeyOf(files, h) = <<files[d].traj, m>>
    BY FramePlace DEF Lies
  <1>6. d = f
    <2>1. f \in 1 .. Len(files) /\ files[d].traj = files[f].traj
      BY <1>1, <1>4, <1>5 DEF GroupAt
    <2> QED BY <2>1 DEF GoodFiles
  <1>7. i < n /\ m \div GroupLen = i \div GroupLen
    <2>1. i \in 0 .. n - 1
      BY <1>1, <1>5, <1>6 DEF GroupAt
    <2> QED BY <1>4, <1>5, <2>1
  <1>8. GroupStart(i) = i /\ i <= m /\ m < GroupEnd(n, i)
    <2>1. GroupStart(i) = i
      BY <1>1 DEF GroupAt
    <2>2. i \in 0 .. n - 1 /\ m \in 0 .. n - 1
      BY <1>3, <1>5, <1>7
    <2> QED BY <1>7, <2>1, <2>2, GroupEnds
  <1>9. GroupEnd(n, i) = i + (l - q) + 1
    BY <1>2, <1>5, <1>6 DEF Members
  <1>10. PICK j \in 0 .. l - q : m = i + j
    <2>1. m - i \in 0 .. l - q /\ m = i + (m - i)
      BY <1>3, <1>8, <1>9
    <2> QED BY <2>1
  <1>11. s[q + j] \in Numbers0(files) /\ KeyOf(files, s[q + j]) = <<files[f].traj, i + j>>
         /\ q + j \in 1 .. Len(s)
    BY <1>2 DEF Members
  <1>12. s[q + j] = h
    BY <1>5, <1>6, <1>10, <1>11, KeysApart
  <1>13. q + j \in 1 .. k
    BY <1>1, <1>3, <1>11
  <1> QED BY <1>12, <1>13 DEF Low

\* The frames of environment e before frame n.
FramesTo(shards, files, e, n) ==
    {g \in Numbers0(files) : EnvOf(shards, files, g) = e /\ g < n}

\* Of the frames of environment e before n, the first are in the transaction
\* tx as the serial ingest stores them, whole groups of them, and the others
\* wait in buf, in order.
Waits(shards, files, e, n, env, buf, tx) ==
    \E S, B : /\ S \cup B = FramesTo(shards, files, e, n)
              /\ \A g \in S, h \in B : g < h
              /\ Grouped(files, S)
              /\ \E s : Lists(s, B) /\ buf = RowsFor(files, s)
              /\ tx = StoredIn(env, files, S, env.traj_meta)

\* An environment with no frame so far.
LEMMA WaitsNone ==
    ASSUME NEW shards, NEW files, GoodFiles(files), NEW e, NEW env \in Tables
    PROVE  Waits(shards, files, e, 0, env, <<>>, env)
  <1>1. FramesTo(shards, files, e, 0) = {}
    BY DEF FramesTo, Numbers0
  <1>2. RowsFor(files, <<>>) = <<>>
    BY DEF RowsFor
  <1>3. env = StoredIn(env, files, {}, env.traj_meta)
    BY StoredNone
  <1> QED BY <1>1, <1>2, <1>3, ListsEmpty DEF Waits, Grouped

\* The rows of two lists.
LEMMA RowsConcat ==
    ASSUME NEW files, NEW S, NEW T, NEW s, NEW t, Lists(s, S), Lists(t, T),
           \A g \in S, h \in T : g < h
    PROVE  RowsFor(files, s \o t) = RowsFor(files, s) \o RowsFor(files, t)
  <1>1. PICK m \in Nat, n \in Nat : m = Len(s) /\ n = Len(t)
    BY DEF Lists
  <1>2. /\ Len(s \o t) = m + n
        /\ \A i \in 1 .. m + n : (s \o t)[i] = IF i <= m THEN s[i] ELSE t[i - m]
    BY <1>1, ListsConcat
  <1>3. RowsFor(files, s \o t) = [i \in 1 .. m + n |-> RowOf(files, (s \o t)[i])]
    BY <1>2 DEF RowsFor
  <1>4. /\ RowsFor(files, s) = [i \in 1 .. m |-> RowOf(files, s[i])]
        /\ RowsFor(files, t) = [i \in 1 .. n |-> RowOf(files, t[i])]
    BY <1>1 DEF RowsFor
  <1> DEFINE X == {RowOf(files, g) : g \in Nat}
  <1>5. (\A i \in 1 .. m : s[i] \in Nat) /\ (\A i \in 1 .. n : t[i] \in Nat)
    BY <1>1 DEF Lists
  <1>6. /\ RowsFor(files, s) \in [1 .. m -> X] /\ RowsFor(files, t) \in [1 .. n -> X]
    BY <1>4, <1>5
  <1> HIDE DEF X
  <1>7. /\ RowsFor(files, s) \in Seq(X) /\ Len(RowsFor(files, s)) = m
        /\ RowsFor(files, t) \in Seq(X) /\ Len(RowsFor(files, t)) = n
    BY <1>6, FunctionIsSeq
  <1> DEFINE a == RowsFor(files, s)
             b == RowsFor(files, t)
             c == a \o b
  <1>8. /\ c \in Seq(X) /\ Len(c) = m + n
        /\ \A i \in 1 .. m : c[i] = a[i]
        /\ \A i \in 1 .. n : c[m + i] = b[i]
    <2> HIDE DEF a, b
    <2>1. a \in Seq(X) /\ Len(a) = m /\ b \in Seq(X) /\ Len(b) = n
      BY <1>7 DEF a, b
    <2> QED BY <2>1, ConcatAt
  <1>9. c = [i \in 1 .. m + n |-> c[i]]
    <2> HIDE DEF c
    <2> QED BY <1>8
  <1>10. ASSUME NEW i \in 1 .. m + n
         PROVE  c[i] = RowOf(files, (s \o t)[i])
    <2>1. CASE i <= m
      <3>1. c[i] = a[i] /\ (s \o t)[i] = s[i] /\ i \in 1 .. m
        BY <1>2, <1>8, <2>1
      <3> QED BY <1>4, <3>1
    <2>2. CASE ~ (i <= m)
      <3>1. PICK j \in 1 .. n : i = m + j
        BY <2>2
      <3>2. c[i] = b[j] /\ (s \o t)[i] = t[j]
        BY <1>2, <1>8, <2>2, <3>1
      <3> QED BY <1>4, <3>2
    <2> QED BY <2>1, <2>2
  <1> HIDE DEF c
  <1>11. c = RowsFor(files, s \o t)
    BY <1>3, <1>9, <1>10
  <1> QED BY <1>11 DEF c

\* More frames of the environment arrive.
LEMMA WaitsMore ==
    ASSUME NEW shards, NEW files, GoodFiles(files), NEW e, NEW env, NEW buf, NEW tx,
           NEW m \in Nat, NEW n \in Nat, m <= n,
           Waits(shards, files, e, m, env, buf, tx),
           NEW T, T = {g \in FramesTo(shards, files, e, n) : m <= g}, NEW t, Lists(t, T)
    PROVE  Waits(shards, files, e, n, env, buf \o RowsFor(files, t), tx)
  <1>1. PICK S, B : /\ S \cup B = FramesTo(shards, files, e, m)
                    /\ \A g \in S, h \in B : g < h
                    /\ Grouped(files, S)
                    /\ \E s : Lists(s, B) /\ buf = RowsFor(files, s)
                    /\ tx = StoredIn(env, files, S, env.traj_meta)
    BY DEF Waits
  <1>2. PICK s : Lists(s, B) /\ buf = RowsFor(files, s)
    BY <1>1
  <1>3. FramesTo(shards, files, e, m) \subseteq Nat /\ FramesTo(shards, files, e, n) \subseteq Nat
    BY OffNumbers DEF FramesTo, Numbers0, GoodFiles
  <1>4. \A g \in FramesTo(shards, files, e, m) : g < m
    BY DEF FramesTo
  <1>5. \A g : g \in FramesTo(shards, files, e, n)
                  <=> g \in FramesTo(shards, files, e, m) \/ g \in T
    <2>1. \A g \in Nat : g < n <=> g < m \/ (m <= g /\ g < n)
      OBVIOUS
    <2>2. \A g \in Numbers0(files) : g \in Nat
      BY OffNumbers DEF Numbers0, GoodFiles
    <2> QED BY <2>1, <2>2 DEF FramesTo
  <1>6. \A g \in FramesTo(shards, files, e, m), h \in T : g < h
    BY <1>3, <1>4
  <1>7. S \cup (B \cup T) = FramesTo(shards, files, e, n)
    BY <1>1, <1>5
  <1>8. \A g \in S, h \in B \cup T : g < h
    BY <1>1, <1>6
  <1>9. \A g \in B, h \in T : g < h
    BY <1>1, <1>6
  <1>10. Lists(s \o t, B \cup T)
    BY <1>2, <1>9, ListsConcat
  <1>11. buf \o RowsFor(files, t) = RowsFor(files, s \o t)
    <2>1. Lists(s, B) /\ Lists(t, T)
      BY <1>2
    <2>2. RowsFor(files, s \o t) = RowsFor(files, s) \o RowsFor(files, t)
      <3>1. \A A, C, x, y : Lists(x, A) /\ Lists(y, C) /\ (\A g \in A, h \in C : g < h)
                              => RowsFor(files, x \o y) = RowsFor(files, x) \o RowsFor(files, y)
        BY RowsConcat
      <3>2. PICK C : C = T
        OBVIOUS
      <3>3. Lists(s, B) /\ Lists(t, C) /\ \A g \in B, h \in C : g < h
        BY <1>9, <2>1, <3>2
      <3>4. RowsFor(files, s \o t) = RowsFor(files, s) \o RowsFor(files, t)
        BY <3>1, <3>3
      <3> QED BY <3>4
    <2> QED BY <1>2, <2>2
  <1> QED BY <1>1, <1>7, <1>8, <1>10, <1>11 DEF Waits

\* The rows after the first k.
LEMMA RowsCut ==
    ASSUME NEW files, NEW S, NEW s, Lists(s, S), NEW k \in 0 .. Len(s)
    PROVE  SubSeq(RowsFor(files, s), k + 1, Len(RowsFor(files, s)))
             = RowsFor(files, SubSeq(s, k + 1, Len(s)))
  <1>1. PICK len \in Nat : len = Len(s)
    BY DEF Lists
  <1> DEFINE a == RowsFor(files, s)
             t == SubSeq(s, k + 1, Len(s))
  <1>2. /\ Len(a) = len /\ DOMAIN a = 1 .. len
        /\ \A i \in 1 .. len : a[i] = RowOf(files, s[i])
    BY <1>1, RowsForFacts
  <1>3. /\ Len(t) = len - k
        /\ \A i \in 1 .. len - k : t[i] = s[k + i]
    <2> HIDE DEF t
    <2>1. /\ Len(SubSeq(s, k + 1, Len(s))) = Len(s) - k
          /\ \A i \in 1 .. Len(s) - k : SubSeq(s, k + 1, Len(s))[i] = s[k + i]
      BY ListsCut
    <2> QED BY <1>1, <2>1 DEF t
  <1> HIDE DEF a, t
  <1>4. SubSeq(a, k + 1, len) = [i \in 1 .. len - k |-> a[k + i]]
    <2>1. SubSeq(a, k + 1, len) = [i \in 1 .. (1 + len - (k + 1)) |-> a[i + (k + 1) - 1]]
      BY <1>1
    <2>2. 1 + len - (k + 1) = len - k /\ \A i \in Int : i + (k + 1) - 1 = k + i
      BY <1>1
    <2> QED BY <2>1, <2>2
  <1>5. RowsFor(files, t) = [i \in 1 .. len - k |-> RowOf(files, t[i])]
    BY <1>3 DEF RowsFor
  <1>6. \A i \in 1 .. len - k : a[k + i] = RowOf(files, t[i])
    <2>1. \A i \in 1 .. len - k : k + i \in 1 .. len
      BY <1>1
    <2> QED BY <1>2, <1>3, <2>1
  <1> QED BY <1>1, <1>2, <1>4, <1>5, <1>6 DEF a, t

\* What follows some of the frames of an environment leaves out no frame.
LEMMA RestUnbroken ==
    ASSUME NEW shards, NEW files, GoodFiles(files), NEW e, NEW n \in Nat, NEW S, NEW B,
           S \cup B = FramesTo(shards, files, e, n), \A g \in S, h \in B : g < h
    PROVE  Unbroken(files, B)
  <1>1. FramesTo(shards, files, e, n) \subseteq Numbers0(files) /\ Numbers0(files) \subseteq Nat
    BY OffNumbers DEF FramesTo, Numbers0, GoodFiles
  <1>2. ASSUME NEW g \in B, NEW h \in B, NEW m \in Numbers0(files),
               FileOf(files, m) = FileOf(files, g), g <= m, m <= h
        PROVE  m \in B
    <2>1. g \in Numbers0(files) /\ h \in Numbers0(files) /\ h < n
      BY <1>1 DEF FramesTo
    <2>2. EnvOf(shards, files, m) = EnvOf(shards, files, g)
      BY <1>2, <2>1, EnvOfFile
    <2>3. EnvOf(shards, files, g) = e
      BY DEF FramesTo
    <2>4. m < n
      BY <1>1, <1>2, <2>1
    <2>5. m \in FramesTo(shards, files, e, n)
      BY <2>2, <2>3, <2>4 DEF FramesTo
    <2>6. m \notin S
      <3>1. g \in Nat /\ m \in Nat
        BY <1>1, <2>1
      <3> QED BY <1>2, <3>1
    <2> QED BY <2>5, <2>6
  <1> QED BY <1>1, <1>2 DEF Unbroken

\* The whole groups that wait are packed and staged.
LEMMA WaitsDrained ==
    ASSUME GoodFiles(call.files), NEW e, NEW env \in Tables, NEW buf, NEW tx, NEW n \in Nat,
           Waits(layout, call.files, e, n, env, buf, tx)
    PROVE  Waits(layout, call.files, e, n, env,
                 SubSeq(buf, Ready(buf) + 1, Len(buf)),
                 Put(tx, Packed(SubSeq(buf, 1, Ready(buf)))))
  <1> DEFINE files == call.files
             F == FramesTo(layout, files, e, n)
  <1>1. PICK S, B : /\ S \cup B = F
                    /\ \A g \in S, h \in B : g < h
                    /\ Grouped(files, S)
                    /\ \E s : Lists(s, B) /\ buf = RowsFor(files, s)
                    /\ tx = StoredIn(env, files, S, env.traj_meta)
    BY DEF Waits
  <1>2. PICK s : Lists(s, B) /\ buf = RowsFor(files, s)
    BY <1>1
  <1>3. F \subseteq Numbers0(files) /\ Numbers0(files) \subseteq Nat
    BY OffNumbers DEF FramesTo, Numbers0, GoodFiles
  <1>4. Unbroken(files, B)
    <2> HIDE DEF files
    <2>1. GoodFiles(files)
      BY DEF files
    <2> QED BY <1>1, <2>1, RestUnbroken
  <1>5. PICK k \in 0 .. Len(s) :
            /\ k = Ready(buf)
            /\ \A x \in 1 .. k : \E q, l, f, i : /\ GroupAt(files, s, q, l, f, i)
                                                 /\ q <= x /\ x <= l /\ l <= k
    <2> DEFINE kk == Ready(RowsFor(files, s))
               Covered(j) == \A x \in 1 .. j : \E q, l, f, i : /\ GroupAt(files, s, q, l, f, i)
                                                               /\ q <= x /\ x <= l /\ l <= j
    <2>1. kk \in 0 .. Len(s) /\ Covered(kk)
      BY <1>2, <1>4, ReadyGroups
    <2> QED BY <1>2, <2>1
  <1> DEFINE lo == Low(s, k)
             hi == High(s, k)
  <1>6. /\ Lists(SubSeq(s, k + 1, Len(s)), hi) /\ lo \cup hi = B
        /\ \A g \in lo, h \in hi : g < h
    <2> HIDE DEF lo, hi
    <2>1. /\ Lists(SubSeq(s, k + 1, Len(s)), High(s, k))
          /\ Low(s, k) \cup High(s, k) = B
          /\ \A g \in Low(s, k), h \in High(s, k) : g < h
      BY <1>2, ListsCut
    <2> QED BY <2>1 DEF lo, hi
  <1>7. SubSeq(buf, Ready(buf) + 1, Len(buf)) = RowsFor(files, SubSeq(s, k + 1, Len(s)))
    BY <1>2, <1>5, RowsCut
  <1>8. RowsHold(Packed(SubSeq(buf, 1, Ready(buf))), files, lo)
    <2>1. B \subseteq Numbers0(files)
      BY <1>1, <1>3
    <2>2. RowsHold(Packed(SubSeq(RowsFor(files, s), 1, k)), files, Low(s, k))
      BY <1>2, <1>5, <2>1, PackedGroups
    <2> QED BY <1>2, <1>5, <2>2
  <1> HIDE DEF lo, hi
  <1>9. Put(tx, Packed(SubSeq(buf, 1, Ready(buf)))) = StoredIn(env, files, S \cup lo, env.traj_meta)
    <2>1. /\ S \subseteq Numbers0(files) /\ lo \subseteq Numbers0(files)
          /\ \A g \in S, h \in lo : g < h
      BY <1>1, <1>3, <1>6
    <2>2. env.traj_meta \in Metas
      BY DEF Tables, Metas
    <2>3. PICK rows : rows = Packed(SubSeq(buf, 1, Ready(buf)))
      OBVIOUS
    <2>4. RowsHold(rows, files, lo)
      BY <1>8, <2>3
    <2>5. Put(StoredIn(env, files, S, env.traj_meta), rows)
            = StoredIn(env, files, S \cup lo, env.traj_meta)
      <3> HIDE DEF files
      <3>1. GoodFiles(files)
        BY DEF files
      <3> QED BY <2>1, <2>2, <2>4, <3>1, PutStored
    <2> QED BY <1>1, <2>3, <2>5
  <1>10. (S \cup lo) \cup hi = F /\ \A g \in S \cup lo, h \in hi : g < h
    BY <1>1, <1>6
  <1>12. Grouped(files, S \cup lo)
    <2>1. Grouped(files, Low(s, k))
      <3>1. B \subseteq Numbers0(files)
        BY <1>1, <1>3
      <3> HIDE DEF files
      <3>2. GoodFiles(files)
        BY DEF files
      <3> QED BY <1>2, <1>5, <3>1, <3>2, LowGrouped
    <2> QED BY <1>1, <2>1 DEF Grouped, lo
  <1> HIDE DEF F
  <1>11. \E t : /\ Lists(t, hi)
                /\ SubSeq(buf, Ready(buf) + 1, Len(buf)) = RowsFor(files, t)
    BY <1>6, <1>7
  <1> QED BY <1>9, <1>10, <1>11, <1>12 DEF Waits, F

\* Appending files leaves tables.
LEMMA SerialType ==
    ASSUME NEW shards, NEW files, GoodFiles(files), NEW e, NEW env \in Tables
    PROVE  SerialIn(shards, files, e, env) \in Tables
  <1>1. PICK n \in Nat : n = Len(files)
    BY DEF GoodFiles
  <1>2. SerialIn(shards, files, e, env) = After(shards, files, e, env, n)
    BY <1>1, SerialStores
  <1>3. n \in 0 .. Len(files)
    BY <1>1
  <1>4. MetaUpto(shards, files, e, env, n) \in Metas
    BY <1>3, MetaType
  <1>5. FramesUpto(shards, files, e, n) \subseteq Numbers0(files)
    BY DEF FramesUpto
  <1> QED BY <1>2, <1>4, <1>5, StoredInType DEF After

\* An environment that no file is routed to has nothing to store.
LEMMA SerialIdle ==
    ASSUME NEW shards, NEW files, GoodFiles(files), NEW e, NEW env \in Tables,
           \A f \in DOMAIN files : RouteIn(shards, files[f].traj).env # e
    PROVE  SerialIn(shards, files, e, env) = env
  <1>1. PICK n \in Nat : n = Len(files) /\ DOMAIN files = 1 .. n
    BY DEF GoodFiles
  <1>2. SerialIn(shards, files, e, env) = After(shards, files, e, env, n)
    BY <1>1, SerialStores
  <1>3. FramesUpto(shards, files, e, n) = {}
    <2>1. ASSUME NEW g \in Numbers0(files)
          PROVE  EnvOf(shards, files, g) # e
      <3>1. FileOf(files, g) \in 1 .. n
        <4>1. files \in Seq(FileSet) /\ g \in 0 .. Len(AllFrames(files)) - 1
          BY DEF GoodFiles, Numbers0
        <4> QED BY <1>1, <4>1, FrameAt
      <3>2. EnvOf(shards, files, g) = RouteIn(shards, files[FileOf(files, g)].traj).env
        BY EnvOfFile
      <3> QED BY <1>1, <3>1, <3>2
    <2> QED BY <2>1 DEF FramesUpto
  <1>4. MetaUpto(shards, files, e, env, n) = env.traj_meta
    <2>1. MetaUpto(shards, files, e, env, n) = [t \in Trajs |-> env.traj_meta[t]]
      BY <1>1 DEF MetaUpto
    <2>2. env.traj_meta \in [Trajs -> Nat \cup {Nil}]
      BY DEF Tables
    <2> QED BY <2>1, <2>2
  <1> QED BY <1>2, <1>3, <1>4, StoredNone DEF After

\* put_traj_meta: the frames are all stored, and the counts complete them.
LEMMA MetaStores ==
    ASSUME GoodFiles(call.files), NEW e, NEW env \in Tables, NEW tx,
           Waits(layout, call.files, e, N, env, <<>>, tx)
    PROVE  [tx EXCEPT !.traj_meta =
               [t \in Trajs |->
                  IF Route(t).env = e /\ \E f \in DOMAIN call.files : call.files[f].traj = t
                  THEN CountOf(t) ELSE @[t]]]
             = Serial(e, env)
  <1> DEFINE files == call.files
             F == FramesTo(layout, files, e, N)
  <1>1. PICK S, B : /\ S \cup B = F
                    /\ \E s : Lists(s, B) /\ <<>> = RowsFor(files, s)
                    /\ tx = StoredIn(env, files, S, env.traj_meta)
    BY DEF Waits
  <1>2. PICK s : Lists(s, B) /\ <<>> = RowsFor(files, s)
    BY <1>1
  <1>3. B = {}
    <2>1. PICK len \in Nat : len = Len(s)
      BY <1>2 DEF Lists
    <2>2. DOMAIN RowsFor(files, s) = 1 .. len
      BY <2>1 DEF RowsFor
    <2>3. 1 \notin 1 .. len
      <3>1. DOMAIN <<>> = {}
        OBVIOUS
      <3> QED BY <1>2, <2>2, <3>1
    <2>4. len = 0
      BY <2>3
    <2> QED BY <1>2, <2>1, <2>4 DEF Lists
  <1>4. PICK n \in Nat : n = Len(files) /\ DOMAIN files = 1 .. n
    BY DEF GoodFiles
  <1>5. F = FramesUpto(layout, files, e, n)
    <2>1. \A g \in Numbers0(files) : g < N /\ FileOf(files, g) <= n
      <3> SUFFICES ASSUME NEW g \in Numbers0(files)
                   PROVE  g < N /\ FileOf(files, g) <= n
        OBVIOUS
      <3>1. files \in Seq(FileSet) /\ g \in 0 .. Len(AllFrames(files)) - 1
        BY DEF GoodFiles, Numbers0
      <3>2. Len(AllFrames(files)) \in Nat
        BY <3>1, OffNumbers
      <3>3. FileOf(files, g) \in 1 .. n
        BY <1>4, <3>1, FrameAt
      <3> QED BY <3>1, <3>2, <3>3 DEF N
    <2> QED BY <2>1 DEF FramesTo, FramesUpto
  <1>6. tx = StoredIn(env, files, FramesUpto(layout, files, e, n), env.traj_meta)
    BY <1>1, <1>3, <1>5
  <1> DEFINE meta == [t \in Trajs |->
                        IF Route(t).env = e /\ \E f \in DOMAIN files : files[f].traj = t
                        THEN CountOf(t) ELSE tx.traj_meta[t]]
  <1>7. tx.traj_meta = env.traj_meta
    BY <1>6 DEF StoredIn
  <1>8. meta = MetaUpto(layout, files, e, env, n)
    <2>1. \A t : CountOf(t) = CountIn(files, t)
      BY DEF CountOf, CountIn
    <2>2. \A t : Route(t).env = RouteIn(layout, t).env
      BY DEF Route
    <2> QED BY <1>4, <1>7, <2>1, <2>2 DEF MetaUpto
  <1>9. [tx EXCEPT !.traj_meta = meta]
          = StoredIn(env, files, FramesUpto(layout, files, e, n), meta)
    <2> HIDE DEF meta
    <2> QED BY <1>6 DEF StoredIn
  <1>10. Serial(e, env) = After(layout, files, e, env, n)
    BY <1>4, SerialStores DEF Serial
  <1>11. Serial(e, env) = [tx EXCEPT !.traj_meta = meta]
    BY <1>8, <1>9, <1>10 DEF After
  <1> QED BY <1>11

\* The environments of a rank's files are the rank's.
LEMMA MineOwns ==
    ASSUME NEW r, NEW e \in Mine(r)
    PROVE  Owns(r, e)
  BY DEF Mine, Route, RouteIn, Owns

\* One rank writes an environment.
LEMMA OneOwner ==
    ASSUME NEW r, NEW u, NEW e, Owns(r, e), Owns(u, e)
    PROVE  r = u
  BY DEF Owns

\* The owner of an environment is a rank, and has every file routed there.
LEMMA FilesOwned ==
    ASSUME NEW e \in EnvIds, \A r \in Ranks : e \notin Mine(r)
    PROVE  \A f \in DOMAIN call.files : RouteIn(layout, call.files[f].traj).env # e
  <1>1. e % Size \in Ranks
    <2>1. PICK m : EnvIds = 0 .. m
      BY DEF EnvIds
    <2>2. e \in Nat
      BY <2>1
    <2> QED BY <2>2, MpiAssumption DEF Ranks
  <1>2. PICK r \in Ranks : r = e % Size
    BY <1>1
  <1>3. ASSUME NEW f \in DOMAIN call.files, RouteIn(layout, call.files[f].traj).env = e
        PROVE  e \in Mine(r)
    <2>1. Route(call.files[f].traj).env = e /\ Route(call.files[f].traj).owner = r
      BY <1>2, <1>3 DEF Route, RouteIn
    <2> QED BY <2>1 DEF Mine
  <1> QED BY <1>3

\* The steps before the first batch.
Early == {"scan", "open", "reserve", "begin", "parse", "hashes"}

\* Environment e has had the frames before n.
Placed(e, n) == Waits(layout, call.files, e, n, before[e], bufs[e], staged[e])

\* Rank r has been brought its frames of the batch.
Inbox(r) == Brought(r, inbox[r])

\* How far rank r is with an environment it writes.
Along(r, e) ==
    /\ stage = "begin" /\ vote[r] = "ok" => staged[e] = before[e]
    /\ stage \in {"parse", "hashes"} => Placed(e, 0)
    /\ stage = "fit" => Placed(e, range.b0)
    /\ stage = "decode" /\ vote[r] = "none" => Placed(e, range.b0)
    /\ stage = "decode" /\ vote[r] = "ok" => Placed(e, range.b1)
    /\ stage = "flush" => Placed(e, range.b1)
    /\ stage = "tail" => Placed(e, N)
    /\ stage = "tail" /\ vote[r] = "ok" => bufs[e] = <<>>
    /\ stage = "meta" /\ vote[r] = "none" => Placed(e, N) /\ bufs[e] = <<>>
    /\ stage = "meta" /\ vote[r] = "ok" => staged[e] = Serial(e, before[e])

\* The batch lies within the frames.
RangeOk ==
    /\ range \in [b0 : Nat, b1 : Nat]
    /\ range.b0 <= range.b1 /\ range.b1 <= N /\ range.b1 <= MaxWord

\* Where every environment stands at every step: its first frames are staged
\* as the serial ingest stores them and the rest wait, in order.
DataInv ==
    /\ envs \in [EnvIds -> Tables] /\ before \in [EnvIds -> Tables]
    /\ stage \in Early \cup {"idle", "returned"} => \A e \in EnvIds : bufs[e] = <<>>
    /\ stage \notin {"idle", "returned"} => GoodFiles(call.files) /\ call.batch \in Nat
    /\ stage \in {"fit", "decode", "flush"} => RangeOk
    /\ stage = "decode" => \A r \in Ranks : Inbox(r)
    /\ \A r \in Ranks : \A e \in Mine(r) \cap EnvIds : Along(r, e)

\* The frames of a call are what they are.
LEMMA NStays == ASSUME UNCHANGED call PROVE N' = N
  BY DEF N, AllFrames, FramesOf

\* Where an environment stands changes with it only.
LEMMA PlacedStays ==
    ASSUME UNCHANGED <<layout, call>>, NEW e, before'[e] = before[e],
           bufs'[e] = bufs[e], staged'[e] = staged[e]
    PROVE  /\ Placed(e, 0)' <=> Placed(e, 0)
           /\ N' = N /\ (Placed(e, N)' <=> Placed(e, N))
           /\ range' = range => /\ Placed(e, range.b0)' <=> Placed(e, range.b0)
                                /\ Placed(e, range.b1)' <=> Placed(e, range.b1)
  BY NStays DEF Placed

\* What a rank was brought changes with its inbox and the batch only.
LEMMA InboxStays ==
    ASSUME UNCHANGED <<layout, call, range, inbox>>, NEW r
    PROVE  Inbox(r)' <=> Inbox(r)
  BY DEF Inbox, Brought, SentTo, RecordsFor, Record, Winner, To, Frame, Route, RouteIn

\* What the call must store is fixed when it begins.
LEMMA SerialSame ==
    ASSUME UNCHANGED <<layout, call, before>>, NEW e
    PROVE  Serial(e, before[e])' = Serial(e, before[e])
  BY DEF Serial

\* A rank that votes is no farther, but where the vote says so.
LEMMA AlongStays ==
    ASSUME UNCHANGED <<layout, call, before, stage, range>>, NEW r, NEW e, Along(r, e),
           bufs'[e] = bufs[e], staged'[e] = staged[e],
           \/ vote'[r] = vote[r]
           \/ /\ vote[r] = "none" /\ vote'[r] \in {"ok", "err"}
              /\ vote'[r] = "ok" => stage \notin {"begin", "decode", "tail", "meta"}
    PROVE  Along(r, e)'
  <1>1. /\ Placed(e, 0)' <=> Placed(e, 0)
        /\ N' = N /\ (Placed(e, N)' <=> Placed(e, N))
        /\ Placed(e, range.b0)' <=> Placed(e, range.b0)
        /\ Placed(e, range.b1)' <=> Placed(e, range.b1)
    BY PlacedStays
  <1>2. Serial(e, before[e])' = Serial(e, before[e])
    BY SerialSame
  <1> QED BY <1>1, <1>2 DEF Along

\* What a rank does touches what it writes only.
LEMMA RankKeeps ==
    ASSUME DataInv, NEW u \in Ranks, stage \in Preparing,
           UNCHANGED <<layout, envs, before, call, stage, range, inbox>>,
           stage \in Early => UNCHANGED bufs,
           \A r \in Ranks \ {u} : /\ vote'[r] = vote[r]
                                  /\ \A e \in Mine(r) \cap EnvIds : /\ bufs'[e] = bufs[e]
                                                                    /\ staged'[e] = staged[e],
           \A e \in Mine(u) \cap EnvIds : Along(u, e)'
    PROVE  DataInv'
  <1>1. \A r \in Ranks : Mine(r)' = Mine(r)
    BY MineStays
  <1>2. ASSUME NEW r \in Ranks, NEW e \in Mine(r) \cap EnvIds
        PROVE  Along(r, e)'
    <2>1. CASE r = u
      BY <1>2, <2>1
    <2>2. CASE r # u
      <3>1. Along(r, e) /\ vote'[r] = vote[r] /\ bufs'[e] = bufs[e] /\ staged'[e] = staged[e]
        BY <1>2, <2>2 DEF DataInv
      <3> QED BY <3>1, AlongStays
    <2> QED BY <2>1, <2>2
  <1>3. \A r \in Ranks : Inbox(r)' <=> Inbox(r)
    BY InboxStays
  <1>4. RangeOk' <=> RangeOk
    BY NStays DEF RangeOk
  <1>5. stage' \in Early \cup {"idle", "returned"} => \A e \in EnvIds : bufs'[e] = <<>>
    BY DEF DataInv, Early, Preparing
  <1>6. EnvIds' = EnvIds
    OBVIOUS
  <1> QED BY <1>1, <1>2, <1>3, <1>4, <1>5 DEF DataInv

\* Only the owner of an environment changes it.
LEMMA NotMine ==
    ASSUME NEW u, NEW r, r # u, NEW e \in Mine(r)
    PROVE  e \notin Mine(u) /\ ~ (e % Size = u)
  BY MineOwns, OneOwner DEF Owns

\* A vote is the rank's own.
LEMMA VoteIs ==
    ASSUME vote \in [Ranks -> {"none", "ok", "err"}], NEW u \in Ranks, NEW ok \in BOOLEAN, Vote(u, ok)
    PROVE  /\ vote'[u] = IF ok THEN "ok" ELSE "err"
           /\ \A r \in Ranks \ {u} : vote'[r] = vote[r]
  BY DEF Vote

\* Steps that leave the environments alone.
LEMMA QuietKeeps ==
    ASSUME DataInv, vote \in [Ranks -> {"none", "ok", "err"}], NEW u \in Ranks, stage \in Preparing,
           UNCHANGED <<layout, envs, before, call, stage, range, inbox, bufs, staged>>,
           vote[u] = "none", NEW ok \in BOOLEAN, Vote(u, ok),
           ok => stage \notin {"begin", "decode", "tail", "meta"}
    PROVE  DataInv'
  <1>1. /\ vote'[u] = IF ok THEN "ok" ELSE "err"
        /\ \A r \in Ranks \ {u} : vote'[r] = vote[r]
    BY VoteIs
  <1>2. ASSUME NEW e \in Mine(u) \cap EnvIds
        PROVE  Along(u, e)'
    <2>1. Along(u, e)
      BY DEF DataInv
    <2>2. /\ vote[u] = "none" /\ vote'[u] \in {"ok", "err"}
          /\ vote'[u] = "ok" => stage \notin {"begin", "decode", "tail", "meta"}
      BY <1>1
    <2> QED BY <2>1, <2>2, AlongStays
  <1> QED BY <1>1, <1>2, RankKeeps

\* Work, Fit and a failure touch no environment.
LEMMA WorkKeeps ==
    ASSUME DataInv, vote \in [Ranks -> {"none", "ok", "err"}], NEW u \in Ranks,
           Work(u) \/ Fit(u) \/ Fail(u)
    PROVE  DataInv'
  <1>1. CASE Work(u)
    <2>1. /\ stage \in Preparing /\ stage \notin {"begin", "decode", "tail", "meta"}
          /\ vote[u] = "none" /\ Vote(u, TRUE)
          /\ UNCHANGED <<layout, envs, before, call, stage, range, inbox, bufs, staged>>
      BY <1>1 DEF Work, Turn, Elsewhere, Preparing
    <2> QED BY <2>1, QuietKeeps
  <1>2. CASE Fit(u)
    <2> DEFINE fine == /\ Fits([to \in Ranks |-> MessageBytes(u, to)])
                       /\ Fits([from \in Ranks |-> MessageBytes(from, u)])
    <2>1. fine \in BOOLEAN
      BY DEF Fits
    <2>2. /\ stage = "fit" /\ vote[u] = "none" /\ Vote(u, fine)
          /\ UNCHANGED <<layout, envs, before, call, stage, range, inbox, bufs, staged>>
      BY <1>2 DEF Fit, Turn, Elsewhere
    <2> HIDE DEF fine
    <2>3. stage \in Preparing /\ stage \notin {"begin", "decode", "tail", "meta"}
      BY <2>2 DEF Preparing
    <2> QED BY <2>1, <2>2, <2>3, QuietKeeps
  <1>3. CASE Fail(u)
    <2>1. /\ stage \in Preparing /\ vote[u] = "none" /\ Vote(u, FALSE)
          /\ UNCHANGED <<layout, envs, before, call, stage, range, inbox, bufs, staged>>
      BY <1>3 DEF Fail, FailTogether, MayFail, Turn, Preparing
    <2> QED BY <2>1, QuietKeeps
  <1> QED BY <1>1, <1>2, <1>3

\* begin: a transaction opens on what is committed.
LEMMA BeginKeeps ==
    ASSUME DataInv, vote \in [Ranks -> {"none", "ok", "err"}], envs = before,
           NEW u \in Ranks, Begin(u)
    PROVE  DataInv'
  <1>1. /\ stage = "begin"
        /\ staged' = [e \in EnvIds |-> IF e \in Mine(u) THEN envs[e] ELSE staged[e]]
        /\ UNCHANGED <<layout, envs, before, call, stage, range, inbox, bufs>>
    BY DEF Begin, Turn, Elsewhere
  <1>2. PICK ok \in BOOLEAN : Vote(u, ok)
    BY DEF Begin
  <1>3. \A r \in Ranks \ {u} : vote'[r] = vote[r]
    BY <1>2, VoteIs
  <1>4. ASSUME NEW r \in Ranks \ {u}, NEW e \in Mine(r) \cap EnvIds
        PROVE  bufs'[e] = bufs[e] /\ staged'[e] = staged[e]
    BY <1>1, NotMine
  <1>5. ASSUME NEW e \in Mine(u) \cap EnvIds
        PROVE  Along(u, e)'
    <2>1. stage' = "begin" /\ staged'[e] = before'[e]
      BY <1>1
    <2> QED BY <2>1 DEF Along
  <1>6. stage \in Preparing
    BY <1>1 DEF Preparing
  <1> QED BY <1>1, <1>3, <1>4, <1>5, <1>6, RankKeeps

\* decode_batch: the frames of the batch wait behind those before them.
LEMMA DecodeKeeps ==
    ASSUME DataInv, vote \in [Ranks -> {"none", "ok", "err"}], NEW u \in Ranks, DecodeBatch(u)
    PROVE  DataInv'
  <1>1. /\ stage = "decode" /\ vote[u] = "none"
        /\ UNCHANGED <<layout, envs, before, call, stage, range, inbox, staged>>
    BY Zenon DEF DecodeBatch, Turn, Elsewhere
  <1>2. PICK v \in {"ok", "err"} : vote' = [vote EXCEPT ![u] = v]
    <2>1. vote' = [vote EXCEPT ![u] = "ok"] \/ vote' = [vote EXCEPT ![u] = "err"]
      BY Zenon DEF DecodeBatch, Vote
    <2> QED BY <2>1
  <1>3. vote'[u] = v /\ \A r \in Ranks \ {u} : vote'[r] = vote[r]
    BY <1>2
  <1>4. \A e \in EnvIds : e % Size # u => bufs'[e] = bufs[e]
    BY DEF DecodeBatch
  <1>5. ASSUME NEW r \in Ranks \ {u}, NEW e \in Mine(r) \cap EnvIds
        PROVE  bufs'[e] = bufs[e] /\ staged'[e] = staged[e]
    <2>1. e % Size # u
      BY NotMine
    <2> QED BY <1>1, <1>4, <2>1
  <1>6. ASSUME NEW e \in Mine(u) \cap EnvIds
        PROVE  Along(u, e)'
    <2>1. CASE v = "err"
      BY <1>1, <1>3, <2>1 DEF Along
    <2>2. CASE v = "ok"
      <3>1. GoodFiles(call.files) /\ RangeOk /\ Inbox(u) /\ Along(u, e)
        BY <1>1 DEF DataInv
      <3>2. PICK s : Lists(s, SentTo(u)) /\ inbox[u] = RecordsFor(s)
        BY <3>1 DEF Inbox, Brought
      <3>3. PICK t : /\ Lists(t, {g \in InEnv(e) : range.b0 <= g /\ g < range.b1})
                     /\ bufs'[e] = bufs[e] \o RowsFor(call.files, t)
        <4>1. Owns(u, e) /\ e \in EnvIds /\ vote'[u] = "ok"
          BY <1>3, <2>2, MineOwns
        <4>2. range.b0 \in Nat /\ range.b1 \in Nat /\ range.b1 <= N
          BY <3>1 DEF RangeOk
        <4> QED BY <3>1, <3>2, <4>1, <4>2, Decoded
      <3>4. {g \in InEnv(e) : range.b0 <= g /\ g < range.b1}
              = {g \in FramesTo(layout, call.files, e, range.b1) : range.b0 <= g}
        BY ToIs DEF InEnv, FramesTo
      <3>5. Placed(e, range.b0)
        BY <1>1, <3>1 DEF Along
      <3>6. Waits(layout, call.files, e, range.b1, before[e],
                  bufs[e] \o RowsFor(call.files, t), staged[e])
        <4>1. PICK T : T = {g \in FramesTo(layout, call.files, e, range.b1) : range.b0 <= g}
          OBVIOUS
        <4>2. Lists(t, T)
          BY <3>3, <3>4, <4>1
        <4>3. Waits(layout, call.files, e, range.b0, before[e], bufs[e], staged[e])
          BY <3>5 DEF Placed
        <4>4. range.b0 \in Nat /\ range.b1 \in Nat /\ range.b0 <= range.b1
          BY <3>1 DEF RangeOk
        <4> QED BY <3>1, <4>1, <4>2, <4>3, <4>4, WaitsMore
      <3>7. Placed(e, range.b1)'
        BY <1>1, <3>3, <3>6 DEF Placed
      <3> QED BY <1>1, <1>3, <2>2, <3>7 DEF Along
    <2> QED BY <2>1, <2>2
  <1>7. stage \in Preparing /\ stage \notin Early
    BY <1>1 DEF Preparing, Early
  <1> QED BY <1>1, <1>3, <1>5, <1>6, <1>7, RankKeeps

\* What drain_ready and pack_held do to an environment of the rank.
LEMMA Drained ==
    ASSUME GoodFiles(call.files), NEW u, Drain(u), NEW e \in Mine(u) \cap EnvIds,
           before \in [EnvIds -> Tables], NEW n \in Nat, Placed(e, n),
           UNCHANGED <<layout, call, before>>
    PROVE  Waits(layout', call'.files, e, n, before'[e], bufs'[e], staged'[e])
  <1>1. /\ bufs'[e] = SubSeq(bufs[e], Ready(bufs[e]) + 1, Len(bufs[e]))
        /\ staged'[e] = Put(staged[e], Packed(SubSeq(bufs[e], 1, Ready(bufs[e]))))
    BY Zenon DEF Drain
  <1>2. before[e] \in Tables
    OBVIOUS
  <1>3. Waits(layout, call.files, e, n, before[e], bufs[e], staged[e])
    BY DEF Placed
  <1> DEFINE buf == bufs[e]
             tx == staged[e]
             env == before[e]
  <1>4. Waits(layout, call.files, e, n, env, SubSeq(buf, Ready(buf) + 1, Len(buf)),
              Put(tx, Packed(SubSeq(buf, 1, Ready(buf)))))
    <2> HIDE DEF buf, tx, env
    <2>1. Waits(layout, call.files, e, n, env, buf, tx) /\ env \in Tables
      BY <1>2, <1>3 DEF buf, tx, env
    <2> QED BY <2>1, WaitsDrained
  <1> QED BY <1>1, <1>4

\* Draining leaves the environments of other ranks alone.
LEMMA DrainOthers ==
    ASSUME NEW u, Drain(u)
    PROVE  \A r \in Ranks \ {u} : \A e \in Mine(r) \cap EnvIds :
               bufs'[e] = bufs[e] /\ staged'[e] = staged[e]
  <1> SUFFICES ASSUME NEW r \in Ranks \ {u}, NEW e \in Mine(r) \cap EnvIds
               PROVE  bufs'[e] = bufs[e] /\ staged'[e] = staged[e]
    OBVIOUS
  <1>1. e \notin Mine(u)
    BY NotMine
  <1> QED BY <1>1 DEF Drain

\* flush_ready after a batch.
LEMMA FlushKeeps ==
    ASSUME DataInv, vote \in [Ranks -> {"none", "ok", "err"}], NEW u \in Ranks, Flush(u)
    PROVE  DataInv'
  <1>1. /\ stage = "flush" /\ Drain(u)
        /\ UNCHANGED <<layout, envs, before, call, stage, range, inbox>>
    BY Zenon DEF Flush, Turn, Elsewhere
  <1>2. PICK ok \in BOOLEAN : Vote(u, ok)
    BY DEF Flush
  <1>3. \A r \in Ranks \ {u} : vote'[r] = vote[r]
    BY <1>2, VoteIs
  <1>4. ASSUME NEW e \in Mine(u) \cap EnvIds
        PROVE  Along(u, e)'
    <2>1. Placed(e, range.b1) /\ GoodFiles(call.files) /\ range.b1 \in Nat
          /\ before \in [EnvIds -> Tables]
      BY <1>1 DEF DataInv, Along, RangeOk
    <2>2. Waits(layout', call'.files, e, range.b1, before'[e], bufs'[e], staged'[e])
      BY <1>1, <2>1, Drained
    <2>3. Placed(e, range.b1)'
      BY <1>1, <2>2 DEF Placed
    <2> QED BY <1>1, <2>3 DEF Along
  <1>5. stage \in Preparing /\ stage \notin Early
    BY <1>1 DEF Preparing, Early
  <1>6. \A r \in Ranks \ {u} : \A e \in Mine(r) \cap EnvIds :
               bufs'[e] = bufs[e] /\ staged'[e] = staged[e]
    BY <1>1, DrainOthers
  <1> QED BY <1>1, <1>3, <1>4, <1>5, <1>6, RankKeeps

\* flush_ready after the last batch.
LEMMA TailKeeps ==
    ASSUME DataInv, vote \in [Ranks -> {"none", "ok", "err"}], NEW u \in Ranks, FlushTail(u)
    PROVE  DataInv'
  <1>1. /\ stage = "tail" /\ Drain(u)
        /\ UNCHANGED <<layout, envs, before, call, stage, range, inbox>>
    BY Zenon DEF FlushTail, Turn, Elsewhere
  <1>2. PICK ok \in BOOLEAN : Vote(u, ok) /\ (ok => \A e \in Mine(u) : bufs'[e] = <<>>)
    BY DEF FlushTail
  <1>3. /\ vote'[u] = IF ok THEN "ok" ELSE "err"
        /\ \A r \in Ranks \ {u} : vote'[r] = vote[r]
    BY <1>2, VoteIs
  <1>4. ASSUME NEW e \in Mine(u) \cap EnvIds
        PROVE  Along(u, e)'
    <2>1. Placed(e, N) /\ GoodFiles(call.files) /\ before \in [EnvIds -> Tables]
      BY <1>1 DEF DataInv, Along
    <2>2. N \in Nat
      BY <2>1, OffNumbers DEF N, GoodFiles
    <2>3. Waits(layout', call'.files, e, N, before'[e], bufs'[e], staged'[e])
      BY <1>1, <2>1, <2>2, Drained
    <2>4. Placed(e, N)'
      BY <1>1, <2>3, NStays DEF Placed
    <2>5. vote'[u] = "ok" => bufs'[e] = <<>>
      BY <1>2, <1>3
    <2> QED BY <1>1, <2>4, <2>5 DEF Along
  <1>5. stage \in Preparing /\ stage \notin Early
    BY <1>1 DEF Preparing, Early
  <1>6. \A r \in Ranks \ {u} : \A e \in Mine(r) \cap EnvIds :
               bufs'[e] = bufs[e] /\ staged'[e] = staged[e]
    BY <1>1, DrainOthers
  <1> QED BY <1>1, <1>3, <1>4, <1>5, <1>6, RankKeeps

\* put_traj_meta completes what the serial ingest stores.
LEMMA MetaKeeps ==
    ASSUME DataInv, vote \in [Ranks -> {"none", "ok", "err"}], NEW u \in Ranks, Meta(u)
    PROVE  DataInv'
  <1>1. /\ stage = "meta" /\ vote[u] = "none" /\ Vote(u, TRUE)
        /\ UNCHANGED <<layout, envs, before, call, stage, range, inbox, bufs>>
    BY Zenon DEF Meta, Turn, Elsewhere
  <1>2. vote'[u] = "ok" /\ \A r \in Ranks \ {u} : vote'[r] = vote[r]
    BY <1>1, VoteIs
  <1>3. ASSUME NEW r \in Ranks \ {u}, NEW e \in Mine(r) \cap EnvIds
        PROVE  bufs'[e] = bufs[e] /\ staged'[e] = staged[e]
    <2>1. e \notin Mine(u)
      BY NotMine
    <2>2. staged'[e] = staged[e]
      BY <2>1 DEF Meta
    <2> QED BY <1>1, <2>2
  <1>4. ASSUME NEW e \in Mine(u) \cap EnvIds
        PROVE  Along(u, e)'
    <2>1. /\ Placed(e, N) /\ bufs[e] = <<>> /\ GoodFiles(call.files)
          /\ before \in [EnvIds -> Tables]
      BY <1>1 DEF DataInv, Along
    <2>2. staged'[e] = [staged[e] EXCEPT !.traj_meta =
              [t \in Trajs |->
                 IF Route(t).env = e /\ \E f \in DOMAIN call.files : call.files[f].traj = t
                 THEN CountOf(t) ELSE @[t]]]
      BY Zenon DEF Meta
    <2>3. Waits(layout, call.files, e, N, before[e], <<>>, staged[e]) /\ before[e] \in Tables
      BY <2>1 DEF Placed
    <2>4. staged'[e] = Serial(e, before[e])
      <3>1. PICK tx, env : tx = staged[e] /\ env = before[e]
        OBVIOUS
      <3>2. Waits(layout, call.files, e, N, env, <<>>, tx) /\ env \in Tables
        BY <2>3, <3>1
      <3>3. [tx EXCEPT !.traj_meta =
               [t \in Trajs |->
                  IF Route(t).env = e /\ \E f \in DOMAIN call.files : call.files[f].traj = t
                  THEN CountOf(t) ELSE @[t]]]
             = Serial(e, env)
        BY <2>1, <3>2, MetaStores
      <3> QED BY <2>2, <3>1, <3>3
    <2>5. staged'[e] = Serial(e, before[e])'
      BY <1>1, <2>4, SerialSame
    <2> QED BY <1>1, <1>2, <2>5 DEF Along
  <1>5. stage \in Preparing /\ stage \notin Early
    BY <1>1 DEF Preparing, Early
  <1> QED BY <1>1, <1>2, <1>3, <1>4, <1>5, RankKeeps

\* A rank commits one environment, or is done with them all.
LEMMA CommitsKeepData ==
    ASSUME BarrierInv, DataInv, NEW r \in Ranks,
           (\E e \in EnvIds : Commit(r, e)) \/ (\E ok \in BOOLEAN : CommitEnd(r, ok))
    PROVE  DataInv'
  <1>1. stage = "commit" /\ UNCHANGED <<layout, before, call, stage>>
    BY DEF Commit, CommitEnd, Turn, Elsewhere
  <1>2. envs' \in [EnvIds -> Tables]
    <2>1. CASE \E e \in EnvIds : Commit(r, e)
      <3>1. PICK e \in EnvIds : Commit(r, e)
        BY <2>1
      <3>2. staged[e] # Nil /\ envs' = [envs EXCEPT ![e] = staged[e]]
        BY <3>1 DEF Commit
      <3>3. staged[e] = SerialIn(layout, call.files, e, before[e])
        BY <1>1, <3>2 DEF BarrierInv, CommitsAreWhole, Serial
      <3>4. GoodFiles(call.files) /\ before[e] \in Tables
        BY <1>1 DEF DataInv
      <3>5. staged[e] \in Tables
        BY <3>3, <3>4, SerialType
      <3> QED BY <3>2, <3>5 DEF DataInv
    <2>2. CASE \E ok \in BOOLEAN : CommitEnd(r, ok)
      BY <2>2 DEF CommitEnd, Elsewhere, DataInv
    <2> QED BY <2>1, <2>2
  <1>3. \A u \in Ranks : \A e : Along(u, e)'
    BY <1>1 DEF Along
  <1> QED BY <1>1, <1>2, <1>3 DEF DataInv, Early

\* All ranks return.
LEMMA ReturnKeepsData ==
    ASSUME DataInv, NEW how, Return(how), UNCHANGED <<layout, envs, before, call>>
    PROVE  DataInv'
  <1>1. stage' = "returned" /\ \A e \in EnvIds : bufs'[e] = <<>>
    BY DEF Return
  <1>2. \A u \in Ranks : \A e : Along(u, e)'
    BY <1>1 DEF Along
  <1> QED BY <1>1, <1>2 DEF DataInv, Early

\* The batches that are cut lie within the frames.
LEMMA BatchIsCut ==
    ASSUME NEW n \in Nat, NEW b0 \in Nat, NEW batch \in Nat, b0 <= MaxWord, b0 < n
    PROVE  LET b1 == BatchEnd(b0, Greatest(batch, 1), n)
           IN  b1 \in Nat /\ b0 <= b1 /\ b1 <= n /\ b1 <= MaxWord
  BY WireAssumption, SMT DEF BatchEnd, SaturatingAdd, Least, Greatest

\* The stages a barrier leads from and to.
LEMMA StageFrom ==
    ASSUME stage \in Preparing
    PROVE  /\ NextStage \in {"parse", "hashes"} => stage \in {"begin", "parse"}
           /\ NextStage = "fit" => \/ stage = "hashes" /\ 0 < N
                                   \/ stage = "flush" /\ range.b1 < N
           /\ NextStage = "decode" => stage = "fit"
           /\ NextStage = "flush" => stage = "decode"
           /\ NextStage = "tail" => \/ stage = "hashes" /\ ~ (0 < N)
                                    \/ stage = "flush" /\ ~ (range.b1 < N)
           /\ NextStage = "meta" => stage = "tail"
           /\ NextStage \in Early => stage \in Early
           /\ NextStage \notin {"idle", "returned"}
  <1>1. CASE stage \in {"hashes", "fit", "decode", "flush", "tail", "meta"}
    BY <1>1 DEF NextStage, Preparing, Early
  <1>2. CASE stage \in {"scan", "open", "reserve", "begin", "parse"}
    <2> DEFINE k == CHOOSE i \in DOMAIN Order : Order[i] = stage
    <2>1. NextStage = Order[1 + k]
      BY <1>2 DEF NextStage
    <2>2. DOMAIN Order = 1 .. 6
      BY DEF Order
    <2>3. \E i \in 1 .. 6 : Order[i] = stage
      BY <1>2 DEF Order
    <2>4. k \in 1 .. 6 /\ Order[k] = stage
      BY <2>2, <2>3
    <2> HIDE DEF k
    <2>5. k # 6
      BY <1>2, <2>4 DEF Order
    <2>6. NextStage \in {"open", "reserve", "begin", "parse", "hashes"}
      BY <2>1, <2>4, <2>5 DEF Order
    <2>7. NextStage \in {"parse", "hashes"} => stage \in {"begin", "parse"}
      BY <2>1, <2>4, <2>5 DEF Order
    <2> QED BY <1>2, <2>6, <2>7 DEF Early
  <1> QED BY <1>1, <1>2 DEF Preparing

\* All ranks go on: the batch is exchanged, or the next one is cut.
LEMMA AgreeKeepsData ==
    ASSUME BarrierInv, DataInv, Agree
    PROVE  DataInv'
  <1>1. UNCHANGED <<layout, envs, before, call>> /\ \A r \in Ranks : vote[r] = "ok"
    BY Zenon DEF Agree
  <1>2. CASE stage = "commit"
    <2>1. Return("ok")
      BY <1>2, Zenon DEF Agree
    <2> QED BY <1>1, <2>1, ReturnKeepsData
  <1>3. CASE stage # "commit"
    <2>1. stage \in Preparing
      BY <1>3 DEF Agree, BarrierInv
    <2>2. /\ stage' = NextStage /\ vote' = [r \in Ranks |-> "none"] /\ UNCHANGED <<staged, bufs>>
          /\ range' = IF NextStage # "fit" THEN range
                      ELSE LET b0 == IF stage = "hashes" THEN 0 ELSE range.b1
                           IN  [b0 |-> b0, b1 |-> BatchEnd(b0, Greatest(call.batch, 1), N)]
          /\ stage = "fit" =>
               inbox' = [r \in Ranks |-> FlattenSeq([s \in 1 .. Size |-> Message(s - 1, r)])]
      BY <1>3, Zenon DEF Agree, GoTo
    <2>3. GoodFiles(call.files) /\ call.batch \in Nat
      BY <2>1 DEF DataInv, Preparing
    <2>4. N' = N /\ N \in Nat
      BY <1>1, <2>3, NStays, OffNumbers DEF N, GoodFiles
    <2>5. stage \in {"fit", "decode", "flush"} => RangeOk
      BY DEF DataInv
    <2>6. NextStage # "fit" => range' = range
      BY <2>2
    <2>7. NextStage = "fit" => range'.b0 = IF stage = "hashes" THEN 0 ELSE range.b1
      BY <2>2
    <2>8. NextStage = "fit" => RangeOk'
      <3>1. SUFFICES ASSUME NextStage = "fit" PROVE RangeOk'
        OBVIOUS
      <3>2. \/ stage = "hashes" /\ 0 < N
            \/ stage = "flush" /\ range.b1 < N
        BY <2>1, <3>1, StageFrom, Zenon
      <3>3. PICK b0 \in Nat : /\ b0 = IF stage = "hashes" THEN 0 ELSE range.b1
                              /\ b0 <= MaxWord /\ b0 < N
        BY <2>5, <3>2, WireAssumption DEF RangeOk
      <3>4. range' = [b0 |-> b0, b1 |-> BatchEnd(b0, Greatest(call.batch, 1), N)]
        BY <2>2, <3>1, <3>3
      <3>5. PICK b1 : b1 = BatchEnd(b0, Greatest(call.batch, 1), N)
        OBVIOUS
      <3>6. b1 \in Nat /\ b0 <= b1 /\ b1 <= N /\ b1 <= MaxWord
        BY <2>3, <2>4, <3>3, <3>5, BatchIsCut
      <3>7. range'.b0 = b0 /\ range'.b1 = b1 /\ range' \in [b0 : Nat, b1 : Nat]
        BY <3>4, <3>5, <3>6
      <3> QED BY <2>4, <3>3, <3>6, <3>7 DEF RangeOk
    <2>9. NextStage \in {"decode", "flush"} => RangeOk'
      <3>1. SUFFICES ASSUME NextStage \in {"decode", "flush"} PROVE RangeOk'
        OBVIOUS
      <3>2. RangeOk /\ range' = range
        BY <2>1, <2>5, <2>6, <3>1, StageFrom
      <3> QED BY <2>4, <3>2 DEF RangeOk
    <2>10. NextStage = "decode" => \A r \in Ranks : Inbox(r)'
      <3>1. SUFFICES ASSUME NextStage = "decode", NEW r \in Ranks PROVE Inbox(r)'
        OBVIOUS
      <3>2. stage = "fit" /\ RangeOk /\ range' = range
        BY <2>1, <2>5, <2>6, <3>1, StageFrom
      <3>3. Brought(r, FlattenSeq([s \in 1 .. Size |-> Message(s - 1, r)]))
        BY <2>4, <3>2, Exchanged DEF RangeOk
      <3>4. inbox'[r] = FlattenSeq([s \in 1 .. Size |-> Message(s - 1, r)])
        BY <2>2, <3>2
      <3>5. PICK s : Lists(s, SentTo(r)) /\ inbox'[r] = RecordsFor(s)
        BY <3>3, <3>4 DEF Brought
      <3>6. SentTo(r)' = SentTo(r)
        BY <1>1, <3>2 DEF SentTo, To, Frame, Route, RouteIn
      <3>7. RecordsFor(s)' = RecordsFor(s)
        BY <1>1, <3>2 DEF RecordsFor, Record, Winner, To, Frame, Route, RouteIn
      <3>8. Lists(s, SentTo(r)') /\ inbox'[r] = RecordsFor(s)'
        BY <3>5, <3>6, <3>7
      <3> QED BY <3>8 DEF Inbox, Brought
    <2>11. ASSUME NEW r \in Ranks, NEW e \in Mine(r) \cap EnvIds
           PROVE  Along(r, e)'
      <3>1. Along(r, e) /\ vote[r] = "ok" /\ vote'[r] = "none"
        BY <1>1, <2>2 DEF DataInv
      <3>2. /\ Placed(e, 0)' <=> Placed(e, 0)
            /\ Placed(e, N)' <=> Placed(e, N)
            /\ range' = range => /\ Placed(e, range.b0)' <=> Placed(e, range.b0)
                                 /\ Placed(e, range.b1)' <=> Placed(e, range.b1)
        BY <1>1, <2>2, PlacedStays
      <3>3. stage' \in {"parse", "hashes"} => Placed(e, 0)'
        <4>1. SUFFICES ASSUME NextStage \in {"parse", "hashes"} PROVE Placed(e, 0)
          BY <2>2, <3>2
        <4>2. CASE stage = "begin"
          <5>1. staged[e] = before[e] /\ bufs[e] = <<>> /\ before[e] \in Tables
            BY <3>1, <4>2 DEF Along, DataInv, Early
          <5> QED BY <2>3, <5>1, WaitsNone DEF Placed
        <4>3. CASE stage = "parse"
          BY <3>1, <4>3 DEF Along
        <4> QED BY <2>1, <4>1, <4>2, <4>3, StageFrom
      <3>4. stage' = "fit" => Placed(e, range.b0)'
        <4>1. SUFFICES ASSUME NextStage = "fit" PROVE Placed(e, range.b0)'
          BY <2>2
        <4>2. PICK b0 : b0 = range'.b0 /\ b0 = IF stage = "hashes" THEN 0 ELSE range.b1
          BY <2>7, <4>1
        <4>3. Placed(e, b0)
          <5>1. CASE stage = "hashes"
            BY <3>1, <4>2, <5>1 DEF Along
          <5>2. CASE stage = "flush"
            BY <3>1, <4>2, <5>2 DEF Along
          <5> QED BY <2>1, <4>1, <5>1, <5>2, StageFrom
        <4> QED BY <1>1, <2>2, <4>2, <4>3 DEF Placed
      <3>5. stage' = "decode" => Placed(e, range.b0)'
        <4>1. SUFFICES ASSUME NextStage = "decode" PROVE Placed(e, range.b0)'
          BY <2>2
        <4>2. stage = "fit" /\ range' = range
          BY <2>1, <2>6, <4>1, StageFrom
        <4> QED BY <3>1, <3>2, <4>2 DEF Along
      <3>6. stage' = "flush" => Placed(e, range.b1)'
        <4>1. SUFFICES ASSUME NextStage = "flush" PROVE Placed(e, range.b1)'
          BY <2>2
        <4>2. stage = "decode" /\ range' = range
          BY <2>1, <2>6, <4>1, StageFrom
        <4> QED BY <3>1, <3>2, <4>2 DEF Along
      <3>7. stage' = "tail" => Placed(e, N)'
        <4>1. SUFFICES ASSUME NextStage = "tail" PROVE Placed(e, N)
          BY <2>2, <3>2
        <4>2. CASE stage = "hashes" /\ ~ (0 < N)
          <5>1. N = 0
            BY <2>4, <4>2
          <5> QED BY <3>1, <4>2, <5>1 DEF Along
        <4>3. CASE stage = "flush" /\ ~ (range.b1 < N)
          <5>1. N = range.b1
            BY <2>4, <2>5, <4>3 DEF RangeOk
          <5>2. Placed(e, range.b1)
            BY <3>1, <4>3 DEF Along
          <5> QED BY <5>1, <5>2
        <4> QED BY <2>1, <4>1, <4>2, <4>3, StageFrom
      <3>8. stage' = "meta" => Placed(e, N)' /\ bufs'[e] = <<>>
        <4>1. SUFFICES ASSUME NextStage = "meta" PROVE Placed(e, N)' /\ bufs'[e] = <<>>
          BY <2>2
        <4>2. stage = "tail"
          BY <2>1, <4>1, StageFrom
        <4> QED BY <2>2, <3>1, <3>2, <4>2 DEF Along
      <3> QED BY <3>1, <3>3, <3>4, <3>5, <3>6, <3>7, <3>8 DEF Along
    <2>12. \A r \in Ranks : Mine(r)' = Mine(r)
      BY <1>1, MineStays
    <2>13. stage' \in Early \cup {"idle", "returned"} => \A e \in EnvIds : bufs'[e] = <<>>
      BY <2>1, <2>2, StageFrom DEF DataInv
    <2> QED BY <1>1, <2>2, <2>3, <2>8, <2>9, <2>10, <2>11, <2>12, <2>13 DEF DataInv
  <1> QED BY <1>2, <1>3

\* A batch that is halved still lies within the frames.
LEMMA BatchIsHalved ==
    ASSUME NEW b0 \in Nat, NEW b1 \in Nat, b0 <= b1
    PROVE  /\ ShrinkBatchEnd(b0, b1) \in Nat
           /\ b0 <= ShrinkBatchEnd(b0, b1) /\ ShrinkBatchEnd(b0, b1) <= b1
  <1>1. PICK span \in Nat : span = b1 - b0 /\ b1 = b0 + span
    OBVIOUS
  <1>2. PICK half \in Nat : half = span \div 2 /\ half <= span
    OBVIOUS
  <1>3. ShrinkBatchEnd(b0, b1) \in {b1, b0 + half}
    BY <1>1, <1>2 DEF ShrinkBatchEnd
  <1> QED BY <1>1, <1>2, <1>3

\* A batch is halved, or all ranks return.
LEMMA DisagreeKeepsData ==
    ASSUME DataInv, Disagree \/ Kill
    PROVE  DataInv'
  <1>1. UNCHANGED <<layout, envs, before, call>>
    BY DEF Disagree, Kill
  <1>2. CASE Return("err") \/ Return("killed")
    BY <1>1, <1>2, ReturnKeepsData
  <1>3. CASE /\ stage = "fit" /\ GoTo("fit") /\ UNCHANGED <<staged, bufs, inbox>>
             /\ range' = [range EXCEPT !.b1 = ShrinkBatchEnd(range.b0, range.b1)]
    <2>1. stage' = "fit" /\ N' = N
      BY <1>1, <1>3, NStays DEF GoTo
    <2>2. RangeOk
      BY <1>3 DEF DataInv
    <2>3. \A r \in Ranks : Mine(r)' = Mine(r)
      BY <1>1, MineStays
    <2>4. PICK b1 \in Nat : b1 = ShrinkBatchEnd(range.b0, range.b1) /\ range.b0 <= b1 /\ b1 <= range.b1
      BY <2>2, BatchIsHalved DEF RangeOk
    <2>5. range'.b0 = range.b0 /\ range'.b1 = b1 /\ range' \in [b0 : Nat, b1 : Nat]
      BY <1>3, <2>2, <2>4 DEF RangeOk
    <2>6. RangeOk'
      <3>1. range.b1 \in Nat /\ range.b1 <= N /\ range.b1 <= MaxWord /\ range.b0 \in Nat
        BY <2>2 DEF RangeOk
      <3>2. N \in Nat
        BY <1>3, OffNumbers DEF N, GoodFiles, DataInv
      <3>3. b1 <= N /\ b1 <= MaxWord
        BY <2>4, <3>1, <3>2, WireAssumption
      <3> QED BY <2>1, <2>4, <2>5, <3>3 DEF RangeOk
    <2>7. ASSUME NEW r \in Ranks, NEW e \in Mine(r) \cap EnvIds
          PROVE  Along(r, e)'
      <3>1. Placed(e, range.b0)
        BY <1>3 DEF DataInv, Along
      <3>2. Placed(e, range.b0)'
        BY <1>1, <1>3, <2>5, <3>1 DEF Placed
      <3> QED BY <2>1, <3>2 DEF Along
    <2> QED BY <1>1, <1>3, <2>1, <2>3, <2>6, <2>7 DEF DataInv, Early
  <1> QED BY <1>2, <1>3 DEF Disagree, Kill

\* A call begins with nothing staged and nothing waiting.
LEMMA CallKeepsData ==
    ASSUME DataInv, BarrierInv, NEW files \in FileLists, NEW batch \in Batches, Call(files, batch)
    PROVE  DataInv'
  <1>1. /\ stage \in {"idle", "returned"} /\ call' = [files |-> files, batch |-> batch]
        /\ before' = envs /\ UNCHANGED <<layout, envs, staged, bufs, range, inbox>>
    BY DEF Call, job
  <1>2. \/ stage' = "returned"
        \/ /\ stage' = "scan"
           /\ ~ \E f, d \in DOMAIN files : f # d /\ files[f].traj = files[d].traj
    BY DEF Call
  <1>3. stage' = "scan" => GoodFiles(call'.files)
    <2>1. files \in Seq(FileSet) /\ \A f \in DOMAIN files : Len(files[f].texts) <= MaxFrames
      BY MpiAssumption DEF FileSet
    <2>2. DOMAIN files = 1 .. Len(files)
      BY <2>1
    <2> QED BY <1>1, <1>2, <2>1, <2>2 DEF GoodFiles
  <1>4. call'.batch \in Nat
    BY <1>1, MpiAssumption, WireAssumption
  <1>5. \A r \in Ranks : \A e : Along(r, e)'
    BY <1>2 DEF Along
  <1> QED BY <1>1, <1>2, <1>3, <1>4, <1>5 DEF DataInv, Early

\* The invariant holds at first.
LEMMA DataInit ==
    ASSUME Init
    PROVE  DataInv
  <1>1. EmptyEnv \in Tables
    BY DEF EmptyEnv, Tables
  <1>2. stage = "idle" /\ envs = [e \in EnvIds |-> EmptyEnv] /\ before = envs
        /\ bufs = [e \in EnvIds |-> <<>>]
    BY DEF Init
  <1>3. \A r \in Ranks : \A e : Along(r, e)
    BY <1>2 DEF Along
  <1> QED BY <1>1, <1>2, <1>3 DEF DataInv

\* It holds when nothing changes.
LEMMA DataStutter ==
    ASSUME DataInv, UNCHANGED vars
    PROVE  DataInv'
  <1>1. UNCHANGED <<layout, envs, before, call, stage, vote, staged, bufs, range, inbox>>
    BY DEF vars
  <1>2. \A r \in Ranks : Mine(r)' = Mine(r) /\ (Inbox(r)' <=> Inbox(r))
    BY <1>1, MineStays, InboxStays
  <1>3. \A r \in Ranks : \A e \in Mine(r) \cap EnvIds : Along(r, e)'
    BY <1>1, AlongStays DEF DataInv
  <1>4. RangeOk' <=> RangeOk
    BY <1>1, NStays DEF RangeOk
  <1> QED BY <1>1, <1>2, <1>3, <1>4 DEF DataInv

\* What the barriers and the data say together decides the last barrier.
LEMMA StagedSerially ==
    ASSUME BarrierInv, DataInv
    PROVE  StagedIsSerial
  <1> SUFFICES ASSUME stage = "meta", \A r \in Ranks : vote[r] = "ok", NEW e \in EnvIds
               PROVE  (IF staged[e] = Nil THEN before[e] ELSE staged[e]) = Serial(e, before[e])
    BY DEF StagedIsSerial
  <1>1. GoodFiles(call.files) /\ before[e] \in Tables
    BY DEF DataInv
  <1>2. CASE \E r \in Ranks : e \in Mine(r)
    <2>1. staged[e] = Serial(e, before[e])
      BY <1>2 DEF DataInv, Along
    <2>2. Serial(e, before[e]) \in Tables
      BY <1>1, SerialType DEF Serial
    <2> QED BY <2>1, <2>2, NoTablesAssumption
  <1>3. CASE \A r \in Ranks : e \notin Mine(r)
    <2>1. staged[e] = Nil
      BY <1>3 DEF BarrierInv, SessionsOwned
    <2>2. Serial(e, before[e]) = before[e]
      BY <1>1, <1>3, FilesOwned, SerialIdle DEF Serial
    <2> QED BY <2>1, <2>2
  <1> QED BY <1>2, <1>3

\* It holds after every step.
LEMMA DataStep ==
    ASSUME BarrierInv, DataInv, [Next]_vars
    PROVE  DataInv'
  <1>0. vote \in [Ranks -> {"none", "ok", "err"}]
    BY DEF BarrierInv
  <1>1. ASSUME NEW r \in Ranks, Step(r) \/ Fail(r)
        PROVE  DataInv'
    <2>1. CASE Work(r) \/ Fit(r) \/ Fail(r)
      BY <1>0, <2>1, WorkKeeps
    <2>2. CASE Begin(r)
      <3>1. stage = "begin"
        BY <2>2 DEF Begin, Turn
      <3>2. envs = before
        BY <3>1 DEF BarrierInv
      <3> QED BY <1>0, <2>2, <3>2, BeginKeeps
    <2>3. CASE DecodeBatch(r)
      BY <1>0, <2>3, DecodeKeeps
    <2>4. CASE Flush(r)
      BY <1>0, <2>4, FlushKeeps
    <2>5. CASE FlushTail(r)
      BY <1>0, <2>5, TailKeeps
    <2>6. CASE Meta(r)
      BY <1>0, <2>6, MetaKeeps
    <2>7. CASE (\E e \in EnvIds : Commit(r, e)) \/ (\E ok \in BOOLEAN : CommitEnd(r, ok))
      BY <2>7, CommitsKeepData
    <2> QED BY <1>1, <2>1, <2>2, <2>3, <2>4, <2>5, <2>6, <2>7 DEF Step
  <1>2. ASSUME NEW files \in FileLists, NEW batch \in Batches, Call(files, batch)
        PROVE  DataInv'
    BY <1>2, CallKeepsData
  <1> QED BY <1>1, <1>2, AgreeKeepsData, DisagreeKeepsData, DataStutter DEF Next

\* The barriers and the data, together.
LEMMA IngestInvariant == Spec => [](BarrierInv /\ DataInv)
  <1>1. Init => BarrierInv /\ DataInv
    BY BarrierInit, DataInit
  <1>2. BarrierInv /\ DataInv /\ [Next]_vars => (BarrierInv /\ DataInv)'
    BY BarrierStep, DataStep, StagedSerially
  <1> QED BY <1>1, <1>2, PTL DEF Spec

\* A duplicate that was sent without its bytes finds them with its winner.
LEMMA WinnerComesAlong ==
    ASSUME GoodFiles(call.files), NEW r, NEW s, Lists(s, SentTo(r)),
           range.b0 \in Nat, range.b1 \in Nat, range.b1 <= N,
           inbox[r] = RecordsFor(s), NEW i \in 1 .. Len(s)
    PROVE  Payload(r, i) # Nil \/ Winner(inbox[r][i].g) < range.b0
  <1> SUFFICES ASSUME ~ (Winner(inbox[r][i].g) < range.b0)
               PROVE  Payload(r, i) # Nil
    OBVIOUS
  <1>1. PICK len \in Nat : len = Len(s) /\ \A j \in 1 .. len : s[j] \in SentTo(r)
    BY DEF Lists
  <1>2. PICK g \in Nat : g = s[i] /\ g \in SentTo(r)
    <2>1. s[i] \in SentTo(r)
      BY <1>1
    <2>2. SentTo(r) \subseteq Nat
      BY DEF SentTo
    <2> QED BY <2>1, <2>2
  <1>3. /\ DOMAIN inbox[r] = 1 .. len
        /\ \A j \in 1 .. len : inbox[r][j] = Record(s[j])
    BY <1>1 DEF RecordsFor
  <1>4. \A h : /\ Record(h).g = h
               /\ Record(h).text = IF Winner(h) = h \/ Winner(h) < range.b0
                                   THEN Frame(h).text ELSE Nil
    BY DEF Record, SendStoredBytes
  <1>5. PICK w \in 0 .. g : /\ w = Winner(g) /\ Winner(w) = w
                            /\ Frame(w).text = Frame(g).text /\ To(w).env = To(g).env
    BY <1>2, WinnerIs
  <1>6. inbox[r][i].g = g /\ range.b0 <= w
    <2>1. inbox[r][i].g = g
      BY <1>1, <1>2, <1>3, <1>4
    <2> QED BY <1>5, <2>1
  <1>7. w \in SentTo(r)
    <2>1. To(w).owner = To(g).owner
      BY <1>5, ToIs
    <2> QED BY <1>2, <1>5, <1>6, <2>1 DEF SentTo
  <1>8. Frame(g).text # Nil
    <2>1. g \in Numbers0(call.files)
      <3>1. N \in Nat
        BY OffNumbers DEF N, GoodFiles
      <3> QED BY <1>2, <3>1 DEF SentTo, Numbers0, N
    <2>2. Frame(g).text \in Texts
      BY <2>1, FrameFacts, ToIs
    <2> QED BY <2>2, NilAssumption
  <1> DEFINE kept == {j \in 1 .. i - 1 : inbox[r][j].g = w}
  <1>9. Payload(r, i) = IF w = g \/ w < range.b0 \/ kept = {}
                        THEN inbox[r][i].text
                        ELSE inbox[r][CHOOSE j \in kept : TRUE].text
    BY <1>5, <1>6 DEF Payload
  <1>10. CASE w = g
    BY <1>1, <1>2, <1>3, <1>4, <1>5, <1>8, <1>9, <1>10
  <1>11. CASE w # g
    <2>1. PICK j \in 1 .. len : s[j] = w
      BY <1>1, <1>7 DEF Lists
    <2>2. j < i
      <3>1. s[j] < s[i] => j < i
        BY <1>1, <2>1, ListedTwice
      <3> QED BY <1>2, <1>5, <1>11, <2>1, <3>1
    <2>3. \A k \in 1 .. len : s[k] = w => inbox[r][k].text = Frame(g).text
      BY <1>3, <1>4, <1>5
    <2>4. \A k \in 1 .. len : inbox[r][k].g = s[k]
      BY <1>3, <1>4
    <2>5. kept # {}
      BY <1>1, <2>1, <2>2, <2>4
    <2>6. PICK k \in kept : k = CHOOSE l \in kept : TRUE
      BY <2>5
    <2>7. inbox[r][k].text = Frame(g).text
      <3>1. k \in 1 .. len /\ s[k] = w
        BY <1>1, <2>4, <2>6
      <3> QED BY <2>3, <3>1
    <2>8. Payload(r, i) = inbox[r][k].text
      <3>1. ~ (w < range.b0)
        BY <1>6
      <3> HIDE DEF kept
      <3> QED BY <1>9, <1>11, <2>5, <2>6, <3>1
    <2> QED BY <1>8, <2>7, <2>8
  <1> QED BY <1>10, <1>11

\* build_messages and decode_batch: a frame whose bytes were left out of a
\* message because an earlier frame of the batch has the same ones is given
\* those on arrival, so a rank that decodes a batch writes the text of every
\* frame it is sent and the error of decode_batch never shows.
THEOREM PayloadsArrive ==
    Spec => [](stage = "decode" =>
                 \A r \in Ranks : \A i \in DOMAIN inbox[r] :
                     Payload(r, i) = Frame(inbox[r][i].g).text)
  <1> DEFINE Arrived == stage = "decode" =>
                          \A r \in Ranks : \A i \in DOMAIN inbox[r] :
                              Payload(r, i) = Frame(inbox[r][i].g).text
  <1>1. BarrierInv /\ DataInv => Arrived
    <2> SUFFICES ASSUME DataInv, stage = "decode", NEW r \in Ranks, NEW i \in DOMAIN inbox[r]
                 PROVE  Payload(r, i) = Frame(inbox[r][i].g).text
      OBVIOUS
    <2>1. GoodFiles(call.files) /\ RangeOk /\ Inbox(r)
      BY DEF DataInv
    <2>2. PICK s : Lists(s, SentTo(r)) /\ inbox[r] = RecordsFor(s)
      BY <2>1 DEF Inbox, Brought
    <2>3. i \in 1 .. Len(s)
      BY <2>2 DEF RecordsFor
    <2>4. range.b0 \in Nat /\ range.b1 \in Nat /\ range.b1 <= N
      BY <2>1 DEF RangeOk
    <2>5. Payload(r, i) # Nil \/ Winner(inbox[r][i].g) < range.b0
      BY <2>1, <2>2, <2>3, <2>4, WinnerComesAlong
    <2>6. inbox[r][i].g = s[i] /\ Payload(r, i) = Frame(s[i]).text
      <3> HIDE DEF Arrived
      <3>1. range.b0 \in Nat
        BY <2>4
      <3> QED BY <2>2, <2>3, <2>5, <3>1, PayloadIs
    <2> QED BY <2>6
  <1> HIDE DEF Arrived
  <1>2. Spec => []Arrived
    BY <1>1, IngestInvariant, PTL
  <1> QED BY <1>2 DEF Arrived

\* g is the first of U, and what is not in U comes before.
Heads(g, T, U) == g \in U /\ (\A x \in T, y \in U : x < y) /\ \A y \in U : g <= y

\* What follows whole groups begins with the first frame of a group.
LEMMA HeadAligned ==
    ASSUME NEW shards, NEW files, GoodFiles(files), NEW e, NEW n \in Nat, NEW T, NEW U,
           T \cup U = FramesTo(shards, files, e, n), Grouped(files, T),
           NEW g, Heads(g, T, U)
    PROVE  KeyOf(files, g)[2] = GroupStart(KeyOf(files, g)[2])
  <1>1. g \in Numbers0(files) /\ g < n /\ EnvOf(shards, files, g) = e
    BY DEF FramesTo, Heads
  <1>0. PICK f \in 1 .. Len(files), o \in Nat, len \in Nat, i \in Nat :
           Lies(files, g, f, o, len, i)
    BY <1>1, FramePlace
  <1>2. /\ f = FileOf(files, g) /\ o = Off(files)[f] /\ len = Len(files[f].texts)
        /\ g = o + i /\ i < len /\ KeyOf(files, g) = <<files[f].traj, i>>
    BY <1>0 DEF Lies
  <1>3. PICK a \in Nat : a = GroupStart(i) /\ a <= i /\ a < len /\ a \div GroupLen = i \div GroupLen
    <2>1. i \in 0 .. len - 1
      BY <1>2
    <2>2. /\ GroupStart(i) \in Nat /\ GroupStart(i) <= i /\ i < GroupEnd(len, i)
          /\ GroupEnd(len, i) \in Nat
          /\ \A j \in 0 .. len - 1 : j \div GroupLen = i \div GroupLen
                                      <=> GroupStart(i) <= j /\ j < GroupEnd(len, i)
      BY <2>1, GroupEnds
    <2>3. GroupStart(i) \in 0 .. len - 1 /\ GroupStart(i) < GroupEnd(len, i)
      BY <1>2, <2>2
    <2> QED BY <2>2, <2>3
  <1>4. /\ o + a \in Numbers0(files) /\ FileOf(files, o + a) = f
        /\ KeyOf(files, o + a) = <<files[f].traj, a>>
    <2>1. a \in 0 .. len - 1
      BY <1>3
    <2> QED BY <1>2, <2>1, FrameBeside
  <1>5. PICK m \in Numbers0(files) : m = o + a
    BY <1>4
  <1>6. m <= g /\ m < n /\ g \in Nat /\ m \in Nat
    <2>1. g \in Nat /\ m \in Nat /\ m <= g
      <3>1. o + i \in Nat /\ o + a \in Nat /\ o + a <= o + i
        BY <1>3
      <3> QED BY <1>2, <1>5, <3>1, Zenon
    <2> QED BY <1>1, <2>1
  <1>7. m \in FramesTo(shards, files, e, n)
    <2>1. EnvOf(shards, files, m) = EnvOf(shards, files, g)
      <3>1. FileOf(files, m) = f /\ FileOf(files, g) = f
        BY <1>2, <1>4, <1>5, Zenon
      <3>2. EnvOf(shards, files, m) = RouteIn(shards, files[FileOf(files, m)].traj).env
        BY EnvOfFile
      <3>3. EnvOf(shards, files, g) = RouteIn(shards, files[FileOf(files, g)].traj).env
        BY <1>1, EnvOfFile
      <3> QED BY <3>1, <3>2, <3>3, Zenon
    <2> QED BY <1>1, <1>6, <2>1 DEF FramesTo
  <1>8. m \notin T
    <2>1. Kin(files, m, g)
      <3>1. KeyOf(files, g)[1] = files[f].traj /\ KeyOf(files, g)[2] = i
        BY <1>2
      <3>2. KeyOf(files, m)[1] = files[f].traj /\ KeyOf(files, m)[2] = a
        BY <1>4, <1>5
      <3> QED BY <1>3, <3>1, <3>2 DEF Kin
    <2>2. g \notin T
      BY <1>6 DEF Heads
    <2> QED BY <1>1, <2>1, <2>2 DEF Grouped
  <1>9. m = g
    <2>1. g <= m
      BY <1>7, <1>8 DEF Heads
    <2> QED BY <1>6, <2>1
  <1>10. a = i
    <2>1. o + a = o + i
      BY <1>2, <1>5, <1>9
    <2> QED BY <2>1
  <1>11. KeyOf(files, g)[2] = i
    BY <1>2
  <1> QED BY <1>3, <1>10, <1>11

\* When no whole group is left of what waits, what waits begins with the
\* first frame of a group, and with no frame when none is to come.
LEMMA WaitsHead ==
    ASSUME GoodFiles(call.files), NEW e, NEW env, NEW buf, NEW tx, NEW n \in Nat,
           Waits(layout, call.files, e, n, env, buf, tx)
    PROVE  ~ Misaligned(buf) /\ (n = N => Ready(buf) = Len(buf))
  <1> DEFINE files == call.files
             F == FramesTo(layout, files, e, n)
  <1>1. PICK S, B : /\ S \cup B = F
                    /\ \A g \in S, h \in B : g < h
                    /\ Grouped(files, S)
                    /\ \E s : Lists(s, B) /\ buf = RowsFor(files, s)
    BY DEF Waits
  <1>2. PICK s : Lists(s, B) /\ buf = RowsFor(files, s)
    BY <1>1
  <1>3. B \subseteq Numbers0(files) /\ GoodFiles(files)
    BY <1>1 DEF FramesTo
  <1>4. Unbroken(files, B)
    <2> HIDE DEF files
    <2> QED BY <1>1, <1>3, RestUnbroken
  <1>5. PICK len \in Nat : /\ len = Len(s) /\ len = Len(buf)
                           /\ \A p \in 1 .. len : buf[p].key = KeyOf(files, s[p])
    BY <1>2, RowsForFacts
  <1>6. PICK k \in 0 .. len :
            /\ k = Ready(buf)
            /\ \A x \in 1 .. k : \E q, l, f, i : /\ GroupAt(files, s, q, l, f, i)
                                                 /\ q <= x /\ x <= l /\ l <= k
            /\ k < Len(s) => ~ WholeAt(files, s, k + 1)
    <2> DEFINE kk == Ready(RowsFor(files, s))
               Covered(j) == \A x \in 1 .. j : \E q, l, f, i : /\ GroupAt(files, s, q, l, f, i)
                                                               /\ q <= x /\ x <= l /\ l <= j
    <2>1. /\ kk \in 0 .. Len(s) /\ Covered(kk)
          /\ kk < Len(s) => ~ WholeAt(files, s, kk + 1)
      BY <1>2, <1>4, ReadyGroups
    <2> QED BY <1>2, <1>5, <2>1
  <1>7. CASE k = len
    <2>1. ~ (Ready(buf) + 1 <= Len(buf))
      BY <1>5, <1>6, <1>7
    <2> QED BY <1>5, <1>6, <1>7, <2>1 DEF Misaligned
  <1>8. CASE k < len
    <2>1. PICK p \in 1 .. len : p = k + 1
      BY <1>8
    <2>2. PICK g \in B : g = s[p]
      BY <1>2, <1>5 DEF Lists
    <2> DEFINE T == S \cup Low(s, k)
               U == High(s, k)
    <2> HIDE DEF files
    <2>3. Grouped(files, T)
      <3>1. Grouped(files, Low(s, k))
        BY <1>2, <1>3, <1>5, <1>6, LowGrouped
      <3> QED BY <1>1, <3>1 DEF Grouped
    <2>4. /\ Low(s, k) \cup U = B
          /\ \A t \in Low(s, k), h \in U : t < h
      BY <1>2, <1>5, ListsCut
    <2>5. T \cup U = F /\ \A t \in T, h \in U : t < h
      BY <1>1, <2>4
    <2>6. g \in U /\ \A h \in U : g <= h
      <3>1. g \in U
        BY <1>5, <2>1, <2>2 DEF High
      <3>2. ASSUME NEW y \in k + 1 .. len
            PROVE  g <= s[y]
        <4>1. y \in 1 .. len /\ (p < y \/ p = y)
          BY <2>1
        <4>2. g \in Nat
          BY <1>2, <1>5, <2>2, ListedTwice
        <4>3. s[p] < s[y] \/ s[p] = s[y]
          BY <1>2, <1>5, <4>1, ListedTwice
        <4>4. s[y] \in Nat
          BY <1>2, <1>5, <4>1, ListedTwice
        <4>5. PICK u \in Nat, v \in Nat : u = g /\ v = s[y]
          BY <4>2, <4>4
        <4>6. u <= v
          BY <2>2, <4>3, <4>5
        <4> QED BY <4>5, <4>6
      <3> QED BY <1>5, <3>1, <3>2 DEF High
    <2>7. KeyOf(files, g)[2] = GroupStart(KeyOf(files, g)[2])
      <3>1. Heads(g, T, U)
        BY <2>5, <2>6 DEF Heads
      <3> HIDE DEF T, U
      <3> QED BY <1>3, <2>3, <2>5, <3>1, HeadAligned
    <2>8. buf[p].key = KeyOf(files, g) /\ p = Ready(buf) + 1
      BY <1>5, <1>6, <2>1, <2>2
    <2>13. PICK f \in 1 .. Len(files), o \in Nat, m \in Nat, i \in Nat :
              Lies(files, g, f, o, m, i)
      BY <1>3, FramePlace
    <2>9. /\ f = FileOf(files, g) /\ o = Off(files)[f] /\ m = Len(files[f].texts)
          /\ g = o + i /\ i < m /\ KeyOf(files, g) = <<files[f].traj, i>>
          /\ CountIn(files, files[f].traj) = m
      BY <2>13 DEF Lies
    <2>10. i = GroupStart(i)
      BY <2>7, <2>9
    <2>11. ~ Misaligned(buf)
      <3>1. i = GroupStart(i) + (i % GroupLen) /\ i % GroupLen \in Nat
        BY <2>9, GroupBounds
      <3>2. i % GroupLen = 0
        BY <2>9, <2>10, <3>1
      <3>3. buf[p].key[2] = i
        BY <2>8, <2>9
      <3> QED BY <2>8, <3>2, <3>3 DEF Misaligned
    <2>12. ASSUME n = N
           PROVE  FALSE
      <3>1. PICK end \in Nat : /\ end = GroupEnd(m, i) /\ i < end /\ end <= m
                               /\ \A j \in 0 .. m - 1 : j \div GroupLen = i \div GroupLen
                                                          <=> i <= j /\ j < end
        <4>1. i \in 0 .. m - 1
          BY <2>9
        <4>2. /\ GroupEnd(m, i) \in Nat /\ i < GroupEnd(m, i) /\ GroupEnd(m, i) <= m
              /\ \A j \in 0 .. m - 1 : j \div GroupLen = i \div GroupLen
                                         <=> GroupStart(i) <= j /\ j < GroupEnd(m, i)
          BY <4>1, GroupEnds
        <4> QED BY <2>10, <4>2
      <3>7. i < end /\ end <= m
        BY <3>1
      <3>8. \A c \in 0 .. m - 1 : /\ o + c \in Numbers0(files) /\ FileOf(files, o + c) = f
                                  /\ KeyOf(files, o + c) = <<files[f].traj, c>>
        <4>1. o = Off(files)[f] /\ m = Len(files[f].texts) /\ GoodFiles(files)
          BY <1>3, <2>9
        <4> QED BY <4>1, FrameBeside
      <3>2. ASSUME NEW j \in 0 .. end - i - 1
            PROVE  /\ o + (i + j) \in U
                   /\ KeyOf(files, o + (i + j)) = <<files[f].traj, i + j>>
        <4>1. i + j \in 0 .. m - 1 /\ i <= i + j /\ i + j < end
          BY <3>7
        <4>2. PICK h : h = o + (i + j)
          OBVIOUS
        <4>3. /\ h \in Numbers0(files) /\ FileOf(files, h) = f
              /\ KeyOf(files, h) = <<files[f].traj, i + j>>
          <5>1. PICK c \in 0 .. m - 1 : c = i + j
            BY <4>1
          <5>2. /\ o + c \in Numbers0(files) /\ FileOf(files, o + c) = f
                /\ KeyOf(files, o + c) = <<files[f].traj, c>>
            BY <3>8, <5>1, Zenon
          <5> QED BY <4>2, <5>1, <5>2, Zenon
        <4>4. EnvOf(layout, files, h) = e
          <5>1. g \in Numbers0(files) /\ EnvOf(layout, files, g) = e
            BY <1>1, <1>3, <2>2 DEF FramesTo
          <5> QED BY <1>3, <2>9, <4>3, <5>1, EnvOfFile
        <4>5. h < n
          <5>1. N \in Nat
            BY OffNumbers DEF N, GoodFiles
          <5> QED BY <2>12, <4>3, <5>1 DEF Numbers0, N, files
        <4>6. h \in T \cup U
          BY <2>5, <4>3, <4>4, <4>5 DEF FramesTo
        <4>7. h \notin T
          <5>1. (i + j) \div GroupLen = i \div GroupLen
            BY <3>1, <4>1
          <5>2. Kin(files, h, g)
            <6>1. KeyOf(files, g)[1] = files[f].traj /\ KeyOf(files, g)[2] = i
              BY <2>9
            <6>2. KeyOf(files, h)[1] = files[f].traj /\ KeyOf(files, h)[2] = i + j
              BY <4>3
            <6> QED BY <5>1, <6>1, <6>2, Zenon DEF Kin
          <5>3. g \notin T
            <6>1. g \in Nat
              BY <2>9
            <6> QED BY <2>5, <2>6, <6>1
          <5>4. g \in Numbers0(files)
            BY <1>3
          <5> QED BY <2>3, <5>2, <5>3, <5>4 DEF Grouped
        <4> QED BY <4>2, <4>3, <4>6, <4>7
      <3>3. PICK d \in Nat : d = end - i - 1
        BY <2>9, <3>1
      <3>4. \A j \in 0 .. d : p + j \in 1 .. Len(s) /\ s[p + j] = s[p] + j
        <4>1. \A j \in 0 .. d : s[p] + j \in B
          <5>1. \A j \in 0 .. d : s[p] + j = o + (i + j)
            <6>1. \A j \in 0 .. d : (o + i) + j = o + (i + j)
              BY <3>3
            <6> QED BY <2>2, <2>9, <6>1, Zenon
          <5>2. \A j \in 0 .. d : o + (i + j) \in U
            BY <3>2, <3>3, Zenon
          <5> QED BY <2>4, <5>1, <5>2, Zenon
        <4>2. p \in 1 .. Len(s)
          BY <1>5, <2>1
        <4> QED BY <1>2, <3>3, <4>1, <4>2, ListsRun
      <3>5. p + d \in 1 .. len /\ KeyOf(files, s[p + d]) = <<files[f].traj, end - 1>>
        <4>1. d \in 0 .. d /\ s[p] + d = o + (i + d) /\ i + d = end - 1
          <5>1. d \in 0 .. d /\ i + d = end - 1 /\ (o + i) + d = o + (i + d)
            BY <3>1, <3>3
          <5> QED BY <2>2, <2>9, <5>1, Zenon
        <4>2. s[p + d] = o + (i + d) /\ p + d \in 1 .. len
          BY <1>5, <3>4, <4>1
        <4>3. KeyOf(files, o + (i + d)) = <<files[f].traj, i + d>>
          BY <3>2, <3>3, <4>1
        <4> QED BY <4>1, <4>2, <4>3
      <3>6. WholeAt(files, s, p)
        <4>1. KeyOf(files, s[p])[1] = files[f].traj /\ KeyOf(files, s[p])[2] = i
          BY <2>2, <2>9
        <4>2. p + end - i - 1 = p + d /\ p + d <= len
          BY <3>1, <3>3, <3>5
        <4>3. /\ KeyOf(files, s[p])[2] = GroupStart(KeyOf(files, s[p])[2])
              /\ GroupEnd(CountIn(files, KeyOf(files, s[p])[1]), KeyOf(files, s[p])[2]) = end
              /\ GroupStart(KeyOf(files, s[p])[2]) = i
          BY <2>9, <2>10, <3>1, <4>1, Zenon
        <4> QED BY <1>5, <3>5, <4>1, <4>2, <4>3, Zenon DEF WholeAt
      <3> QED BY <1>5, <1>6, <1>8, <2>1, <3>6
    <2> QED BY <2>11, <2>12
  <1> QED BY <1>6, <1>7, <1>8

\* The corpus is laid out as it was.
LEMMA LayoutStays == Spec => [](layout \in Layouts)
  <1>1. Init => layout \in Layouts
    BY DEF Init
  <1>2. layout \in Layouts /\ [Next]_vars => (layout \in Layouts)'
    <2> SUFFICES ASSUME [Next]_vars
                 PROVE  layout' = layout
      OBVIOUS
    <2>1. ASSUME NEW r \in Ranks, Step(r) \/ Fail(r)
          PROVE  layout' = layout
      BY <2>1 DEF Step, Fail, Work, Begin, Fit, DecodeBatch, Flush, FlushTail, Meta, Commit,
                  CommitEnd, Elsewhere
    <2>2. ASSUME NEW files, NEW batch, Call(files, batch)
          PROVE  layout' = layout
      BY <2>2 DEF Call
    <2>3. CASE Agree \/ Disagree \/ Kill \/ UNCHANGED vars
      BY <2>3 DEF Agree, Disagree, Kill, vars
    <2> QED BY <2>1, <2>2, <2>3 DEF Next
  <1> QED BY <1>1, <1>2, PTL DEF Spec

\* A rank writes to the environments of the corpus.
LEMMA MineAreEnvs ==
    ASSUME layout \in Layouts, GoodFiles(call.files), NEW r
    PROVE  Mine(r) \subseteq EnvIds
  <1>1. PICK m \in Nat : m = (CHOOSE n \in Layouts : \A l \in Layouts : l <= n)
                          /\ \A l \in Layouts : l <= m
    BY MpiAssumption
  <1>2. ASSUME NEW f \in DOMAIN call.files
        PROVE  Route(call.files[f].traj).env \in 0 .. m
    <2>1. PICK l \in Nat : l = layout /\ l <= m
      BY <1>1, MpiAssumption
    <2>2. PICK t \in Nat : t = call.files[f].traj
      <3>1. call.files \in Seq(FileSet) /\ DOMAIN call.files = 1 .. Len(call.files)
        BY DEF GoodFiles
      <3>2. call.files[f] \in FileSet
        BY <3>1
      <3> QED BY <3>2, CodecAssumption DEF FileSet
    <2>3. Route(call.files[f].traj).env = IF l = 0 THEN 0 ELSE t % l
      BY <2>1, <2>2 DEF Route, RouteIn
    <2>4. l # 0 => t % l \in 0 .. l - 1
      OBVIOUS
    <2> QED BY <1>1, <2>1, <2>3, <2>4
  <1> QED BY <1>1, <1>2 DEF Mine, EnvIds

\* A rank that decodes a batch, drains what is whole, or drains the rest after
\* the last batch never fails by a check of its own: no payload is missing
\* (decode_batch, "missing dedup payload"), what waits begins with the first
\* frame of a group (drain_ready, "frame group does not start on an aligned
\* index"), and nothing stays behind when the last batch is in (engine). An
\* ingest fails for what is outside of it only: a file, an environment, a
\* trajectory that is there, a size that does not fit.
THEOREM OwnChecksPass ==
    Spec => [][\A r \in Ranks :
                 DecodeBatch(r) \/ Flush(r) \/ FlushTail(r) => vote'[r] = "ok"]_vars
  <1> DEFINE Passes == \A r \in Ranks :
                         DecodeBatch(r) \/ Flush(r) \/ FlushTail(r) => vote'[r] = "ok"
  <1>1. ASSUME BarrierInv, DataInv, layout \in Layouts
        PROVE  Passes
    <2> SUFFICES ASSUME NEW r \in Ranks
                 PROVE  /\ DecodeBatch(r) => vote'[r] = "ok"
                        /\ Flush(r) => vote'[r] = "ok"
                        /\ FlushTail(r) => vote'[r] = "ok"
      OBVIOUS
    <2>1. \A ok : Vote(r, ok) /\ ok = TRUE => vote'[r] = "ok"
      BY <1>1 DEF Vote, BarrierInv
    <2>2. ASSUME DecodeBatch(r)
          PROVE  vote'[r] = "ok"
      <3> DEFINE rows == [i \in DOMAIN inbox[r] |->
                            [key |-> Frame(inbox[r][i].g).key, hash |-> Frame(inbox[r][i].g).text,
                             text |-> Payload(r, i)]]
                 fine == \A i \in DOMAIN rows :
                            rows[i].text # Nil \/ Winner(inbox[r][i].g) < range.b0
      <3>1. stage = "decode" /\ Vote(r, fine)
        BY <2>2 DEF DecodeBatch, Turn
      <3>2. GoodFiles(call.files) /\ RangeOk /\ Inbox(r)
        BY <1>1, <3>1 DEF DataInv
      <3>3. PICK s : Lists(s, SentTo(r)) /\ inbox[r] = RecordsFor(s)
        BY <3>2 DEF Inbox, Brought
      <3>4. range.b0 \in Nat /\ range.b1 \in Nat /\ range.b1 <= N
        BY <3>2 DEF RangeOk
      <3>5. \A i \in 1 .. Len(s) : Payload(r, i) # Nil \/ Winner(inbox[r][i].g) < range.b0
        BY <3>2, <3>3, <3>4, WinnerComesAlong
      <3>6. DOMAIN inbox[r] = 1 .. Len(s)
        BY <3>3 DEF RecordsFor
      <3>7. fine
        BY <3>5, <3>6
      <3> HIDE DEF fine
      <3> QED BY <2>1, <3>1, <3>7
    <2>3. ASSUME Flush(r)
          PROVE  vote'[r] = "ok"
      <3> DEFINE fine == \A e \in Mine(r) : ~ Misaligned(bufs[e])
      <3>1. stage = "flush" /\ Vote(r, fine)
        BY <2>3 DEF Flush, Turn
      <3>2. GoodFiles(call.files) /\ range.b1 \in Nat
        BY <1>1, <3>1 DEF DataInv, RangeOk
      <3>3. ASSUME NEW e \in Mine(r)
            PROVE  ~ Misaligned(bufs[e])
        <4>1. e \in EnvIds
          BY <1>1, <3>2, MineAreEnvs
        <4>2. Waits(layout, call.files, e, range.b1, before[e], bufs[e], staged[e])
          BY <1>1, <3>1, <4>1 DEF DataInv, Along, Placed
        <4> QED BY <3>2, <4>2, WaitsHead
      <3>4. fine
        BY <3>3
      <3> HIDE DEF fine
      <3> QED BY <2>1, <3>1, <3>4
    <2>4. ASSUME FlushTail(r)
          PROVE  vote'[r] = "ok"
      <3> DEFINE fine == \A e \in Mine(r) : bufs'[e] = <<>>
      <3>1. stage = "tail" /\ Drain(r) /\ Vote(r, fine)
        BY <2>4 DEF FlushTail, Turn
      <3>2. GoodFiles(call.files) /\ N \in Nat
        BY <1>1, <3>1, OffNumbers DEF DataInv, N, GoodFiles
      <3>3. ASSUME NEW e \in Mine(r)
            PROVE  bufs'[e] = <<>>
        <4>1. e \in EnvIds
          BY <1>1, <3>2, MineAreEnvs
        <4>2. Waits(layout, call.files, e, N, before[e], bufs[e], staged[e])
          BY <1>1, <3>1, <4>1 DEF DataInv, Along, Placed
        <4>3. Ready(bufs[e]) = Len(bufs[e])
          BY <3>2, <4>2, WaitsHead
        <4>4. bufs'[e] = SubSeq(bufs[e], Ready(bufs[e]) + 1, Len(bufs[e]))
          BY <3>1, <4>1 DEF Drain
        <4>5. PICK len \in Nat : len = Len(bufs[e])
          <5>1. PICK S, s : Lists(s, S) /\ bufs[e] = RowsFor(call.files, s)
            BY <4>2 DEF Waits
          <5> QED BY <5>1, RowsForFacts
        <4>6. \A q : SubSeq(q, len + 1, len) = <<>>
          OBVIOUS
        <4> QED BY <4>3, <4>4, <4>5, <4>6
      <3>4. fine
        BY <3>3
      <3> HIDE DEF fine
      <3> QED BY <2>1, <3>1, <3>4
    <2> QED BY <2>2, <2>3, <2>4
  <1> HIDE DEF Passes
  <1>2. BarrierInv /\ DataInv /\ layout \in Layouts /\ [Next]_vars => [Passes]_vars
    BY <1>1
  <1>3. Spec => [][Passes]_vars
    BY <1>2, IngestInvariant, LayoutStays, PTL DEF Spec
  <1> QED BY <1>3 DEF Passes

-----------------------------------------------------------------------------
(* What the runs check of the ingest.                                      *)

\* exchange_batch: the bytes a rank sends and is sent of the batch that is
\* exchanged fit signed 32-bit counts, sums included, however many ranks,
\* frames and bytes there are.
THEOREM ExchangesFit == Spec => []MessagesFit
  <1>1. BarrierInv => MessagesFit
    BY DEF BarrierInv, Weighed, RankFits, Fits, MessagesFit
  <1> QED BY <1>1, IngestInvariant, PTL

\* engine(): whichever rank fails, wherever and however the job dies before
\* the commits, no environment differs from what it was when the call began.
THEOREM NothingStoredEarly ==
    Spec => [](stage \notin {"commit", "returned"} => envs = before)
  <1>1. BarrierInv => (stage \notin {"commit", "returned"} => envs = before)
    BY DEF BarrierInv
  <1> QED BY <1>1, IngestInvariant, PTL

\* flush_ready, pack_held and put_traj_meta: when the last barrier before the
\* commits opens, what the ranks have staged, batch by batch and group by
\* group, is what appending the same files one after another would have
\* stored, whatever the batches, the blocks and the owners.
THEOREM StagedEqualsSerial == Spec => []StagedIsSerial
  <1>1. BarrierInv /\ DataInv => StagedIsSerial
    BY StagedSerially
  <1> QED BY <1>1, IngestInvariant, PTL

\* The commits of engine(): whatever commits fail, on whatever rank, and
\* wherever the job is killed, an environment is as it was or holds all its
\* files as the serial ingest stores them.
THEOREM EnvironmentsAreWhole == Spec => []EnvIsOldOrSerial
  <1>1. BarrierInv => EnvIsOldOrSerial
    BY OldOrSerial
  <1> QED BY <1>1, IngestInvariant, PTL

\* The same of the answer: no rank returns ok before every environment of
\* every rank holds its files.
THEOREM OkIsGlobal == Spec => []OkMeansAllStored
  <1>1. BarrierInv => OkMeansAllStored
    BY DEF BarrierInv
  <1> QED BY <1>1, IngestInvariant, PTL
=============================================================================
