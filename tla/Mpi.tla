--------------------------------- MODULE Mpi ---------------------------------
(***************************************************************************)
(* The collective ingest of mpi_ingest.rs. Every rank parses a block of    *)
(* the frames, and the owner of an environment is sent the frames of that  *)
(* environment batch by batch, groups and stages them, and commits. Ranks  *)
(* meet after every step and all fail when one has failed.                 *)
(*                                                                         *)
(* A barrier is passed by all ranks in one step: what a rank does between  *)
(* two barriers touches its own environments only. A text stands for its   *)
(* own xxh3-128 digest, so a record's encoded keys are its text.           *)
(***************************************************************************)
EXTENDS FrameCodec, MpiWire, FiniteSets, SequencesExt

CONSTANTS Size,          \* ranks of the communicator
          Layouts,       \* 0: one corpus, written by rank 0; otherwise shards
          FileLists,     \* what a call may be given: sequences of files
          Batches,       \* frames per batch a call may ask for
          TextBytes(_),  \* bytes a text is sent as
          MaxCalls       \* bound on the calls of one run

\* Counts are u32; a trajectory id and a frame index are what a key holds.
ASSUME MpiAssumption ==
    /\ Size \in Nat \ {0}
    /\ Layouts \subseteq Nat
    /\ \E m \in Layouts : \A l \in Layouts : l <= m
    /\ FileLists \subseteq Seq([traj : Trajs, texts : Seq(Texts)])
    /\ \A files \in FileLists : \A f \in DOMAIN files : Len(files[f].texts) <= MaxFrames
    /\ Batches \subseteq 0 .. MaxWord

\* The tables of an environment.
Tables == [frames        : [Keys -> Values \cup {Nil}],
           hash_by_frame : [Keys -> Texts \cup {Nil}],
           frame_by_hash : [Texts -> Keys \cup {Nil}],
           traj_meta     : [Trajs -> Nat \cup {Nil}]]

\* No transaction is told from one with any tables.
ASSUME NoTablesAssumption == Nil \notin Tables

VARIABLES
    layout,   \* the manifest's shard count, or 0
    envs,     \* environment -> its committed tables
    before,   \* envs when the call began: only the properties look at it
    calls,    \* calls made so far
    call,     \* the arguments of the current call
    stage,    \* the step of engine() the ranks are in
    vote,     \* rank -> what it brings to the barrier after that step
    result,   \* rank -> what its call returned
    staged,   \* environment -> the tables in its open transaction, or Nil
    bufs,     \* environment -> frames that wait for their group
    range,    \* the batch: frames range.b0 .. range.b1 - 1
    inbox     \* rank -> the records the last batch brought it

job == <<vote, staged, bufs, range, inbox>>

vars == <<layout, envs, before, calls, call, stage, vote, result, staged, bufs,
          range, inbox>>

Ranks == 0 .. Size - 1

EnvIds == 0 .. CHOOSE m \in Layouts : \A l \in Layouts : l <= m

-----------------------------------------------------------------------------
(* The frames of a call, numbered through its files from 0.                *)

RouteIn(shards, traj) ==
    LET env == IF shards = 0 THEN 0 ELSE traj % shards
    IN  [env |-> env, owner |-> env % Size]

Route(traj) == RouteIn(layout, traj)

FramesOf(file) ==
    [i \in DOMAIN file.texts |-> [key |-> <<file.traj, i - 1>>, text |-> file.texts[i]]]

AllFrames(files) == FlattenSeq([f \in DOMAIN files |-> FramesOf(files[f])])

N == Len(AllFrames(call.files))

Frame(g) == AllFrames(call.files)[g + 1]

To(g) == Route(Frame(g).key[1])

\* first_of: the lowest frame with equal bytes in the same environment.
Winner(g) ==
    CHOOSE w \in 0 .. g :
        /\ Frame(w).text = Frame(g).text /\ To(w).env = To(g).env
        /\ \A v \in 0 .. w - 1 : Frame(v).text # Frame(g).text \/ To(v).env # To(g).env

CountOf(traj) == LET f == CHOOSE d \in DOMAIN call.files : call.files[d].traj = traj
                 IN  Len(call.files[f].texts)

Mine(r) == {Route(call.files[f].traj).env : f \in {d \in DOMAIN call.files :
                                                Route(call.files[d].traj).owner = r}}

\* The frames of the batch that rank `from` parsed and rank `to` writes;
\* rank_span is where the block and the batch overlap.
SentSet(from, to) ==
    {g \in Greatest(BlockStart(N, Size, from), range.b0)
             .. Least(BlockEnd(N, Size, from), range.b1) - 1 : To(g).owner = to}

Record(g) ==
    [g |-> g, text |-> IF SendStoredBytes(Winner(g), g, range.b0)
                       THEN Frame(g).text ELSE Nil]

\* The members of S, from the lowest to the highest.
Ascending(S) ==
    CHOOSE s \in [1 .. Cardinality(S) -> S] :
        /\ \A i, j \in DOMAIN s : i < j => s[i] < s[j]
        /\ \A g \in S : \E i \in DOMAIN s : s[i] = g

\* build_messages: the records in order.
Message(from, to) == LET order == Ascending(SentSet(from, to))
                     IN  [i \in DOMAIN order |-> Record(order[i])]

\* plan_counts.
MessageBytes(from, to) ==
    SumFunction([g \in SentSet(from, to) |->
                    RecordBytes(TextBytes(Frame(g).text), Record(g).text # Nil)])

\* Mutant: every count fits, and their sum is not looked at.
FitsEach(bytes) == \A r \in Ranks : bytes[r] <= CountMax

\* fits_i32: every count and their sum fit a signed 32-bit count.
Fits(bytes) == SumFunction(bytes) <= CountMax

-----------------------------------------------------------------------------
(* The tables of an environment.                                           *)

EmptyEnv == [frames        |-> [k \in Keys |-> Nil],
             hash_by_frame |-> [k \in Keys |-> Nil],
             frame_by_hash |-> [h \in Texts |-> Nil],
             traj_meta     |-> [t \in Trajs |-> Nil]]

\* traj_claimed: metadata or any frame of the trajectory is stored.
Claimed(env, t) ==
    env.traj_meta[t] # Nil \/ \E i \in FrameIdx : env.frames[<<t, i>>] # Nil

\* put_encoded: the rows [key, hash, value] in order; a digest keeps its key.
Put(env, rows) ==
    LET at(k) == {i \in DOMAIN rows : rows[i].key = k}
        of(h) == {i \in DOMAIN rows : rows[i].hash = h}
        first(S) == CHOOSE i \in S : \A j \in S : i <= j
    IN  [env EXCEPT
            !.frames = [k \in Keys |-> IF at(k) = {} THEN @[k] ELSE rows[first(at(k))].value],
            !.hash_by_frame =
                [k \in Keys |-> IF at(k) = {} THEN @[k] ELSE rows[first(at(k))].hash],
            !.frame_by_hash =
                [h \in Texts |-> IF @[h] # Nil \/ of(h) = {} THEN @[h]
                                 ELSE rows[first(of(h))].key]]

\* append_trajectory of one file, in one process: what the ingest must equal.
SerialAppend(env, file) ==
    LET values == PackAligned(0, file.texts)
        rows   == [i \in DOMAIN file.texts |->
                    [key |-> <<file.traj, i - 1>>, hash |-> file.texts[i],
                     value |-> values[i - 1]]]
    IN  [Put(env, rows) EXCEPT !.traj_meta[file.traj] = Len(file.texts)]

\* Every file routed to environment e appended, in the order given.
SerialIn(shards, files, e, env) ==
    LET after[n \in 0 .. Len(files)] ==
            IF n = 0 THEN env
            ELSE IF RouteIn(shards, files[n].traj).env = e
                 THEN SerialAppend(after[n - 1], files[n])
                 ELSE after[n - 1]
    IN  after[Len(files)]

Serial(e, env) == SerialIn(layout, call.files, e, env)

-----------------------------------------------------------------------------
(* The barrier.                                                            *)

Vote(r, ok) == vote' = [vote EXCEPT ![r] = IF ok THEN "ok" ELSE "err"]

Turn(r, at) == stage = at /\ result[r] = "running" /\ vote[r] = "none"

\* Mutant: an error leaves by `?` before the barrier.
FailAlone(r) ==
    /\ result' = [result EXCEPT ![r] = "err"]
    /\ UNCHANGED <<vote, stage, staged, bufs, range, inbox>>

\* The step of rank r failed: it still goes to the barrier.
FailTogether(r) ==
    /\ Vote(r, FALSE)
    /\ UNCHANGED <<result, stage, staged, bufs, range, inbox>>

\* Rank 0 alone reads the files to number their frames; only owners have an
\* environment that can fail to open, grow or take a put.
MayFail(r) ==
    \/ stage = "scan" /\ r = 0
    \/ stage = "parse"
    \/ stage \in {"open", "reserve", "begin", "flush", "meta"} /\ Mine(r) # {}

Fail(r) ==
    /\ Turn(r, stage) /\ MayFail(r)
    /\ FailTogether(r)
    /\ UNCHANGED <<layout, envs, before, calls, call>>

\* Every rank returns with an error and drops its open transactions.
Return(how) ==
    /\ result' = [r \in Ranks |-> how]
    /\ stage' = "returned"
    /\ vote' = [r \in Ranks |-> "none"]
    /\ staged' = [e \in EnvIds |-> Nil]
    /\ bufs' = [e \in EnvIds |-> <<>>]
    /\ inbox' = [r \in Ranks |-> <<>>]
    /\ UNCHANGED range

GoTo(next) ==
    /\ stage' = next
    /\ vote' = [r \in Ranks |-> "none"]
    /\ UNCHANGED result

-----------------------------------------------------------------------------
(* What one rank does between two barriers.                                *)

Elsewhere == <<layout, envs, before, calls, call>>

\* Steps that leave nothing behind: the scan, the opening and sizing of the
\* environments, the parsing of the rank's block and the hash exchange.
Work(r) ==
    /\ \E at \in {"scan", "open", "reserve", "parse", "hashes"} : Turn(r, at)
    /\ Vote(r, TRUE)
    /\ UNCHANGED <<result, stage, staged, bufs, range, inbox, Elsewhere>>

\* Open a write transaction in every environment and claim the trajectories.
Begin(r) ==
    /\ Turn(r, "begin")
    /\ staged' = [e \in EnvIds |-> IF e \in Mine(r) THEN envs[e] ELSE staged[e]]
    /\ Vote(r, \A f \in DOMAIN call.files :
                  LET t == call.files[f].traj
                  IN  Route(t).owner = r => ~Claimed(envs[Route(t).env], t))
    /\ UNCHANGED <<result, stage, bufs, range, inbox, Elsewhere>>

\* The counts are exchanged, and what a rank sends and receives must fit.
Fit(r) ==
    /\ Turn(r, "fit")
    /\ Vote(r, /\ Fits([to \in Ranks |-> MessageBytes(r, to)])
               /\ Fits([from \in Ranks |-> MessageBytes(from, r)]))
    /\ UNCHANGED <<result, stage, staged, bufs, range, inbox, Elsewhere>>

\* The text record i of the inbox stands for: its own bytes, or those its
\* winner brought in the same batch; a Nil text is an empty payload.
Payload(r, i) ==
    LET w    == Winner(inbox[r][i].g)
        kept == {j \in 1 .. i - 1 : inbox[r][j].g = w}
    IN  IF w = inbox[r][i].g \/ w < range.b0 \/ kept = {}
        THEN inbox[r][i].text
        ELSE inbox[r][CHOOSE j \in kept : TRUE].text

\* The rows of environment e, in the order they came.
RowsOf(rows, e) ==
    LET order == Ascending({i \in DOMAIN rows : Route(rows[i].key[1]).env = e})
    IN  [j \in DOMAIN order |-> rows[order[j]]]

\* decode_batch: an error when a reused winner did not come along.
DecodeBatch(r) ==
    LET rows == [i \in DOMAIN inbox[r] |->
                    [key |-> Frame(inbox[r][i].g).key, hash |-> Frame(inbox[r][i].g).text,
                     text |-> Payload(r, i)]]
    IN  /\ Turn(r, "decode")
        /\ Vote(r, \A i \in DOMAIN rows :
                      rows[i].text # Nil \/ Winner(inbox[r][i].g) < range.b0)
        /\ bufs' = [e \in EnvIds |->
                      IF e % Size # r THEN bufs[e] ELSE bufs[e] \o RowsOf(rows, e)]
        /\ UNCHANGED <<result, stage, staged, range, inbox, Elsewhere>>

\* Mutant: what has arrived of a group is packed.
ReadyAtOnce(buf) == Len(buf)

\* drain_ready: the length of the prefix that is whole aligned groups. The
\* last group of a trajectory is whole when its last frame has arrived.
Ready(buf) ==
    LET start(p) == (buf[p].key[2] \div GroupLen) * GroupLen
        end(p)   == Least(start(p) + GroupLen, CountOf(buf[p].key[1]))
        last(p)  == p + end(p) - start(p) - 1
        whole(p) == /\ buf[p].key[2] = start(p)
                    /\ last(p) <= Len(buf)
                    /\ buf[last(p)].key = <<buf[p].key[1], end(p) - 1>>
        upto[p \in 1 .. Len(buf) + 1] ==
            IF p <= Len(buf) /\ whole(p) THEN upto[last(p) + 1] ELSE p - 1
    IN  upto[1]

\* "frame group does not start on an aligned index".
Misaligned(buf) == LET p == Ready(buf) + 1
                   IN  p <= Len(buf) /\ buf[p].key[2] % GroupLen # 0

\* pack_held: the frames of one group packed as the serial ingest packs them.
Packed(rows) ==
    [i \in DOMAIN rows |->
        LET k     == rows[i].key
            group == {j \in DOMAIN rows : /\ rows[j].key[1] = k[1]
                                          /\ rows[j].key[2] \div GroupLen = k[2] \div GroupLen}
            first == CHOOSE p \in group : \A j \in group : p <= j
            last  == CHOOSE p \in group : \A j \in group : j <= p
            texts == [j \in 1 .. last - first + 1 |-> rows[first + j - 1].text]
        IN  [key |-> k, hash |-> rows[i].hash,
             value |-> PackAligned(rows[first].key[2], texts)[k[2]]]]

Drain(r) ==
    /\ bufs' = [e \in EnvIds |->
                  IF e \in Mine(r) THEN SubSeq(bufs[e], Ready(bufs[e]) + 1, Len(bufs[e]))
                                   ELSE bufs[e]]
    /\ staged' = [e \in EnvIds |->
                    IF e \in Mine(r)
                    THEN Put(staged[e], Packed(SubSeq(bufs[e], 1, Ready(bufs[e]))))
                    ELSE staged[e]]

\* flush_ready for every environment of the rank, after each batch.
Flush(r) ==
    /\ Turn(r, "flush")
    /\ Drain(r)
    /\ Vote(r, \A e \in Mine(r) : ~Misaligned(bufs[e]))
    /\ UNCHANGED <<result, stage, range, inbox, Elsewhere>>

\* The same once more after the last batch; nothing may stay behind.
FlushTail(r) ==
    /\ Turn(r, "tail")
    /\ Drain(r)
    /\ Vote(r, \A e \in Mine(r) : bufs'[e] = <<>>)
    /\ UNCHANGED <<result, stage, range, inbox, Elsewhere>>

\* put_traj_meta for the trajectories the rank owns.
Meta(r) ==
    /\ Turn(r, "meta")
    /\ staged' = [e \in EnvIds |->
         IF e \notin Mine(r) THEN staged[e]
         ELSE [staged[e] EXCEPT !.traj_meta =
                  [t \in Trajs |->
                     IF Route(t).env = e /\ \E f \in DOMAIN call.files : call.files[f].traj = t
                     THEN CountOf(t) ELSE @[t]]]]
    /\ Vote(r, TRUE)
    /\ UNCHANGED <<result, stage, bufs, range, inbox, Elsewhere>>

\* The sessions of a rank commit one after another, in no fixed order.
Commit(r, e) ==
    /\ Turn(r, "commit") /\ e \in Mine(r) /\ staged[e] # Nil
    /\ envs' = [envs EXCEPT ![e] = staged[e]]
    /\ staged' = [staged EXCEPT ![e] = Nil]
    /\ UNCHANGED <<layout, before, calls, call, stage, vote, result, bufs, range, inbox>>

\* Mutant: the rank that could not commit says nothing.
CommitEndSilently(r, ok) ==
    /\ Turn(r, "commit")
    /\ ok <=> \A e \in Mine(r) : staged[e] = Nil
    /\ staged' = [e \in EnvIds |-> IF e \in Mine(r) THEN Nil ELSE staged[e]]
    /\ Vote(r, TRUE)
    /\ UNCHANGED <<result, stage, bufs, range, inbox, Elsewhere>>

\* A commit that fails, or the end: what is left of the sessions is dropped.
CommitEnd(r, ok) ==
    /\ Turn(r, "commit")
    /\ ok <=> \A e \in Mine(r) : staged[e] = Nil
    /\ staged' = [e \in EnvIds |-> IF e \in Mine(r) THEN Nil ELSE staged[e]]
    /\ Vote(r, ok)
    /\ UNCHANGED <<result, stage, bufs, range, inbox, Elsewhere>>

-----------------------------------------------------------------------------
(* What all ranks do together.                                             *)

Order == <<"scan", "open", "reserve", "begin", "parse", "hashes">>

\* The step after a barrier that everybody passed.
NextStage ==
    LET batchesFrom(b) == IF b < N THEN "fit" ELSE "tail"
    IN  CASE stage = "hashes" -> batchesFrom(0)
          [] stage = "fit"    -> "decode"
          [] stage = "decode" -> "flush"
          [] stage = "flush"  -> batchesFrom(range.b1)
          [] stage = "tail"   -> "meta"
          [] stage = "meta"   -> "commit"
          [] OTHER -> Order[1 + CHOOSE i \in DOMAIN Order : Order[i] = stage]

\* Every rank has voted ok: the batch that fits is exchanged, the next one
\* is cut, or the ingest is over.
Agree ==
    /\ stage \notin {"idle", "returned"}
    /\ \A r \in Ranks : vote[r] = "ok"
    /\ IF stage = "commit" THEN Return("ok")
       ELSE /\ GoTo(NextStage)
            /\ inbox' = IF stage = "fit"
                        THEN [r \in Ranks |-> FlattenSeq([s \in 1 .. Size |-> Message(s - 1, r)])]
                        ELSE [r \in Ranks |-> IF stage = "decode" THEN <<>> ELSE inbox[r]]
            /\ range' = IF NextStage # "fit" THEN range
                        ELSE LET b0 == IF stage = "hashes" THEN 0 ELSE range.b1
                             IN  [b0 |-> b0, b1 |-> BatchEnd(b0, Greatest(call.batch, 1), N)]
            /\ UNCHANGED <<staged, bufs>>
    /\ UNCHANGED <<layout, envs, before, calls, call>>

\* Some rank has not: a batch that does not fit is halved, and when it
\* cannot be, or the step was another one, every rank returns an error.
Disagree ==
    /\ \A r \in Ranks : vote[r] # "none"
    /\ \E r \in Ranks : vote[r] = "err"
    /\ IF stage = "fit" /\ ShrinkBatchEnd(range.b0, range.b1) # range.b1
       THEN /\ GoTo("fit")
            /\ range' = [range EXCEPT !.b1 = ShrinkBatchEnd(range.b0, range.b1)]
            /\ UNCHANGED <<staged, bufs, inbox>>
       ELSE Return("err")
    /\ UNCHANGED <<layout, envs, before, calls, call>>

-----------------------------------------------------------------------------
\* A collective call. A trajectory named twice is refused by every rank.
Call(files, batch) ==
    /\ stage \in {"idle", "returned"} /\ calls < MaxCalls
    /\ calls' = calls + 1
    /\ call' = [files |-> files, batch |-> batch]
    /\ before' = envs
    /\ IF \E f, d \in DOMAIN files : f # d /\ files[f].traj = files[d].traj
       THEN result' = [r \in Ranks |-> "err"] /\ stage' = "returned"
       ELSE result' = [r \in Ranks |-> "running"] /\ stage' = "scan"
    /\ UNCHANGED <<layout, envs, job>>

\* The job is killed: open transactions are never committed.
Kill ==
    /\ stage \notin {"idle", "returned"}
    /\ Return("killed")
    /\ UNCHANGED <<layout, envs, before, calls, call>>

Init ==
    /\ layout \in Layouts
    /\ envs = [e \in EnvIds |-> EmptyEnv]
    /\ before = envs
    /\ calls = 0
    /\ call = [files |-> <<>>, batch |-> 0]
    /\ stage = "idle"
    /\ vote = [r \in Ranks |-> "none"]
    /\ result = [r \in Ranks |-> "idle"]
    /\ staged = [e \in EnvIds |-> Nil]
    /\ bufs = [e \in EnvIds |-> <<>>]
    /\ range = [b0 |-> 0, b1 |-> 0]
    /\ inbox = [r \in Ranks |-> <<>>]

Step(r) ==
    \/ Work(r)
    \/ Begin(r)
    \/ Fit(r)
    \/ DecodeBatch(r)
    \/ Flush(r)
    \/ FlushTail(r)
    \/ Meta(r)
    \/ \E e \in EnvIds : Commit(r, e)
    \/ \E ok \in BOOLEAN : CommitEnd(r, ok)

Next ==
    \/ \E r \in Ranks : Step(r) \/ Fail(r)
    \/ Agree
    \/ Disagree
    \/ Kill
    \/ \E files \in FileLists, batch \in Batches : Call(files, batch)

\* A rank that runs goes on, and a barrier everybody has reached opens.
Spec == Init /\ [][Next]_vars
        /\ WF_vars(Agree) /\ WF_vars(Disagree) /\ \A r \in Ranks : WF_vars(Step(r))

-----------------------------------------------------------------------------
\* Each environment holds what it held before the call, or that and every
\* file routed to it exactly as appending them one after another in one
\* process would have stored it: frames and groups, digests, postings and
\* counts. So whatever the ranks, the batches and the failures, no commit
\* holds a part of a trajectory (mpi_ingest.rs engine, "Equals
\* ShardedConCorpus::append_trajectory_path called for each file in order").
EnvIsOldOrSerial ==
    \A e \in EnvIds : envs[e] \in {before[e], Serial(e, before[e])}

\* A rank that returns ok returns after every environment of every rank has
\* its files: a caller on any rank may read what any rank wrote.
OkMeansAllStored ==
    \A r \in Ranks : result[r] = "ok" =>
        \A e \in EnvIds : envs[e] = Serial(e, before[e])

\* When every rank has written its last row, and nothing is committed yet, an
\* open transaction holds what appending the environment's files one after
\* another would store, and an environment without a transaction has no files
\* to store.
StagedIsSerial ==
    stage = "meta" /\ (\A r \in Ranks : vote[r] = "ok") =>
        \A e \in EnvIds :
            (IF staged[e] = Nil THEN before[e] ELSE staged[e]) = Serial(e, before[e])

\* No rank sends or is sent more bytes in one exchange than a signed 32-bit
\* count can say (mpi_wire.rs:3-6): a longer one would wrap.
MessagesFit ==
    stage = "decode" =>
        \A r \in Ranks :
            /\ SumFunction([to \in Ranks |-> MessageBytes(r, to)]) <= CountMax
            /\ SumFunction([from \in Ranks |-> MessageBytes(from, r)]) <= CountMax

\* Every call returns on every rank, whichever ranks fail at whichever step:
\* nobody waits at a barrier for a rank that has left, and the batches end.
EveryRankReturns ==
    \A r \in Ranks : result[r] = "running" ~> result[r] # "running"
=============================================================================
