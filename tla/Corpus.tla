------------------------------- MODULE Corpus -------------------------------
(***************************************************************************)
(* One LMDB environment of corpus.rs and the threads or processes that     *)
(* work on it. Every change is one write transaction, so it is one step.   *)
(* What is not one step is an operation that first reads, in read          *)
(* transactions of its own, prepares outside any transaction, and then     *)
(* commits what it prepared: extend, set_trajectory_units, migrate_frames  *)
(* and cook_frame. `job` holds what such an operation has read so far.     *)
(*                                                                         *)
(* A text stands for its own xxh3-128 digest: no collisions.               *)
(***************************************************************************)
EXTENDS FrameCodec, FiniteSets

CONSTANTS Clients,       \* threads and processes with the corpus open
          Inputs,        \* frame sequences an ingest may be given
          CompressModes, \* values of the handle's compress switch
          Conflicts      \* pairs of operations kept apart on one trajectory

ASSUME CorpusAssumption ==
    /\ Inputs \subseteq Seq(Texts)
    /\ CompressModes \subseteq BOOLEAN

VARIABLES
    frames,         \* key -> stored value: the authoritative table
    traj_meta,      \* trajectory -> n_frames
    hash_by_frame,  \* key -> digest
    frame_by_hash,  \* digest -> the one key posted for it
    idx,            \* the rows of every idx_* table, as <<row, key>>
    frames_soa,     \* key -> the text its cooked numbers came from
    job             \* client -> the operation it is in the middle of

tables == <<frames, traj_meta, hash_by_frame, frame_by_hash, idx, frames_soa>>

vars == <<frames, traj_meta, hash_by_frame, frame_by_hash, idx, frames_soa, job>>

-----------------------------------------------------------------------------
(* Frames, texts and the rows they are indexed under.                      *)

\* FloatFormat: "exact" keeps every digit (raw span or RoundTrip), "decimal"
\* prints a fixed number of places.
Printed(frame, format) ==
    IF format = "decimal" THEN [frame EXCEPT !.fine = FALSE] ELSE frame

\* rescale_frame_units followed by set_units on the header.
Rescaled(frame, units) == [frame EXCEPT !.units = units]

\* One row that units do not touch (natoms, symbol, formula, ...) and one
\* that holds a number (fmax, mass, volume, energy).
Rows(frame) == {<<"species", frame.mol>>, <<"scalar", frame>>}

AllRows == UNION {Rows(f) : f \in Texts}

KeyLeq(a, b) == a[1] < b[1] \/ (a[1] = b[1] /\ a[2] <= b[2])

\* The first key of a cursor over `S`; keys sort big-endian.
LowestKey(S) ==
    IF S = {} THEN Nil ELSE CHOOSE k \in S : \A j \in S : KeyLeq(k, j)

Text(key) == Decode(frames, key)

StoredIdx(t) == {i \in FrameIdx : frames[<<t, i>>] # Nil}

\* The keys of `n` frames of trajectory t, from frame `lo` on.
KeyRange(t, lo, n) == {<<t, i>> : i \in lo .. lo + n - 1}

-----------------------------------------------------------------------------
(* put_index_puts, delete_index_puts and repoint_frame_by_hash as          *)
(* functions of the tables they change, for the frames lo, lo+1, ... of    *)
(* one trajectory: texts[1] and parsed[1] belong to frame lo.              *)

PutFrames(fr, t, lo, values) ==
    [k \in Keys |-> IF k[1] = t /\ k[2] \in DOMAIN values THEN values[k[2]]
                                                           ELSE fr[k]]

\* Mutant: an extension's hashes go under the indices of its own list.
PutHashesFromZero(hb, t, lo, texts) ==
    [k \in Keys |-> IF k \in KeyRange(t, 0, Len(texts)) THEN texts[k[2] + 1] ELSE hb[k]]

PutHashes(hb, t, lo, texts) ==
    [k \in Keys |-> IF k \in KeyRange(t, lo, Len(texts)) THEN texts[k[2] - lo + 1]
                                                         ELSE hb[k]]

\* A digest keeps the key it has; a new one gets the first frame that has it.
PutPostings(fb, t, lo, texts) ==
    [h \in Texts |->
        IF fb[h] # Nil THEN fb[h]
        ELSE LowestKey({k \in KeyRange(t, lo, Len(texts)) : texts[k[2] - lo + 1] = h})]

RowsOf(t, lo, parsed) ==
    UNION {Rows(parsed[k[2] - lo + 1]) \X {k} : k \in KeyRange(t, lo, Len(parsed))}

\* put_index_puts after delete_index_puts: the rows of `old` give way to those
\* of `new`, for the frames 0, 1, ... of a trajectory.
KeptRows(rows, t, old, new) == rows \cup RowsOf(t, 0, new)   \* mutant: no deletion

ReplacedRows(rows, t, old, new) == (rows \ RowsOf(t, 0, old)) \cup RowsOf(t, 0, new)

KeptKeys(table, ks) == table   \* mutant: nothing is dropped

DropKeys(table, ks) == [k \in Keys |-> IF k \in ks THEN Nil ELSE table[k]]

\* Digests whose posting is one of the frames being deleted.
StaleDigests(fb, t, texts) ==
    {h \in Texts : \E k \in KeyRange(t, 0, Len(texts)) :
                        texts[k[2] + 1] = h /\ fb[h] = k}

\* hb is hash_by_frame after the deletions: a digest some frame still has
\* moves to the lowest such key, one nobody has is dropped.
RepointedToNobody(fb, stale, hb) ==   \* mutant: a surviving duplicate is lost
    [h \in Texts |->
        IF h \in stale /\ fb[h] # Nil /\ hb[fb[h]] = Nil THEN Nil ELSE fb[h]]

RepointedWithinTraj(fb, stale, hb) ==   \* mutant: looks in one trajectory only
    [h \in Texts |->
        IF h \in stale /\ fb[h] # Nil /\ hb[fb[h]] = Nil
        THEN LowestKey({k \in Keys : hb[k] = h /\ k[1] = fb[h][1]})
        ELSE fb[h]]

Repointed(fb, stale, hb) ==
    [h \in Texts |->
        IF h \in stale /\ fb[h] # Nil /\ hb[fb[h]] = Nil
        THEN LowestKey({k \in Keys : hb[k] = h})
        ELSE fb[h]]

-----------------------------------------------------------------------------
(* Operations that are one write transaction.                              *)

Idle == [op |-> "idle"]

\* append_trajectory_*: parse and serialize first, then one transaction that
\* claims the trajectory and puts every frame. An existing traj_meta row is
\* TrajExists and nothing is written. No frames still claims the trajectory.
AppendTrajectory(t, input, format, compress) ==
    LET texts == [i \in DOMAIN input |-> Printed(input[i], format)]
    IN  /\ traj_meta[t] = Nil
        /\ Len(input) <= MaxFrames
        /\ frames' = PutFrames(frames, t, 0, StoredValues(0, texts, compress))
        /\ hash_by_frame' = PutHashes(hash_by_frame, t, 0, texts)
        /\ frame_by_hash' = PutPostings(frame_by_hash, t, 0, texts)
        /\ idx' = idx \cup RowsOf(t, 0, input)
        /\ traj_meta' = [traj_meta EXCEPT ![t] = Len(input)]
        /\ UNCHANGED <<frames_soa, job>>

\* reindex: clear the secondary tables and rebuild them from the blobs, in
\* key order; a blob that does not decode fails the transaction.
Reindex ==
    /\ \A k \in Keys : frames[k] # Nil => Text(k) # Nil
    /\ hash_by_frame' = [k \in Keys |-> Text(k)]
    /\ frame_by_hash' = [h \in Texts |-> LowestKey({k \in Keys : Text(k) = h})]
    /\ idx' = UNION {Rows(Text(k)) \X {k} : k \in {j \in Keys : frames[j] # Nil}}
    /\ UNCHANGED <<frames, traj_meta, frames_soa, job>>

DeleteCooked(key) ==
    /\ frames_soa' = [frames_soa EXCEPT ![key] = Nil]
    /\ UNCHANGED <<frames, traj_meta, hash_by_frame, frame_by_hash, idx, job>>

-----------------------------------------------------------------------------
(* Operations that read before they commit.                                *)

Busy(c) == job[c].op # "idle"

\* The operator's discipline, not the code's: the code has no such guard.
MayStart(c, op, t) ==
    /\ ~Busy(c)
    /\ \A d \in Clients : Busy(d) /\ job[d].traj = t => {op, job[d].op} \notin Conflicts

Start(c, j) ==
    /\ job' = [job EXCEPT ![c] = j]
    /\ UNCHANGED tables

Finish(c) == job' = [job EXCEPT ![c] = Idle]

\* An error return before the commit, or the death of the process: nothing
\* was written. A read of a frame that does not decode ends here too.
Abandon(c) ==
    /\ Busy(c)
    /\ Finish(c)
    /\ UNCHANGED tables

LiveCount(t) == IF traj_meta[t] = Nil THEN 0 ELSE traj_meta[t]

\* extend_trajectory_frames reads where the trajectory ends ...
ExtendBegin(c, t, input) ==
    /\ MayStart(c, "extend", t)
    /\ LiveCount(t) + Len(input) <= MaxFrames
    /\ Start(c, [op |-> "extend", traj |-> t, start |-> LiveCount(t), input |-> input])

\* Mutant: the commit does not check that the trajectory still ends there.
ExtendCommitBlind(c, compress) ==
    LET j     == job[c]
        t     == j.traj
        texts == [i \in DOMAIN j.input |-> Printed(j.input[i], "decimal")]
    IN  /\ j.op = "extend"
        /\ frames' = PutFrames(frames, t, j.start, StoredValues(j.start, texts, compress))
        /\ hash_by_frame' = PutHashes(hash_by_frame, t, j.start, texts)
        /\ frame_by_hash' = PutPostings(frame_by_hash, t, j.start, texts)
        /\ idx' = idx \cup RowsOf(t, j.start, j.input)
        /\ traj_meta' = [traj_meta EXCEPT ![t] = j.start + Len(texts)]
        /\ Finish(c)
        /\ UNCHANGED frames_soa

\* Mutant: n_frames is one too many.
ExtendCommitOneMore(c, compress) ==
    LET j     == job[c]
        t     == j.traj
        texts == [i \in DOMAIN j.input |-> Printed(j.input[i], "decimal")]
    IN  /\ j.op = "extend"
        /\ LiveCount(t) = j.start
        /\ frames' = PutFrames(frames, t, j.start, StoredValues(j.start, texts, compress))
        /\ hash_by_frame' = PutHashes(hash_by_frame, t, j.start, texts)
        /\ frame_by_hash' = PutPostings(frame_by_hash, t, j.start, texts)
        /\ idx' = idx \cup RowsOf(t, j.start, j.input)
        /\ traj_meta' = [traj_meta EXCEPT ![t] = j.start + Len(texts) + 1]
        /\ Finish(c)
        /\ UNCHANGED frames_soa

\* ... and puts its frames there if that is still where it ends. The frames
\* were serialized with the default decimal writer, indexed as given.
ExtendCommit(c, compress) ==
    LET j     == job[c]
        t     == j.traj
        texts == [i \in DOMAIN j.input |-> Printed(j.input[i], "decimal")]
    IN  /\ j.op = "extend"
        /\ LiveCount(t) = j.start
        /\ frames' = PutFrames(frames, t, j.start, StoredValues(j.start, texts, compress))
        /\ hash_by_frame' = PutHashes(hash_by_frame, t, j.start, texts)
        /\ frame_by_hash' = PutPostings(frame_by_hash, t, j.start, texts)
        /\ idx' = idx \cup RowsOf(t, j.start, j.input)
        /\ traj_meta' = [traj_meta EXCEPT ![t] = j.start + Len(texts)]
        /\ Finish(c)
        /\ UNCHANGED frames_soa

\* "concurrent extend race": the live count moved, nothing is written.
ExtendRace(c) ==
    /\ job[c].op = "extend"
    /\ LiveCount(job[c].traj) # job[c].start
    /\ Finish(c)
    /\ UNCHANGED tables

\* set_trajectory_units lists the keys of the trajectory, then reads each
\* frame twice, the text and the parsed frame, in transactions of their own.
SetUnitsBegin(c, t, units) ==
    /\ MayStart(c, "set_units", t)
    /\ StoredIdx(t) # {}
    /\ Start(c, [op |-> "set_units", traj |-> t, n |-> Cardinality(StoredIdx(t)),
                 units |-> units, blobs |-> <<>>, parsed |-> <<>>])

\* repack_traj lists the keys, then reads each frame's text and its value.
RepackBegin(c, t) ==
    /\ MayStart(c, "repack", t)
    /\ StoredIdx(t) # {}
    /\ Start(c, [op |-> "repack", traj |-> t, n |-> Cardinality(StoredIdx(t)),
                 blobs |-> <<>>, olds |-> <<>>])

ReadText(c) ==
    LET j == job[c]
        k == <<j.traj, Len(j.blobs)>>
    IN  /\ \/ j.op = "set_units" /\ Len(j.blobs) = Len(j.parsed)
           \/ j.op = "repack" /\ Len(j.blobs) = Len(j.olds)
        /\ Len(j.blobs) < j.n
        /\ Text(k) # Nil
        /\ Start(c, [j EXCEPT !.blobs = Append(@, Text(k))])

ReadParsed(c) ==
    LET j == job[c]
        k == <<j.traj, Len(j.parsed)>>
    IN  /\ j.op = "set_units"
        /\ Len(j.parsed) < Len(j.blobs)
        /\ Text(k) # Nil
        /\ Start(c, [j EXCEPT !.parsed = Append(@, Text(k))])

ReadStored(c) ==
    LET j == job[c]
        k == <<j.traj, Len(j.olds)>>
    IN  /\ j.op = "repack"
        /\ Len(j.olds) < Len(j.blobs)
        /\ frames[k] # Nil
        /\ Start(c, [j EXCEPT !.olds = Append(@, frames[k])])

\* One transaction: delete the rows computed from what was read, repoint the
\* postings that lost their frame, put the converted frames from index 0 on.
SetUnitsCommit(c, compress) ==
    LET j     == job[c]
        t     == j.traj
        texts == [i \in DOMAIN j.parsed |-> Rescaled(j.parsed[i], j.units)]
        ks    == KeyRange(t, 0, j.n)
        hb    == DropKeys(hash_by_frame, ks)
        fb    == Repointed(frame_by_hash, StaleDigests(frame_by_hash, t, j.blobs), hb)
    IN  /\ j.op = "set_units"
        /\ Len(j.parsed) = j.n
        /\ frames' = PutFrames(frames, t, 0, StoredValues(0, texts, compress))
        /\ hash_by_frame' = PutHashes(hb, t, 0, texts)
        /\ frame_by_hash' = PutPostings(fb, t, 0, texts)
        /\ idx' = ReplacedRows(idx, t, j.parsed, texts)
        /\ frames_soa' = DropKeys(frames_soa, ks)
        /\ Finish(c)
        /\ UNCHANGED traj_meta

\* One transaction: put the values that differ from the ones that were read.
RepackCommit(c) ==
    LET j       == job[c]
        packed  == PackAligned(0, j.blobs)
        changed == {i \in DOMAIN packed : packed[i] # j.olds[i + 1]}
    IN  /\ j.op = "repack"
        /\ Len(j.olds) = j.n
        /\ frames' = PutFrames(frames, j.traj, 0, [i \in changed |-> packed[i]])
        /\ Finish(c)
        /\ UNCHANGED <<traj_meta, hash_by_frame, frame_by_hash, idx, frames_soa>>

\* cook_frame parses the text in one transaction and puts the numbers in another.
CookBegin(c, key) ==
    /\ MayStart(c, "cook", key[1])
    /\ Text(key) # Nil
    /\ Start(c, [op |-> "cook", traj |-> key[1], at |-> key[2], text |-> Text(key)])

CookCommit(c) ==
    /\ job[c].op = "cook"
    /\ frames_soa' = [frames_soa EXCEPT ![<<job[c].traj, job[c].at>>] = job[c].text]
    /\ Finish(c)
    /\ UNCHANGED <<frames, traj_meta, hash_by_frame, frame_by_hash, idx>>

-----------------------------------------------------------------------------
Init ==
    /\ frames = [k \in Keys |-> Nil]
    /\ traj_meta = [t \in Trajs |-> Nil]
    /\ hash_by_frame = [k \in Keys |-> Nil]
    /\ frame_by_hash = [h \in Texts |-> Nil]
    /\ idx = {}
    /\ frames_soa = [k \in Keys |-> Nil]
    /\ job = [c \in Clients |-> Idle]

Transaction ==
    \/ \E t \in Trajs, input \in Inputs, format \in {"exact", "decimal"},
          compress \in CompressModes : AppendTrajectory(t, input, format, compress)
    \/ Reindex
    \/ \E key \in Keys : DeleteCooked(key)

Step(c) ==
    \/ \E t \in Trajs, input \in Inputs : ExtendBegin(c, t, input)
    \/ \E compress \in CompressModes : ExtendCommit(c, compress)
    \/ ExtendRace(c)
    \/ \E t \in Trajs, units \in UnitSystems : SetUnitsBegin(c, t, units)
    \/ \E t \in Trajs : RepackBegin(c, t)
    \/ ReadText(c)
    \/ ReadParsed(c)
    \/ ReadStored(c)
    \/ \E compress \in CompressModes : SetUnitsCommit(c, compress)
    \/ RepackCommit(c)
    \/ \E key \in Keys : CookBegin(c, key)
    \/ CookCommit(c)
    \/ Abandon(c)

Next == Transaction \/ \E c \in Clients : Step(c)

Spec == Init /\ [][Next]_vars

-----------------------------------------------------------------------------
(* What must hold of the tables.                                           *)

Jobs ==
    [op : {"idle"}]
      \cup [op : {"extend"}, traj : Trajs, start : 0 .. MaxFrames, input : Seq(Texts)]
      \cup [op : {"set_units"}, traj : Trajs, n : 1 .. MaxFrames, units : UnitSystems,
            blobs : Seq(Texts), parsed : Seq(Texts)]
      \cup [op : {"repack"}, traj : Trajs, n : 1 .. MaxFrames,
            blobs : Seq(Texts), olds : Seq(Values)]
      \cup [op : {"cook"}, traj : Trajs, at : FrameIdx, text : Texts]

\* The types of the tables and of what the operations hold (corpus.rs:150-186).
TypeOK ==
    /\ frames \in [Keys -> Values \cup {Nil}]
    /\ traj_meta \in [Trajs -> 0 .. MaxFrames \cup {Nil}]
    /\ hash_by_frame \in [Keys -> Texts \cup {Nil}]
    /\ frame_by_hash \in [Texts -> Keys \cup {Nil}]
    /\ idx \subseteq AllRows \X Keys
    /\ frames_soa \in [Keys -> Texts \cup {Nil}]
    /\ job \in [Clients -> Jobs]

\* traj_meta.n_frames counts the frames of the trajectory, which are 0, 1, ...
\* with no gap, and an unclaimed trajectory has none: extend takes its start
\* index from the count, so a count that lags overwrites frames.
CountMatchesFrames ==
    \A t \in Trajs : StoredIdx(t) = 0 .. LiveCount(t) - 1

\* Every stored frame decodes: a redirect leads to a group that holds its
\* slot, whoever rewrote the group's key last (frame_codec.rs decode_frame).
EveryFrameDecodes ==
    \A k \in Keys : frames[k] # Nil => Text(k) # Nil

\* hash_by_frame is the digest of the text each key decodes to, and of
\* nothing else: the hash column follows every rewrite of the blob.
HashesMatchText ==
    \A k \in Keys : hash_by_frame[k] = Text(k)

\* frame_by_hash posts one key for each digest some frame has, that key has
\* the digest, and no digest without a frame is posted: repointing after a
\* unit change neither loses a surviving duplicate nor leaves a dangling key.
PostingsExact ==
    \A h \in Texts :
        IF \E k \in Keys : hash_by_frame[k] = h
        THEN frame_by_hash[h] # Nil /\ hash_by_frame[frame_by_hash[h]] = h
        ELSE frame_by_hash[h] = Nil

\* The idx_* tables hold the rows of the stored frames and no others: what a
\* rebuild from the blobs would give, so select never misses a frame or
\* returns it for a value it no longer has.
RowsExact ==
    idx = UNION {Rows(Text(k)) \X {k} : k \in {j \in Keys : frames[j] # Nil}}

\* A cooked value was made from the text the key has now: get_positions
\* prefers it and does not look at the text.
CookedIsFresh ==
    \A k \in Keys : frames_soa[k] # Nil => frames_soa[k] = Text(k)

\* A frame decodes to the molecule it was written with or not at all, in any
\* interleaving: whoever rewrote it or the group it is in, no frame is
\* overwritten by, or read as, another frame.
FramesKeepTheirMolecule ==
    [][\A k \in Keys : Text(k) # Nil /\ Text(k)' # Nil => Text(k)'.mol = Text(k).mol]_vars

\* Each frame has one row for each scalar, whatever its history: delete_index_puts
\* drops all the rows of the frame it is told to drop.
OneScalarRowPerFrame ==
    \A a, b \in idx : a[2] = b[2] /\ a[1][1] = "scalar" /\ b[1][1] = "scalar" => a = b

(***************************************************************************)
(* The abstract store this environment implements.                         *)
(***************************************************************************)
Content ==
    [t \in Trajs |->
        IF traj_meta[t] = Nil THEN Nil
        ELSE [i \in 1 .. traj_meta[t] |-> Text(<<t, i - 1>>)]]

Store == INSTANCE FrameStore WITH content <- Content

\* Seen through the decoder, the tables behave as the abstract store: a step
\* of any operation claims, extends or converts one trajectory, or changes no
\* frame's content (repack, reindex, cook).
ImplementsFrameStore == Store!Spec
=============================================================================
