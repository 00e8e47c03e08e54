# readcon-db: specifications, checks and proofs

TLA+ modules of readcon-db, a store of CON frames (atomic configurations) over LMDB, with the TLC
configurations that check them and TLAPS proofs about them. Source references are to `src/…` of
the repository; `corpus.rs:1265` is line 1265 of `src/corpus.rs`.

## The system

| Component | State | Operations | Interacts with |
|---|---|---|---|
| **Corpus** (`corpus.rs`) | one LMDB environment: `frames` (FrameKey → CON text, the authoritative table), `traj_meta`, `hash_by_frame`, `frame_by_hash`, thirteen `idx_*` tables, `frames_soa`, `idx_topo`, `topo_by_frame`; in memory `txn_gate`, the compress switch | append, extend, `set_trajectory_units`, `migrate_frames`, `cook_frame`, `delete_cooked_soa`, `reindex`, `annotate_topology`, readers, `select`, `snapshot_to`, `ingest_directory`, `IngestSession` | everything; other processes share the file |
| **Frame codec** (`frame_codec.rs`) | none; the shape of a `frames` value: single, group of an aligned run, redirect into a group | `store_frame`, `pack_aligned`, `decode_frame` | corpus, MPI ingest |
| **Map growth** (in `corpus.rs`) | LMDB map size, length of `data.mdb`, `txn_gate` | `read_txn`, `with_write`, `grow_after_map_full`, `reserve_map` | every transaction |
| **Topology** (`corpus.rs`, `topology.rs`) | the stamp in `traj_meta`, two tables | `annotate_topology`, `find_by_topology_*` | the external program `seams`; append, extend, reindex |
| **Archive** (`archive.rs`) | a corpus of one-frame trajectories, a channel, a writer thread, three counters; the `ARCHIVES` table | open, append, flush, fetch, close | corpus; C callers |
| **Shards** (`shard.rs`) | `shards.json`, one corpus per shard | open, routed appends, fan-out reads, `drain_to`, join, split | corpus; node-local disks |
| **MPI ingest and read** (`mpi_ingest.rs`, `mpi_wire.rs`, `mpi_read.rs`) | per rank: parsed frames, write sessions, buffers | collective ingest in batches, scatter, export | corpus and shards |
| **C ABI** (`ffi.rs`) | table of handles; per handle a shared corpus, `last_keys`, `last_error`, the velocity unit | open, close, every corpus call | corpus; Fortran, Python through CFFI |
| **Selection and keys** (`select.rs`, `select` in `corpus.rs`, `keys.rs`) | none | predicates over the index tables, words that keep the order of floats | corpus, shards, C ABI |
| Units, cooked layout, scalars, exports, CLI, bindings | none | pure functions and wrappers | corpus |

### What is hard

* **Every change is one transaction, but few operations are.** Extend, unit changes, migration,
  cooking and annotation read in transactions of their own, prepare outside any, and then commit.
  What they read may have changed. Only extend looks again before it commits.
* **Derived tables are maintained piecemeal**: an append adds rows, a unit change computes the rows
  to delete from the text it reads, `reindex` rebuilds everything. The three have to agree.
* **A frame's bytes may live under another frame's key.** A group is stored at the first frame of an
  aligned run and the others point at it, and every rewriting of a run has to keep that true.
* **The map**: a write that does not fit is dropped, the map grows, the write runs again, and no
  transaction of the process may be open while the map changes.
* **The archive** counts, ids and flushes across a channel, failures, crashes and restarts.
* **MPI**: ranks meet after every step and leave together; frames parsed by one rank are written by
  another, in batches that are halved when a 32-bit count would not hold them, with duplicates sent
  once a batch, and grouped as one process would have grouped them. Commits are per environment.
* **Shards**: check-then-write on directories that processes share, and an undo that must remove what
  the call made and nothing else.
* **Handles**: an id is given out again while a call with its earlier meaning is under way, and some
  calls wait for LMDB's writer with the mutex of the table held.

What makes each component correct is stated below with the module that models it; every hazard is
in `PROJECT.json` at its line, with the properties that cover it or the reason none does yet.

## The modules

```
FrameCodec ── Corpus ── MCCorpus ── MCSelection     CorpusProofs
     │           │                      │
     │     Selection ───────────────────┘
     │           │
     │       FloatKeys                              SelectionProofs
     ├─ FrameStore  (refined by Corpus)
     └─ Mpi ── MCMpi                                MpiProofs
         └─ MpiWire
Topology ── MCTopology                              TopologyProofs
MapGrowth ── MCMapGrowth                            MapGrowthProofs
Archive ── MCArchive        Ledger (refined by Archive)   ArchiveProofs
Shards ── MCShards                                  ShardsProofs
Handles ── MCHandles                                HandlesProofs
```

**FrameCodec** is `frame_codec.rs` as operators. A CON text, and the frame parsed from it, is
reduced to the molecule it describes, the units its numbers are in and whether it carries digits the
default writer drops. zstd is the constant `GroupIsShorter`: whether grouping a run pays.

**Corpus** is one environment and its clients (threads or processes). The tables are variables; the
`idx_*` tables are one set of `<<row, key>>` with two kinds of row, those that units leave alone and
those that hold a number. A transaction is one step. `job[c]` is what client `c` has read so far in
an operation that takes several: `ExtendBegin`/`ExtendCommit`/`ExtendRace`, `SetUnitsBegin`,
`ReadText`, `ReadParsed`, `SetUnitsCommit`, `RepackBegin`, `ReadStored`, `RepackCommit`,
`CookBegin`/`CookCommit`; `Abandon` is an operation that finds a frame it cannot read.
`AppendTrajectory`, `Reindex` and `DeleteCooked` are one transaction each. A text stands for its own
128-bit digest.

The constant `Conflicts` holds the pairs of operations kept apart on one trajectory. It is **the
operator's discipline and not a guard in the code**: the design document asks for a "single writer
for ingest/reindex" (`docs/orgmode/explanation/design.org:86`), nothing enforces it. Each run says
which discipline it assumes, and what fails without it is a run of its own.

**FrameStore** is what a corpus promises about content: a trajectory is unclaimed or a sequence of
texts, claimed whole, extended at its end, and converted from one unit system to another. Corpus
implements it under `Content`, its frames seen through the decoder.

**MapGrowth** is the map and the lock around it. Calls run through the lock, the transaction, the
puts, `MDB_MAP_FULL`, the abort, the growth and the next attempt. How many pages a put takes is drawn
per call. `RwLock` is the standard library's: no reader enters while a writer waits. The ingest of
`mpi_ingest.rs` is `Reserve`, `BeginSession`, puts and `SessionFull`, with no second attempt.

**Topology** follows `annotate_topology` through its reads (recorded parameters, records, one frame
after another), the external fingerprinting and the commit, next to append, extend and reindex as far
as they touch records and topology tables. `Conflicts` is again the operator's discipline, over the
whole corpus.

**Archive** has callers, the channel, the writer thread, the counters and the corpus as a function
from trajectory id to row. With `api = "c"` a call holds the `ARCHIVES` mutex from end to end; with
`api = "rust"` threads share the archive. `Crash` loses the channel and keeps the corpus; `Open`
starts the ids at the number of stored frames. **Ledger** is the promise: rows are added at the end,
in the order they were accepted, whatever happens.

**Selection** is `select` over the tables of Corpus: a set of keys for each predicate, the one posted
key of a digest, the rows of an exact predicate, the words of a range; their intersection, sorted and
cut to the limit. The thirty predicates of the source are of these kinds. **FloatKeys** has the words:
`ordered_f64_bits` on the bit patterns of a float of any width, and the bounds of a range scan.
`MCSelection` joins both to the states Corpus reaches.

**Mpi** is `engine()` of `mpi_ingest.rs`. `stage` is the step the ranks are in and `vote[r]` what rank
`r` brings to the collective after it; `Agree` and `Disagree` are the collectives, one step for all
ranks, since between two of them a rank touches only environments of its own. `Begin` opens the
sessions and claims, `Fit` exchanges the counts, `DecodeBatch`, `Flush` and `FlushTail` are the writer's
side with `drain_ready` and `pack_held`, `Meta` and `Commit` the end. `Fail` is any step failing on any
rank, `Kill` the death of the job. The stored values are those of FrameCodec, so what a batch boundary
does to grouping is visible. **MpiWire** is its arithmetic: blocks, batch ends, halving, record sizes, at
widths that are constants.

**Shards** has directories: a root with a manifest and shards, or a single environment; a corpus is the
set of trajectories it holds and where each was appended. `drain_to`, the joins and the split are broken
at every file-system step (`DrainCheck`, `DrainManifest`, `DrainCopy`, `DrainUndo`, …), `Fail` makes a
step fail and `Crash` ends a process. `Exclusive` and `Quiet` are the operator's discipline, as
`Conflicts` is above: every writer has directories of its own (shard.rs:4-6), and nobody appends to a root that is being
drained.

**Handles** is the table of `ffi.rs`. A lease is what one `rkrdb_open` gave out; its slot serves several
leases in turn. A call in flight is a record with the lease its caller meant (`lease`), the lease whose
corpus it reached (`on`) and its place. Calls of `with_handle` keep the mutex through the work
(`EnterLocked`, `FinishSelect`, `FinishLocked`, `FailLocked`), calls of `corpus_arc` leave it
(`CloneCorpus`, `FailShared`) and take it again by id to leave a message (`Report`). `chosen` and
`failed` are histories that only the properties read.

The operators marked "Mutant" in a module are bugs the code does not have, one for each property; the
property fails when the mutant takes the place of the definition after it.

## What is checked

| Run | Instance | Shows |
|---|---|---|
| `corpus_traj` | one trajectory, 4 frames, runs of 3, 2 clients, 2 unit systems; maintenance exclusive | counts, decoding, hashes, rows and cooked values agree in every interleaving with extensions; `FrameStore` is implemented |
| `corpus_two_trajs` | 2 trajectories of 2 equal-after-conversion frames, one operation at a time per trajectory; 4-bit floats, 13 selections | a digest shared across trajectories is neither lost nor left dangling; every selection lists what a scan would |
| `corpus_overlap` | one trajectory, 2 frames of 2 molecules, every overlap allowed | no frame is lost or read as another |
| `archive` | 2 callers, 3 rows, both APIs, crashes and restarts | no row uncounted, ids without gaps, flushes cover what came before, nobody waits for ever; `Ledger` is implemented |
| `map_growth` | 3 threads, 3 calls, 2 attempts, two initial maps | whole writes, doubling, guarded resizes, no lost room, every call returns |
| `topology` | 2 clients, 2 trajectories of up to 3 frames, 2 parameter sets, 2 methods; annotation exclusive | rows mirror keys, no mixed methods, keys are of their frames, nothing overwritten |
| `handles` | 2 threads, 2 directories, 2 opens, five kinds of calls | ids lead home until closed, a stray call only after a close, the right unit, own results and messages, the holder of the mutex is served |
| `shards` | 2 processes, 2 roots of 1 or 2 shards, 2 environments, 2 trajectories; exclusive and quiet | every handle finds every trajectory, drained frames stay, failed drains leave no trace, copies are whole, selections are global |
| `mpi` | 2 ranks, one corpus or 2 or 3 shards, 4 file lists of up to 3 frames, runs of 2, batches of 1, 2 and the largest word, counts up to 4 bytes, 2 calls | what is staged is what serial appends store, each environment is as before or as they leave it, ok means stored everywhere, messages fit, every rank returns |
| `topology_rollback`, `corpus_two_migrations`, `shards_late_shard` | smallest instance with the discipline lifted where it matters | a property the documents state and the code does not keep; see *Findings* |

**Bounds.** Four frames with runs of three give a full run, a run cut by the end of a trajectory, an
extension that starts inside a run and one that starts a new one; every index beyond repeats one of
these positions. Two clients are enough for a read that a commit overtakes; the races found need two,
and a third operation that is one transaction. Two unit systems give a conversion and its way back,
which is how digests come to coincide. In `map_growth` a row of 4 in a map of 2 takes several
doublings and exceeds the attempts, a row of 1 fits after one; three calls are a write, a reader and
an ingest at once. `archive` needs three rows for one committed, one in flight and one in the
channel. `topology` needs a trajectory appended between two annotations, and two frames to extend by.
In `handles` two opens are a slot and its second lease, or two corpora at once. `shards` has a shard that is absent
and one that is not, two roots that share an id, and two sources of one join. In `mpi` a file of three
frames is a full run and a tail, cut by a batch of one or two; text equal to one of an earlier batch, of
the same batch and of another environment occurs; a record is one byte and, unless it
is left out, a payload of one, three or five, against a limit of four, so batches do not fit, are
halved, and the longest frames do not fit even alone; a second call meets claimed trajectories, those of a call whose commits were cut short too.
`MaxFrames`, `MaxRows`, `MaxOpens` and `MaxCalls` bound the runs and appear in guards; the code has no such
limits. Clients, and texts where nothing orders them, are symmetric; runs with liveness use no
symmetry.

**Deadlock.** It is checked except in `map_growth` and `mpi`, where all calls may have been made, and
in `handles`, where every handle may be closed and no open left. What that would hide is a property of its
own there: `CallsReturn`, `EveryRankReturns` and `MutexHolderIsServed`.

**Fairness.** Corpus and Topology have none: their properties are safety, and a client may stop
anywhere. Archive: the writer thread runs on (nothing but the channel blocks it), and a caller that
has what it waited for continues; whether callers make calls, and whether the process dies, is open.
MapGrowth: each thread inside a call continues (weak fairness of `Step`). No fairness among waiters
for the lock is assumed beyond that: a bounded number of calls cannot starve one. Mpi: each rank that
runs goes on to the next collective, and a collective that everybody has entered completes, which is
what MPI promises. That a rank fails or the job is killed is open. Shards and Handles have none.

## Findings

Each is a run that TLC finds violated.

1. `topology_rollback`: an annotation writes `n_frames` back (corpus.rs:1692); the guard of extend
   compares with the value that went back, and stored frames are overwritten.
2. `corpus_two_migrations`: overlapping migrations (corpus.rs:1944) commit only the values that
   differ from what each *read*, and leave a redirect without its group.
3. `shards_late_shard`: `drain_to` lists a destination shard as made before it copies it
   (shard.rs:329). When the copy is refused because the shard is there, the undo removes it, with the
   frames an earlier drain reported as copied.

### Known disagreements

Of the same kind and seen in the models, without a run of their own.

* `cook_frame` (corpus.rs:1905) puts numbers of a text that a unit change has replaced, and readers
  prefer them. `MCCorpusTwoMigrations.cfg` with one frame, `Conflicts <- CookAnytime` and the invariant
  `CookedIsFresh` shows it.
* No concurrency needed: index rows are computed from the frame in memory, the default writer rounds,
  and a unit change deletes the rows of the rounded frame (corpus.rs:768, 911). The inputs
  `MCFineInputs` and the invariant `OneScalarRowPerFrame` show it.
* `snapshot_to` (corpus.rs:612) holds a transaction outside the gate: `ResizedWithNothingOpen` of
  MapGrowth fails with a write and a snapshot.
* The check that methods agree (corpus.rs:1607) is made long before the commit: two first annotations
  may overlap (`MethodsNeverMixed` in `MCTopologyRollback.cfg` with one parameter set).
* ffi.rs:98 says the mutex is "not held across ingest/select CPU or LMDB work"; the selections,
  `reindex` and the cooking calls run under it (ffi.rs:677, 791, 804). Handles models what they do:
  a slow selection holds up every other handle.
* Some calls return `RKRDB_ERR` without leaving a message, when an argument is not UTF-8 or not JSON
  (ffi.rs:397-403, 607-610); AnswersAreOwn is about failures of the corpus.
* An MPI call whose commit fails on one environment, or that is killed between commits, leaves the
  others' trajectories stored; trying again is then refused by the claims (mpi_ingest.rs:743-748).
* A selection by digest and trajectory looks only at the one posted key (corpus.rs:2070-2074): it is
  empty when the posted frame is of another trajectory, though an equal frame is in this one.
  `SelectAgreesWithScan` says so.
* `ordered_f64_bits` puts -0.0 below +0.0, so a range from 0.0 leaves out a frame whose scalar is -0.0;
  bounds that are not finite, NaN included, are no bounds (corpus.rs:2193). `AtMost` and
  `NoBoundKeepsAll` are stated accordingly.
* Two processes that create one sharded root with different counts each keep their own (shard.rs:66-80).

## What is proved

Each theorem holds for every value of the constants that the named assumptions allow: any number of
processes, trajectories, rows and calls, any bound, any input. TLC evaluates the assumptions. Every
invariant below was first checked by TLC on the run's instance.

### Corpus (`CorpusProofs`)

Assumed are `CodecAssumption` (trajectory ids and bounds are natural numbers, runs are not empty),
`NilAssumption` (the absent value is not a value) and `CorpusAssumption` (inputs are sequences of
texts).

**Whatever operations overlap**, for any `Conflicts`, none included:

* `TypeCorrect`: `Spec => []TypeOK`
* `CountsMatch`: `Spec => []CountMatchesFrames`. The frames of a trajectory are `0 .. n_frames - 1`
  with no gap.
* `FramesStayThemselves`: `Spec => FramesKeepTheirMolecule`. No frame is read as another.

`CountMatchesFrames` is not inductive: a unit change or a migration in flight commits to the indices
it listed when it began, and a step from a state where it had listed more frames than there are would
leave frames beyond the count. `CountInv` adds `JobBounds`: a job that rewrites frames has listed no
more than are stored now, since counts never fall. `PutCovers` and `CountsAfterPut` say which indices a
put leaves stored, `StoredValuesCover` that packing yields a value for exactly the frames it is given,
and `RewriteKeepsCounts` that writing over stored frames changes no count. Where the guard of extend is
used is `ExtendKeepsCounts`.

`FramesStayThemselves` cannot speak of what a job read, since under arbitrary overlaps that is out of
date. `MolInv` says instead that there is one assignment `M` of molecules to keys such that every stored
value, and every text and value any job holds, describes at each slot the molecule `M` has for the key
of that slot. Rewritten groups then decode right or not at all. An extension extends `M`.

**When maintenance keeps to itself** (`MaintainsAlone`: one unit change or migration at a time on a
trajectory, and no cooking of it during a unit change; extensions, appends, reindexes, readers are free):

* `FramesDecode`: `Spec => []EveryFrameDecodes`
* `HashesFollow`: `Spec => []HashesMatchText`
* `PostingsStayExact`: `Spec => []PostingsExact`
* `CookedStaysFresh`: `Spec => []CookedIsFresh`
* `RowsFollowFrames`: `Spec => []RowsExact`, given also `PlainInputs`
* `CorpusIsAStore`: `Spec => ImplementsFrameStore`

The hypothesis is the discipline of the run `corpus_traj`, and it is needed: without it these fail, as
`corpus_two_migrations` and the known disagreements show. `PlainInputs`, no digits the default writer
drops, is needed by `RowsExact` for the reason given there. The five share one invariant, `ContentInv`. Besides the counts it
has `Alone` (what the discipline keeps apart is apart in fact), `JobsFresh` (what a maintenance or a
cooking has read is what the tables still hold, although frames are added meanwhile) and, for the
extensions that overlap a maintenance, `SplitAt`: a frame added after the keys were listed does not
redirect to a frame that was listed, so the rewriting does not pull a group from under it. It holds
because `pack_aligned` never groups new frames with stored ones. `RewriteChanges` and `AddsChanges`
reduce a commit to `Changes`: the keys of one range decode to these texts, all others as before; the
properties of the tables, and the steps of `FrameStore`, follow from that alone.

The module begins with the lemmas about packing: runs have a first and a last index, a packed value is
a single text, a group or a redirect, and following it gives back the text that was packed.

### Map growth (`MapGrowthProofs`)

Assumed is `MapAssumption`: sizes are natural numbers, the alignment, the rows and the attempts are
positive, and the absent value is neither a thread nor an outcome.

* `MapTypeCorrect`: `Spec => []TypeOK`
* `WritesStayWhole`: `Spec => []WritesAreWhole`. A write that is retried is stored once and whole.
* `NeverShrinks`: `Spec => MapNeverShrinks`
* `ResizesPastEveryGuard`: `Spec => ResizedPastEveryGuard`
* `RoomIsReserved`: `Spec => []IngestFullOnlyWhenCrowded`
* `AttemptsDouble`: `Spec => []GivesUpOnlyAfterDoubling`, given `PowersOfTwo`

The first four share `MapInv`: the type invariant, `LockInv` (whoever is between its first and its
last transaction owns `txn_gate`, and while somebody reads nobody owns it), `Progress` (only
`with_write` retries, an open transaction is one of the attempts allowed, and it starts at the first
row) and `Numbered` (calls in flight are distinct and have no outcome yet). `WritesAreWhole` needs the
last two: without them a second call could put rows under the number of the first, or a retry could
store what is left of its rows. The sizes come from `SizesGrow`, which rests on `AlignCovers`: rounding
up to `MAP_ALIGN` loses nothing. `RoomInv` adds that an ingest stays within its reservation and that
the room it reserved is there until another writer is in the file; `DoubledInv` that each failed
attempt has doubled the map. `PowersOfTwo` is the law 2^(n+1) = 2 * 2^n, a hypothesis because the
provers do not know exponentiation.

### Archive (`ArchiveProofs`)

Assumed is `ArchiveAssumption`: a bound that is a natural number, the two APIs, and that the absent
value is neither a thread nor a number.

* `ArchiveTypes`: `Spec => []TypeOK`
* `RowsAreCounted`: `Spec => []NoRowUncounted`
* `NextIdFree`: `Spec => []NextIdIsFree`
* `FlushIsABarrier`: `Spec => []FlushCoversEarlierRows`
* `ArchiveIsALedger`: `Spec => ImplementsLedger`

`ArchiveInv` has the shapes of channel and writer; `AloneInside` (with the C API one call at a time);
`InOrder` and `Requests` (rows in the channel, with the writer and in the corpus are in the order they
were sent, and a flush request knows which); for some `n`, `StoredInOrder(n)` and `NextId(n)`: the
stored ids are `0 .. n - 1`, and the writer's next id is `n` or, between the transaction and the counter,
on its way there; and `Counted`. The crash between the transaction and the counter is where the naive
form of the third fails.

### Topology (`TopologyProofs`)

Assumed is `TopologyAssumption`, and the hypothesis `AnnotatesAlone`: an annotation overlaps neither
another one nor an extension nor a reindex. Each of the three exclusions is needed (see *Findings*).

* `RowsAreTheKeys`: `Spec => []RowsMirrorKeys`
* `OneMethodOnly`: `Spec => []MethodsNeverMixed`
* `KeysFitTheirFrames`: `Spec => []KeysAreOfTheirFrames`
* `FramesStay`: `Spec => NoFrameIsReplaced`

`TopologyInv` says that frames lie within the counts, that an annotator is alone with the appends, that
what an annotation knows (the stamp, the records it listed, the texts it read) is still so, that all
stamps are one, and that every key was made under it. Appends remain free, so "still so" of a
trajectory that was not listed is "absent then, or without a stamp now".

### Shards (`ShardsProofs`)

Assumed are `ShardsAssumption` (ids and counts are natural numbers, there is a greatest count, and a
directory is a root or a single environment, not both) and `ShardsNilAssumption` (what is absent is told
from what can be there).

With the hypothesis `Exclusive`, that every writer has directories of its own:

* `HandlesFind`: `Spec => []EveryHandleFinds`
* `SelectStaysGlobal`: `Spec => []SelectIsGlobal`
* `CopiesStayWhole`: `Spec => []CopiesAreWhole`
* `ShardsStayApart`: the invariant they share

With `Quiet` as well, that nobody appends to a root while it is drained:

* `DrainedFramesStay`: `Spec => []DrainedStays`
* `FailedDrainsLeaveNoTrace`: `Spec => FailedDrainLeavesNoTrace`

Both hypotheses are needed: without `Exclusive` two processes may create one root with two counts, and
without `Quiet` the run `shards_late_shard` finds a drain removing a shard that another one reported.

`ShardsInv` has the shapes of directories, handles and operations; `Apart` (the place an operation fills is no
other operation's destination or source, and nobody has it open); `Routed` (a shard holds only
trajectories its root's count leads to); `HandlesTrue` (a handle has the count of its root); and `JobsOK`,
what each operation knows of the places it works on: a drain, what its destination held apart from the
shards it made; a join, that all it began with is in its destination or in a corpus still to be copied; a
split, that destination and list together are the source; a selection, that it has read the lowest keys
of the shards so far, if nothing came in. Others may append to what an operation reads. `StepKeeps` says
once and for all that such growth, and a change of a place nobody else depends on, disturbs nothing;
each action then needs only what it does for itself. `Kept` adds for the drains that a trajectory
reported as copied is also in what a later drain into the same root found there, so undoing that drain
brings it back. `LowestOfUnion` is why a limit may be applied to each shard first.

### Handles (`HandlesProofs`)

Assumed is `HandlesAssumption`: a bound that is a natural number, and the absent value is no thread,
directory, number or handle.

* `HandleTypes`: `Spec => []TypeOK`
* `StraysAreLate`: `Spec => []StraysOnlyAfterClose`
* `UnitsFollowTheCorpus`: `Spec => []UnitIsOfTheCorpus`
* `EveryThreadGetsItsAnswer`: `Spec => []AnswersAreOwn`

`HandlesInv` relates leases, slots and calls. Leases are numbered as they are opened, get their id later
and are closed after that (`LeasesInOrder`); what is in a slot is of a lease that is held, with the unit
and the keys of its own corpus (`TableIsHeld`); a call past the mutex reached the corpus of its lease
unless that lease is closed, and one that keeps the mutex has the slot still (`CallOk`); nobody opens a
lease twice (`OpensApart`); the histories name handles that are held (`HistoriesHeld`).

### MPI ingest (`MpiProofs`)

Assumed are `WireAssumption`, `MpiAssumption` (ranks and word sizes that make sense, one greatest shard
count, files that are sequences of texts and no longer than a key can number) and `NoTablesAssumption`
(having no transaction is told from having one).

* `BatchAdvances`, `ShrinkConverges`: a batch moves on and never past the end, and halving ends, both
  of which `EveryRankReturns` needs; `BlocksTile`: the blocks of the ranks tile the frames.
* `StagedEqualsSerial`: `Spec => []StagedIsSerial`
* `EnvironmentsAreWhole`: `Spec => []EnvIsOldOrSerial`
* `OkIsGlobal`: `Spec => []OkMeansAllStored`
* `ExchangesFit`: `Spec => []MessagesFit`
* `NothingStoredEarly`: no environment changes before every rank has voted to commit.
* `PayloadsArrive`: a frame sent without its bytes is given those of its winner where it arrives.
* `OwnChecksPass`: decoding and draining never fail by a check of their own. No payload is missing, what
  waits begins with the first frame of a group, and after the last batch nothing stays behind.

All rest on one invariant, `BarrierInv /\ DataInv`. `BarrierInv` is what each stage of the collective knows
of all ranks: a batch about to be exchanged was weighed by each, open transactions belong to owners, and
during the commits an environment holds its files, or its transaction does, or a rank has failed.
`StagedIsSerial` is needed there and is not inductive: it speaks of one barrier only. `DataInv` is what
holds before it. For an environment that has had its frames before `n` (`Placed`, where `n` is the start of
the batch or its end, as the stage says), these frames fall in two: the first, whole groups, are in the
transaction, stored as the serial ingest stores them, and the rest wait in the buffer, in order. An exchange appends
the batch's frames (`Exchanged`: blocks follow one another and each message is in order; `Decoded`), and
draining moves a prefix over (`WaitsDrained`).

Both sides are recursive: `Ready` walks the buffer, `SerialIn` the files. Neither is compared with the other
step by step. `SerialStores` gives what appending the first `n` files stores in closed form, `StoredIn`: a
key has the value, digest and text of its frame, a digest the key of its first frame. `PutStored` is that
putting rows of later frames on top gives `StoredIn` of both; `ReadyGroups` that the prefix `drain_ready`
takes is whole aligned groups, because the frames of a file are not interrupted in the buffer, and that it
stops where no whole group begins, from which `WaitsHead` follows; `PackedAlone`
and `PackedWhole` that a group packed alone is stored as it is within its whole trajectory. Induction along the
recursion is over the naturals below a bound, by `AllUpTo`, and `Recursion` says that the recursive functions
exist.

### Selection (`SelectionProofs`)

Assumed are `FloatAssumption` (a width and a largest finite magnitude) and `SelectionAssumption` (a frame's
scalar is a float, and queries have a digest, bounds and a limit of the right kind).

* `OrderKept`, `KeysTellApart`: `ordered_f64_bits` keeps the order of the finite floats, and no two
  floats share a word. `RangeIsExact`, `NoBoundKeepsAll`: a range scan finds the finite floats between its
  bounds and no other. The runs sample this at four bits.
* `ListedInOrder`: what is listed is each hit once, in the order of the keys, cut to the limit.
* `SelectionsAreScans`: `Spec => []SelectAgreesWithScan`, given `MaintainsAlone` and `PlainInputs`.

The last has no invariant of its own. `TablesServe` takes from `CorpusProofs` what a selection needs of the
tables (rows, postings and decoding exact); `SpeciesFinds`, `RangeFinds` and `HashFinds` say for each
kind of predicate which keys it finds in such tables, and `SelectLists` that intersecting them is
scanning for the conjunction.

### Only model-checked

Liveness (`CallersReturn`, `CallsReturn`, `EveryRankReturns`): fairness and `ENABLED` are out of the
prover's reach, and so is `MutexHolderIsServed`, which says what is enabled.

## What is not modelled

Parsing and printing of CON files, zstd, the bytes of index keys, unit factors and the layout of cooked
blobs: data no property here tells apart, except through the abstractions named above. A second process
that grows the file or opens the same archive. The collective reads and the parallel export of
`mpi_read.rs`, which share the blocks and the agreement of the ingest and otherwise pack buffers; their
block lengths are cast without the check the ingest has (mpi_read.rs:87). `ingest_directory` prepares in
parallel and commits one trajectory after another with `commit_prepared`, which is `AppendTrajectory`.
H5MD and XYZ export, the CLI and the bindings keep no state. A unit change leaves topology keys as they
are; whether a key computed before it is still wanted is not said anywhere, so Topology has no unit
changes. Two processes creating one sharded root at once are kept apart in Shards.

## Plan

1. A second process in MapGrowth (`MDB_MAP_RESIZED`) and in Archive.
2. The collective read, with its counts at a small width.
