-------------------------------- MODULE Shards --------------------------------
(***************************************************************************)
(* Corpora spread over directories (shard.rs): a sharded root is a         *)
(* manifest with a number of shards and, for each, a corpus of its own; a  *)
(* trajectory is in shard traj_id % n_shards. Roots are drained into one   *)
(* another, joined into a corpus of a single environment and split from    *)
(* one, by processes that share nothing but the file system. What happens  *)
(* inside a corpus is in Corpus; here a corpus is a set of trajectories.   *)
(***************************************************************************)
EXTENDS Integers, Sequences, FiniteSets, FiniteSetsExt, SequencesExt

CONSTANTS Procs,      \* processes
          Trajs,      \* trajectory ids
          Counts,     \* shard counts a root may be created with
          Roots,      \* directories that may be sharded roots
          Envs,       \* directories that may be single environments
          Limits,     \* limits of a selection
          Ops,        \* the operations the processes start
          Exclusive,  \* whether operations keep off a destination in use
          Quiet,      \* whether nobody appends to a root that is being drained
          Nil

\* A count is a u32, so some count is the greatest.
ASSUME ShardsAssumption ==
    /\ Trajs \subseteq Nat /\ Counts \subseteq Nat \ {0} /\ Limits \subseteq Nat
    /\ Exclusive \in BOOLEAN /\ Quiet \in BOOLEAN
    /\ \E most \in Counts : \A n \in Counts : n <= most
    /\ Roots \cap Envs = {} /\ Nil \notin Roots \cup Envs

VARIABLES
    root,    \* directory -> Nil, or its manifest and its shards
    env,     \* directory -> Nil, or the trajectories of its corpus
    handle,  \* process -> the root it has open, with the shard count it read
    task,    \* process -> the operation it is in the middle of
    drained  \* what drains have reported as copied

vars == <<root, env, handle, task, drained>>

\* A stored trajectory: its id and the root or corpus it was appended in.
Rows == Trajs \X Roots

ShardIds == 0 .. Max(Counts) - 1

\* What a root may hold: the count of its manifest, and for each shard the
\* trajectories of its corpus.
Dirs == [man : Counts \cup {Nil}, shards : [ShardIds -> (SUBSET Rows) \cup {Nil}]]

\* What is absent is told from everything that can be there.
ASSUME ShardsNilAssumption ==
    /\ Nil \notin Nat /\ Nil \notin Dirs
    /\ \A rows \in SUBSET Rows : Nil # rows
    /\ Nil \notin [root : Roots, n : Counts]

\* A directory that was just made.
Empty == [man |-> Nil, shards |-> [i \in ShardIds |-> Nil]]

Idle == [op |-> "idle"]

HasManifest(r) == root[r] # Nil /\ root[r].man # Nil

Shard(r, i) == IF root[r] = Nil THEN Nil ELSE root[r].shards[i]

\* shard_for_traj
ShardForTraj(t, n) == t % n

\* A root with another shard i; directories are made as needed.
WithShard(r, i, rows) ==
    LET d == IF root[r] = Nil THEN Empty ELSE root[r]
    IN  [root EXCEPT ![r] = [d EXCEPT !.shards[i] = rows]]

WithManifest(r, n) ==
    LET d == IF root[r] = Nil THEN Empty ELSE root[r]
    IN  [root EXCEPT ![r] = [d EXCEPT !.man = n]]

Contents(place) ==
    IF place \in Envs THEN IF env[place] = Nil THEN {} ELSE env[place]
    ELSE UNION {Shard(place, i) : i \in {j \in ShardIds : Shard(place, j) # Nil}}

\* Directories an operation in progress is filling.
InUse == {task[p].dst : p \in {q \in Procs : task[q].op \in {"drain", "join", "split", "open"}}}

\* Directories an operation in progress is reading.
Read == UNION {task[p].from : p \in {q \in Procs : task[q].op \in {"drain", "join", "split"}}}

\* The discipline of the shard layout: every writer has directories of its own.
MayUse(place) == Exclusive => place \notin InUse

MayAppend(r) ==
    /\ MayUse(r)
    /\ Quiet => \A p \in Procs : task[p].op = "drain" => task[p].src # r

Opened(place) == \E p \in Procs : handle[p] # Nil /\ handle[p].root = place

MayFill(place) == Exclusive => place \notin InUse \cup Read /\ ~Opened(place)

Return(p) == task' = [task EXCEPT ![p] = Idle]

Become(p, t) == task' = [task EXCEPT ![p] = t]

-----------------------------------------------------------------------------
(* Opening a root: the manifest is looked for, and written if missing.     *)

OpenFound(p, r) ==
    /\ task[p] = Idle /\ "append" \in Ops
    /\ HasManifest(r) /\ MayUse(r)
    /\ handle' = [handle EXCEPT ![p] = [root |-> r, n |-> root[r].man]]
    /\ UNCHANGED <<root, env, task, drained>>

OpenMissing(p, r, n) ==
    /\ task[p] = Idle /\ "append" \in Ops
    /\ ~HasManifest(r) /\ MayFill(r)
    /\ Become(p, [op |-> "open", dst |-> r, n |-> n])
    /\ UNCHANGED <<root, env, handle, drained>>

\* Whether it is still missing is not looked at again.
WriteManifest(p) ==
    /\ task[p].op = "open"
    /\ root' = WithManifest(task[p].dst, task[p].n)
    /\ handle' = [handle EXCEPT ![p] = [root |-> task[p].dst, n |-> task[p].n]]
    /\ Return(p)
    /\ UNCHANGED <<env, drained>>

CloseRoot(p) ==
    /\ task[p] = Idle /\ handle[p] # Nil
    /\ handle' = [handle EXCEPT ![p] = Nil]
    /\ UNCHANGED <<root, env, task, drained>>

\* append_trajectory_*: shard_mut makes the shard if it is not there; the
\* trajectory is stored unless the shard has it.
AppendTrajectory(p, t) ==
    LET r    == handle[p].root
        i    == ShardForTraj(t, handle[p].n)
        rows == IF Shard(r, i) = Nil THEN {} ELSE Shard(r, i)
    IN  /\ task[p] = Idle /\ handle[p] # Nil /\ MayAppend(r)
        /\ root' = WithShard(r, i,
               IF \E row \in rows : row[1] = t THEN rows ELSE rows \cup {<<t, r>>})
        /\ UNCHANGED <<env, handle, task, drained>>

-----------------------------------------------------------------------------
(* select: the shards are read one after another.                          *)

Lowest(limit, ids) == {t \in ids : Cardinality({u \in ids : u < t}) < limit}

Ids(rows) == {row[1] : row \in rows}

SelectBegin(p, limit) ==
    /\ task[p] = Idle /\ handle[p] # Nil /\ "select" \in Ops
    /\ Become(p, [op |-> "select", next |-> 0, limit |-> limit, out |-> {},
                  before |-> Contents(handle[p].root)])
    /\ UNCHANGED <<root, env, handle, drained>>

\* Mutant: no more shards are read when there are enough keys.
SelectStops(p) ==
    LET j    == task[p]
        rows == Shard(handle[p].root, j.next)
        out  == IF rows = Nil \/ Cardinality(j.out) >= j.limit THEN j.out
                ELSE j.out \cup Lowest(j.limit, Ids(rows))
    IN  /\ j.op = "select" /\ j.next < handle[p].n
        /\ Become(p, [j EXCEPT !.next = j.next + 1, !.out = out])
        /\ UNCHANGED <<root, env, handle, drained>>

\* Each shard answers with its own lowest keys.
SelectShard(p) ==
    LET j    == task[p]
        rows == Shard(handle[p].root, j.next)
        out  == IF rows = Nil THEN j.out ELSE j.out \cup Lowest(j.limit, Ids(rows))
    IN  /\ j.op = "select" /\ j.next < handle[p].n
        /\ Become(p, [j EXCEPT !.next = j.next + 1, !.out = out])
        /\ UNCHANGED <<root, env, handle, drained>>

\* The keys are sorted and cut to the limit.
SelectKeys(p) == Lowest(task[p].limit, task[p].out)

SelectEnd(p) ==
    /\ task[p].op = "select" /\ task[p].next = handle[p].n
    /\ Return(p)
    /\ UNCHANGED <<root, env, handle, drained>>

\* get_frame_text looks in the shard the handle's count leads to.
Finds(h, t) ==
    LET rows == Shard(h.root, ShardForTraj(t, h.n)) IN rows # Nil /\ t \in Ids(rows)

-----------------------------------------------------------------------------
(* drain_to                                                                *)

DrainBegin(p, src, dst) ==
    /\ task[p] = Idle /\ "drain" \in Ops
    /\ src # dst /\ HasManifest(src) /\ MayUse(src) /\ MayFill(dst)
    /\ Become(p, [op |-> "drain", at |-> "check", from |-> {src}, src |-> src, dst |-> dst,
                  n |-> root[src].man, new |-> root[dst] = Nil, copied |-> FALSE,
                  next |-> 0, made |-> {}, rows |-> {}, was |-> root[dst]])
    /\ UNCHANGED <<root, env, handle, drained>>

\* Mutant: any shard count will do.
AnyCount(j) == TRUE

\* A manifest at the destination must have the same count.
SameCount(j) == HasManifest(j.dst) => root[j.dst].man = j.n

\* A shard that both have.
Clash(j) == \E i \in 0 .. j.n - 1 : Shard(j.src, i) # Nil /\ Shard(j.dst, i) # Nil

\* The destination is made; another count or a clash is refused.
DrainCheck(p) ==
    LET j    == task[p]
        fine == SameCount(j) /\ ~Clash(j)
    IN  /\ j.op = "drain" /\ j.at = "check"
        /\ root' = IF root[j.dst] = Nil THEN [root EXCEPT ![j.dst] = Empty] ELSE root
        /\ Become(p, [j EXCEPT !.at = IF fine THEN "manifest" ELSE "undo",
                               !.copied = fine /\ ~HasManifest(j.dst)])
        /\ UNCHANGED <<env, handle, drained>>

DrainManifest(p) ==
    LET j == task[p]
    IN  /\ j.op = "drain" /\ j.at = "manifest"
        /\ root' = IF j.copied THEN WithManifest(j.dst, j.n) ELSE root
        /\ Become(p, [j EXCEPT !.at = "copy"])
        /\ UNCHANGED <<env, handle, drained>>

\* snapshot_to: data that is at the destination by now is refused.
DrainCopy(p) ==
    LET j    == task[p]
        rows == Shard(j.src, j.next)
    IN  /\ j.op = "drain" /\ j.at = "copy" /\ j.next < j.n
        /\ IF rows = Nil
           THEN /\ Become(p, [j EXCEPT !.next = j.next + 1])
                /\ UNCHANGED root
           ELSE IF Shard(j.dst, j.next) # Nil
           THEN /\ Become(p, [j EXCEPT !.at = "undo", !.made = j.made \cup {j.next}])
                /\ UNCHANGED root
           ELSE /\ Become(p, [j EXCEPT !.next = j.next + 1, !.made = j.made \cup {j.next},
                                       !.rows = j.rows \cup rows])
                /\ root' = WithShard(j.dst, j.next, rows)
        /\ UNCHANGED <<env, handle, drained>>

DrainEnd(p) ==
    LET j == task[p]
    IN  /\ j.op = "drain" /\ j.at = "copy" /\ j.next = j.n
        /\ drained' = drained \cup {<<j.dst, row>> : row \in j.rows}
        /\ Return(p)
        /\ UNCHANGED <<root, env, handle>>

\* Reading or writing a file fails.
Fail(p) ==
    /\ task[p].op \in {"drain", "join", "split"} /\ task[p].at # "undo"
    /\ Become(p, [task[p] EXCEPT !.at = "undo"])
    /\ UNCHANGED <<root, env, handle, drained>>

\* Mutant: the manifest stays.
UndoneKeepsManifest(j) ==
    IF j.new \/ root[j.dst] = Nil THEN Nil
    ELSE [root[j.dst] EXCEPT !.shards =
             [i \in ShardIds |-> IF i \in j.made THEN Nil ELSE @[i]]]

\* Mutant: the destination goes, whether it was there before or not.
UndoneAltogether(j) == Nil

\* What is left of the destination: nothing if the drain made it, else all but
\* the shards and the manifest it made.
Undone(j) ==
    IF j.new \/ root[j.dst] = Nil THEN Nil
    ELSE [man    |-> IF j.copied THEN Nil ELSE root[j.dst].man,
          shards |-> [i \in ShardIds |-> IF i \in j.made THEN Nil ELSE root[j.dst].shards[i]]]

DrainUndo(p) ==
    /\ task[p].op = "drain" /\ task[p].at = "undo"
    /\ root' = [root EXCEPT ![task[p].dst] = Undone(task[p])]
    /\ Return(p)
    /\ UNCHANGED <<env, handle, drained>>

-----------------------------------------------------------------------------
(* join_to_single_env, join_drained_roots, join_corpus_dirs                *)

\* One or two sources of one kind.
Sources == {<<a>> : a \in Roots \cup Envs} \cup (Roots \X Roots) \cup (Envs \X Envs)

\* The corpora of a source, in order.
Parts(place) ==
    IF place \in Envs THEN <<<<place, 0>>>>
    ELSE [i \in 1 .. root[place].man |-> <<place, i - 1>>]

RowsOf(part) ==
    LET rows == IF part[1] \in Envs THEN env[part[1]] ELSE Shard(part[1], part[2])
    IN  IF rows = Nil THEN {} ELSE rows

\* preview_traj: no trajectory in two corpora.
Previewed(parts) ==
    \A i, k \in DOMAIN parts : i # k => Ids(RowsOf(parts[i])) \cap Ids(RowsOf(parts[k])) = {}

JoinBegin(p, src, dst) ==
    LET from  == {src[i] : i \in DOMAIN src}
        parts == FlattenSeq([i \in DOMAIN src |-> Parts(src[i])])
    IN  /\ task[p] = Idle /\ "join" \in Ops
        /\ env[dst] = Nil
        /\ \A a \in from : IF a \in Roots THEN HasManifest(a) ELSE env[a] # Nil
        /\ MayFill(dst) /\ \A a \in from : MayUse(a)
        /\ Previewed(parts)
        /\ Become(p, [op |-> "join", at |-> "open", from |-> from, dst |-> dst,
                      todo |-> parts, seen |-> {}, before |-> UNION {Contents(a) : a \in from}])
        /\ UNCHANGED <<root, env, handle, drained>>

JoinOpen(p) ==
    LET j == task[p]
    IN  /\ j.op = "join" /\ j.at = "open"
        /\ env' = IF env[j.dst] = Nil THEN [env EXCEPT ![j.dst] = {}] ELSE env
        /\ Become(p, [j EXCEPT !.at = "copy"])
        /\ UNCHANGED <<root, handle, drained>>

\* Mutant: an absent shard ends the list.
AfterEmpty(j) == IF RowsOf(Head(j.todo)) = {} THEN <<>> ELSE Tail(j.todo)

\* The corpora that are left when the first one is done; an absent one is skipped.
After(j) == Tail(j.todo)

\* append_sharded_into: a trajectory that was seen before is refused.
JoinCopy(p) ==
    LET j    == task[p]
        rows == RowsOf(Head(j.todo))
    IN  /\ j.op = "join" /\ j.at = "copy" /\ j.todo # <<>>
        /\ IF Ids(rows) \cap j.seen # {}
           THEN /\ Become(p, [j EXCEPT !.at = "undo"])
                /\ UNCHANGED env
           ELSE /\ Become(p, [j EXCEPT !.todo = After(j), !.seen = j.seen \cup Ids(rows)])
                /\ env' = [env EXCEPT ![j.dst] = Contents(j.dst) \cup rows]
        /\ UNCHANGED <<root, handle, drained>>

JoinEnd(p) ==
    /\ task[p].op = "join" /\ task[p].at = "copy" /\ task[p].todo = <<>>
    /\ Return(p)
    /\ UNCHANGED <<root, env, handle, drained>>

\* rollback_new_dest
JoinUndo(p) ==
    /\ task[p].op = "join" /\ task[p].at = "undo"
    /\ env' = [env EXCEPT ![task[p].dst] = Nil]
    /\ Return(p)
    /\ UNCHANGED <<root, handle, drained>>

-----------------------------------------------------------------------------
(* split_single_to_sharded                                                 *)

SplitBegin(p, src, dst, n) ==
    /\ task[p] = Idle /\ "split" \in Ops
    /\ env[src] # Nil /\ root[dst] = Nil
    /\ MayUse(src) /\ MayFill(dst)
    /\ Become(p, [op |-> "split", at |-> "open", from |-> {src}, src |-> src, dst |-> dst,
                  n |-> n, todo |-> {}, before |-> env[src]])
    /\ UNCHANGED <<root, env, handle, drained>>

\* The manifest is written and the frames are listed.
SplitOpen(p) ==
    LET j == task[p]
    IN  /\ j.op = "split" /\ j.at = "open"
        /\ root' = WithManifest(j.dst, j.n)
        /\ Become(p, [j EXCEPT !.at = "copy", !.todo = RowsOf(<<j.src, 0>>)])
        /\ UNCHANGED <<env, handle, drained>>

\* Trajectories are appended in order, each routed by its id.
SplitCopy(p) ==
    LET j == task[p]
    IN  /\ j.op = "split" /\ j.at = "copy"
        /\ \E row \in j.todo :
              /\ \A other \in j.todo : row[1] <= other[1]
              /\ LET i == ShardForTraj(row[1], j.n)
                 IN  root' = WithShard(j.dst, i, RowsOf(<<j.dst, i>>) \cup {row})
              /\ Become(p, [j EXCEPT !.todo = j.todo \ {row}])
        /\ UNCHANGED <<env, handle, drained>>

SplitEnd(p) ==
    /\ task[p].op = "split" /\ task[p].at = "copy" /\ task[p].todo = {}
    /\ Return(p)
    /\ UNCHANGED <<root, env, handle, drained>>

SplitUndo(p) ==
    /\ task[p].op = "split" /\ task[p].at = "undo"
    /\ root' = [root EXCEPT ![task[p].dst] = Nil]
    /\ Return(p)
    /\ UNCHANGED <<env, handle, drained>>

\* A process dies; what it has written stays.
Crash(p) ==
    /\ task[p].op \in {"drain", "join", "split"}
    /\ handle' = [handle EXCEPT ![p] = Nil]
    /\ Return(p)
    /\ UNCHANGED <<root, env, drained>>

-----------------------------------------------------------------------------
Init ==
    /\ root = [r \in Roots |-> Nil]
    /\ env = [e \in Envs |-> Nil]
    /\ handle = [p \in Procs |-> Nil]
    /\ task = [p \in Procs |-> Idle]
    /\ drained = {}

Step(p) ==
    \/ \E r \in Roots : OpenFound(p, r)
    \/ \E r \in Roots, n \in Counts : OpenMissing(p, r, n)
    \/ WriteManifest(p) \/ CloseRoot(p)
    \/ \E t \in Trajs : AppendTrajectory(p, t)
    \/ \E limit \in Limits : SelectBegin(p, limit)
    \/ SelectShard(p) \/ SelectEnd(p)
    \/ \E src, dst \in Roots : DrainBegin(p, src, dst)
    \/ DrainCheck(p) \/ DrainManifest(p) \/ DrainCopy(p) \/ DrainEnd(p) \/ DrainUndo(p)
    \/ \E src \in Sources, dst \in Envs : JoinBegin(p, src, dst)
    \/ JoinOpen(p) \/ JoinCopy(p) \/ JoinEnd(p) \/ JoinUndo(p)
    \/ \E src \in Envs, dst \in Roots, n \in Counts : SplitBegin(p, src, dst, n)
    \/ SplitOpen(p) \/ SplitCopy(p) \/ SplitEnd(p) \/ SplitUndo(p)
    \/ Fail(p) \/ Crash(p)

Next == \E p \in Procs : Step(p)

Spec == Init /\ [][Next]_vars

-----------------------------------------------------------------------------
(* What has to hold.                                                       *)

\* Whoever has a root open finds every trajectory of it where its own shard
\* count leads: by routing on append, drains of the same count only, splits
\* and the manifest, which is the count of every handle.
EveryHandleFinds ==
    \A p \in Procs : handle[p] # Nil =>
        \A t \in Ids(Contents(handle[p].root)) : Finds(handle[p], t)

\* Frames a drain has reported as copied stay: "Refuses a dest shard that
\* already exists so two node-local trees that share a shard id cannot
\* last-writer-wins".
DrainedStays == \A d \in drained : d[2] \in Contents(d[1])

\* A drain that fails leaves the destination as it found it.
FailedDrainLeavesNoTrace ==
    [][\A p \in Procs : DrainUndo(p) => root'[task[p].dst] = task[p].was]_vars

\* A join or a split that succeeds has copied all that was in its sources when
\* it began, and nothing that is not in them.
CopiesAreWhole ==
    \A p \in Procs :
        LET j == task[p]
        IN  /\ j.op = "join" /\ j.at = "copy" /\ j.todo = <<>> =>
                  /\ j.before \subseteq Contents(j.dst)
                  /\ Contents(j.dst) \subseteq UNION {Contents(a) : a \in j.from}
            /\ j.op = "split" /\ j.at = "copy" /\ j.todo = {} =>
                  Contents(j.dst) = j.before

\* A selection is what one corpus with all the frames would have answered,
\* though the limit is applied to each shard first: unless frames came in
\* meanwhile, the lowest keys of all shards.
SelectIsGlobal ==
    \A p \in Procs :
        LET j == task[p]
        IN  j.op = "select" /\ j.next = handle[p].n /\ j.before = Contents(handle[p].root) =>
                SelectKeys(p) = Lowest(j.limit, Ids(j.before))
=============================================================================
