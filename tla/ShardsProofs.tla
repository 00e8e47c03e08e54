---------------------------- MODULE ShardsProofs ----------------------------
(***************************************************************************)
(* Sharded roots for every number of processes, roots, trajectories and    *)
(* shard counts. When every writer has directories of its own (Exclusive): *)
(* every handle finds what is stored, selections over shards are those of  *)
(* one corpus, joins and splits copy all. When also nobody appends to a    *)
(* root that is being drained (Quiet): drained frames stay, and a drain    *)
(* that fails leaves no trace.                                             *)
(***************************************************************************)
EXTENDS Shards, FiniteSetTheorems, SequenceTheorems, WellFoundedInduction, TLAPS

Handles == [root : Roots, n : Counts]
Opens   == [op : {"open"}, dst : Roots, n : Counts]
Selects == [op : {"select"}, next : Nat, limit : Limits, out : SUBSET Trajs, before : SUBSET Rows]
Drains  == [op : {"drain"}, at : {"check", "manifest", "copy", "undo"}, from : SUBSET Roots,
            src : Roots, dst : Roots, n : Counts, new : BOOLEAN, copied : BOOLEAN, next : Nat,
            made : SUBSET ShardIds, rows : SUBSET Rows, was : Dirs \cup {Nil}]
Joins   == [op : {"join"}, at : {"open", "copy", "undo"}, from : SUBSET (Roots \cup Envs), dst : Envs,
            todo : Seq((Roots \cup Envs) \X Nat), seen : SUBSET Trajs, before : SUBSET Rows]
Splits  == [op : {"split"}, at : {"open", "copy", "undo"}, from : SUBSET Envs, src : Envs, dst : Roots,
            n : Counts, todo : SUBSET Rows, before : SUBSET Rows]
Tasks   == {Idle} \cup Opens \cup Selects \cup Drains \cup Joins \cup Splits

Shapes ==
    /\ root \in [Roots -> Dirs \cup {Nil}]
    /\ env \in [Envs -> (SUBSET Rows) \cup {Nil}]
    /\ handle \in [Procs -> Handles \cup {Nil}]
    /\ task \in [Procs -> Tasks]
    /\ drained \subseteq Roots \X Rows

Filler(j) == j.op \in {"open", "drain", "join", "split"}
Reader(j) == j.op \in {"drain", "join", "split"}

\* Every writer has directories of its own.
Apart ==
    /\ \A p, q \in Procs : p # q /\ Filler(task[p]) /\ Filler(task[q]) => task[p].dst # task[q].dst
    /\ \A p, q \in Procs : Filler(task[p]) /\ Reader(task[q]) => task[p].dst \notin task[q].from
    /\ \A p, q \in Procs : Filler(task[p]) /\ handle[q] # Nil => handle[q].root # task[p].dst

\* The trajectories of shard i of a directory, and of all its shards.
RowsIn(d, i) == IF d = Nil \/ d.shards[i] = Nil THEN {} ELSE d.shards[i]

DirRows(d) == UNION {RowsIn(d, i) : i \in ShardIds}

\* Without a manifest there is no shard; with one, there are no shards beyond
\* its count and each trajectory is where the count leads.
WellRouted(d) ==
    IF d = Nil THEN TRUE
    ELSE IF d.man = Nil THEN \A i \in ShardIds : d.shards[i] = Nil
    ELSE \A i \in ShardIds : d.shards[i] # Nil =>
            i < d.man /\ \A row \in d.shards[i] : ShardForTraj(row[1], d.man) = i

Routed == \A r \in Roots : WellRouted(root[r])

\* The count of a handle is the one its root has.
HandlesTrue ==
    \A p \in Procs : handle[p] # Nil =>
        root[handle[p].root] # Nil /\ root[handle[p].root].man = handle[p].n

\* A drain of j.src, found as s, into j.dst, found as d: what was there is
\* still there outside the shards the drain made.
Base(d) == IF d = Nil THEN Empty ELSE d

Before(j) == Base(j.was)

DrainOK(j, d, s) ==
    /\ j.from = {j.src} /\ s # Nil /\ s.man = j.n
    /\ WellRouted(j.was) /\ (j.new <=> j.was = Nil)
    /\ d = Nil => j.was = Nil /\ j.at \in {"check", "undo"} /\ j.rows = {}
    /\ j.at = "check" => d = j.was /\ ~ j.copied /\ j.made = {} /\ j.rows = {} /\ j.next = 0
    /\ d # Nil =>
          /\ \A i \in ShardIds \ j.made : d.shards[i] = Before(j).shards[i]
          /\ Quiet => \A i \in j.made : Before(j).shards[i] = Nil
          /\ IF j.copied THEN Before(j).man = Nil /\ d.man \in {Nil, j.n} ELSE d.man = Before(j).man
          /\ \A row \in j.rows : \E i \in j.made : row \in RowsIn(d, i)
    /\ j.at = "manifest" =>
          (IF j.copied THEN Before(j).man = Nil ELSE d.man = j.n)
          /\ j.made = {} /\ j.next = 0 /\ j.rows = {}
    /\ j.at = "copy" => d.man = j.n /\ j.next <= j.n /\ \A i \in j.made : i < j.next
    /\ j.at \in {"manifest", "copy"} /\ Quiet =>
          \A i \in 0 .. j.n - 1 : s.shards[i] # Nil => Before(j).shards[i] = Nil

\* A split of the corpus e into the directory d.
SplitOK(j, d, e) ==
    /\ j.from = {j.src} /\ e = j.before
    /\ j.at = "open" => d = Nil
    /\ j.at = "copy" => d # Nil /\ d.man = j.n /\ DirRows(d) \cup j.todo = j.before

\* The trajectories of a place, and of one of its corpora, by the tables.
PlaceRows(rt, en, a) == IF a \in Envs THEN IF en[a] = Nil THEN {} ELSE en[a] ELSE DirRows(rt[a])

PartRows(rt, en, part) ==
    IF part[1] \in Envs THEN IF en[part[1]] = Nil THEN {} ELSE en[part[1]]
    ELSE RowsIn(rt[part[1]], part[2])

JoinOK(j, rt, en) ==
    /\ \A a \in j.from : IF a \in Roots THEN rt[a] # Nil /\ rt[a].man # Nil ELSE en[a] # Nil
    /\ \A i \in DOMAIN j.todo :
          j.todo[i][1] \in j.from /\ (j.todo[i][1] \in Roots => j.todo[i][2] \in ShardIds)
    /\ j.at = "open" =>
          en[j.dst] = Nil /\ j.before \subseteq UNION {PartRows(rt, en, j.todo[i]) : i \in DOMAIN j.todo}
    /\ j.at = "copy" =>
          /\ en[j.dst] # Nil
          /\ j.before \subseteq en[j.dst] \cup UNION {PartRows(rt, en, j.todo[i]) : i \in DOMAIN j.todo}
          /\ en[j.dst] \subseteq UNION {PlaceRows(rt, en, a) : a \in j.from}

\* A selection over a root of n shards, found as d: what it has read is what
\* is there, if nothing came in since it began.
SelectOK(j, n, d) ==
    /\ j.next <= n /\ j.before \subseteq DirRows(d)
    /\ j.before = DirRows(d) =>
          j.out = UNION {Lowest(j.limit, Ids(RowsIn(d, i))) : i \in 0 .. j.next - 1}

JobOK(j, h, rt, en) ==
    /\ j.op = "open" => rt[j.dst] = Nil \/ rt[j.dst].man = Nil
    /\ j.op = "drain" => DrainOK(j, rt[j.dst], rt[j.src])
    /\ j.op = "split" => SplitOK(j, rt[j.dst], en[j.src])
    /\ j.op = "join" => JoinOK(j, rt, en)
    /\ j.op = "select" => h # Nil /\ SelectOK(j, h.n, rt[h.root])

JobsOK == \A p \in Procs : JobOK(task[p], handle[p], root, env)

\* A drained trajectory is in its destination, also in what a later drain
\* into it found, and nobody splits into that directory.
KeptAt(r, row) ==
    /\ row \in DirRows(root[r])
    /\ \A p \in Procs :
          /\ task[p].op = "drain" /\ task[p].dst = r => row \in DirRows(task[p].was)
          /\ ~ (task[p].op = "split" /\ task[p].dst = r)

Kept == \A d \in drained : KeptAt(d[1], d[2])

\* The invariant that needs Exclusive, and the part that needs Quiet too.
ShardsInv == Shapes /\ Apart /\ Routed /\ HandlesTrue /\ JobsOK

-----------------------------------------------------------------------------
(* Shard numbers, directories and what they hold.                          *)

LEMMA ShardRange ==
    /\ ShardIds \subseteq Nat
    /\ \A n \in Counts : n \in Nat /\ n # 0 /\ n # Nil /\ 0 .. n - 1 \subseteq ShardIds
    /\ \A n \in Counts, t \in Trajs : ShardForTraj(t, n) \in 0 .. n - 1
  <1>1. \E most \in Counts : \A n \in Counts : most >= n
    BY ShardsAssumption
  <1>2. Max(Counts) \in Counts /\ \A n \in Counts : Max(Counts) >= n
    BY <1>1 DEF Max
  <1> DEFINE m == Max(Counts)
  <1> HIDE DEF m
  <1>3. m \in Nat /\ ShardIds = 0 .. m - 1 /\ \A n \in Counts : n \in Nat /\ n # 0 /\ n <= m
    BY <1>2, ShardsAssumption DEF ShardIds, m
  <1>4. \A n \in Counts : 0 .. n - 1 \subseteq ShardIds
    BY <1>3
  <1>5. \A n \in Counts, t \in Trajs : ShardForTraj(t, n) \in 0 .. n - 1
    <2> SUFFICES ASSUME NEW n \in Counts, NEW t \in Trajs
                 PROVE  (t % n) \in 0 .. n - 1
      BY DEF ShardForTraj
    <2>1. n \in Nat /\ n # 0 /\ t \in Nat
      BY <1>3, ShardsAssumption
    <2> QED BY <2>1
  <1>6. \A n \in Counts : n # Nil
    BY <1>3, ShardsNilAssumption
  <1> QED BY <1>3, <1>4, <1>5, <1>6

LEMMA EmptyDir ==
    /\ Empty \in Dirs /\ Empty.man = Nil /\ \A i \in ShardIds : Empty.shards[i] = Nil
    /\ \A d \in Dirs \cup {Nil} : Base(d) \in Dirs
    /\ \A d \in Dirs : d # Nil /\ Base(d) = d
  <1>1. Empty.man = Nil /\ Empty.shards = [i \in ShardIds |-> Nil]
    BY DEF Empty
  <1>2. Empty.shards \in [ShardIds -> (SUBSET Rows) \cup {Nil}]
    BY <1>1
  <1>3. Empty \in Dirs
    BY <1>1, <1>2 DEF Empty, Dirs
  <1>4. \A d \in Dirs : d # Nil
    BY ShardsNilAssumption
  <1> QED BY <1>1, <1>3, <1>4 DEF Base

LEMMA DirFields ==
    ASSUME NEW d \in Dirs
    PROVE  /\ d # Nil /\ d.man \in Counts \cup {Nil}
           /\ d.shards \in [ShardIds -> (SUBSET Rows) \cup {Nil}]
           /\ d = [man |-> d.man, shards |-> d.shards]
  BY ShardsNilAssumption DEF Dirs

LEMMA RowsInType ==
    ASSUME NEW d \in Dirs \cup {Nil}
    PROVE  /\ \A i \in ShardIds : RowsIn(d, i) \subseteq Rows
           /\ DirRows(d) \subseteq Rows
           /\ \A row : row \in DirRows(d) <=> \E i \in ShardIds : row \in RowsIn(d, i)
  <1>1. \A i \in ShardIds : RowsIn(d, i) \subseteq Rows
    <2>1. CASE d = Nil
      BY <2>1 DEF RowsIn
    <2>2. CASE d \in Dirs
      <3>1. d.shards \in [ShardIds -> (SUBSET Rows) \cup {Nil}]
        BY <2>2, DirFields
      <3> QED BY <3>1 DEF RowsIn
    <2> QED BY <2>1, <2>2
  <1> QED BY <1>1 DEF DirRows

LEMMA PlacesHold ==
    ASSUME Shapes
    PROVE  /\ \A a \in Roots : a \notin Envs
           /\ \A a \in Roots \cup Envs : Contents(a) = PlaceRows(root, env, a)
           /\ \A a \in Roots : Contents(a) = DirRows(root[a])
           /\ \A part \in (Roots \cup Envs) \X Nat : RowsOf(part) = PartRows(root, env, part)
  <1>1. \A a \in Roots : a \notin Envs
    BY ShardsAssumption
  <1>2. ASSUME NEW a \in Roots
        PROVE  Contents(a) = DirRows(root[a])
    <2>1. Contents(a) = UNION {Shard(a, i) : i \in {k \in ShardIds : Shard(a, k) # Nil}}
      BY <1>1 DEF Contents
    <2>2. \A row : row \in Contents(a) <=> \E i \in ShardIds : Shard(a, i) # Nil /\ row \in Shard(a, i)
      BY <2>1
    <2>3. \A i \in ShardIds : \A row :
             (Shard(a, i) # Nil /\ row \in Shard(a, i)) <=> row \in RowsIn(root[a], i)
      BY DEF Shard, RowsIn
    <2>4. \A row : row \in DirRows(root[a]) <=> \E i \in ShardIds : row \in RowsIn(root[a], i)
      BY DEF DirRows
    <2> QED BY <2>2, <2>3, <2>4
  <1>3. \A a \in Roots \cup Envs : Contents(a) = PlaceRows(root, env, a)
    BY <1>1, <1>2 DEF PlaceRows, Contents
  <1>4. \A part \in (Roots \cup Envs) \X Nat : RowsOf(part) = PartRows(root, env, part)
    BY <1>1 DEF RowsOf, PartRows, RowsIn, Shard
  <1> QED BY <1>1, <1>2, <1>3, <1>4

\* Another shard in a root.
LEMMA WithShardFacts ==
    ASSUME Shapes, NEW r \in Roots, NEW i \in ShardIds, NEW rows \in SUBSET Rows,
           root' = WithShard(r, i, rows)
    PROVE  /\ root' \in [Roots -> Dirs \cup {Nil}]
           /\ \A s \in Roots : s # r => root'[s] = root[s]
           /\ root'[r] \in Dirs /\ root'[r] # Nil
           /\ root'[r].man = Base(root[r]).man
           /\ root'[r].shards[i] = rows /\ rows # Nil
           /\ \A k \in ShardIds : k # i => root'[r].shards[k] = Base(root[r]).shards[k]
  <1> DEFINE b == Base(root[r])
             d == [b EXCEPT !.shards[i] = rows]
  <1>1. root \in [Roots -> Dirs \cup {Nil}] /\ b \in Dirs
    BY EmptyDir DEF Shapes
  <1>2. root' = [root EXCEPT ![r] = d]
    BY DEF WithShard, Base
  <1> HIDE DEF b
  <1>3. /\ d.man = b.man /\ d.shards = [b.shards EXCEPT ![i] = rows]
        /\ d = [man |-> d.man, shards |-> d.shards]
    BY <1>1, DirFields DEF Dirs
  <1>4. b.man \in Counts \cup {Nil} /\ b.shards \in [ShardIds -> (SUBSET Rows) \cup {Nil}]
    BY <1>1, DirFields
  <1>5. d \in Dirs
    BY <1>3, <1>4 DEF Dirs
  <1>6. d.shards[i] = rows /\ \A k \in ShardIds : k # i => d.shards[k] = b.shards[k]
    BY <1>3, <1>4
  <1> HIDE DEF d
  <1>7. root'[r] = d /\ rows # Nil
    BY <1>1, <1>2, ShardsNilAssumption
  <1> QED BY <1>1, <1>2, <1>3, <1>5, <1>6, <1>7, DirFields DEF b

LEMMA WithManifestFacts ==
    ASSUME Shapes, NEW r \in Roots, NEW n \in Counts, root' = WithManifest(r, n)
    PROVE  /\ root' \in [Roots -> Dirs \cup {Nil}]
           /\ \A s \in Roots : s # r => root'[s] = root[s]
           /\ root'[r] \in Dirs /\ root'[r] # Nil
           /\ root'[r].man = n
           /\ \A k \in ShardIds : root'[r].shards[k] = Base(root[r]).shards[k]
  <1> DEFINE b == Base(root[r])
             d == [b EXCEPT !.man = n]
  <1>1. root \in [Roots -> Dirs \cup {Nil}] /\ b \in Dirs
    BY EmptyDir DEF Shapes
  <1>2. root' = [root EXCEPT ![r] = d]
    BY DEF WithManifest, Base
  <1> HIDE DEF b
  <1>3. d.man = n /\ d.shards = b.shards /\ d = [man |-> d.man, shards |-> d.shards]
    BY <1>1, DirFields DEF Dirs
  <1>4. b.shards \in [ShardIds -> (SUBSET Rows) \cup {Nil}]
    BY <1>1, DirFields
  <1>5. d \in Dirs
    BY <1>3, <1>4 DEF Dirs
  <1> HIDE DEF d
  <1> QED BY <1>1, <1>2, <1>3, <1>5, DirFields DEF b

\* The fields of what a process is doing.
LEMMA TaskFields ==
    ASSUME NEW j \in Tasks
    PROVE  /\ j.op = "open" => j.dst \in Roots /\ j.n \in Counts
           /\ j.op = "select" =>
                 /\ j.next \in Nat /\ j.limit \in Nat
                 /\ j.out \subseteq Trajs /\ j.before \subseteq Rows
           /\ j.op = "drain" =>
                 /\ j.at \in {"check", "manifest", "copy", "undo"}
                 /\ j.src \in Roots /\ j.dst \in Roots /\ j.n \in Counts
                 /\ j.next \in Nat /\ j.made \subseteq ShardIds /\ j.rows \subseteq Rows
                 /\ j.was \in Dirs \cup {Nil} /\ j.new \in BOOLEAN /\ j.copied \in BOOLEAN
           /\ j.op = "join" =>
                 /\ j.at \in {"open", "copy", "undo"}
                 /\ j.from \subseteq Roots \cup Envs /\ j.dst \in Envs
                 /\ j.todo \in Seq((Roots \cup Envs) \X Nat)
                 /\ j.seen \subseteq Trajs /\ j.before \subseteq Rows
           /\ j.op = "split" =>
                 /\ j.at \in {"open", "copy", "undo"}
                 /\ j.src \in Envs /\ j.dst \in Roots /\ j.n \in Counts
                 /\ j.todo \subseteq Rows /\ j.before \subseteq Rows
  <1>1. Limits \subseteq Nat
    BY ShardsAssumption
  <1>2. CASE j \in Drains
    BY <1>2 DEF Drains
  <1>3. CASE j \in Joins
    BY <1>3 DEF Joins
  <1>4. CASE j \in Splits
    BY <1>4 DEF Splits
  <1>5. CASE j \in Selects
    BY <1>1, <1>5 DEF Selects
  <1>6. CASE j \in Opens
    BY <1>6 DEF Opens
  <1>7. CASE j = Idle
    BY <1>7 DEF Idle
  <1> QED BY <1>2, <1>3, <1>4, <1>5, <1>6, <1>7 DEF Tasks

-----------------------------------------------------------------------------
(* What a task knows stays so while others grow the roots it reads.        *)

Grows(d, d2) ==
    d # Nil /\ d.man # Nil =>
        /\ d2 # Nil /\ d2.man = d.man
        /\ \A i \in ShardIds : RowsIn(d, i) \subseteq RowsIn(d2, i)

LEMMA GrownRows ==
    ASSUME NEW d, NEW d2, d # Nil, d.man # Nil, Grows(d, d2)
    PROVE  /\ DirRows(d) \subseteq DirRows(d2)
           /\ \A i \in ShardIds : RowsIn(d, i) \subseteq RowsIn(d2, i)
           /\ d2 # Nil /\ d2.man = d.man
  BY DEF Grows, DirRows

\* A trajectory of a root is in the shard its id leads to.
LEMMA RoutedRow ==
    ASSUME NEW d \in Dirs, WellRouted(d), d.man # Nil, NEW i \in ShardIds, NEW row \in RowsIn(d, i)
    PROVE  i = ShardForTraj(row[1], d.man) /\ i < d.man /\ d.shards[i] # Nil
  BY DirFields DEF WellRouted, RowsIn

\* Unless something came in, no shard has changed.
LEMMA SameRows ==
    ASSUME NEW d \in Dirs, NEW d2 \in Dirs, d.man # Nil, Grows(d, d2), WellRouted(d2),
           DirRows(d2) \subseteq DirRows(d), NEW i \in ShardIds
    PROVE  RowsIn(d2, i) = RowsIn(d, i)
  <1>0. d # Nil /\ d2.man # Nil
    BY DirFields, GrownRows
  <1>1. RowsIn(d, i) \subseteq RowsIn(d2, i)
    BY <1>0, GrownRows
  <1>2. ASSUME NEW row \in RowsIn(d2, i)
        PROVE  row \in RowsIn(d, i)
    <2>1. row \in DirRows(d)
      BY <1>2, RowsInType
    <2>2. PICK k \in ShardIds : row \in RowsIn(d, k)
      BY <2>1, RowsInType
    <2>3. row \in RowsIn(d2, k)
      BY <1>0, <2>2, GrownRows
    <2>4. k = ShardForTraj(row[1], d2.man) /\ i = ShardForTraj(row[1], d2.man)
      BY <1>0, <1>2, <2>3, RoutedRow
    <2> QED BY <2>2, <2>4
  <1> QED BY <1>1, <1>2

LEMMA SelectKept ==
    ASSUME NEW j, NEW n \in Counts, NEW d \in Dirs, NEW d2 \in Dirs \cup {Nil}, d.man = n,
           Grows(d, d2), WellRouted(d2), j.next \in Nat, SelectOK(j, n, d)
    PROVE  SelectOK(j, n, d2)
  <1>0. d # Nil /\ d.man # Nil /\ d2 # Nil /\ d2 \in Dirs /\ d2.man = n
    BY ShardRange, DirFields, GrownRows
  <1>1. DirRows(d) \subseteq DirRows(d2)
    BY <1>0, GrownRows
  <1>2. ASSUME j.before = DirRows(d2)
        PROVE  j.out = UNION {Lowest(j.limit, Ids(RowsIn(d2, i))) : i \in 0 .. j.next - 1}
    <2>1. j.before = DirRows(d) /\ DirRows(d2) \subseteq DirRows(d)
      BY <1>1, <1>2 DEF SelectOK
    <2>2. \A i \in 0 .. j.next - 1 : i \in ShardIds
      <3>1. j.next <= n
        BY DEF SelectOK
      <3> QED BY <3>1, ShardRange
    <2>3. \A i \in 0 .. j.next - 1 : RowsIn(d2, i) = RowsIn(d, i)
      BY <1>0, <2>1, <2>2, SameRows
    <2>4. j.out = UNION {Lowest(j.limit, Ids(RowsIn(d, i))) : i \in 0 .. j.next - 1}
      BY <2>1 DEF SelectOK
    <2> QED BY <2>3, <2>4
  <1> QED BY <1>1, <1>2 DEF SelectOK

LEMMA JoinKept ==
    ASSUME NEW j \in Tasks, j.op = "join", NEW rt, NEW en, NEW rt2, NEW en2, JoinOK(j, rt, en),
           en2[j.dst] = en[j.dst],
           \A a \in j.from : /\ a \in Roots => Grows(rt[a], rt2[a])
                             /\ a \in Envs => en2[a] = en[a]
    PROVE  JoinOK(j, rt2, en2)
  <1>0. /\ j.from \subseteq Roots \cup Envs
        /\ \A a \in Roots : a \notin Envs
        /\ \A a \in j.from : IF a \in Roots THEN rt[a] # Nil /\ rt[a].man # Nil ELSE en[a] # Nil
        /\ \A i \in DOMAIN j.todo :
              j.todo[i][1] \in j.from /\ (j.todo[i][1] \in Roots => j.todo[i][2] \in ShardIds)
    BY TaskFields, ShardsAssumption DEF JoinOK
  <1>1. \A a \in j.from : IF a \in Roots THEN rt2[a] # Nil /\ rt2[a].man # Nil ELSE en2[a] # Nil
    BY <1>0, GrownRows
  <1>2. \A a \in j.from : PlaceRows(rt, en, a) \subseteq PlaceRows(rt2, en2, a)
    BY <1>0, GrownRows DEF PlaceRows
  <1>3. ASSUME NEW i \in DOMAIN j.todo
        PROVE  PartRows(rt, en, j.todo[i]) \subseteq PartRows(rt2, en2, j.todo[i])
    <2> DEFINE a == j.todo[i][1]
               k == j.todo[i][2]
    <2>1. a \in j.from /\ (a \in Roots => k \in ShardIds) /\ a \in Roots \cup Envs
      BY <1>0, <1>3
    <2>2. CASE a \in Envs
      BY <2>1, <2>2 DEF PartRows
    <2>3. CASE a \in Roots /\ a \notin Envs
      <3>1. RowsIn(rt[a], k) \subseteq RowsIn(rt2[a], k)
        BY <1>0, <2>1, <2>3, GrownRows
      <3> QED BY <2>3, <3>1 DEF PartRows
    <2> QED BY <1>0, <2>1, <2>2, <2>3
  <1> DEFINE left  == UNION {PartRows(rt, en, j.todo[i]) : i \in DOMAIN j.todo}
             left2 == UNION {PartRows(rt2, en2, j.todo[i]) : i \in DOMAIN j.todo}
             all   == UNION {PlaceRows(rt, en, a) : a \in j.from}
             all2  == UNION {PlaceRows(rt2, en2, a) : a \in j.from}
  <1>4. left \subseteq left2
    BY <1>3
  <1>5. all \subseteq all2
    BY <1>2
  <1>6. /\ j.at = "open" => en[j.dst] = Nil /\ j.before \subseteq left
        /\ j.at = "copy" => en[j.dst] # Nil /\ j.before \subseteq en[j.dst] \cup left /\ en[j.dst] \subseteq all
    BY DEF JoinOK
  <1>7. /\ j.at = "open" => en2[j.dst] = Nil /\ j.before \subseteq left2
        /\ j.at = "copy" => en2[j.dst] # Nil /\ j.before \subseteq en2[j.dst] \cup left2 /\ en2[j.dst] \subseteq all2
    <2> HIDE DEF left, left2, all, all2
    <2> QED BY <1>4, <1>5, <1>6
  <1> QED BY <1>0, <1>1, <1>7 DEF JoinOK

LEMMA DrainKept ==
    ASSUME NEW j, NEW d, NEW s, NEW s2, DrainOK(j, d, s), s.man # Nil, Grows(s, s2),
           Quiet => s2 = s
    PROVE  DrainOK(j, d, s2)
  <1>1. s2 # Nil /\ s2.man = j.n
    BY GrownRows DEF DrainOK
  <1>2. j.at \in {"manifest", "copy"} /\ Quiet =>
            \A i \in 0 .. j.n - 1 : s2.shards[i] # Nil => Before(j).shards[i] = Nil
    BY DEF DrainOK
  <1> QED BY <1>1, <1>2 DEF DrainOK

\* The places a task and a handle depend on are as they were, or have grown.
Undisturbed(j, h, rt, en, rt2, en2) ==
    /\ Filler(j) => IF j.dst \in Roots THEN rt2[j.dst] = rt[j.dst] ELSE en2[j.dst] = en[j.dst]
    /\ Reader(j) => \A a \in j.from : /\ a \in Roots => Grows(rt[a], rt2[a])
                                      /\ a \in Envs => en2[a] = en[a]
    /\ j.op = "drain" /\ Quiet => rt2[j.src] = rt[j.src]
    /\ h # Nil => Grows(rt[h.root], rt2[h.root])

LEMMA JobKept ==
    ASSUME NEW j \in Tasks, NEW h \in Handles \cup {Nil}, NEW rt \in [Roots -> Dirs \cup {Nil}], NEW en,
           NEW rt2 \in [Roots -> Dirs \cup {Nil}], NEW en2,
           JobOK(j, h, rt, en), Undisturbed(j, h, rt, en, rt2, en2),
           h # Nil => rt[h.root] # Nil /\ rt[h.root].man = h.n,
           \A r \in Roots : WellRouted(rt2[r])
    PROVE  JobOK(j, h, rt2, en2)
  <1>0. /\ \A n \in Counts : n # Nil
        /\ \A a \in Roots : a \notin Envs
    BY ShardRange, ShardsAssumption
  <1>1. CASE j.op = "open"
    BY <1>1, TaskFields DEF JobOK, Undisturbed, Filler
  <1>2. CASE j.op = "drain"
    <2>1. /\ j.dst \in Roots /\ j.src \in Roots /\ j.n \in Counts
          /\ DrainOK(j, rt[j.dst], rt[j.src]) /\ rt2[j.dst] = rt[j.dst]
      BY <1>2, TaskFields DEF JobOK, Undisturbed, Filler
    <2>2. j.src \in j.from /\ rt[j.src].man = j.n
      BY <2>1 DEF DrainOK
    <2>3. Grows(rt[j.src], rt2[j.src]) /\ (Quiet => rt2[j.src] = rt[j.src])
      BY <1>2, <2>1, <2>2 DEF Undisturbed, Reader
    <2>4. DrainOK(j, rt2[j.dst], rt2[j.src])
      BY <1>0, <2>1, <2>2, <2>3, DrainKept
    <2> QED BY <1>2, <2>4 DEF JobOK
  <1>3. CASE j.op = "split"
    <2>1. /\ j.dst \in Roots /\ j.src \in Envs
          /\ SplitOK(j, rt[j.dst], en[j.src]) /\ rt2[j.dst] = rt[j.dst]
      BY <1>3, TaskFields DEF JobOK, Undisturbed, Filler
    <2>2. en2[j.src] = en[j.src]
      BY <1>3, <2>1 DEF Undisturbed, Reader, SplitOK
    <2> QED BY <1>3, <2>1, <2>2 DEF JobOK
  <1>4. CASE j.op = "join"
    <2>1. JoinOK(j, rt, en) /\ j.dst \in Envs /\ j.dst \notin Roots
      BY <1>0, <1>4, TaskFields DEF JobOK
    <2>2. en2[j.dst] = en[j.dst]
      BY <1>4, <2>1 DEF Undisturbed, Filler
    <2>3. \A a \in j.from : (a \in Roots => Grows(rt[a], rt2[a])) /\ (a \in Envs => en2[a] = en[a])
      BY <1>4 DEF Undisturbed, Reader
    <2>4. JoinOK(j, rt2, en2)
      BY <1>4, <2>1, <2>2, <2>3, JoinKept
    <2> QED BY <1>4, <2>4 DEF JobOK
  <1>5. CASE j.op = "select"
    <2>1. h # Nil /\ SelectOK(j, h.n, rt[h.root]) /\ Grows(rt[h.root], rt2[h.root]) /\ j.next \in Nat
      BY <1>5, TaskFields DEF JobOK, Undisturbed
    <2>2. h.root \in Roots /\ h.n \in Counts /\ rt[h.root] \in Dirs /\ rt[h.root].man = h.n
      BY <2>1 DEF Handles
    <2>3. SelectOK(j, h.n, rt2[h.root])
      BY <2>1, <2>2, SelectKept
    <2> QED BY <1>5, <2>1, <2>3 DEF JobOK
  <1>6. CASE j.op \notin {"open", "drain", "split", "join", "select"}
    BY <1>6 DEF JobOK
  <1> QED BY <1>1, <1>2, <1>3, <1>4, <1>5, <1>6

-----------------------------------------------------------------------------
(* Steps, by what they change.                                             *)

\* No other process depends on place x.
Free(p, x) ==
    \A q \in Procs \ {p} :
        /\ Filler(task[q]) => task[q].dst # x
        /\ Reader(task[q]) => x \notin task[q].from
        /\ handle[q] # Nil => handle[q].root # x

\* A step changes place x and no other.
ChangesOnly(x) ==
    /\ root' \in [Roots -> Dirs \cup {Nil}] /\ env' \in [Envs -> (SUBSET Rows) \cup {Nil}]
    /\ \A r \in Roots : r # x => root'[r] = root[r]
    /\ \A e \in Envs : e # x => env'[e] = env[e]

\* Process p goes on to task j with handle h.
Moves(p, j, h) ==
    /\ j \in Tasks /\ h \in Handles \cup {Nil}
    /\ task' = [task EXCEPT ![p] = j]
    /\ handle' = [handle EXCEPT ![p] = h]
    /\ drained' \subseteq Roots \X Rows

LEMMA MovesFacts ==
    ASSUME Shapes, NEW p \in Procs, NEW j, NEW h, Moves(p, j, h)
    PROVE  /\ task' \in [Procs -> Tasks] /\ handle' \in [Procs -> Handles \cup {Nil}]
           /\ task'[p] = j /\ handle'[p] = h
           /\ \A q \in Procs \ {p} : task'[q] = task[q] /\ handle'[q] = handle[q]
  BY DEF Shapes, Moves

LEMMA SameGrows == \A d : Grows(d, d)
  BY DEF Grows

LEMMA NilHandle == \A h \in Handles : h # Nil /\ h.root \in Roots /\ h.n \in Counts
  BY ShardsNilAssumption DEF Handles

\* What each process needs of the places is kept by a step that changes only
\* a place that is free of others, or that lets a root grow.
LEMMA StepKeeps ==
    ASSUME ShardsInv, NEW p \in Procs, NEW j, NEW h, Moves(p, j, h), NEW x, ChangesOnly(x),
           Apart', x \in Roots => WellRouted(root'[x]),
           h # Nil => root'[h.root] # Nil /\ root'[h.root].man = h.n,
           JobOK(j, h, root', env'),
           \/ Free(p, x)
           \/ root' = root /\ env' = env
           \/ /\ \A q \in Procs : Filler(task[q]) => task[q].dst # x
              /\ \A q \in Procs : task[q].op = "drain" /\ Quiet => task[q].src # x
              /\ x \in Roots /\ Grows(root[x], root'[x])
    PROVE  ShardsInv'
  <1>0. /\ Shapes /\ Routed /\ HandlesTrue /\ JobsOK
        /\ root' \in [Roots -> Dirs \cup {Nil}] /\ env' \in [Envs -> (SUBSET Rows) \cup {Nil}]
        /\ \A r \in Roots : r # x => root'[r] = root[r]
        /\ \A e \in Envs : e # x => env'[e] = env[e]
    BY DEF ShardsInv, ChangesOnly
  <1>1. /\ task' \in [Procs -> Tasks] /\ handle' \in [Procs -> Handles \cup {Nil}]
        /\ task'[p] = j /\ handle'[p] = h
        /\ \A q \in Procs \ {p} : task'[q] = task[q] /\ handle'[q] = handle[q]
    BY <1>0, MovesFacts
  <1>2. Shapes'
    BY <1>0, <1>1 DEF Shapes, Moves
  <1>3. Routed'
    BY <1>0 DEF Routed
  <1>4. ASSUME NEW q \in Procs \ {p}
        PROVE  Undisturbed(task[q], handle[q], root, env, root', env')
    <2>0. /\ task[q] \in Tasks /\ handle[q] \in Handles \cup {Nil}
          /\ handle[q] # Nil => handle[q].root \in Roots
      BY <1>0, NilHandle DEF Shapes
    <2>1. Filler(task[q]) => task[q].dst \in Roots \cup Envs
      BY <2>0, TaskFields DEF Filler
    <2>2. task[q].op = "drain" => task[q].src \in Roots /\ task[q].src \in task[q].from
      BY <1>0, <2>0, TaskFields DEF JobsOK, JobOK, DrainOK
    <2>a. task[q].op = "drain" => Reader(task[q])
      BY DEF Reader
    <2>3. CASE Free(p, x)
      <3>1. /\ Filler(task[q]) => task[q].dst # x
            /\ Reader(task[q]) => x \notin task[q].from
            /\ handle[q] # Nil => handle[q].root # x
        BY <2>3 DEF Free
      <3>2. Filler(task[q]) => IF task[q].dst \in Roots THEN root'[task[q].dst] = root[task[q].dst]
                                                        ELSE env'[task[q].dst] = env[task[q].dst]
        BY <1>0, <2>1, <3>1
      <3>3. Reader(task[q]) => \A a \in task[q].from :
               (a \in Roots => Grows(root[a], root'[a])) /\ (a \in Envs => env'[a] = env[a])
        BY <1>0, <3>1, SameGrows
      <3>4. task[q].op = "drain" => root'[task[q].src] = root[task[q].src]
        BY <1>0, <2>2, <2>a, <3>1
      <3>5. handle[q] # Nil => Grows(root[handle[q].root], root'[handle[q].root])
        BY <1>0, <2>0, <3>1, SameGrows
      <3> QED BY <3>2, <3>3, <3>4, <3>5 DEF Undisturbed
    <2>4. CASE root' = root /\ env' = env
      BY <2>4, SameGrows DEF Undisturbed
    <2>5. CASE /\ \A r \in Procs : Filler(task[r]) => task[r].dst # x
               /\ \A r \in Procs : task[r].op = "drain" /\ Quiet => task[r].src # x
               /\ x \in Roots /\ Grows(root[x], root'[x])
      <3>1. \A a \in Roots : Grows(root[a], root'[a])
        BY <1>0, <2>5, SameGrows
      <3>2. x \notin Envs
        BY <2>5, ShardsAssumption
      <3>3. \A e \in Envs : env'[e] = env[e]
        BY <1>0, <3>2
      <3>4. Filler(task[q]) => IF task[q].dst \in Roots THEN root'[task[q].dst] = root[task[q].dst]
                                                        ELSE env'[task[q].dst] = env[task[q].dst]
        BY <1>0, <2>1, <2>5
      <3>5. task[q].op = "drain" /\ Quiet => root'[task[q].src] = root[task[q].src]
        BY <1>0, <2>2, <2>5
      <3> QED BY <2>0, <3>1, <3>3, <3>4, <3>5 DEF Undisturbed
    <2> QED BY <2>3, <2>4, <2>5
  <1>5. ASSUME NEW q \in Procs
        PROVE  JobOK(task'[q], handle'[q], root', env')
    <2>1. CASE q = p
      BY <1>1, <2>1
    <2>2. CASE q # p
      <3>1. /\ Undisturbed(task[q], handle[q], root, env, root', env')
            /\ task'[q] = task[q] /\ handle'[q] = handle[q]
            /\ task[q] \in Tasks /\ handle[q] \in Handles \cup {Nil}
        BY <1>0, <1>1, <1>4, <2>2 DEF Shapes
      <3>2. /\ JobOK(task[q], handle[q], root, env)
            /\ handle[q] # Nil => root[handle[q].root] # Nil /\ root[handle[q].root].man = handle[q].n
            /\ root \in [Roots -> Dirs \cup {Nil}]
        BY <1>0 DEF JobsOK, HandlesTrue, Shapes
      <3>a. \A r \in Roots : WellRouted(root'[r])
        BY <1>3 DEF Routed
      <3>3. JobOK(task[q], handle[q], root', env')
        BY <1>0, <3>1, <3>2, <3>a, JobKept
      <3> QED BY <3>1, <3>3
    <2> QED BY <2>1, <2>2
  <1>6. JobsOK'
    BY <1>5 DEF JobsOK
  <1>7. HandlesTrue'
    <2> SUFFICES ASSUME NEW q \in Procs, handle'[q] # Nil
                 PROVE  root'[handle'[q].root] # Nil /\ root'[handle'[q].root].man = handle'[q].n
      BY DEF HandlesTrue
    <2>1. CASE q = p
      BY <1>1, <2>1
    <2>2. CASE q # p
      <3>1. /\ handle'[q] = handle[q] /\ handle[q] \in Handles
            /\ Grows(root[handle[q].root], root'[handle[q].root])
        BY <1>0, <1>1, <1>4, <2>2 DEF Undisturbed, Shapes
      <3>2. /\ root[handle[q].root] # Nil /\ root[handle[q].root].man = handle[q].n
            /\ handle[q].n # Nil
        BY <1>0, <3>1, NilHandle, ShardRange DEF HandlesTrue
      <3> QED BY <3>1, <3>2, GrownRows
    <2> QED BY <2>1, <2>2
  <1> QED BY <1>2, <1>3, <1>6, <1>7 DEF ShardsInv

\* Apart, when a task ends or reads, goes on, or begins.
LEMMA ApartEnds ==
    ASSUME ShardsInv, NEW p \in Procs, NEW j, NEW h, Moves(p, j, h), ~ Filler(j),
           \/ h \in {handle[p], Nil}
           \/ \A q \in Procs \ {p} : Filler(task[q]) => task[q].dst # h.root
    PROVE  Apart'
  <1>1. /\ task'[p] = j /\ handle'[p] = h
        /\ \A q \in Procs \ {p} : task'[q] = task[q] /\ handle'[q] = handle[q]
    BY MovesFacts DEF ShardsInv
  <1>2. ~ Reader(j)
    BY DEF Reader, Filler
  <1>3. Apart
    BY DEF ShardsInv
  <1>4. \A q, r \in Procs : q # r /\ Filler(task'[q]) /\ Filler(task'[r]) => task'[q].dst # task'[r].dst
    BY <1>1, <1>3 DEF Apart
  <1>5. \A q, r \in Procs : Filler(task'[q]) /\ Reader(task'[r]) => task'[q].dst \notin task'[r].from
    BY <1>1, <1>2, <1>3 DEF Apart
  <1>6. \A q, r \in Procs : Filler(task'[q]) /\ handle'[r] # Nil => handle'[r].root # task'[q].dst
    BY <1>1, <1>3 DEF Apart
  <1> QED BY <1>4, <1>5, <1>6 DEF Apart

LEMMA ApartGoesOn ==
    ASSUME ShardsInv, NEW p \in Procs, NEW j, NEW h, Moves(p, j, h), Filler(task[p]),
           j.op = task[p].op, j.dst = task[p].dst, Reader(j) => j.from = task[p].from,
           h \in {handle[p], Nil}
    PROVE  Apart'
  <1>1. /\ task'[p] = j /\ handle'[p] = h
        /\ \A q \in Procs \ {p} : task'[q] = task[q] /\ handle'[q] = handle[q]
    BY MovesFacts DEF ShardsInv
  <1>2. Apart
    BY DEF ShardsInv
  <1>3. \A q \in Procs : /\ Filler(task'[q]) <=> Filler(task[q])
                         /\ Reader(task'[q]) <=> Reader(task[q])
                         /\ Filler(task[q]) => task'[q].dst = task[q].dst
                         /\ Reader(task[q]) => task'[q].from = task[q].from
                         /\ handle'[q] # Nil => handle'[q] = handle[q]
    BY <1>1 DEF Filler, Reader
  <1> QED BY <1>2, <1>3 DEF Apart

LEMMA ApartBegins ==
    ASSUME ShardsInv, Exclusive, NEW p \in Procs, NEW j, Moves(p, j, handle[p]), task[p] = Idle,
           Filler(j), MayFill(j.dst),
           Reader(j) => j.dst \notin j.from /\ \A a \in j.from : MayUse(a)
    PROVE  Apart'
  <1>1. /\ task'[p] = j /\ handle'[p] = handle[p]
        /\ \A q \in Procs \ {p} : task'[q] = task[q] /\ handle'[q] = handle[q]
    BY MovesFacts DEF ShardsInv
  <1>2. Apart
    BY DEF ShardsInv
  <1>3. /\ \A q \in Procs : Filler(task[q]) => task[q].dst # j.dst
        /\ \A q \in Procs : Reader(task[q]) => j.dst \notin task[q].from
        /\ \A q \in Procs : handle[q] # Nil => handle[q].root # j.dst
    BY DEF MayFill, InUse, Read, Opened, Filler, Reader
  <1>4. Reader(j) => \A q \in Procs : Filler(task[q]) => task[q].dst \notin j.from
    BY DEF MayUse, InUse, Filler
  <1>5. \A q, r \in Procs : q # r /\ Filler(task'[q]) /\ Filler(task'[r]) => task'[q].dst # task'[r].dst
    BY <1>1, <1>2, <1>3 DEF Apart
  <1>6. \A q, r \in Procs : Filler(task'[q]) /\ Reader(task'[r]) => task'[q].dst \notin task'[r].from
    BY <1>1, <1>2, <1>3, <1>4 DEF Apart
  <1>7. \A q, r \in Procs : Filler(task'[q]) /\ handle'[r] # Nil => handle'[r].root # task'[q].dst
    BY <1>1, <1>2, <1>3 DEF Apart
  <1> QED BY <1>5, <1>6, <1>7 DEF Apart

\* The place a task fills is nobody else's.
LEMMA OwnPlace ==
    ASSUME Apart, NEW p \in Procs, Filler(task[p])
    PROVE  Free(p, task[p].dst) /\ (Reader(task[p]) => task[p].dst \notin task[p].from)
           /\ (handle[p] # Nil => handle[p].root # task[p].dst)
  BY DEF Apart, Free

-----------------------------------------------------------------------------
(* The steps of opening, appending and selecting.                          *)

\* What a process knows of itself.
LEMMA Own ==
    ASSUME ShardsInv, NEW p \in Procs
    PROVE  /\ Shapes /\ Apart /\ Routed /\ HandlesTrue /\ JobsOK
           /\ task[p] \in Tasks /\ handle[p] \in Handles \cup {Nil}
           /\ handle[p] # Nil => /\ handle[p].root \in Roots /\ handle[p].n \in Counts
                                 /\ root[handle[p].root] \in Dirs
                                 /\ root[handle[p].root].man = handle[p].n
           /\ JobOK(task[p], handle[p], root, env)
           /\ \A r \in Roots : root[r] \in Dirs \cup {Nil} /\ WellRouted(root[r])
           /\ \A e \in Envs : env[e] \in (SUBSET Rows) \cup {Nil}
           /\ drained \subseteq Roots \X Rows
           /\ [task EXCEPT ![p] = task[p]] = task /\ [handle EXCEPT ![p] = handle[p]] = handle
  <1>1. Shapes /\ Apart /\ Routed /\ HandlesTrue /\ JobsOK
    BY DEF ShardsInv
  <1>2. task[p] \in Tasks /\ handle[p] \in Handles \cup {Nil}
    BY <1>1 DEF Shapes
  <1>3. handle[p] # Nil => /\ handle[p].root \in Roots /\ handle[p].n \in Counts
                           /\ root[handle[p].root] \in Dirs
                           /\ root[handle[p].root].man = handle[p].n
    BY <1>1, <1>2, NilHandle DEF HandlesTrue, Shapes
  <1>4. JobOK(task[p], handle[p], root, env)
    BY <1>1 DEF JobsOK
  <1>5. /\ \A r \in Roots : root[r] \in Dirs \cup {Nil} /\ WellRouted(root[r])
        /\ \A e \in Envs : env[e] \in (SUBSET Rows) \cup {Nil}
        /\ drained \subseteq Roots \X Rows
    BY <1>1 DEF Shapes, Routed
  <1>6. [task EXCEPT ![p] = task[p]] = task /\ [handle EXCEPT ![p] = handle[p]] = handle
    BY <1>1 DEF Shapes
  <1> QED BY <1>1, <1>2, <1>3, <1>4, <1>5, <1>6

\* A step that leaves all directories alone.
LEMMA ReadStep ==
    ASSUME ShardsInv, NEW p \in Procs, NEW j, NEW h, Moves(p, j, h), root' = root, env' = env,
           Apart', JobOK(j, h, root, env),
           h # Nil => root[h.root] # Nil /\ root[h.root].man = h.n
    PROVE  ShardsInv'
  <1>1. ChangesOnly(Nil)
    BY Own DEF ChangesOnly, Shapes
  <1>2. Nil \notin Roots
    BY ShardsAssumption
  <1> QED BY <1>1, <1>2, StepKeeps

LEMMA IdleJob ==
    /\ Idle \in Tasks /\ ~ Filler(Idle) /\ ~ Reader(Idle)
    /\ \A h, rt, en : JobOK(Idle, h, rt, en)
  BY DEF Idle, Tasks, Filler, Reader, JobOK

\* A process is done, and has touched nothing.
LEMMA EndStep ==
    ASSUME ShardsInv, NEW p \in Procs, Return(p), root' = root, env' = env,
           handle' = handle \/ handle' = [handle EXCEPT ![p] = Nil],
           drained' \subseteq Roots \X Rows
    PROVE  ShardsInv'
  <1> DEFINE h == IF handle' = handle THEN handle[p] ELSE Nil
  <1>1. Moves(p, Idle, h)
    BY Own, IdleJob DEF Moves, Return
  <1>2. h \in {handle[p], Nil} /\ (h # Nil => root[h.root] # Nil /\ root[h.root].man = h.n)
    BY Own, DirFields
  <1> HIDE DEF h
  <1>3. Apart'
    BY <1>1, <1>2, IdleJob, ApartEnds
  <1> QED BY <1>1, <1>2, <1>3, IdleJob, ReadStep

LEMMA OpenFoundKeeps ==
    ASSUME ShardsInv, Exclusive, NEW p \in Procs, NEW r \in Roots, OpenFound(p, r)
    PROVE  ShardsInv'
  <1> DEFINE h == [root |-> r, n |-> root[r].man]
  <1>1. /\ root[r] \in Dirs /\ root[r].man \in Counts /\ root[r] # Nil
        /\ task[p] = Idle /\ MayUse(r) /\ handle' = [handle EXCEPT ![p] = h]
        /\ UNCHANGED <<root, env, task, drained>>
    BY Own, DirFields DEF OpenFound, HasManifest
  <1>2. h \in Handles /\ h.root = r /\ h.n = root[r].man
    BY <1>1 DEF Handles
  <1> HIDE DEF h
  <1>3. Moves(p, Idle, h)
    BY <1>1, <1>2, Own, IdleJob DEF Moves
  <1>4. \A q \in Procs \ {p} : Filler(task[q]) => task[q].dst # h.root
    BY <1>1, <1>2 DEF MayUse, InUse, Filler
  <1>5. Apart'
    BY <1>3, <1>4, IdleJob, ApartEnds
  <1> QED BY <1>1, <1>2, <1>3, <1>5, IdleJob, ReadStep

LEMMA OpenMissingKeeps ==
    ASSUME ShardsInv, Exclusive, NEW p \in Procs, NEW r \in Roots, NEW n \in Counts, OpenMissing(p, r, n)
    PROVE  ShardsInv'
  <1> DEFINE j == [op |-> "open", dst |-> r, n |-> n]
  <1>1. /\ task[p] = Idle /\ ~ HasManifest(r) /\ MayFill(r) /\ task' = [task EXCEPT ![p] = j]
        /\ UNCHANGED <<root, env, handle, drained>>
    BY DEF OpenMissing, Become
  <1>2. j \in Tasks /\ j.op = "open" /\ j.dst = r /\ Filler(j) /\ ~ Reader(j)
    BY DEF Tasks, Opens, Filler, Reader
  <1> HIDE DEF j
  <1>3. Moves(p, j, handle[p])
    BY <1>1, <1>2, Own DEF Moves
  <1>4. Apart'
    BY <1>1, <1>2, <1>3, ApartBegins
  <1>5. JobOK(j, handle[p], root, env)
    BY <1>1, <1>2 DEF JobOK, HasManifest
  <1> QED BY <1>1, <1>3, <1>4, <1>5, Own, DirFields, ReadStep

LEMMA WriteManifestKeeps ==
    ASSUME ShardsInv, NEW p \in Procs, WriteManifest(p)
    PROVE  ShardsInv'
  <1> DEFINE r == task[p].dst
             n == task[p].n
             h == [root |-> r, n |-> n]
  <1>1. /\ task[p].op = "open" /\ root' = WithManifest(r, n) /\ handle' = [handle EXCEPT ![p] = h]
        /\ task' = [task EXCEPT ![p] = Idle] /\ UNCHANGED <<env, drained>>
    BY DEF WriteManifest, Return
  <1>2. r \in Roots /\ n \in Counts /\ Filler(task[p]) /\ Shapes
    BY <1>1, Own, TaskFields DEF Filler
  <1>3. h \in Handles /\ h.root = r /\ h.n = n
    BY <1>2 DEF Handles
  <1>4. root[r] = Nil \/ root[r].man = Nil
    BY <1>1, Own DEF JobOK
  <1> HIDE DEF h, r, n
  <1>5. /\ root' \in [Roots -> Dirs \cup {Nil}] /\ \A s \in Roots : s # r => root'[s] = root[s]
        /\ root'[r] \in Dirs /\ root'[r] # Nil /\ root'[r].man = n
        /\ \A k \in ShardIds : root'[r].shards[k] = Base(root[r]).shards[k]
    BY <1>1, <1>2, WithManifestFacts
  <1>6. \A k \in ShardIds : Base(root[r]).shards[k] = Nil
    BY <1>2, <1>4, Own, EmptyDir DEF Base, WellRouted
  <1>7. WellRouted(root'[r])
    BY <1>2, <1>5, <1>6, ShardRange DEF WellRouted
  <1>8. ChangesOnly(r) /\ Free(p, r)
    BY <1>1, <1>2, <1>5, Own, OwnPlace DEF ChangesOnly, Shapes, r
  <1>9. Moves(p, Idle, h)
    BY <1>1, <1>3, Own, IdleJob DEF Moves
  <1>10. \A q \in Procs \ {p} : Filler(task[q]) => task[q].dst # h.root
    BY <1>3, <1>8 DEF Free
  <1>11. Apart'
    BY <1>9, <1>10, IdleJob, ApartEnds
  <1> QED BY <1>3, <1>5, <1>7, <1>8, <1>9, <1>11, IdleJob, StepKeeps

LEMMA CloseRootKeeps ==
    ASSUME ShardsInv, NEW p \in Procs, CloseRoot(p)
    PROVE  ShardsInv'
  <1>1. Return(p) /\ root' = root /\ env' = env /\ handle' = [handle EXCEPT ![p] = Nil]
    BY Own DEF CloseRoot, Return
  <1>2. drained' \subseteq Roots \X Rows
    BY Own DEF CloseRoot
  <1> QED BY <1>1, <1>2, EndStep

LEMMA AppendKeeps ==
    ASSUME ShardsInv, Exclusive, NEW p \in Procs, NEW t \in Trajs, AppendTrajectory(p, t)
    PROVE  ShardsInv'
  <1> DEFINE r == handle[p].root
             n == handle[p].n
             i == ShardForTraj(t, n)
             rows == IF Shard(r, i) = Nil THEN {} ELSE Shard(r, i)
             more == IF \E row \in rows : row[1] = t THEN rows ELSE rows \cup {<<t, r>>}
  <1>1. /\ task[p] = Idle /\ handle[p] # Nil /\ MayAppend(r) /\ root' = WithShard(r, i, more)
        /\ env' = env /\ handle' = handle /\ task' = task /\ drained' = drained
    BY DEF AppendTrajectory
  <1>2. /\ r \in Roots /\ n \in Counts /\ root[r] \in Dirs /\ root[r].man = n
        /\ WellRouted(root[r]) /\ Shapes
    BY <1>1, Own
  <1>3. /\ root[r] # Nil /\ n \in Nat /\ n # Nil /\ i \in 0 .. n - 1 /\ i \in ShardIds
        /\ root[r].shards \in [ShardIds -> (SUBSET Rows) \cup {Nil}] /\ Base(root[r]) = root[r]
    BY <1>2, ShardRange, DirFields, EmptyDir
  <1>4. rows = RowsIn(root[r], i)
    BY <1>3 DEF Shard, RowsIn
  <1>5. \A row \in more : row \in rows \/ row = <<t, r>>
    OBVIOUS
  <1>6. rows \in SUBSET Rows /\ <<t, r>> \in Rows
    BY <1>2, <1>3, <1>4, RowsInType DEF Rows
  <1>7. more \in SUBSET Rows /\ rows \subseteq more
    BY <1>5, <1>6
  <1>8. \A row \in more : ShardForTraj(row[1], n) = i
    <2> SUFFICES ASSUME NEW row \in more
                 PROVE  ShardForTraj(row[1], n) = i
      OBVIOUS
    <2>1. CASE row \in rows
      BY <1>2, <1>3, <1>4, <2>1, RoutedRow
    <2>2. CASE row = <<t, r>>
      BY <2>2
    <2> QED BY <1>5, <2>1, <2>2
  <1> HIDE DEF more, rows, i, r, n
  <1>9. /\ root' \in [Roots -> Dirs \cup {Nil}] /\ \A s \in Roots : s # r => root'[s] = root[s]
        /\ root'[r] \in Dirs /\ root'[r] # Nil /\ root'[r].man = n
        /\ root'[r].shards[i] = more /\ more # Nil
        /\ \A k \in ShardIds : k # i => root'[r].shards[k] = root[r].shards[k]
    BY <1>1, <1>2, <1>3, <1>7, WithShardFacts
  <1>10. WellRouted(root'[r])
    <2>1. \A k \in ShardIds : root[r].shards[k] # Nil =>
              k < n /\ \A row \in root[r].shards[k] : ShardForTraj(row[1], n) = k
      BY <1>2, <1>3 DEF WellRouted
    <2>2. \A k \in ShardIds : root'[r].shards[k] # Nil =>
              k < n /\ \A row \in root'[r].shards[k] : ShardForTraj(row[1], n) = k
      <3>1. i < n
        BY <1>3
      <3> QED BY <1>8, <1>9, <2>1, <3>1
    <2> QED BY <1>3, <1>9, <2>2 DEF WellRouted
  <1>11. Grows(root[r], root'[r])
    <2>1. RowsIn(root'[r], i) = more
      BY <1>9 DEF RowsIn
    <2>2. \A k \in ShardIds : k # i => RowsIn(root'[r], k) = RowsIn(root[r], k)
      BY <1>3, <1>9 DEF RowsIn
    <2> QED BY <1>2, <1>4, <1>7, <1>9, <2>1, <2>2 DEF Grows
  <1>12. /\ \A q \in Procs : Filler(task[q]) => task[q].dst # r
         /\ \A q \in Procs : task[q].op = "drain" /\ Quiet => task[q].src # r
    BY <1>1 DEF MayAppend, MayUse, InUse, Filler
  <1>13. ChangesOnly(r)
    BY <1>1, <1>2, <1>9 DEF ChangesOnly, Shapes
  <1>14. Moves(p, Idle, handle[p])
    BY <1>1, Own, IdleJob DEF Moves
  <1>15. Apart'
    BY <1>14, IdleJob, ApartEnds
  <1>16. handle[p] # Nil => root'[handle[p].root] # Nil /\ root'[handle[p].root].man = handle[p].n
    BY <1>9 DEF r, n
  <1> QED BY <1>2, <1>10, <1>11, <1>12, <1>13, <1>14, <1>15, <1>16, IdleJob, StepKeeps

LEMMA SelectBeginKeeps ==
    ASSUME ShardsInv, NEW p \in Procs, NEW limit \in Limits, SelectBegin(p, limit)
    PROVE  ShardsInv'
  <1> DEFINE r == handle[p].root
             j == [op |-> "select", next |-> 0, limit |-> limit, out |-> {}, before |-> Contents(r)]
  <1>1. /\ task[p] = Idle /\ handle[p] # Nil /\ task' = [task EXCEPT ![p] = j]
        /\ root' = root /\ env' = env /\ handle' = handle /\ drained' = drained
    BY DEF SelectBegin, Become
  <1>2. /\ r \in Roots /\ handle[p].n \in Counts /\ root[r] \in Dirs /\ root[r] # Nil
        /\ root[r].man = handle[p].n
    BY <1>1, Own, DirFields
  <1>3. Contents(r) = DirRows(root[r]) /\ DirRows(root[r]) \subseteq Rows
    BY <1>2, Own, PlacesHold, RowsInType
  <1>4. j \in Selects
    BY <1>3 DEF Selects
  <1>5. j.op = "select" /\ ~ Filler(j) /\ j \in Tasks
    BY <1>4 DEF Filler, Tasks
  <1>6. SelectOK(j, handle[p].n, root[r])
    <2>1. handle[p].n \in Nat
      BY <1>2, ShardRange
    <2>2. 0 .. 0 - 1 = {}
      OBVIOUS
    <2> QED BY <1>3, <2>1, <2>2 DEF SelectOK
  <1> HIDE DEF j
  <1>7. JobOK(j, handle[p], root, env)
    BY <1>1, <1>5, <1>6 DEF JobOK
  <1>8. Moves(p, j, handle[p])
    BY <1>1, <1>5, Own DEF Moves
  <1>9. Apart'
    BY <1>5, <1>8, ApartEnds
  <1> QED BY <1>1, <1>2, <1>7, <1>8, <1>9, ReadStep

SelectTo(s, k, g) == [s EXCEPT !.next = k, !.out = g]

LEMMA SelectToFields ==
    ASSUME NEW s \in Selects, NEW k \in Nat, NEW g \in SUBSET Trajs
    PROVE  LET s2 == SelectTo(s, k, g)
           IN  /\ s2 \in Selects /\ s2.op = "select" /\ s2.next = k /\ s2.out = g
               /\ s2.limit = s.limit /\ s2.before = s.before
  BY DEF Selects, SelectTo

LEMMA SelectShardKeeps ==
    ASSUME ShardsInv, NEW p \in Procs, SelectShard(p)
    PROVE  ShardsInv'
  <1> DEFINE o == task[p]
             h == handle[p]
             d == root[h.root]
             rows == Shard(h.root, o.next)
             got == IF rows = Nil THEN o.out ELSE o.out \cup Lowest(o.limit, Ids(rows))
             j == [o EXCEPT !.next = o.next + 1, !.out = got]
  <1>1. /\ o.op = "select" /\ o.next < h.n /\ task' = [task EXCEPT ![p] = j]
        /\ root' = root /\ env' = env /\ handle' = handle /\ drained' = drained
    BY DEF SelectShard, Become
  <1>2. h # Nil /\ SelectOK(o, h.n, d)
    BY <1>1, Own DEF JobOK
  <1>3. h.root \in Roots /\ h.n \in Counts /\ d \in Dirs /\ d # Nil /\ d.man = h.n
    BY <1>2, Own, DirFields
  <1>4. o \in Selects
    BY <1>1, Own DEF Tasks, Idle, Opens, Drains, Joins, Splits
  <1>5. /\ o.next \in 0 .. h.n - 1 /\ o.next \in Nat /\ h.n \in Nat /\ o.next \in ShardIds
        /\ o.out \subseteq Trajs /\ o.before \subseteq Rows /\ o.limit \in Limits
    BY <1>1, <1>3, <1>4, ShardRange DEF Selects
  <1>6. RowsIn(d, o.next) = IF rows = Nil THEN {} ELSE rows
    BY <1>3 DEF Shard, RowsIn
  <1>7. Ids(RowsIn(d, o.next)) \subseteq Trajs
    BY <1>3, <1>5, RowsInType DEF Ids, Rows
  <1>8. got = o.out \cup Lowest(o.limit, Ids(RowsIn(d, o.next)))
    <2>1. Lowest(o.limit, Ids({})) = {}
      BY DEF Lowest, Ids
    <2> QED BY <1>6, <2>1
  <1>9. got \subseteq Trajs
    BY <1>5, <1>7, <1>8 DEF Lowest
  <1> HIDE DEF got, rows
  <1>10. j \in Selects /\ j.op = "select" /\ j.next = o.next + 1 /\ j.out = got
         /\ j.limit = o.limit /\ j.before = o.before
    <2>1. o.next + 1 \in Nat
      BY <1>5
    <2>2. j = SelectTo(o, o.next + 1, got)
      BY DEF SelectTo
    <2> HIDE DEF o, j
    <2> QED BY <1>4, <1>9, <2>1, <2>2, SelectToFields
  <1>11. ~ Filler(j) /\ j \in Tasks
    BY <1>10 DEF Filler, Tasks
  <1>12. SelectOK(j, h.n, d)
    <2>1. j.next <= h.n /\ j.before \subseteq DirRows(d)
      BY <1>1, <1>2, <1>5, <1>10 DEF SelectOK
    <2>2. ASSUME j.before = DirRows(d)
          PROVE  j.out = UNION {Lowest(j.limit, Ids(RowsIn(d, i))) : i \in 0 .. j.next - 1}
      <3>1. o.out = UNION {Lowest(o.limit, Ids(RowsIn(d, i))) : i \in 0 .. o.next - 1}
        BY <1>2, <1>10, <2>2 DEF SelectOK
      <3>2. 0 .. j.next - 1 = (0 .. o.next - 1) \cup {o.next}
        BY <1>5, <1>10
      <3>3. j.out = o.out \cup Lowest(o.limit, Ids(RowsIn(d, o.next)))
        BY <1>8, <1>10
      <3> HIDE DEF j, o, d, h
      <3> QED BY <1>10, <3>1, <3>2, <3>3
    <2> QED BY <2>1, <2>2 DEF SelectOK
  <1> HIDE DEF j
  <1>13. JobOK(j, h, root, env)
    BY <1>2, <1>10, <1>12 DEF JobOK
  <1>14. Moves(p, j, h)
    BY <1>1, <1>11, Own DEF Moves
  <1>15. Apart'
    BY <1>11, <1>14, ApartEnds
  <1> QED BY <1>1, <1>3, <1>13, <1>14, <1>15, ReadStep

LEMMA SelectEndKeeps ==
    ASSUME ShardsInv, NEW p \in Procs, SelectEnd(p)
    PROVE  ShardsInv'
  BY Own, EndStep DEF SelectEnd

-----------------------------------------------------------------------------
(* The steps of a drain.                                                   *)

\* What a drain changes of its task.
DrainChecked(s, a, c)  == [s EXCEPT !.at = a, !.copied = c]
DrainAt(s, a)          == [s EXCEPT !.at = a]
DrainSkips(s, k)       == [s EXCEPT !.next = k]
DrainRefused(s, a, m)  == [s EXCEPT !.at = a, !.made = m]
DrainCopied(s, k, m, g) == [s EXCEPT !.next = k, !.made = m, !.rows = g]

\* The fields of s2 that none of these changes.
SameDrain(s, s2) ==
    /\ s2 \in Drains /\ s2.op = "drain" /\ s2.from = s.from /\ s2.src = s.src /\ s2.dst = s.dst
    /\ s2.n = s.n /\ s2.new = s.new /\ s2.was = s.was

LEMMA DrainCheckedFields ==
    ASSUME NEW s \in Drains, NEW a \in {"check", "manifest", "copy", "undo"}, NEW c \in BOOLEAN
    PROVE  LET s2 == DrainChecked(s, a, c)
           IN  /\ SameDrain(s, s2) /\ s2.at = a /\ s2.copied = c
               /\ s2.next = s.next /\ s2.made = s.made /\ s2.rows = s.rows
  BY DEF Drains, DrainChecked, SameDrain

LEMMA DrainAtFields ==
    ASSUME NEW s \in Drains, NEW a \in {"check", "manifest", "copy", "undo"}
    PROVE  LET s2 == DrainAt(s, a)
           IN  /\ SameDrain(s, s2) /\ s2.at = a /\ s2.copied = s.copied
               /\ s2.next = s.next /\ s2.made = s.made /\ s2.rows = s.rows
  BY DEF Drains, DrainAt, SameDrain

LEMMA DrainSkipsFields ==
    ASSUME NEW s \in Drains, NEW k \in Nat
    PROVE  LET s2 == DrainSkips(s, k)
           IN  /\ SameDrain(s, s2) /\ s2.at = s.at /\ s2.copied = s.copied
               /\ s2.next = k /\ s2.made = s.made /\ s2.rows = s.rows
  BY DEF Drains, DrainSkips, SameDrain

LEMMA DrainRefusedFields ==
    ASSUME NEW s \in Drains, NEW a \in {"check", "manifest", "copy", "undo"}, NEW m \in SUBSET ShardIds
    PROVE  LET s2 == DrainRefused(s, a, m)
           IN  /\ SameDrain(s, s2) /\ s2.at = a /\ s2.copied = s.copied
               /\ s2.next = s.next /\ s2.made = m /\ s2.rows = s.rows
  BY DEF Drains, DrainRefused, SameDrain

LEMMA DrainCopiedFields ==
    ASSUME NEW s \in Drains, NEW k \in Nat, NEW m \in SUBSET ShardIds, NEW g \in SUBSET Rows
    PROVE  LET s2 == DrainCopied(s, k, m, g)
           IN  /\ SameDrain(s, s2) /\ s2.at = s.at /\ s2.copied = s.copied
               /\ s2.next = k /\ s2.made = m /\ s2.rows = g
  BY DEF Drains, DrainCopied, SameDrain

\* What a drain knows when it is in the middle of its work.
LEMMA DrainOwn ==
    ASSUME ShardsInv, NEW p \in Procs, task[p].op = "drain"
    PROVE  LET o == task[p] IN
           /\ o \in Drains /\ o.at \in {"check", "manifest", "copy", "undo"}
           /\ o.src \in Roots /\ o.dst \in Roots /\ o.n \in Counts /\ o.next \in Nat
           /\ o.made \subseteq ShardIds /\ o.rows \subseteq Rows /\ o.was \in Dirs \cup {Nil}
           /\ o.new \in BOOLEAN /\ o.copied \in BOOLEAN
           /\ o.src # o.dst /\ root[o.src] \in Dirs /\ root[o.dst] \in Dirs \cup {Nil}
           /\ DrainOK(o, root[o.dst], root[o.src])
           /\ Filler(o) /\ Reader(o) /\ Free(p, o.dst)
           /\ Before(o) \in Dirs
           /\ handle[p] # Nil => handle[p].root # o.dst
  <1> DEFINE o == task[p]
  <1>1. o \in Tasks /\ Apart /\ JobOK(o, handle[p], root, env)
    BY Own
  <1>2. o \in Drains
    BY <1>1 DEF Tasks, Idle, Opens, Selects, Joins, Splits
  <1>3. /\ o.at \in {"check", "manifest", "copy", "undo"}
        /\ o.src \in Roots /\ o.dst \in Roots /\ o.n \in Counts /\ o.next \in Nat
        /\ o.made \subseteq ShardIds /\ o.rows \subseteq Rows /\ o.was \in Dirs \cup {Nil}
        /\ o.new \in BOOLEAN /\ o.copied \in BOOLEAN
    BY <1>1, TaskFields
  <1>4. DrainOK(o, root[o.dst], root[o.src])
    BY <1>1 DEF JobOK
  <1>5. Filler(o) /\ Reader(o)
    BY DEF Filler, Reader
  <1>6. Free(p, o.dst) /\ o.dst \notin o.from /\ (handle[p] # Nil => handle[p].root # o.dst)
    BY <1>1, <1>5, OwnPlace
  <1>7. o.from = {o.src} /\ root[o.src] # Nil
    BY <1>4 DEF DrainOK
  <1>8. /\ root[o.src] \in Dirs /\ root[o.dst] \in Dirs \cup {Nil}
        /\ Before(o) \in Dirs
    BY <1>3, <1>7, Own, EmptyDir DEF Before
  <1> QED BY <1>2, <1>3, <1>4, <1>5, <1>6, <1>7, <1>8

\* A step of a drain that changes nothing but its destination.
LEMMA DrainStep ==
    ASSUME ShardsInv, NEW p \in Procs, task[p].op = "drain", NEW j, SameDrain(task[p], j),
           task' = [task EXCEPT ![p] = j], env' = env, handle' = handle, drained' = drained,
           root' \in [Roots -> Dirs \cup {Nil}],
           \A r \in Roots : r # task[p].dst => root'[r] = root[r],
           WellRouted(root'[task[p].dst]), DrainOK(j, root'[j.dst], root[j.src])
    PROVE  ShardsInv'
  <1>1. /\ j \in Drains /\ j.op = "drain" /\ j.from = task[p].from /\ j.dst = task[p].dst
        /\ j.src = task[p].src /\ j \in Tasks
    BY DEF SameDrain, Tasks
  <1>2. Moves(p, j, handle[p])
    BY <1>1, Own DEF Moves
  <1>3. Apart'
    BY <1>1, <1>2, DrainOwn, ApartGoesOn
  <1>4. ChangesOnly(task[p].dst)
    BY Own DEF ChangesOnly, Shapes
  <1>5. JobOK(j, handle[p], root', env')
    BY <1>1, DrainOwn DEF JobOK
  <1>6. handle[p] # Nil => root'[handle[p].root] # Nil /\ root'[handle[p].root].man = handle[p].n
    BY Own, DrainOwn, DirFields
  <1> QED BY <1>2, <1>3, <1>4, <1>5, <1>6, DrainOwn, StepKeeps

LEMMA DrainBeginKeeps ==
    ASSUME ShardsInv, Exclusive, NEW p \in Procs, NEW src \in Roots, NEW dst \in Roots,
           DrainBegin(p, src, dst)
    PROVE  ShardsInv'
  <1> DEFINE j == [op |-> "drain", at |-> "check", from |-> {src}, src |-> src, dst |-> dst,
                   n |-> root[src].man, new |-> root[dst] = Nil, copied |-> FALSE,
                   next |-> 0, made |-> {}, rows |-> {}, was |-> root[dst]]
  <1>1. /\ task[p] = Idle /\ src # dst /\ HasManifest(src) /\ MayUse(src) /\ MayFill(dst)
        /\ task' = [task EXCEPT ![p] = j]
        /\ root' = root /\ env' = env /\ handle' = handle /\ drained' = drained
    BY DEF DrainBegin, Become
  <1>2. /\ root[src] \in Dirs /\ root[src].man \in Counts /\ root[dst] \in Dirs \cup {Nil}
        /\ root[src] # Nil /\ WellRouted(root[dst])
    BY <1>1, Own, DirFields DEF HasManifest
  <1>3. j \in Drains
    BY <1>2 DEF Drains
  <1>4. /\ j.op = "drain" /\ j.at = "check" /\ j.from = {src} /\ j.src = src /\ j.dst = dst
        /\ j.n = root[src].man /\ j.new = (root[dst] = Nil) /\ j.copied = FALSE
        /\ j.next = 0 /\ j.made = {} /\ j.rows = {} /\ j.was = root[dst]
    OBVIOUS
  <1> HIDE DEF j
  <1>5. DrainOK(j, root[dst], root[src])
    <2>1. root[dst] # Nil => Before(j) = root[dst]
      BY <1>2, <1>4, EmptyDir DEF Before
    <2> QED BY <1>2, <1>4, <2>1 DEF DrainOK
  <1>6. Filler(j) /\ Reader(j) /\ j \in Tasks
    BY <1>3, <1>4 DEF Filler, Reader, Tasks
  <1>7. Moves(p, j, handle[p])
    BY <1>1, <1>6, Own DEF Moves
  <1>8. Apart'
    BY <1>1, <1>4, <1>6, <1>7, ApartBegins
  <1>9. JobOK(j, handle[p], root, env)
    BY <1>4, <1>5 DEF JobOK
  <1> QED BY <1>1, <1>7, <1>8, <1>9, Own, DirFields, ReadStep

LEMMA DrainCheckKeeps ==
    ASSUME ShardsInv, NEW p \in Procs, DrainCheck(p)
    PROVE  ShardsInv'
  <1> DEFINE o == task[p]
             d == root[o.dst]
             s == root[o.src]
             fine == SameCount(o) /\ ~ Clash(o)
             c == (fine /\ ~ HasManifest(o.dst))
             a == IF fine THEN "manifest" ELSE "undo"
             j == DrainChecked(o, a, c)
  <1>1. /\ o.op = "drain" /\ o.at = "check" /\ task' = [task EXCEPT ![p] = j]
        /\ root' = IF d = Nil THEN [root EXCEPT ![o.dst] = Empty] ELSE root
        /\ env' = env /\ handle' = handle /\ drained' = drained
    BY DEF DrainCheck, Become, DrainChecked
  <1>2. /\ o \in Drains /\ o.src \in Roots /\ o.dst \in Roots /\ o.n \in Counts
        /\ o.src # o.dst /\ s \in Dirs /\ d \in Dirs \cup {Nil} /\ DrainOK(o, d, s)
        /\ o.was \in Dirs \cup {Nil}
    BY <1>1, DrainOwn
  <1>3. /\ o.from = {o.src} /\ s # Nil /\ s.man = o.n /\ WellRouted(o.was) /\ (o.new <=> o.was = Nil)
        /\ d = o.was /\ o.made = {} /\ o.rows = {} /\ o.next = 0
    BY <1>1, <1>2 DEF DrainOK
  <1>4. Before(o) = Base(d) /\ Base(d) \in Dirs /\ Base(d) # Nil /\ WellRouted(d)
    BY <1>2, <1>3, EmptyDir DEF Before
  <1>5. SameCount(o) <=> (d # Nil /\ d.man # Nil => d.man = o.n)
    BY DEF SameCount, HasManifest
  <1>6. HasManifest(o.dst) <=> Base(d).man # Nil
    BY EmptyDir DEF HasManifest, Base
  <1>7. Clash(o) <=> \E i \in 0 .. o.n - 1 : s.shards[i] # Nil /\ Base(d).shards[i] # Nil
    <2>1. \A i \in ShardIds : Shard(o.dst, i) = Base(d).shards[i]
      BY EmptyDir DEF Shard, Base
    <2>2. \A i \in 0 .. o.n - 1 : i \in ShardIds
      BY <1>2, ShardRange
    <2>3. \A i \in ShardIds : Shard(o.src, i) = s.shards[i]
      BY <1>3 DEF Shard
    <2> HIDE DEF o, d, s
    <2> QED BY <2>1, <2>2, <2>3 DEF Clash
  <1>8. /\ root' \in [Roots -> Dirs \cup {Nil}] /\ \A r \in Roots : r # o.dst => root'[r] = root[r]
        /\ root'[o.dst] = Base(d)
    <2>1. root \in [Roots -> Dirs \cup {Nil}] /\ Empty \in Dirs
      BY Own, EmptyDir DEF Shapes
    <2> QED BY <1>1, <1>2, <2>1 DEF Base
  <1>9. WellRouted(Base(d))
    BY <1>4, EmptyDir DEF WellRouted, Base
  <1>10. a \in {"check", "manifest", "copy", "undo"} /\ c \in BOOLEAN
    OBVIOUS
  <1>11. /\ SameDrain(o, j) /\ j.at = a /\ j.copied = c
         /\ j.next = o.next /\ j.made = o.made /\ j.rows = o.rows
    BY <1>2, <1>10, DrainCheckedFields
  <1>12. /\ j.from = o.from /\ j.src = o.src /\ j.dst = o.dst /\ j.n = o.n
         /\ j.new = o.new /\ j.was = o.was /\ Before(j) = Base(d)
    BY <1>4, <1>11 DEF SameDrain, Before
  <1>13. /\ c => Base(d).man = Nil
         /\ j.at = "manifest" /\ ~ c => Base(d).man = o.n
    <2>1. (c <=> fine /\ Base(d).man = Nil) /\ (j.at = "manifest" <=> fine)
      BY <1>6, <1>11
    <2>2. fine /\ Base(d).man # Nil => Base(d).man = o.n
      BY <1>5, EmptyDir DEF Base
    <2> HIDE DEF c, fine, j
    <2> QED BY <2>1, <2>2
  <1>14. j.at = "manifest" => \A i \in 0 .. o.n - 1 : s.shards[i] # Nil => Base(d).shards[i] = Nil
    BY <1>7, <1>11
  <1>15. j.at \in {"manifest", "undo"} /\ j.copied = c /\ j.made = {} /\ j.rows = {} /\ j.next = 0
    BY <1>3, <1>11
  <1> DEFINE b == Base(d)
  <1> HIDE DEF b, j, c, a, fine, d, s
  <1>16. DrainOK(j, b, s)
    <2>1. b # Nil
      BY <1>4 DEF b
    <2>2. j.at \in {"manifest", "copy"} => j.at = "manifest"
      BY <1>15
    <2> QED BY <1>3, <1>12, <1>13, <1>14, <1>15, <2>1, <2>2 DEF DrainOK, b
  <1>17. WellRouted(root'[o.dst]) /\ DrainOK(j, root'[j.dst], root[j.src])
    BY <1>8, <1>9, <1>12, <1>16 DEF b, s
  <1> QED BY <1>1, <1>8, <1>11, <1>17, DrainStep

LEMMA DrainManifestKeeps ==
    ASSUME ShardsInv, NEW p \in Procs, DrainManifest(p)
    PROVE  ShardsInv'
  <1> DEFINE o == task[p]
             d == root[o.dst]
             s == root[o.src]
             e == root'[o.dst]
             j == DrainAt(o, "copy")
  <1>1. /\ o.op = "drain" /\ o.at = "manifest" /\ task' = [task EXCEPT ![p] = j]
        /\ root' = IF o.copied THEN WithManifest(o.dst, o.n) ELSE root
        /\ env' = env /\ handle' = handle /\ drained' = drained
    BY DEF DrainManifest, Become, DrainAt
  <1>2. /\ o \in Drains /\ o.src \in Roots /\ o.dst \in Roots /\ o.n \in Counts
        /\ o.src # o.dst /\ s \in Dirs /\ d \in Dirs \cup {Nil} /\ DrainOK(o, d, s)
        /\ o.was \in Dirs \cup {Nil} /\ o.copied \in BOOLEAN /\ Before(o) \in Dirs
    BY <1>1, DrainOwn
  <1>3. /\ o.from = {o.src} /\ s # Nil /\ s.man = o.n /\ WellRouted(o.was) /\ (o.new <=> o.was = Nil)
        /\ d # Nil /\ o.made = {} /\ o.rows = {} /\ o.next = 0
        /\ IF o.copied THEN Before(o).man = Nil ELSE d.man = o.n
        /\ \A i \in ShardIds : d.shards[i] = Before(o).shards[i]
        /\ ~ o.copied => d.man = Before(o).man
        /\ Quiet => \A i \in 0 .. o.n - 1 : s.shards[i] # Nil => Before(o).shards[i] = Nil
    BY <1>1, <1>2 DEF DrainOK
  <1>4. /\ root' \in [Roots -> Dirs \cup {Nil}] /\ \A r \in Roots : r # o.dst => root'[r] = root[r]
        /\ e \in Dirs /\ e.man = o.n /\ \A i \in ShardIds : e.shards[i] = d.shards[i]
    <2>1. CASE o.copied
      <3>1. Shapes /\ root' = WithManifest(o.dst, o.n) /\ Base(d) = d
        BY <1>1, <1>3, <2>1, Own DEF Base
      <3> QED BY <1>2, <3>1, WithManifestFacts
    <2>2. CASE ~ o.copied
      <3>1. root \in [Roots -> Dirs \cup {Nil}] /\ root' = root
        BY <1>1, <2>2, Own DEF Shapes
      <3> QED BY <1>2, <1>3, <2>2, <3>1
    <2> QED BY <2>1, <2>2
  <1>5. WellRouted(e)
    <2>1. CASE o.copied
      <3>1. \A i \in ShardIds : Before(o).shards[i] = Nil
        BY <1>3, <2>1, EmptyDir DEF Before, Base, WellRouted
      <3> QED BY <1>2, <1>3, <1>4, <3>1, ShardRange DEF WellRouted
    <2>2. CASE ~ o.copied
      <3>1. root' = root
        BY <1>1, <2>2
      <3> QED BY <1>2, <3>1, Own
    <2> QED BY <2>1, <2>2
  <1>6. /\ SameDrain(o, j) /\ j.at = "copy" /\ j.copied = o.copied
        /\ j.next = o.next /\ j.made = o.made /\ j.rows = o.rows
    BY <1>2, DrainAtFields
  <1>7. /\ j.from = o.from /\ j.src = o.src /\ j.dst = o.dst /\ j.n = o.n
        /\ j.new = o.new /\ j.was = o.was /\ Before(j) = Before(o)
    BY <1>6 DEF SameDrain, Before
  <1>8. e # Nil /\ o.n \in Nat
    BY <1>2, <1>4, DirFields, ShardRange
  <1> HIDE DEF j, d, s, e
  <1>9. DrainOK(j, e, s)
    BY <1>3, <1>4, <1>6, <1>7, <1>8 DEF DrainOK
  <1> QED BY <1>1, <1>4, <1>5, <1>6, <1>7, <1>9, DrainStep DEF e, s

LEMMA DrainFailKeeps ==
    ASSUME ShardsInv, NEW p \in Procs, Fail(p), task[p].op = "drain"
    PROVE  ShardsInv'
  <1> DEFINE o == task[p]
             j == DrainAt(o, "undo")
  <1>1. /\ task' = [task EXCEPT ![p] = j]
        /\ root' = root /\ env' = env /\ handle' = handle /\ drained' = drained
    BY DEF Fail, Become, DrainAt
  <1>2. /\ o \in Drains /\ o.dst \in Roots /\ DrainOK(o, root[o.dst], root[o.src])
    BY DrainOwn
  <1>3. /\ SameDrain(o, j) /\ j.at = "undo" /\ j.copied = o.copied
        /\ j.next = o.next /\ j.made = o.made /\ j.rows = o.rows
    BY <1>2, DrainAtFields
  <1>4. /\ j.from = o.from /\ j.src = o.src /\ j.dst = o.dst /\ j.n = o.n
        /\ j.new = o.new /\ j.was = o.was /\ Before(j) = Before(o)
    BY <1>3 DEF SameDrain, Before
  <1> HIDE DEF j
  <1>5. DrainOK(j, root[o.dst], root[o.src])
    BY <1>2, <1>3, <1>4 DEF DrainOK
  <1>6. root \in [Roots -> Dirs \cup {Nil}] /\ WellRouted(root[o.dst])
    BY <1>2, Own DEF Shapes
  <1> QED BY <1>1, <1>3, <1>4, <1>5, <1>6, DrainStep

LEMMA DrainCopyKeeps ==
    ASSUME ShardsInv, NEW p \in Procs, DrainCopy(p)
    PROVE  ShardsInv'
  <1> DEFINE o == task[p]
             k == o.next
             d == root[o.dst]
             s == root[o.src]
             e == root'[o.dst]
             rows == Shard(o.src, k)
  <1>1. /\ o.op = "drain" /\ o.at = "copy" /\ k < o.n
        /\ env' = env /\ handle' = handle /\ drained' = drained
    BY DEF DrainCopy
  <1>2. /\ o \in Drains /\ o.src \in Roots /\ o.dst \in Roots /\ o.n \in Counts
        /\ o.src # o.dst /\ s \in Dirs /\ d \in Dirs \cup {Nil} /\ DrainOK(o, d, s)
        /\ o.was \in Dirs \cup {Nil} /\ o.copied \in BOOLEAN /\ Before(o) \in Dirs
        /\ o.made \subseteq ShardIds /\ o.rows \subseteq Rows /\ k \in Nat
    BY <1>1, DrainOwn
  <1>3. /\ o.from = {o.src} /\ s # Nil /\ s.man = o.n /\ WellRouted(o.was) /\ (o.new <=> o.was = Nil)
        /\ d # Nil /\ d.man = o.n
        /\ \A i \in o.made : i < k
        /\ \A i \in ShardIds \ o.made : d.shards[i] = Before(o).shards[i]
        /\ Quiet => \A i \in o.made : Before(o).shards[i] = Nil
        /\ IF o.copied THEN Before(o).man = Nil ELSE d.man = Before(o).man
        /\ \A row \in o.rows : \E i \in o.made : row \in RowsIn(d, i)
        /\ Quiet => \A i \in 0 .. o.n - 1 : s.shards[i] # Nil => Before(o).shards[i] = Nil
    BY <1>1, <1>2 DEF DrainOK
  <1>4. /\ o.n \in Nat /\ o.n # Nil /\ k \in 0 .. o.n - 1 /\ k \in ShardIds /\ k \notin o.made
        /\ s.shards \in [ShardIds -> (SUBSET Rows) \cup {Nil}]
        /\ d \in Dirs /\ d.shards \in [ShardIds -> (SUBSET Rows) \cup {Nil}]
        /\ Base(d) = d /\ WellRouted(d) /\ WellRouted(s)
    BY <1>1, <1>2, <1>3, ShardRange, DirFields, EmptyDir, Own
  <1>5. rows = s.shards[k] /\ Shard(o.dst, k) = d.shards[k]
    BY <1>3 DEF Shard
  <1>6. Quiet /\ rows # Nil => Before(o).shards[k] = Nil
    BY <1>3, <1>4, <1>5
  <1>7. CASE rows = Nil
    <2> DEFINE j == DrainSkips(o, k + 1)
    <2>1. task' = [task EXCEPT ![p] = j] /\ root' = root
      BY <1>7 DEF DrainCopy, Become, DrainSkips
    <2>2. k + 1 \in Nat /\ k + 1 <= o.n /\ \A i \in o.made : i < k + 1
      <3>1. \A i \in o.made : i \in Nat /\ i < k
        BY <1>2, <1>3, ShardRange
      <3>2. k \in Nat /\ o.n \in Nat /\ k < o.n
        BY <1>1, <1>2, <1>4
      <3> HIDE DEF k, o
      <3> QED BY <3>1, <3>2
    <2>3. /\ SameDrain(o, j) /\ j.at = o.at /\ j.copied = o.copied
          /\ j.next = k + 1 /\ j.made = o.made /\ j.rows = o.rows
      BY <1>2, <2>2, DrainSkipsFields
    <2>4. /\ j.from = o.from /\ j.src = o.src /\ j.dst = o.dst /\ j.n = o.n
          /\ j.new = o.new /\ j.was = o.was /\ Before(j) = Before(o)
      BY <2>3 DEF SameDrain, Before
    <2>5. DrainOK(j, d, s)
      <3> HIDE DEF j, d, s
      <3> QED BY <1>1, <1>2, <2>2, <2>3, <2>4 DEF DrainOK
    <2> HIDE DEF j
    <2>6. WellRouted(root'[o.dst]) /\ DrainOK(j, root'[j.dst], root[j.src])
      BY <1>4, <2>1, <2>4, <2>5
    <2>7. root \in [Roots -> Dirs \cup {Nil}]
      BY Own DEF Shapes
    <2> QED BY <1>1, <2>1, <2>3, <2>6, <2>7, DrainStep
  <1>8. CASE rows # Nil /\ Shard(o.dst, k) # Nil
    <2> DEFINE m == o.made \cup {k}
               j == DrainRefused(o, "undo", m)
    <2>1. task' = [task EXCEPT ![p] = j] /\ root' = root
      BY <1>8 DEF DrainCopy, Become, DrainRefused
    <2>2. m \in SUBSET ShardIds
      BY <1>2, <1>4
    <2>3. /\ SameDrain(o, j) /\ j.at = "undo" /\ j.copied = o.copied
          /\ j.next = o.next /\ j.made = m /\ j.rows = o.rows
      BY <1>2, <2>2, DrainRefusedFields
    <2>4. /\ j.from = o.from /\ j.src = o.src /\ j.dst = o.dst /\ j.n = o.n
          /\ j.new = o.new /\ j.was = o.was /\ Before(j) = Before(o)
      BY <2>3 DEF SameDrain, Before
    <2>5. /\ \A i \in ShardIds \ m : d.shards[i] = Before(o).shards[i]
          /\ Quiet => \A i \in m : Before(o).shards[i] = Nil
          /\ \A row \in o.rows : \E i \in m : row \in RowsIn(d, i)
      BY <1>3, <1>6, <1>8
    <2>6. DrainOK(j, d, s)
      <3> HIDE DEF j, d, s, m
      <3> QED BY <1>1, <1>2, <1>3, <2>3, <2>4, <2>5 DEF DrainOK
    <2> HIDE DEF j
    <2>7. WellRouted(root'[o.dst]) /\ DrainOK(j, root'[j.dst], root[j.src])
      BY <1>4, <2>1, <2>4, <2>6
    <2>8. root \in [Roots -> Dirs \cup {Nil}]
      BY Own DEF Shapes
    <2> QED BY <1>1, <2>1, <2>3, <2>7, <2>8, DrainStep
  <1>9. CASE rows # Nil /\ Shard(o.dst, k) = Nil
    <2> DEFINE m == o.made \cup {k}
               g == o.rows \cup rows
               j == DrainCopied(o, k + 1, m, g)
    <2>1. task' = [task EXCEPT ![p] = j] /\ root' = WithShard(o.dst, k, rows)
      BY <1>9 DEF DrainCopy, Become, DrainCopied
    <2>2. rows \in SUBSET Rows
      BY <1>4, <1>5, <1>9
    <2>3. m \in SUBSET ShardIds /\ g \in SUBSET Rows
      BY <1>2, <1>4, <2>2
    <2>4. k + 1 \in Nat /\ k + 1 <= o.n /\ \A i \in m : i < k + 1
      <3>1. \A i \in o.made : i \in Nat /\ i < k
        BY <1>2, <1>3, ShardRange
      <3>2. k \in Nat /\ o.n \in Nat /\ k < o.n
        BY <1>1, <1>2, <1>4
      <3> HIDE DEF k, o
      <3> QED BY <3>1, <3>2
    <2>5. /\ SameDrain(o, j) /\ j.at = o.at /\ j.copied = o.copied
          /\ j.next = k + 1 /\ j.made = m /\ j.rows = g
      BY <1>2, <2>3, <2>4, DrainCopiedFields
    <2>6. /\ j.from = o.from /\ j.src = o.src /\ j.dst = o.dst /\ j.n = o.n
          /\ j.new = o.new /\ j.was = o.was /\ Before(j) = Before(o)
      BY <2>5 DEF SameDrain, Before
    <2> HIDE DEF rows, j
    <2>7. /\ root' \in [Roots -> Dirs \cup {Nil}] /\ \A r \in Roots : r # o.dst => root'[r] = root[r]
          /\ e \in Dirs /\ e # Nil /\ e.man = o.n /\ e.shards[k] = rows
          /\ \A i \in ShardIds : i # k => e.shards[i] = d.shards[i]
      <3>1. Shapes
        BY Own
      <3> HIDE DEF k
      <3> QED BY <1>2, <1>3, <1>4, <2>1, <2>2, <3>1, WithShardFacts
    <2>8. WellRouted(e)
      <3>1. \A i \in ShardIds : d.shards[i] # Nil =>
                i < o.n /\ \A row \in d.shards[i] : ShardForTraj(row[1], o.n) = i
        BY <1>3, <1>4 DEF WellRouted
      <3>2. k < o.n /\ \A row \in rows : ShardForTraj(row[1], o.n) = k
        BY <1>1, <1>3, <1>4, <1>5, <1>9 DEF WellRouted
      <3>3. \A i \in ShardIds : e.shards[i] # Nil =>
                i < o.n /\ \A row \in e.shards[i] : ShardForTraj(row[1], o.n) = i
        BY <2>7, <3>1, <3>2
      <3> QED BY <1>4, <2>7, <3>3 DEF WellRouted
    <2>9. /\ \A i \in ShardIds \ m : e.shards[i] = Before(o).shards[i]
          /\ Quiet => \A i \in m : Before(o).shards[i] = Nil
      BY <1>3, <1>6, <1>9, <2>7
    <2>10. \A row \in g : \E i \in m : row \in RowsIn(e, i)
      <3>1. RowsIn(e, k) = rows
        BY <1>9, <2>7 DEF RowsIn
      <3>2. \A i \in o.made : i # k /\ i \in ShardIds
        BY <1>2, <1>4
      <3>3. \A i \in o.made : RowsIn(e, i) = RowsIn(d, i)
        BY <1>3, <2>7, <3>2 DEF RowsIn
      <3> HIDE DEF e, d
      <3> QED BY <1>3, <3>1, <3>3
    <2>11. DrainOK(j, e, s)
      <3> HIDE DEF d, e, s, m, g
      <3> QED BY <1>1, <1>2, <1>3, <2>4, <2>5, <2>6, <2>7, <2>9, <2>10 DEF DrainOK
    <2>12. WellRouted(root'[o.dst]) /\ DrainOK(j, root'[j.dst], root[j.src])
      BY <2>6, <2>8, <2>11
    <2> QED BY <1>1, <2>1, <2>5, <2>7, <2>12, DrainStep
  <1> QED BY <1>7, <1>8, <1>9

LEMMA DrainEndKeeps ==
    ASSUME ShardsInv, NEW p \in Procs, DrainEnd(p)
    PROVE  ShardsInv'
  <1>1. /\ task[p].op = "drain" /\ Return(p) /\ root' = root /\ env' = env /\ handle' = handle
        /\ drained' = drained \cup {<<task[p].dst, row>> : row \in task[p].rows}
    BY DEF DrainEnd
  <1>2. drained' \subseteq Roots \X Rows
    <2>1. task[p].dst \in Roots /\ task[p].rows \subseteq Rows /\ drained \subseteq Roots \X Rows
      BY <1>1, DrainOwn, Own
    <2> QED BY <1>1, <2>1
  <1> QED BY <1>1, <1>2, EndStep

LEMMA DrainUndoKeeps ==
    ASSUME ShardsInv, NEW p \in Procs, DrainUndo(p)
    PROVE  ShardsInv'
  <1> DEFINE o == task[p]
             d == root[o.dst]
             u == Undone(o)
  <1>1. /\ o.op = "drain" /\ o.at = "undo" /\ Return(p)
        /\ root' = [root EXCEPT ![o.dst] = u] /\ env' = env /\ handle' = handle /\ drained' = drained
    BY DEF DrainUndo
  <1>2. /\ o.dst \in Roots /\ o.n \in Counts /\ d \in Dirs \cup {Nil} /\ Before(o) \in Dirs
        /\ o.made \subseteq ShardIds /\ o.was \in Dirs \cup {Nil}
        /\ DrainOK(o, d, root[o.src]) /\ Free(p, o.dst) /\ Filler(o)
        /\ handle[p] # Nil => handle[p].root # o.dst
    BY <1>1, DrainOwn
  <1>3. u \in Dirs \cup {Nil} /\ WellRouted(u)
    <2>1. CASE o.new \/ d = Nil
      BY <2>1 DEF Undone, WellRouted
    <2>2. CASE ~ (o.new \/ d = Nil)
      <3> DEFINE sh == [i \in ShardIds |-> IF i \in o.made THEN Nil ELSE d.shards[i]]
                 mn == IF o.copied THEN Nil ELSE d.man
      <3>1. u = [man |-> mn, shards |-> sh]
        BY <2>2 DEF Undone
      <3>2. d \in Dirs /\ d.man \in Counts \cup {Nil} /\ d.shards \in [ShardIds -> (SUBSET Rows) \cup {Nil}]
        BY <1>2, <2>2, DirFields
      <3>3. sh \in [ShardIds -> (SUBSET Rows) \cup {Nil}] /\ mn \in Counts \cup {Nil}
        BY <3>2
      <3>4. \A i \in ShardIds : sh[i] # Nil => i \notin o.made /\ sh[i] = d.shards[i]
        OBVIOUS
      <3>5. u \in Dirs
        BY <3>1, <3>3 DEF Dirs
      <3>6. u # Nil /\ u.man = mn /\ \A i \in ShardIds : u.shards[i] = sh[i]
        BY <3>1, <3>5, DirFields
      <3>7. WellRouted(d)
        BY <1>2, Own
      <3> HIDE DEF sh, u
      <3>8. CASE o.copied
        <4>1. /\ Before(o).man = Nil /\ WellRouted(o.was)
              /\ \A i \in ShardIds \ o.made : d.shards[i] = Before(o).shards[i]
          BY <1>2, <2>2, <3>8 DEF DrainOK
        <4>2. \A i \in ShardIds : Before(o).shards[i] = Nil
          BY <4>1, EmptyDir DEF Before, Base, WellRouted
        <4>3. \A i \in ShardIds : sh[i] = Nil
          BY <3>4, <4>1, <4>2
        <4> QED BY <3>5, <3>6, <3>8, <4>3 DEF WellRouted
      <3>9. CASE ~ o.copied
        BY <2>2, <3>4, <3>5, <3>6, <3>7, <3>9 DEF WellRouted
      <3> QED BY <3>8, <3>9
    <2> QED BY <2>1, <2>2
  <1> HIDE DEF u
  <1>4. ChangesOnly(o.dst) /\ root'[o.dst] = u
    BY <1>1, <1>2, <1>3, Own DEF ChangesOnly, Shapes
  <1>5. Moves(p, Idle, handle[p])
    BY <1>1, Own, IdleJob DEF Moves, Return
  <1>6. Apart'
    BY <1>5, IdleJob, ApartEnds
  <1>7. handle[p] # Nil => root'[handle[p].root] # Nil /\ root'[handle[p].root].man = handle[p].n
    BY <1>2, <1>4, Own, DirFields DEF ChangesOnly
  <1> QED BY <1>2, <1>3, <1>4, <1>5, <1>6, <1>7, IdleJob, StepKeeps

-----------------------------------------------------------------------------
(* The steps of a join.                                                    *)

\* A join or a split that goes on, or ends, and changes only its destination.
LEMMA FillStep ==
    ASSUME ShardsInv, NEW p \in Procs, Reader(task[p]), NEW j \in Tasks,
           j.op = task[p].op, j.dst = task[p].dst, j.from = task[p].from,
           task' = [task EXCEPT ![p] = j], handle' = handle, drained' = drained,
           ChangesOnly(task[p].dst), task[p].dst \in Roots => WellRouted(root'[task[p].dst]),
           JobOK(j, handle[p], root', env')
    PROVE  ShardsInv'
  <1>1. Moves(p, j, handle[p])
    BY Own DEF Moves
  <1>2. Filler(task[p])
    BY DEF Filler, Reader
  <1>3. Apart'
    BY <1>1, <1>2, ApartGoesOn
  <1>4. Free(p, task[p].dst) /\ (handle[p] # Nil => handle[p].root # task[p].dst)
    BY <1>2, Own, OwnPlace
  <1>5. handle[p] # Nil => root'[handle[p].root] # Nil /\ root'[handle[p].root].man = handle[p].n
    BY <1>4, Own, DirFields DEF ChangesOnly
  <1> QED BY <1>1, <1>3, <1>4, <1>5, StepKeeps

LEMMA FillEnds ==
    ASSUME ShardsInv, NEW p \in Procs, Reader(task[p]), Return(p), handle' = handle, drained' = drained,
           ChangesOnly(task[p].dst), task[p].dst \in Roots => WellRouted(root'[task[p].dst])
    PROVE  ShardsInv'
  <1>1. Moves(p, Idle, handle[p])
    BY Own, IdleJob DEF Moves, Return
  <1>2. Filler(task[p])
    BY DEF Filler, Reader
  <1>3. Apart'
    BY <1>1, IdleJob, ApartEnds
  <1>4. Free(p, task[p].dst) /\ (handle[p] # Nil => handle[p].root # task[p].dst)
    BY <1>2, Own, OwnPlace
  <1>5. handle[p] # Nil => root'[handle[p].root] # Nil /\ root'[handle[p].root].man = handle[p].n
    BY <1>4, Own, DirFields DEF ChangesOnly
  <1> QED BY <1>1, <1>3, <1>4, <1>5, IdleJob, StepKeeps

\* What FlattenSeq makes of one part or two.
LEMMA FlattenTwo ==
    /\ \A s : Len(s) = 1 => FlattenSeq(s) = s[1]
    /\ \A s : Len(s) = 2 => FlattenSeq(s) = s[1] \o s[2]
  <1> SUFFICES ASSUME NEW s, Len(s) = 1 \/ Len(s) = 2
               PROVE  /\ Len(s) = 1 => FlattenSeq(s) = s[1]
                      /\ Len(s) = 2 => FlattenSeq(s) = s[1] \o s[2]
    BY Zenon
  <1> DEFINE n == Len(s)
             F(f) == [i \in 1 .. n |-> IF i = 1 THEN s[i] ELSE f[i - 1] \o s[i]]
             flat == CHOOSE f : f = F(f)
             g == [i \in 1 .. n |-> IF i = 1 THEN s[1] ELSE s[1] \o s[2]]
  <1>1. FlattenSeq(s) = flat[n]
    <2>1. Len(s) # 0
      OBVIOUS
    <2>2. FlattenSeq(s) = IF Len(s) = 0 THEN s ELSE flat[n]
      BY Zenon DEF FlattenSeq
    <2> HIDE DEF flat
    <2> QED BY <2>1, <2>2
  <1> HIDE DEF n
  <1>a. n \in {1, 2} /\ 1 \in 1 .. n /\ \A i \in 1 .. n : i # 1 => i = 2 /\ i - 1 = 1
    <2>1. n = 1 \/ n = 2
      BY DEF n
    <2> HIDE DEF n
    <2>2. CASE n = 1
      BY <2>2
    <2>3. CASE n = 2
      BY <2>3
    <2> QED BY <2>1, <2>2, <2>3
  <1>2. g = F(g)
    <2>1. g[1] = s[1]
      BY <1>a
    <2> HIDE DEF g
    <2>2. F(g) = [i \in 1 .. n |-> IF i = 1 THEN s[1] ELSE s[1] \o s[2]]
      <3>1. \A i \in 1 .. n : (IF i = 1 THEN s[i] ELSE g[i - 1] \o s[i]) = IF i = 1 THEN s[1] ELSE s[1] \o s[2]
        BY <1>a, <2>1
      <3> QED BY <3>1
    <2> QED BY <2>2 DEF g
  <1>3. flat = F(flat)
    <2> HIDE DEF F, g
    <2> QED BY <1>2
  <1> HIDE DEF flat, g
  <1>4. \A i \in 1 .. n : flat[i] = IF i = 1 THEN s[i] ELSE flat[i - 1] \o s[i]
    <2> DEFINE f0 == F(flat)
    <2>1. \A i \in 1 .. n : f0[i] = IF i = 1 THEN s[i] ELSE flat[i - 1] \o s[i]
      OBVIOUS
    <2> QED BY <1>3, <2>1
  <1>5. flat[1] = s[1]
    BY <1>a, <1>4
  <1>6. n = 2 => flat[2] = flat[1] \o s[2]
    <2> SUFFICES ASSUME n = 2
                 PROVE  flat[2] = flat[1] \o s[2]
      OBVIOUS
    <2>1. 2 \in 1 .. n
      OBVIOUS
    <2>2. flat[2] = IF 2 = 1 THEN s[2] ELSE flat[2 - 1] \o s[2]
      BY <1>4, <2>1
    <2>3. 2 # 1 /\ 2 - 1 = 1
      OBVIOUS
    <2> QED BY <2>2, <2>3
  <1> QED BY <1>1, <1>5, <1>6, <1>a DEF n

\* Corpora that hold all of the given places, and are parts of them.
PartsOK(parts, from) ==
    /\ parts \in Seq((Roots \cup Envs) \X Nat)
    /\ \A i \in DOMAIN parts :
          parts[i][1] \in from /\ (parts[i][1] \in Roots => parts[i][2] \in ShardIds)
    /\ \A a \in from : \A row \in PlaceRows(root, env, a) :
          \E i \in DOMAIN parts : row \in PartRows(root, env, parts[i])

LEMMA PartsOfPlace ==
    ASSUME Shapes, Routed, NEW a \in Roots \cup Envs, a \in Roots => HasManifest(a)
    PROVE  PartsOK(Parts(a), {a})
  <1>1. CASE a \in Envs
    <2>1. Parts(a) = <<<<a, 0>>>>
      BY <1>1 DEF Parts
    <2>2. <<a, 0>> \in (Roots \cup Envs) \X Nat /\ a \notin Roots
      BY <1>1, ShardsAssumption
    <2>3. PlaceRows(root, env, a) = PartRows(root, env, <<a, 0>>)
      BY <1>1 DEF PlaceRows, PartRows
    <2>4. /\ Parts(a) \in Seq((Roots \cup Envs) \X Nat) /\ DOMAIN Parts(a) = {1}
          /\ Parts(a)[1] = <<a, 0>>
      BY <2>1, <2>2
    <2>5. <<a, 0>>[1] = a
      OBVIOUS
    <2> QED BY <2>2, <2>3, <2>4, <2>5 DEF PartsOK
  <1>2. CASE a \notin Envs
    <2> DEFINE n == root[a].man
    <2>1. /\ a \in Roots /\ root[a] # Nil /\ root[a] \in Dirs /\ n \in Counts /\ n # Nil
          /\ WellRouted(root[a])
      BY <1>2, DirFields DEF HasManifest, Shapes, Routed
    <2>2. n \in Nat /\ 0 .. n - 1 \subseteq ShardIds /\ ShardIds \subseteq Nat
      BY <2>1, ShardRange
    <2>3. Parts(a) = [i \in 1 .. n |-> <<a, i - 1>>]
      BY <1>2 DEF Parts
    <2> HIDE DEF n
    <2>4. \A i \in 1 .. n : i - 1 \in 0 .. n - 1 /\ i - 1 \in Nat
      BY <2>2
    <2>5. /\ Parts(a) \in Seq((Roots \cup Envs) \X Nat) /\ DOMAIN Parts(a) = 1 .. n
          /\ \A i \in 1 .. n : Parts(a)[i] = <<a, i - 1>>
      <3>1. \A i \in 1 .. n : <<a, i - 1>> \in (Roots \cup Envs) \X Nat
        BY <2>1, <2>4
      <3> QED BY <2>2, <2>3, <3>1
    <2>6. \A i \in 1 .. n : Parts(a)[i][1] = a /\ Parts(a)[i][2] = i - 1
      BY <2>5
    <2>7. ASSUME NEW row \in PlaceRows(root, env, a)
          PROVE  \E i \in DOMAIN Parts(a) : row \in PartRows(root, env, Parts(a)[i])
      <3>1. PlaceRows(root, env, a) = DirRows(root[a])
        BY <1>2 DEF PlaceRows
      <3>2. PICK k \in ShardIds : row \in RowsIn(root[a], k)
        BY <2>1, <2>7, <3>1, RowsInType
      <3>3. root[a].shards[k] # Nil /\ k < n /\ k \in Nat
        BY <2>1, <2>2, <3>2, RoutedRow DEF n
      <3>4. k + 1 \in 1 .. n /\ (k + 1) - 1 = k
        BY <2>2, <3>3
      <3>5. Parts(a)[k + 1] = <<a, k>>
        BY <2>5, <3>4
      <3>6. PartRows(root, env, <<a, k>>) = RowsIn(root[a], k)
        BY <1>2 DEF PartRows
      <3> QED BY <2>5, <3>2, <3>4, <3>5, <3>6
    <2>8. \A i \in DOMAIN Parts(a) :
             Parts(a)[i][1] \in {a} /\ (Parts(a)[i][1] \in Roots => Parts(a)[i][2] \in ShardIds)
      BY <2>2, <2>4, <2>5, <2>6
    <2> QED BY <2>5, <2>7, <2>8 DEF PartsOK
  <1> QED BY <1>1, <1>2

LEMMA PartsOfTwo ==
    ASSUME NEW s, NEW t, NEW f, NEW g, PartsOK(s, f), PartsOK(t, g)
    PROVE  PartsOK(s \o t, f \cup g)
  <1> DEFINE u == s \o t
  <1>1. s \in Seq((Roots \cup Envs) \X Nat) /\ t \in Seq((Roots \cup Envs) \X Nat)
    BY DEF PartsOK
  <1>2. /\ u \in Seq((Roots \cup Envs) \X Nat) /\ Len(u) = Len(s) + Len(t)
        /\ \A i \in 1 .. Len(s) + Len(t) : u[i] = IF i <= Len(s) THEN s[i] ELSE t[i - Len(s)]
    BY <1>1, ConcatProperties
  <1>3. /\ DOMAIN s = 1 .. Len(s) /\ DOMAIN t = 1 .. Len(t) /\ DOMAIN u = 1 .. Len(s) + Len(t)
        /\ Len(s) \in Nat /\ Len(t) \in Nat
    BY <1>1, <1>2
  <1> HIDE DEF u
  <1>4. \A i \in DOMAIN s : i \in DOMAIN u /\ u[i] = s[i]
    BY <1>2, <1>3
  <1>5. \A i \in DOMAIN t : Len(s) + i \in DOMAIN u /\ u[Len(s) + i] = t[i]
    <2> SUFFICES ASSUME NEW i \in DOMAIN t
                 PROVE  Len(s) + i \in DOMAIN u /\ u[Len(s) + i] = t[i]
      OBVIOUS
    <2>1. Len(s) + i \in 1 .. Len(s) + Len(t) /\ ~ (Len(s) + i <= Len(s)) /\ (Len(s) + i) - Len(s) = i
      BY <1>3
    <2> QED BY <1>2, <1>3, <2>1
  <1>6. \A i \in DOMAIN u : (i \in DOMAIN s /\ u[i] = s[i]) \/ (i - Len(s) \in DOMAIN t /\ u[i] = t[i - Len(s)])
    <2> SUFFICES ASSUME NEW i \in DOMAIN u
                 PROVE  (i \in DOMAIN s /\ u[i] = s[i]) \/ (i - Len(s) \in DOMAIN t /\ u[i] = t[i - Len(s)])
      OBVIOUS
    <2>1. CASE i <= Len(s)
      <3>1. i \in 1 .. Len(s)
        BY <1>3, <2>1
      <3> QED BY <1>3, <1>4, <3>1
    <2>2. CASE ~ (i <= Len(s))
      <3>1. i - Len(s) \in 1 .. Len(t) /\ i \in 1 .. Len(s) + Len(t)
        BY <1>3, <2>2
      <3> QED BY <1>2, <1>3, <2>2, <3>1
    <2> QED BY <2>1, <2>2
  <1>7. \A i \in DOMAIN u : u[i][1] \in f \cup g /\ (u[i][1] \in Roots => u[i][2] \in ShardIds)
    <2>1. \A i \in DOMAIN s : s[i][1] \in f /\ (s[i][1] \in Roots => s[i][2] \in ShardIds)
      BY DEF PartsOK
    <2>2. \A i \in DOMAIN t : t[i][1] \in g /\ (t[i][1] \in Roots => t[i][2] \in ShardIds)
      BY DEF PartsOK
    <2> SUFFICES ASSUME NEW i \in DOMAIN u
                 PROVE  u[i][1] \in f \cup g /\ (u[i][1] \in Roots => u[i][2] \in ShardIds)
      OBVIOUS
    <2>3. CASE i \in DOMAIN s /\ u[i] = s[i]
      BY <2>1, <2>3
    <2>4. CASE i - Len(s) \in DOMAIN t /\ u[i] = t[i - Len(s)]
      BY <2>2, <2>4
    <2> QED BY <1>6, <2>3, <2>4
  <1>8. ASSUME NEW a \in f \cup g, NEW row \in PlaceRows(root, env, a)
        PROVE  \E i \in DOMAIN u : row \in PartRows(root, env, u[i])
    <2>1. CASE a \in f
      <3>1. PICK i \in DOMAIN s : row \in PartRows(root, env, s[i])
        BY <1>8, <2>1 DEF PartsOK
      <3> QED BY <1>4, <3>1
    <2>2. CASE a \in g
      <3>1. PICK i \in DOMAIN t : row \in PartRows(root, env, t[i])
        BY <1>8, <2>2 DEF PartsOK
      <3> QED BY <1>5, <3>1
    <2> QED BY <1>8, <2>1, <2>2
  <1> QED BY <1>2, <1>7, <1>8 DEF PartsOK, u

LEMMA JoinBeginKeeps ==
    ASSUME ShardsInv, Exclusive, NEW p \in Procs, NEW src \in Sources, NEW dst \in Envs,
           JoinBegin(p, src, dst)
    PROVE  ShardsInv'
  <1> DEFINE from  == {src[i] : i \in DOMAIN src}
             parts == FlattenSeq([i \in DOMAIN src |-> Parts(src[i])])
             all   == UNION {Contents(a) : a \in from}
             j == [op |-> "join", at |-> "open", from |-> from, dst |-> dst,
                   todo |-> parts, seen |-> {}, before |-> all]
  <1>1. /\ task[p] = Idle /\ env[dst] = Nil
        /\ \A a \in from : IF a \in Roots THEN HasManifest(a) ELSE env[a] # Nil
        /\ MayFill(dst) /\ \A a \in from : MayUse(a)
        /\ task' = [task EXCEPT ![p] = j]
        /\ root' = root /\ env' = env /\ handle' = handle /\ drained' = drained
    BY DEF JoinBegin, Become
  <1>2. Shapes /\ Routed
    BY Own
  <1>3. from \subseteq Roots \cup Envs /\ PartsOK(parts, from)
    <2>1. CASE \E a \in Roots \cup Envs : src = <<a>>
      <3>1. PICK a \in Roots \cup Envs : src = <<a>>
        BY <2>1
      <3>2. from = {a} /\ DOMAIN src = {1} /\ src[1] = a
        BY <3>1
      <3> DEFINE s == [i \in DOMAIN src |-> Parts(src[i])]
      <3>3. Len(s) = 1 /\ s[1] = Parts(a)
        BY <3>1
      <3>4. parts = Parts(a)
        <4> HIDE DEF s
        <4>1. FlattenSeq(s) = s[1]
          BY Zenon, <3>3, FlattenTwo
        <4> QED BY <3>3, <4>1 DEF s
      <3>5. PartsOK(Parts(a), {a})
        BY <1>1, <1>2, <3>2, PartsOfPlace
      <3> QED BY <3>2, <3>4, <3>5
    <2>2. CASE \E a, b \in Roots \cup Envs : src = <<a, b>>
      <3>1. PICK a \in Roots \cup Envs, b \in Roots \cup Envs : src = <<a, b>>
        BY <2>2
      <3>2. from = {a, b} /\ DOMAIN src = {1, 2} /\ src[1] = a /\ src[2] = b
        BY <3>1
      <3> DEFINE s == [i \in DOMAIN src |-> Parts(src[i])]
      <3>3. Len(s) = 2 /\ s[1] = Parts(a) /\ s[2] = Parts(b)
        BY <3>1
      <3>4. parts = Parts(a) \o Parts(b)
        <4> HIDE DEF s
        <4>1. FlattenSeq(s) = s[1] \o s[2]
          BY Zenon, <3>3, FlattenTwo
        <4> QED BY <3>3, <4>1 DEF s
      <3>5. PartsOK(Parts(a), {a}) /\ PartsOK(Parts(b), {b})
        BY <1>1, <1>2, <3>2, PartsOfPlace
      <3>6. PartsOK(Parts(a) \o Parts(b), {a} \cup {b})
        BY <3>5, PartsOfTwo
      <3>7. {a} \cup {b} = {a, b}
        OBVIOUS
      <3> QED BY <3>2, <3>4, <3>6, <3>7
    <2> QED BY <2>1, <2>2 DEF Sources
  <1>4. \A a \in from : Contents(a) = PlaceRows(root, env, a) /\ Contents(a) \subseteq Rows
    <2> SUFFICES ASSUME NEW a \in from
                 PROVE  Contents(a) = PlaceRows(root, env, a) /\ Contents(a) \subseteq Rows
      OBVIOUS
    <2>1. a \in Roots \cup Envs /\ Contents(a) = PlaceRows(root, env, a)
      BY <1>2, <1>3, PlacesHold
    <2>2. CASE a \in Envs
      BY <2>1, <2>2, Own DEF PlaceRows
    <2>3. CASE a \notin Envs
      BY <2>1, <2>3, Own, RowsInType DEF PlaceRows
    <2> QED BY <2>1, <2>2, <2>3
  <1> HIDE DEF parts, from
  <1>5. all \in SUBSET Rows
    BY <1>4
  <1>6. all \subseteq UNION {PartRows(root, env, parts[i]) : i \in DOMAIN parts}
    <2> SUFFICES ASSUME NEW a \in from, NEW row \in Contents(a)
                 PROVE  \E i \in DOMAIN parts : row \in PartRows(root, env, parts[i])
      OBVIOUS
    <2> QED BY <1>3, <1>4 DEF PartsOK
  <1> HIDE DEF all
  <1>7. j \in Joins
    BY <1>3, <1>5 DEF Joins, PartsOK
  <1>8. /\ j.op = "join" /\ j.at = "open" /\ j.from = from /\ j.dst = dst /\ j.todo = parts
        /\ j.before = all
    OBVIOUS
  <1> HIDE DEF j
  <1>9. JoinOK(j, root, env)
    <2>1. \A a \in from : IF a \in Roots THEN root[a] # Nil /\ root[a].man # Nil ELSE env[a] # Nil
      BY <1>1 DEF HasManifest
    <2> QED BY <1>1, <1>3, <1>6, <1>8, <2>1 DEF JoinOK, PartsOK
  <1>10. Filler(j) /\ Reader(j) /\ j \in Tasks
    BY <1>7, <1>8 DEF Filler, Reader, Tasks
  <1>11. dst \notin from
    BY <1>1, ShardsAssumption
  <1>12. Moves(p, j, handle[p])
    BY <1>1, <1>10, Own DEF Moves
  <1>13. Apart'
    BY <1>1, <1>8, <1>10, <1>11, <1>12, ApartBegins
  <1>14. JobOK(j, handle[p], root, env)
    BY <1>8, <1>9 DEF JobOK
  <1> QED BY <1>1, <1>12, <1>13, <1>14, Own, DirFields, ReadStep

JoinAt(s, a)    == [s EXCEPT !.at = a]
JoinTo(s, t, n) == [s EXCEPT !.todo = t, !.seen = n]

LEMMA JoinAtFields ==
    ASSUME NEW s \in Joins, NEW a \in {"open", "copy", "undo"}
    PROVE  LET s2 == JoinAt(s, a)
           IN  /\ s2 \in Joins /\ s2.op = "join" /\ s2.at = a /\ s2.from = s.from
               /\ s2.dst = s.dst /\ s2.todo = s.todo /\ s2.before = s.before
  BY DEF Joins, JoinAt

LEMMA JoinToFields ==
    ASSUME NEW s \in Joins, NEW t \in Seq((Roots \cup Envs) \X Nat), NEW n \in SUBSET Trajs
    PROVE  LET s2 == JoinTo(s, t, n)
           IN  /\ s2 \in Joins /\ s2.op = "join" /\ s2.at = s.at /\ s2.from = s.from
               /\ s2.dst = s.dst /\ s2.todo = t /\ s2.before = s.before
  BY DEF Joins, JoinTo

\* What a join knows when it is in the middle of its work.
LEMMA JoinOwn ==
    ASSUME ShardsInv, NEW p \in Procs, task[p].op = "join"
    PROVE  LET o == task[p] IN
           /\ o \in Joins /\ o.at \in {"open", "copy", "undo"} /\ o.dst \in Envs /\ o.dst \notin Roots
           /\ o.from \subseteq Roots \cup Envs /\ o.dst \notin o.from
           /\ o.todo \in Seq((Roots \cup Envs) \X Nat) /\ o.seen \subseteq Trajs
           /\ JoinOK(o, root, env) /\ Reader(o)
  <1> DEFINE o == task[p]
  <1>1. o \in Tasks /\ Apart /\ JobOK(o, handle[p], root, env)
    BY Own
  <1>2. o \in Joins
    BY <1>1 DEF Tasks, Idle, Opens, Selects, Drains, Splits
  <1>3. Filler(o) /\ Reader(o)
    BY DEF Filler, Reader
  <1>4. o.dst \notin o.from
    BY <1>1, <1>3, OwnPlace
  <1>5. JoinOK(o, root, env)
    BY <1>1 DEF JobOK
  <1> QED BY <1>1, <1>2, <1>3, <1>4, <1>5, TaskFields, ShardsAssumption

\* The sources are as they were when only the destination changes.
LEMMA SourcesStay ==
    ASSUME ShardsInv, NEW p \in Procs, task[p].op = "join", root' = root,
           \A e \in Envs : e # task[p].dst => env'[e] = env[e]
    PROVE  /\ \A a \in task[p].from : PlaceRows(root, env', a) = PlaceRows(root, env, a)
           /\ \A a \in task[p].from : IF a \in Roots THEN root[a] # Nil /\ root[a].man # Nil ELSE env'[a] # Nil
           /\ \A i \in DOMAIN task[p].todo :
                 /\ task[p].todo[i][1] \in task[p].from
                 /\ task[p].todo[i][1] \in Roots => task[p].todo[i][2] \in ShardIds
                 /\ PartRows(root, env', task[p].todo[i]) = PartRows(root, env, task[p].todo[i])
  <1> DEFINE o == task[p]
  <1>1. /\ o.from \subseteq Roots \cup Envs /\ o.dst \notin o.from /\ JoinOK(o, root, env)
        /\ \A a \in Roots : a \notin Envs
    BY JoinOwn, ShardsAssumption
  <1>2. \A a \in o.from : a \in Envs => env'[a] = env[a]
    BY <1>1
  <1>3. /\ \A a \in o.from : IF a \in Roots THEN root[a] # Nil /\ root[a].man # Nil ELSE env[a] # Nil
        /\ \A i \in DOMAIN o.todo :
              o.todo[i][1] \in o.from /\ (o.todo[i][1] \in Roots => o.todo[i][2] \in ShardIds)
    BY <1>1 DEF JoinOK
  <1>4. \A a \in o.from : IF a \in Roots THEN root[a] # Nil /\ root[a].man # Nil ELSE env'[a] # Nil
    BY <1>1, <1>2, <1>3
  <1>5. \A a \in o.from : PlaceRows(root, env', a) = PlaceRows(root, env, a)
    BY <1>2 DEF PlaceRows
  <1>6. \A i \in DOMAIN o.todo : PartRows(root, env', o.todo[i]) = PartRows(root, env, o.todo[i])
    BY <1>2, <1>3 DEF PartRows
  <1> QED BY <1>3, <1>4, <1>5, <1>6

LEMMA JoinOpenKeeps ==
    ASSUME ShardsInv, NEW p \in Procs, JoinOpen(p)
    PROVE  ShardsInv'
  <1> DEFINE o == task[p]
             j == JoinAt(o, "copy")
  <1>1. /\ o.op = "join" /\ o.at = "open" /\ task' = [task EXCEPT ![p] = j]
        /\ env' = IF env[o.dst] = Nil THEN [env EXCEPT ![o.dst] = {}] ELSE env
        /\ root' = root /\ handle' = handle /\ drained' = drained
    BY DEF JoinOpen, Become, JoinAt
  <1>2. /\ o \in Joins /\ o.dst \in Envs /\ o.dst \notin Roots /\ JoinOK(o, root, env) /\ Reader(o)
    BY <1>1, JoinOwn
  <1>3. /\ env[o.dst] = Nil
        /\ o.before \subseteq UNION {PartRows(root, env, o.todo[i]) : i \in DOMAIN o.todo}
    BY <1>1, <1>2 DEF JoinOK
  <1>4. env \in [Envs -> (SUBSET Rows) \cup {Nil}] /\ root \in [Roots -> Dirs \cup {Nil}]
    BY Own DEF Shapes
  <1>5. /\ env' \in [Envs -> (SUBSET Rows) \cup {Nil}] /\ env'[o.dst] = {}
        /\ \A e \in Envs : e # o.dst => env'[e] = env[e]
    BY <1>1, <1>2, <1>3, <1>4
  <1>6. ChangesOnly(o.dst)
    BY <1>1, <1>4, <1>5 DEF ChangesOnly
  <1>7. /\ j \in Joins /\ j.op = "join" /\ j.at = "copy" /\ j.from = o.from
        /\ j.dst = o.dst /\ j.todo = o.todo /\ j.before = o.before
    BY <1>2, JoinAtFields
  <1>8. {} # Nil
    BY ShardsNilAssumption
  <1>9. /\ \A a \in o.from : IF a \in Roots THEN root[a] # Nil /\ root[a].man # Nil ELSE env'[a] # Nil
        /\ \A i \in DOMAIN o.todo :
              /\ o.todo[i][1] \in o.from /\ (o.todo[i][1] \in Roots => o.todo[i][2] \in ShardIds)
              /\ PartRows(root, env', o.todo[i]) = PartRows(root, env, o.todo[i])
    BY <1>1, <1>5, SourcesStay
  <1> HIDE DEF j, o
  <1>10. o.before \subseteq UNION {PartRows(root, env', o.todo[i]) : i \in DOMAIN o.todo}
    BY <1>3, <1>9
  <1>11. JoinOK(j, root, env')
    BY <1>5, <1>7, <1>8, <1>9, <1>10 DEF JoinOK
  <1>12. j \in Tasks /\ JobOK(j, handle[p], root', env')
    BY <1>1, <1>7, <1>11 DEF Tasks, JobOK
  <1> QED BY <1>1, <1>2, <1>6, <1>7, <1>12, FillStep DEF o

LEMMA JoinCopyKeeps ==
    ASSUME ShardsInv, NEW p \in Procs, JoinCopy(p)
    PROVE  ShardsInv'
  <1> DEFINE o == task[p]
             part == Head(o.todo)
             rows == RowsOf(part)
             now  == Contents(o.dst) \cup rows
  <1>1. /\ o.op = "join" /\ o.at = "copy" /\ o.todo # <<>>
        /\ root' = root /\ handle' = handle /\ drained' = drained
    BY DEF JoinCopy
  <1>2. /\ o \in Joins /\ o.dst \in Envs /\ o.dst \notin Roots /\ JoinOK(o, root, env) /\ Reader(o)
        /\ o.todo \in Seq((Roots \cup Envs) \X Nat) /\ o.seen \subseteq Trajs
        /\ o.from \subseteq Roots \cup Envs
    BY <1>1, JoinOwn
  <1>3. /\ env[o.dst] # Nil
        /\ o.before \subseteq env[o.dst] \cup UNION {PartRows(root, env, o.todo[i]) : i \in DOMAIN o.todo}
        /\ env[o.dst] \subseteq UNION {PlaceRows(root, env, a) : a \in o.from}
        /\ \A a \in o.from : IF a \in Roots THEN root[a] # Nil /\ root[a].man # Nil ELSE env[a] # Nil
        /\ \A i \in DOMAIN o.todo :
              o.todo[i][1] \in o.from /\ (o.todo[i][1] \in Roots => o.todo[i][2] \in ShardIds)
    BY <1>1, <1>2 DEF JoinOK
  <1>4. /\ Shapes /\ env \in [Envs -> (SUBSET Rows) \cup {Nil}] /\ root \in [Roots -> Dirs \cup {Nil}]
    BY Own DEF Shapes
  <1>5. 1 \in DOMAIN o.todo /\ part = o.todo[1] /\ part \in (Roots \cup Envs) \X Nat
    BY <1>1, <1>2
  <1>6. rows = PartRows(root, env, part) /\ Contents(o.dst) = env[o.dst]
    BY <1>2, <1>3, <1>4, <1>5, PlacesHold DEF PlaceRows
  <1>7. rows \subseteq PlaceRows(root, env, part[1]) /\ part[1] \in o.from /\ rows \subseteq Rows
    <2>1. part[1] \in o.from /\ (part[1] \in Roots => part[2] \in ShardIds) /\ part[1] \in Roots \cup Envs
      BY <1>2, <1>3, <1>5
    <2>2. CASE part[1] \in Envs
      <3>1. env[part[1]] \in (SUBSET Rows) \cup {Nil}
        BY <1>4, <2>2
      <3> QED BY <1>6, <2>1, <2>2, <3>1 DEF PartRows, PlaceRows
    <2>3. CASE part[1] \notin Envs
      <3>1. part[1] \in Roots /\ part[2] \in ShardIds /\ root[part[1]] \in Dirs \cup {Nil}
        BY <1>4, <2>1, <2>3
      <3>2. rows = RowsIn(root[part[1]], part[2]) /\ PlaceRows(root, env, part[1]) = DirRows(root[part[1]])
        BY <1>6, <2>3 DEF PartRows, PlaceRows
      <3> HIDE DEF rows
      <3>3. rows \subseteq DirRows(root[part[1]]) /\ rows \subseteq Rows
        BY <3>1, <3>2, RowsInType
      <3> QED BY <2>1, <3>2, <3>3
    <2> QED BY <2>2, <2>3
  <1>8. Ids(rows) \subseteq Trajs
    BY <1>7 DEF Ids, Rows
  <1> HIDE DEF rows
  <1>9. CASE Ids(rows) \cap o.seen # {}
    <2> DEFINE j == JoinAt(o, "undo")
    <2>1. task' = [task EXCEPT ![p] = j] /\ env' = env
      BY <1>9 DEF JoinCopy, Become, JoinAt, rows
    <2>2. /\ j \in Joins /\ j.op = "join" /\ j.at = "undo" /\ j.from = o.from
          /\ j.dst = o.dst /\ j.todo = o.todo
      BY <1>2, JoinAtFields
    <2> HIDE DEF j
    <2>3. JoinOK(j, root, env)
      BY <1>3, <2>2 DEF JoinOK
    <2>4. j \in Tasks /\ JobOK(j, handle[p], root', env')
      BY <1>1, <2>1, <2>2, <2>3 DEF Tasks, JobOK
    <2>5. ChangesOnly(o.dst)
      BY <1>1, <1>4, <2>1 DEF ChangesOnly
    <2> QED BY <1>1, <1>2, <2>1, <2>2, <2>4, <2>5, FillStep
  <1>10. CASE Ids(rows) \cap o.seen = {}
    <2> DEFINE left == Tail(o.todo)
               seen == o.seen \cup Ids(rows)
               j == JoinTo(o, left, seen)
    <2>1. task' = [task EXCEPT ![p] = j] /\ env' = [env EXCEPT ![o.dst] = now]
      BY <1>10 DEF JoinCopy, Become, JoinTo, After, rows
    <2>2. left \in Seq((Roots \cup Envs) \X Nat) /\ seen \in SUBSET Trajs
      BY <1>1, <1>2, <1>8
    <2>3. /\ j \in Joins /\ j.op = "join" /\ j.at = "copy" /\ j.from = o.from
          /\ j.dst = o.dst /\ j.todo = left /\ j.before = o.before
      <3>1. /\ j \in Joins /\ j.op = "join" /\ j.at = o.at /\ j.from = o.from
            /\ j.dst = o.dst /\ j.todo = left /\ j.before = o.before
        <4>1. o \in Joins
          BY <1>2
        <4> HIDE DEF left, seen, o
        <4> QED BY <2>2, <4>1, JoinToFields
      <3> QED BY <1>1, <3>1
    <2>4. /\ \A i \in DOMAIN left : i + 1 \in DOMAIN o.todo /\ left[i] = o.todo[i + 1]
          /\ \A i \in DOMAIN o.todo : i # 1 => i - 1 \in DOMAIN left /\ left[i - 1] = o.todo[i]
      <3>1. Len(o.todo) \in Nat /\ Len(o.todo) # 0 /\ Len(left) = Len(o.todo) - 1
        BY <1>1, <1>2
      <3>2. DOMAIN o.todo = 1 .. Len(o.todo) /\ DOMAIN left = 1 .. Len(o.todo) - 1
        BY <1>2, <2>2, <3>1
      <3>3. \A i \in 1 .. Len(o.todo) - 1 : left[i] = o.todo[i + 1]
        BY <1>1, <1>2, <3>1
      <3> HIDE DEF left
      <3>4. \A i \in DOMAIN left : i + 1 \in DOMAIN o.todo
        BY <3>1, <3>2
      <3>5. \A i \in DOMAIN o.todo : i # 1 => i - 1 \in DOMAIN left /\ (i - 1) + 1 = i
        BY <3>1, <3>2
      <3> QED BY <3>2, <3>3, <3>4, <3>5
    <2> HIDE DEF j, left, seen
    <2>5. now \in SUBSET Rows /\ now = env[o.dst] \cup rows /\ now # Nil
      <3>1. env[o.dst] \in SUBSET Rows
        BY <1>2, <1>3, <1>4
      <3> QED BY <1>6, <1>7, <3>1, ShardsNilAssumption
    <2> HIDE DEF now
    <2>6. /\ env' \in [Envs -> (SUBSET Rows) \cup {Nil}] /\ env'[o.dst] = now
          /\ \A e \in Envs : e # o.dst => env'[e] = env[e]
      BY <1>2, <1>4, <2>1, <2>5
    <2>7. ChangesOnly(o.dst)
      BY <1>1, <1>4, <2>6 DEF ChangesOnly
    <2>8. /\ \A a \in o.from : PlaceRows(root, env', a) = PlaceRows(root, env, a)
          /\ \A a \in o.from : IF a \in Roots THEN root[a] # Nil /\ root[a].man # Nil ELSE env'[a] # Nil
          /\ \A i \in DOMAIN o.todo : PartRows(root, env', o.todo[i]) = PartRows(root, env, o.todo[i])
      BY <1>1, <2>6, SourcesStay
    <2>9. o.before \subseteq now \cup UNION {PartRows(root, env', left[i]) : i \in DOMAIN left}
      <3> SUFFICES ASSUME NEW row \in o.before, row \notin now
                   PROVE  \E i \in DOMAIN left : row \in PartRows(root, env', left[i])
        OBVIOUS
      <3>1. PICK i \in DOMAIN o.todo : row \in PartRows(root, env, o.todo[i])
        BY <1>3, <2>5
      <3>2. i # 1
        BY <1>5, <1>6, <2>5, <3>1
      <3>3. i - 1 \in DOMAIN left /\ left[i - 1] = o.todo[i]
        BY <2>4, <3>2
      <3>4. row \in PartRows(root, env', o.todo[i])
        BY <2>8, <3>1
      <3> QED BY <3>3, <3>4
    <2>10. now \subseteq UNION {PlaceRows(root, env', a) : a \in o.from}
      <3> SUFFICES ASSUME NEW row \in now
                   PROVE  \E a \in o.from : row \in PlaceRows(root, env', a)
        OBVIOUS
      <3>1. CASE row \in env[o.dst]
        BY <1>3, <2>8, <3>1
      <3>2. CASE row \in rows
        BY <1>7, <2>8, <3>2
      <3> QED BY <2>5, <3>1, <3>2
    <2>11. \A i \in DOMAIN left : left[i][1] \in o.from /\ (left[i][1] \in Roots => left[i][2] \in ShardIds)
      BY <1>3, <2>4
    <2>12. JoinOK(j, root, env')
      BY <2>3, <2>5, <2>6, <2>8, <2>9, <2>10, <2>11 DEF JoinOK
    <2>13. j \in Tasks /\ JobOK(j, handle[p], root', env')
      BY <1>1, <2>3, <2>12 DEF Tasks, JobOK
    <2> QED BY <1>1, <1>2, <2>1, <2>3, <2>7, <2>13, FillStep
  <1> QED BY <1>9, <1>10

LEMMA JoinEndKeeps ==
    ASSUME ShardsInv, NEW p \in Procs, JoinEnd(p)
    PROVE  ShardsInv'
  BY Own, EndStep DEF JoinEnd

LEMMA JoinUndoKeeps ==
    ASSUME ShardsInv, NEW p \in Procs, JoinUndo(p)
    PROVE  ShardsInv'
  <1> DEFINE o == task[p]
  <1>1. /\ o.op = "join" /\ Return(p) /\ env' = [env EXCEPT ![o.dst] = Nil]
        /\ root' = root /\ handle' = handle /\ drained' = drained
    BY DEF JoinUndo
  <1>2. o.dst \in Envs /\ o.dst \notin Roots /\ Reader(o)
    BY <1>1, JoinOwn
  <1>3. ChangesOnly(o.dst)
    BY <1>1, Own DEF ChangesOnly, Shapes
  <1> QED BY <1>1, <1>2, <1>3, FillEnds

-----------------------------------------------------------------------------
(* The steps of a split; failures and crashes.                             *)

SplitLists(s, a, t) == [s EXCEPT !.at = a, !.todo = t]
SplitAt(s, a)       == [s EXCEPT !.at = a]
SplitTakes(s, t)    == [s EXCEPT !.todo = t]

SameSplit(s, s2) ==
    /\ s2 \in Splits /\ s2.op = "split" /\ s2.from = s.from /\ s2.src = s.src /\ s2.dst = s.dst
    /\ s2.n = s.n /\ s2.before = s.before

LEMMA SplitFields ==
    ASSUME NEW s \in Splits, NEW a \in {"open", "copy", "undo"}, NEW t \in SUBSET Rows
    PROVE  /\ SameSplit(s, SplitLists(s, a, t)) /\ SplitLists(s, a, t).at = a /\ SplitLists(s, a, t).todo = t
           /\ SameSplit(s, SplitAt(s, a)) /\ SplitAt(s, a).at = a /\ SplitAt(s, a).todo = s.todo
           /\ SameSplit(s, SplitTakes(s, t)) /\ SplitTakes(s, t).at = s.at /\ SplitTakes(s, t).todo = t
  <1>1. SameSplit(s, SplitLists(s, a, t)) /\ SplitLists(s, a, t).at = a /\ SplitLists(s, a, t).todo = t
    BY DEF Splits, SplitLists, SameSplit
  <1>2. SameSplit(s, SplitAt(s, a)) /\ SplitAt(s, a).at = a /\ SplitAt(s, a).todo = s.todo
    BY DEF Splits, SplitAt, SameSplit
  <1>3. SameSplit(s, SplitTakes(s, t)) /\ SplitTakes(s, t).at = s.at /\ SplitTakes(s, t).todo = t
    BY DEF Splits, SplitTakes, SameSplit
  <1> QED BY <1>1, <1>2, <1>3

\* What a split knows when it is in the middle of its work.
LEMMA SplitOwn ==
    ASSUME ShardsInv, NEW p \in Procs, task[p].op = "split"
    PROVE  LET o == task[p] IN
           /\ o \in Splits /\ o.at \in {"open", "copy", "undo"} /\ o.src \in Envs /\ o.dst \in Roots
           /\ o.n \in Counts /\ o.todo \subseteq Rows /\ o.before \subseteq Rows
           /\ root[o.dst] \in Dirs \cup {Nil} /\ WellRouted(root[o.dst])
           /\ SplitOK(o, root[o.dst], env[o.src]) /\ Reader(o)
  <1> DEFINE o == task[p]
  <1>1. o \in Tasks /\ JobOK(o, handle[p], root, env)
    BY Own
  <1>2. o \in Splits
    BY <1>1 DEF Tasks, Idle, Opens, Selects, Drains, Joins
  <1>3. SplitOK(o, root[o.dst], env[o.src]) /\ Reader(o)
    BY <1>1 DEF JobOK, Reader
  <1> QED BY <1>1, <1>2, <1>3, TaskFields, Own

LEMMA SplitStep ==
    ASSUME ShardsInv, NEW p \in Procs, task[p].op = "split", NEW j, SameSplit(task[p], j),
           task' = [task EXCEPT ![p] = j], env' = env, handle' = handle, drained' = drained,
           root' \in [Roots -> Dirs \cup {Nil}],
           \A r \in Roots : r # task[p].dst => root'[r] = root[r],
           WellRouted(root'[task[p].dst]), SplitOK(j, root'[j.dst], env[j.src])
    PROVE  ShardsInv'
  <1>1. /\ j \in Tasks /\ j.op = "split" /\ j.from = task[p].from /\ j.dst = task[p].dst
        /\ j.src = task[p].src
    BY DEF SameSplit, Tasks
  <1>2. ChangesOnly(task[p].dst)
    BY Own DEF ChangesOnly, Shapes
  <1>3. JobOK(j, handle[p], root', env')
    BY <1>1 DEF JobOK
  <1> QED BY <1>1, <1>2, <1>3, SplitOwn, FillStep

LEMMA SplitBeginKeeps ==
    ASSUME ShardsInv, Exclusive, NEW p \in Procs, NEW src \in Envs, NEW dst \in Roots, NEW n \in Counts,
           SplitBegin(p, src, dst, n)
    PROVE  ShardsInv'
  <1> DEFINE j == [op |-> "split", at |-> "open", from |-> {src}, src |-> src, dst |-> dst,
                   n |-> n, todo |-> {}, before |-> env[src]]
  <1>1. /\ task[p] = Idle /\ env[src] # Nil /\ root[dst] = Nil /\ MayUse(src) /\ MayFill(dst)
        /\ task' = [task EXCEPT ![p] = j]
        /\ root' = root /\ env' = env /\ handle' = handle /\ drained' = drained
    BY DEF SplitBegin, Become
  <1>2. env[src] \in SUBSET Rows
    BY <1>1, Own
  <1>3. j \in Splits
    BY <1>2 DEF Splits
  <1>4. /\ j.op = "split" /\ j.at = "open" /\ j.from = {src} /\ j.src = src /\ j.dst = dst
        /\ j.before = env[src]
    OBVIOUS
  <1> HIDE DEF j
  <1>5. Filler(j) /\ Reader(j) /\ j \in Tasks
    BY <1>3, <1>4 DEF Filler, Reader, Tasks
  <1>6. Moves(p, j, handle[p])
    BY <1>1, <1>5, Own DEF Moves
  <1>7. dst # src
    BY ShardsAssumption
  <1>8. Apart'
    BY <1>1, <1>4, <1>5, <1>6, <1>7, ApartBegins
  <1>9. JobOK(j, handle[p], root, env)
    BY <1>1, <1>4 DEF JobOK, SplitOK
  <1> QED BY <1>1, <1>6, <1>8, <1>9, Own, DirFields, ReadStep

LEMMA SplitOpenKeeps ==
    ASSUME ShardsInv, NEW p \in Procs, SplitOpen(p)
    PROVE  ShardsInv'
  <1> DEFINE o == task[p]
             e == root'[o.dst]
             list == RowsOf(<<o.src, 0>>)
             j == SplitLists(o, "copy", list)
  <1>1. /\ o.op = "split" /\ o.at = "open" /\ root' = WithManifest(o.dst, o.n)
        /\ task' = [task EXCEPT ![p] = j]
        /\ env' = env /\ handle' = handle /\ drained' = drained
    BY DEF SplitOpen, Become, SplitLists
  <1>2. /\ o \in Splits /\ o.src \in Envs /\ o.dst \in Roots /\ o.n \in Counts
        /\ o.before \subseteq Rows /\ SplitOK(o, root[o.dst], env[o.src])
    BY <1>1, SplitOwn
  <1>3. root[o.dst] = Nil /\ env[o.src] = o.before /\ o.from = {o.src}
    BY <1>1, <1>2 DEF SplitOK
  <1>4. Shapes
    BY Own
  <1>5. list = o.before
    <2>1. <<o.src, 0>> \in (Roots \cup Envs) \X Nat /\ <<o.src, 0>>[1] = o.src
      BY <1>2
    <2>2. env[o.src] # Nil
      BY <1>2, <1>3, ShardsNilAssumption
    <2>3. PartRows(root, env, <<o.src, 0>>) = env[o.src]
      BY <1>2, <2>1, <2>2 DEF PartRows
    <2> QED BY <1>3, <1>4, <2>1, <2>3, PlacesHold
  <1> HIDE DEF list, e
  <1>6. /\ root' \in [Roots -> Dirs \cup {Nil}] /\ \A r \in Roots : r # o.dst => root'[r] = root[r]
        /\ e \in Dirs /\ e # Nil /\ e.man = o.n
        /\ \A k \in ShardIds : e.shards[k] = Empty.shards[k]
    BY <1>1, <1>2, <1>3, <1>4, WithManifestFacts DEF Base, e
  <1>7. \A k \in ShardIds : e.shards[k] = Nil
    BY <1>6, EmptyDir
  <1>8. WellRouted(e) /\ DirRows(e) = {}
    <2>1. WellRouted(e)
      BY <1>2, <1>6, <1>7, ShardRange DEF WellRouted
    <2>2. \A k \in ShardIds : RowsIn(e, k) = {}
      BY <1>6, <1>7 DEF RowsIn
    <2> QED BY <2>1, <2>2 DEF DirRows
  <1>9. SameSplit(o, j) /\ j.at = "copy" /\ j.todo = list
    <2>1. list \in SUBSET Rows /\ o \in Splits
      BY <1>2, <1>5
    <2> HIDE DEF o
    <2> QED BY <2>1, SplitFields
  <1> HIDE DEF j
  <1>10. /\ j.from = o.from /\ j.src = o.src /\ j.dst = o.dst /\ j.n = o.n /\ j.before = o.before
    BY <1>9 DEF SameSplit
  <1>11. SplitOK(j, e, env[o.src])
    BY <1>3, <1>5, <1>6, <1>8, <1>9, <1>10 DEF SplitOK
  <1> QED BY <1>1, <1>6, <1>8, <1>9, <1>10, <1>11, SplitStep DEF e

LEMMA SplitCopyKeeps ==
    ASSUME ShardsInv, NEW p \in Procs, SplitCopy(p)
    PROVE  ShardsInv'
  <1> DEFINE o == task[p]
             d == root[o.dst]
             e == root'[o.dst]
  <1>1. /\ o.op = "split" /\ o.at = "copy"
        /\ env' = env /\ handle' = handle /\ drained' = drained
    BY DEF SplitCopy
  <1>2. PICK row \in o.todo :
           LET i == ShardForTraj(row[1], o.n)
           IN  /\ root' = WithShard(o.dst, i, RowsOf(<<o.dst, i>>) \cup {row})
               /\ task' = [task EXCEPT ![p] = SplitTakes(o, o.todo \ {row})]
    BY DEF SplitCopy, Become, SplitTakes
  <1> DEFINE i == ShardForTraj(row[1], o.n)
             rows == RowsOf(<<o.dst, i>>)
             j == SplitTakes(o, o.todo \ {row})
  <1>3. /\ o \in Splits /\ o.src \in Envs /\ o.dst \in Roots /\ o.n \in Counts
        /\ o.todo \subseteq Rows /\ o.before \subseteq Rows
        /\ d \in Dirs \cup {Nil} /\ WellRouted(d) /\ SplitOK(o, d, env[o.src])
    BY <1>1, SplitOwn
  <1>4. /\ o.from = {o.src} /\ env[o.src] = o.before /\ d # Nil /\ d.man = o.n
        /\ DirRows(d) \cup o.todo = o.before
    BY <1>1, <1>3 DEF SplitOK
  <1>5. row \in Rows /\ row[1] \in Trajs
    BY <1>3 DEF Rows
  <1>6. /\ o.n \in Nat /\ o.n # Nil /\ i \in 0 .. o.n - 1 /\ i \in ShardIds /\ i \in Nat
        /\ d \in Dirs /\ Base(d) = d /\ Shapes
    BY <1>3, <1>4, <1>5, ShardRange, EmptyDir, Own
  <1>7. rows = RowsIn(d, i)
    <2>1. <<o.dst, i>> \in (Roots \cup Envs) \X Nat /\ <<o.dst, i>>[1] = o.dst /\ <<o.dst, i>>[2] = i
      BY <1>3, <1>6
    <2>2. PartRows(root, env, <<o.dst, i>>) = RowsIn(d, i)
      BY <1>3, <2>1, ShardsAssumption DEF PartRows
    <2> QED BY <1>6, <2>1, <2>2, PlacesHold
  <1>8. rows \cup {row} \in SUBSET Rows
    BY <1>3, <1>5, <1>6, <1>7, RowsInType
  <1> DEFINE more == rows \cup {row}
  <1>9. root' = WithShard(o.dst, i, more) /\ task' = [task EXCEPT ![p] = j]
    BY <1>2
  <1>10. \A x \in more : ShardForTraj(x[1], o.n) = i
    <2> SUFFICES ASSUME NEW x \in more
                 PROVE  ShardForTraj(x[1], o.n) = i
      OBVIOUS
    <2>1. CASE x \in rows
      BY <1>3, <1>4, <1>6, <1>7, <2>1, RoutedRow
    <2>2. CASE x = row
      BY <2>2
    <2> QED BY <2>1, <2>2
  <1>11. \A x : x \in more <=> x \in RowsIn(d, i) \/ x = row
    BY <1>7
  <1> HIDE DEF i, rows, more, e, j
  <1>12. /\ root' \in [Roots -> Dirs \cup {Nil}] /\ \A r \in Roots : r # o.dst => root'[r] = root[r]
         /\ e \in Dirs /\ e # Nil /\ e.man = o.n /\ e.shards[i] = more /\ more # Nil
         /\ \A k \in ShardIds : k # i => e.shards[k] = d.shards[k]
    <2>1. more \in SUBSET Rows
      BY <1>8 DEF more
    <2> QED BY <1>3, <1>4, <1>6, <1>9, <2>1, WithShardFacts DEF e
  <1>13. WellRouted(e)
    <2>1. \A k \in ShardIds : d.shards[k] # Nil =>
              k < o.n /\ \A x \in d.shards[k] : ShardForTraj(x[1], o.n) = k
      BY <1>3, <1>4, <1>6 DEF WellRouted
    <2>2. i < o.n
      BY <1>6
    <2>3. \A k \in ShardIds : e.shards[k] # Nil =>
              k < o.n /\ \A x \in e.shards[k] : ShardForTraj(x[1], o.n) = k
      BY <1>10, <1>12, <2>1, <2>2
    <2> QED BY <1>6, <1>12, <2>3 DEF WellRouted
  <1>14. DirRows(e) = DirRows(d) \cup {row}
    <2>1. RowsIn(e, i) = more
      BY <1>12 DEF RowsIn
    <2>2. \A k \in ShardIds : k # i => RowsIn(e, k) = RowsIn(d, k)
      BY <1>4, <1>12 DEF RowsIn
    <2>3. \A x : x \in DirRows(e) <=> \E k \in ShardIds : x \in RowsIn(e, k)
      BY DEF DirRows
    <2>4. \A x : x \in DirRows(d) <=> \E k \in ShardIds : x \in RowsIn(d, k)
      BY DEF DirRows
    <2> HIDE DEF d
    <2>5. \A x : x \in DirRows(e) <=> x \in DirRows(d) \/ x = row
      BY <1>6, <1>11, <2>1, <2>2, <2>3, <2>4
    <2> QED BY <2>5
  <1>15. SameSplit(o, j) /\ j.at = "copy" /\ j.todo = o.todo \ {row}
    <2>1. o.todo \ {row} \in SUBSET Rows /\ o \in Splits
      BY <1>3
    <2>2. SameSplit(o, j) /\ j.at = o.at /\ j.todo = o.todo \ {row}
      <3> HIDE DEF o
      <3> QED BY <2>1, SplitFields DEF j
    <2> QED BY <1>1, <2>2
  <1>16. /\ j.from = o.from /\ j.src = o.src /\ j.dst = o.dst /\ j.n = o.n /\ j.before = o.before
    BY <1>15 DEF SameSplit
  <1>17. DirRows(e) \cup j.todo = o.before
    BY <1>4, <1>14, <1>15
  <1>18. SplitOK(j, e, env[o.src])
    BY <1>4, <1>12, <1>15, <1>16, <1>17 DEF SplitOK
  <1> QED BY <1>1, <1>9, <1>12, <1>13, <1>15, <1>16, <1>18, SplitStep DEF e

LEMMA SplitEndKeeps ==
    ASSUME ShardsInv, NEW p \in Procs, SplitEnd(p)
    PROVE  ShardsInv'
  BY Own, EndStep DEF SplitEnd

LEMMA SplitUndoKeeps ==
    ASSUME ShardsInv, NEW p \in Procs, SplitUndo(p)
    PROVE  ShardsInv'
  <1> DEFINE o == task[p]
  <1>1. /\ o.op = "split" /\ Return(p) /\ root' = [root EXCEPT ![o.dst] = Nil]
        /\ env' = env /\ handle' = handle /\ drained' = drained
    BY DEF SplitUndo
  <1>2. o.dst \in Roots /\ Reader(o)
    BY <1>1, SplitOwn
  <1>3. ChangesOnly(o.dst) /\ root'[o.dst] = Nil
    BY <1>1, <1>2, Own DEF ChangesOnly, Shapes
  <1>4. WellRouted(root'[o.dst])
    BY <1>3 DEF WellRouted
  <1> QED BY <1>1, <1>2, <1>3, <1>4, FillEnds

LEMMA OtherFailKeeps ==
    ASSUME ShardsInv, NEW p \in Procs, Fail(p), task[p].op \in {"join", "split"}
    PROVE  ShardsInv'
  <1> DEFINE o == task[p]
             j == [o EXCEPT !.at = "undo"]
  <1>1. /\ task' = [task EXCEPT ![p] = j]
        /\ root' = root /\ env' = env /\ handle' = handle /\ drained' = drained
    BY DEF Fail, Become
  <1>2. Reader(o)
    BY DEF Reader
  <1>3. root \in [Roots -> Dirs \cup {Nil}] /\ \A r \in Roots : WellRouted(root[r])
    BY Own DEF Shapes
  <1>4. ChangesOnly(o.dst)
    BY <1>1, Own DEF ChangesOnly, Shapes
  <1>5. CASE o.op = "join"
    <2>1. o \in Joins /\ JoinOK(o, root, env)
      BY <1>5, JoinOwn
    <2>2. /\ j \in Joins /\ j.op = "join" /\ j.at = "undo" /\ j.from = o.from /\ j.dst = o.dst
          /\ j.todo = o.todo
      BY <2>1, JoinAtFields DEF JoinAt
    <2> HIDE DEF j
    <2>3. JoinOK(j, root, env)
      BY <2>1, <2>2 DEF JoinOK
    <2>4. j \in Tasks /\ JobOK(j, handle[p], root', env')
      BY <1>1, <2>2, <2>3 DEF Tasks, JobOK
    <2> QED BY <1>1, <1>2, <1>3, <1>4, <1>5, <2>2, <2>4, FillStep
  <1>6. CASE o.op = "split"
    <2>1. o \in Splits /\ o.dst \in Roots /\ SplitOK(o, root[o.dst], env[o.src]) /\ {} \in SUBSET Rows
      BY <1>6, SplitOwn
    <2>2. SameSplit(o, j) /\ j.at = "undo"
      BY <2>1, SplitFields DEF SplitAt
    <2> HIDE DEF j
    <2>3. SplitOK(j, root[j.dst], env[j.src])
      BY <2>1, <2>2 DEF SplitOK, SameSplit
    <2> QED BY <1>1, <1>3, <1>6, <2>1, <2>2, <2>3, SplitStep
  <1> QED BY <1>5, <1>6

LEMMA CrashKeeps ==
    ASSUME ShardsInv, NEW p \in Procs, Crash(p)
    PROVE  ShardsInv'
  BY Own, EndStep DEF Crash

-----------------------------------------------------------------------------
(* The invariant of every reachable state.                                 *)

LEMMA InitOK == Init => ShardsInv
  <1> SUFFICES ASSUME Init
               PROVE  ShardsInv
    OBVIOUS
  <1>1. \A p \in Procs : task[p] = Idle /\ handle[p] = Nil
    BY DEF Init
  <1>2. \A r \in Roots : root[r] = Nil
    BY DEF Init
  <1>3. Shapes
    BY IdleJob DEF Init, Shapes
  <1>4. Apart
    BY <1>1, IdleJob DEF Apart
  <1>5. Routed
    BY <1>2 DEF Routed, WellRouted
  <1>6. HandlesTrue
    BY <1>1 DEF HandlesTrue
  <1>7. JobsOK
    BY <1>1, IdleJob DEF JobsOK
  <1> QED BY <1>3, <1>4, <1>5, <1>6, <1>7 DEF ShardsInv

LEMMA StepOK == Exclusive /\ ShardsInv /\ [Next]_vars => ShardsInv'
  <1> SUFFICES ASSUME Exclusive, ShardsInv, [Next]_vars
               PROVE  ShardsInv'
    OBVIOUS
  <1>1. CASE UNCHANGED vars
    BY <1>1 DEF vars, ShardsInv, Shapes, Apart, Routed, HandlesTrue, JobsOK
  <1>2. CASE Next
    <2> PICK p \in Procs : Step(p)
      BY <1>2 DEF Next
    <2>1. ASSUME NEW r \in Roots, OpenFound(p, r) PROVE ShardsInv'
      BY <2>1, OpenFoundKeeps
    <2>2. ASSUME NEW r \in Roots, NEW n \in Counts, OpenMissing(p, r, n) PROVE ShardsInv'
      BY <2>2, OpenMissingKeeps
    <2>3. CASE WriteManifest(p)
      BY <2>3, WriteManifestKeeps
    <2>4. CASE CloseRoot(p)
      BY <2>4, CloseRootKeeps
    <2>5. ASSUME NEW t \in Trajs, AppendTrajectory(p, t) PROVE ShardsInv'
      BY <2>5, AppendKeeps
    <2>6. ASSUME NEW limit \in Limits, SelectBegin(p, limit) PROVE ShardsInv'
      BY <2>6, SelectBeginKeeps
    <2>7. CASE SelectShard(p)
      BY <2>7, SelectShardKeeps
    <2>8. CASE SelectEnd(p)
      BY <2>8, SelectEndKeeps
    <2>9. ASSUME NEW src \in Roots, NEW dst \in Roots, DrainBegin(p, src, dst) PROVE ShardsInv'
      BY <2>9, DrainBeginKeeps
    <2>10. CASE DrainCheck(p)
      BY <2>10, DrainCheckKeeps
    <2>11. CASE DrainManifest(p)
      BY <2>11, DrainManifestKeeps
    <2>12. CASE DrainCopy(p)
      BY <2>12, DrainCopyKeeps
    <2>13. CASE DrainEnd(p)
      BY <2>13, DrainEndKeeps
    <2>14. CASE DrainUndo(p)
      BY <2>14, DrainUndoKeeps
    <2>15. ASSUME NEW src \in Sources, NEW dst \in Envs, JoinBegin(p, src, dst) PROVE ShardsInv'
      BY <2>15, JoinBeginKeeps
    <2>16. CASE JoinOpen(p)
      BY <2>16, JoinOpenKeeps
    <2>17. CASE JoinCopy(p)
      BY <2>17, JoinCopyKeeps
    <2>18. CASE JoinEnd(p)
      BY <2>18, JoinEndKeeps
    <2>19. CASE JoinUndo(p)
      BY <2>19, JoinUndoKeeps
    <2>20. ASSUME NEW src \in Envs, NEW dst \in Roots, NEW n \in Counts, SplitBegin(p, src, dst, n)
           PROVE  ShardsInv'
      BY <2>20, SplitBeginKeeps
    <2>21. CASE SplitOpen(p)
      BY <2>21, SplitOpenKeeps
    <2>22. CASE SplitCopy(p)
      BY <2>22, SplitCopyKeeps
    <2>23. CASE SplitEnd(p)
      BY <2>23, SplitEndKeeps
    <2>24. CASE SplitUndo(p)
      BY <2>24, SplitUndoKeeps
    <2>25. CASE Fail(p)
      <3>1. task[p].op \in {"drain", "join", "split"}
        BY <2>25 DEF Fail
      <3> QED BY <2>25, <3>1, DrainFailKeeps, OtherFailKeeps
    <2>26. CASE Crash(p)
      BY <2>26, CrashKeeps
    <2> QED BY <2>1, <2>2, <2>3, <2>4, <2>5, <2>6, <2>7, <2>8, <2>9, <2>10, <2>11, <2>12, <2>13,
               <2>14, <2>15, <2>16, <2>17, <2>18, <2>19, <2>20, <2>21, <2>22, <2>23, <2>24,
               <2>25, <2>26 DEF Step
  <1> QED BY <1>1, <1>2

\* Every writer has directories of its own, and what each task knows of the
\* places it works on is true, in every reachable state.
THEOREM ShardsStayApart == Exclusive => (Spec => []ShardsInv)
  <1> SUFFICES ASSUME Exclusive
               PROVE  Spec => []ShardsInv
    OBVIOUS
  <1>1. ShardsInv /\ [Next]_vars => ShardsInv'
    BY StepOK
  <1> QED BY <1>1, InitOK, PTL DEF Spec

\* Whoever has a root open finds every trajectory of it where its own shard
\* count leads.
THEOREM HandlesFind == Exclusive => (Spec => []EveryHandleFinds)
  <1>1. ShardsInv => EveryHandleFinds
    <2> SUFFICES ASSUME ShardsInv, NEW p \in Procs, handle[p] # Nil,
                        NEW t \in Ids(Contents(handle[p].root))
                 PROVE  Finds(handle[p], t)
      BY DEF EveryHandleFinds
    <2> DEFINE h == handle[p]
               d == root[h.root]
    <2>1. /\ h.root \in Roots /\ h.n \in Counts /\ d \in Dirs /\ d.man = h.n /\ d # Nil /\ h.n # Nil
          /\ WellRouted(d) /\ Shapes
      BY Own, DirFields, ShardRange
    <2>2. Contents(h.root) = DirRows(d)
      BY <2>1, PlacesHold
    <2>3. PICK row \in DirRows(d) : t = row[1]
      BY <2>2 DEF Ids
    <2>4. PICK k \in ShardIds : row \in RowsIn(d, k)
      BY <2>1, <2>3, RowsInType
    <2>5. k = ShardForTraj(t, h.n) /\ d.shards[k] # Nil
      BY <2>1, <2>3, <2>4, RoutedRow
    <2>6. Shard(h.root, k) = d.shards[k] /\ row \in d.shards[k]
      BY <2>1, <2>4 DEF Shard, RowsIn
    <2>7. t \in Ids(d.shards[k])
      BY <2>3, <2>6 DEF Ids
    <2> QED BY <2>5, <2>6, <2>7 DEF Finds
  <1> QED BY <1>1, ShardsStayApart, PTL

\* A join or a split that succeeds has copied all that was in its sources when
\* it began, and nothing that is not in them.
THEOREM CopiesStayWhole == Exclusive => (Spec => []CopiesAreWhole)
  <1>1. ShardsInv => CopiesAreWhole
    <2> SUFFICES ASSUME ShardsInv, NEW p \in Procs
                 PROVE  LET j == task[p]
                        IN  /\ j.op = "join" /\ j.at = "copy" /\ j.todo = <<>> =>
                                  /\ j.before \subseteq Contents(j.dst)
                                  /\ Contents(j.dst) \subseteq UNION {Contents(a) : a \in j.from}
                            /\ j.op = "split" /\ j.at = "copy" /\ j.todo = {} =>
                                  Contents(j.dst) = j.before
      BY DEF CopiesAreWhole
    <2> DEFINE j == task[p]
    <2>1. Shapes
      BY Own
    <2>2. ASSUME j.op = "join", j.at = "copy", j.todo = <<>>
          PROVE  /\ j.before \subseteq Contents(j.dst)
                 /\ Contents(j.dst) \subseteq UNION {Contents(a) : a \in j.from}
      <3>1. j.dst \in Envs /\ j.from \subseteq Roots \cup Envs /\ JoinOK(j, root, env)
        BY <2>2, JoinOwn
      <3>2. DOMAIN j.todo = {}
        BY <2>2
      <3>3. /\ env[j.dst] # Nil
            /\ j.before \subseteq env[j.dst] \cup UNION {PartRows(root, env, j.todo[i]) : i \in DOMAIN j.todo}
            /\ env[j.dst] \subseteq UNION {PlaceRows(root, env, a) : a \in j.from}
        BY <2>2, <3>1 DEF JoinOK
      <3>4. Contents(j.dst) = env[j.dst]
        BY <2>1, <3>1, <3>3, PlacesHold DEF PlaceRows
      <3>5. \A a \in j.from : Contents(a) = PlaceRows(root, env, a)
        BY <2>1, <3>1, PlacesHold
      <3> HIDE DEF j
      <3> QED BY <3>2, <3>3, <3>4, <3>5
    <2>3. ASSUME j.op = "split", j.at = "copy", j.todo = {}
          PROVE  Contents(j.dst) = j.before
      <3>1. j.dst \in Roots /\ SplitOK(j, root[j.dst], env[j.src])
        BY <2>3, SplitOwn
      <3> QED BY <2>1, <2>3, <3>1, PlacesHold DEF SplitOK
    <2> QED BY <2>2, <2>3
  <1> QED BY <1>1, ShardsStayApart, PTL

-----------------------------------------------------------------------------
(* A selection: the lowest keys of the lowest keys of each shard.          *)

LEMMA LeastNumber ==
    ASSUME NEW T \in SUBSET Nat, T # {}
    PROVE  \E x \in T : \A y \in T : x <= y
  <1> DEFINE R == {ss \in Nat \X Nat : ss[1] < ss[2]}
  <1>1. IsWellFoundedOn(R, Nat)
    BY NatLessThanWellFounded DEF OpToRel
  <1>2. \A x \in Nat, y \in Nat : y < x => <<y, x>> \in R
    OBVIOUS
  <1> HIDE DEF R
  <1>3. PICK x \in T : \A y \in T : ~ (<<y, x>> \in R)
    BY <1>1, WFMin
  <1>4. ASSUME NEW y \in T
        PROVE  x <= y
    <2>1. x \in Nat /\ y \in Nat /\ ~ (y < x)
      BY <1>2, <1>3
    <2> QED BY <2>1
  <1> QED BY <1>4

\* The members of a set that are below t, and how many they are.
LEMMA BelowFacts ==
    ASSUME NEW S \in SUBSET Nat, NEW t \in Nat
    PROVE  /\ IsFiniteSet({u \in S : u < t}) /\ Cardinality({u \in S : u < t}) \in Nat
           /\ \A T \in SUBSET {u \in S : u < t} : IsFiniteSet(T) /\ Cardinality(T) \in Nat
                                                   /\ Cardinality(T) <= Cardinality({u \in S : u < t})
  <1> DEFINE B == {u \in S : u < t}
  <1>1. IsFiniteSet(0 .. t)
    BY FS_Interval
  <1>2. B \in SUBSET (0 .. t)
    <2> SUFFICES ASSUME NEW u \in B
                 PROVE  u \in 0 .. t
      OBVIOUS
    <2>1. u \in Nat /\ u < t
      OBVIOUS
    <2> HIDE DEF B
    <2> QED BY <2>1
  <1> HIDE DEF B
  <1>3. IsFiniteSet(B) /\ Cardinality(B) \in Nat
    BY <1>1, <1>2, FS_Subset, FS_CardinalityType
  <1>4. \A T \in SUBSET B : IsFiniteSet(T) /\ Cardinality(T) \in Nat /\ Cardinality(T) <= Cardinality(B)
    BY <1>3, FS_Subset, FS_CardinalityType
  <1> QED BY <1>3, <1>4 DEF B

\* No key of the whole is missed: it is among the lowest of its shard. And
\* nothing else comes in, since all that is lower is there too.
LEMMA LowestOfUnion ==
    ASSUME NEW limit \in Nat, NEW all \in SUBSET Nat, NEW out \in SUBSET all,
           \A t \in all : Cardinality({u \in all : u < t}) < limit => t \in out
    PROVE  Lowest(limit, out) = Lowest(limit, all)
  <1> DEFINE Low(S, t) == {u \in S : u < t}
  <1>1. \A t \in all : t \in Nat
    OBVIOUS
  <1>2. ASSUME NEW t \in all
        PROVE  /\ Cardinality(Low(all, t)) \in Nat /\ Cardinality(Low(out, t)) \in Nat
               /\ Cardinality(Low(out, t)) <= Cardinality(Low(all, t))
               /\ \A T \in SUBSET Low(out, t) : Cardinality(T) \in Nat
                                                 /\ Cardinality(T) <= Cardinality(Low(out, t))
    <2>1. t \in Nat /\ out \in SUBSET Nat
      BY <1>1
    <2>2. Low(out, t) \in SUBSET Low(all, t)
      OBVIOUS
    <2>3. /\ Cardinality(Low(all, t)) \in Nat
          /\ \A T \in SUBSET Low(all, t) : Cardinality(T) \in Nat /\ Cardinality(T) <= Cardinality(Low(all, t))
      BY <2>1, BelowFacts
    <2>4. /\ Cardinality(Low(out, t)) \in Nat
          /\ \A T \in SUBSET Low(out, t) : Cardinality(T) \in Nat /\ Cardinality(T) <= Cardinality(Low(out, t))
      BY <2>1, BelowFacts
    <2> HIDE DEF Low
    <2> QED BY <2>2, <2>3, <2>4
  <1>3. ASSUME NEW t \in Lowest(limit, all)
        PROVE  t \in Lowest(limit, out)
    <2>1. t \in all /\ Cardinality(Low(all, t)) < limit
      BY <1>3 DEF Lowest
    <2>2. t \in out
      BY <2>1
    <2>3. Cardinality(Low(out, t)) < limit
      <3> HIDE DEF Low
      <3> QED BY <1>2, <2>1
    <2> QED BY <2>2, <2>3 DEF Lowest
  <1>4. ASSUME NEW t \in Lowest(limit, out)
        PROVE  t \in Lowest(limit, all)
    <2>1. t \in out /\ t \in all /\ t \in Nat /\ Cardinality(Low(out, t)) < limit
      BY <1>4 DEF Lowest
    <2> DEFINE M == Low(all, t) \ out
    <2>2. CASE M = {}
      <3>1. Low(out, t) = Low(all, t)
        BY <2>2
      <3> QED BY <2>1, <3>1 DEF Lowest
    <2>3. CASE M # {}
      <3>1. M \in SUBSET Nat
        OBVIOUS
      <3> HIDE DEF M
      <3>2. PICK u \in M : \A v \in M : u <= v
        BY <2>3, <3>1, LeastNumber
      <3>3. u \in all /\ u \notin out /\ u < t /\ u \in Nat
        BY <1>1, <3>2 DEF M
      <3>4. \A v \in Low(all, u) : v \in out /\ v < t
        <4> SUFFICES ASSUME NEW v \in Low(all, u)
                     PROVE  v \in out /\ v < t
          OBVIOUS
        <4>1. v \in all /\ v \in Nat /\ v < u
          BY <1>1
        <4>2. v < t /\ ~ (u <= v)
          BY <2>1, <3>3, <4>1
        <4>3. v \notin M
          BY <3>2, <4>2
        <4> QED BY <4>1, <4>2, <4>3 DEF M
      <3>5. Low(all, u) \in SUBSET Low(out, t)
        BY <3>4
      <3>6. Cardinality(Low(all, u)) \in Nat /\ Cardinality(Low(out, t)) \in Nat
            /\ Cardinality(Low(all, u)) <= Cardinality(Low(out, t))
        <4> HIDE DEF Low
        <4> QED BY <1>2, <2>1, <3>3, <3>5
      <3>7. Cardinality(Low(all, u)) < limit
        <4> HIDE DEF Low
        <4> QED BY <2>1, <3>6
      <3> QED BY <3>3, <3>7
    <2> QED BY <2>2, <2>3
  <1> QED BY <1>3, <1>4

\* A selection is what one corpus with all the frames would have answered,
\* unless frames came in meanwhile.
THEOREM SelectStaysGlobal == Exclusive => (Spec => []SelectIsGlobal)
  <1>1. ShardsInv => SelectIsGlobal
    <2> SUFFICES ASSUME ShardsInv, NEW p \in Procs, task[p].op = "select",
                        task[p].next = handle[p].n, task[p].before = Contents(handle[p].root)
                 PROVE  SelectKeys(p) = Lowest(task[p].limit, Ids(task[p].before))
      BY DEF SelectIsGlobal
    <2> DEFINE j == task[p]
               h == handle[p]
               d == root[h.root]
    <2>1. /\ j \in Tasks /\ Shapes /\ h # Nil /\ SelectOK(j, h.n, d)
      BY Own DEF JobOK
    <2>2. /\ j.limit \in Nat /\ j.out \subseteq Trajs /\ j.before \subseteq Rows
          /\ h.root \in Roots /\ h.n \in Counts /\ d \in Dirs /\ d.man = h.n /\ d # Nil
          /\ h.n # Nil /\ h.n \in Nat /\ 0 .. h.n - 1 \subseteq ShardIds
          /\ WellRouted(d)
      BY <2>1, Own, TaskFields, DirFields, ShardRange
    <2>3. j.before = DirRows(d)
      BY <2>1, <2>2, PlacesHold
    <2>4. j.out = UNION {Lowest(j.limit, Ids(RowsIn(d, i))) : i \in 0 .. h.n - 1}
      BY <2>1, <2>3 DEF SelectOK
    <2> DEFINE all == Ids(j.before)
               lim == j.limit
    <2>5. all \in SUBSET Nat
      BY <2>2, ShardsAssumption DEF Ids, Rows
    <2>6. \A i \in ShardIds : Ids(RowsIn(d, i)) \in SUBSET all
      BY <2>3 DEF Ids, DirRows
    <2>7. j.out \in SUBSET all
      <3>1. \A i \in 0 .. h.n - 1 : Lowest(lim, Ids(RowsIn(d, i))) \in SUBSET all
        BY <2>2, <2>6 DEF Lowest
      <3> HIDE DEF all, j
      <3> QED BY <2>4, <3>1
    <2>8. ASSUME NEW t \in all, Cardinality({u \in all : u < t}) < lim
          PROVE  t \in j.out
      <3>1. PICK row \in DirRows(d) : t = row[1]
        BY <2>3, <2>8 DEF Ids
      <3>2. PICK i \in ShardIds : row \in RowsIn(d, i)
        BY <2>2, <3>1, RowsInType
      <3>3. i < h.n /\ i \in 0 .. h.n - 1
        <4>1. i < d.man
          BY <2>2, <3>2, RoutedRow
        <4> QED BY <2>2, <4>1, ShardRange
      <3> DEFINE ids == Ids(RowsIn(d, i))
      <3>4. t \in ids /\ ids \in SUBSET all /\ t \in Nat
        BY <2>5, <2>6, <3>1, <3>2 DEF Ids
      <3> HIDE DEF ids, all
      <3>5. {u \in ids : u < t} \in SUBSET {u \in all : u < t}
        BY <3>4
      <3>6. /\ Cardinality({u \in ids : u < t}) \in Nat /\ Cardinality({u \in all : u < t}) \in Nat
            /\ Cardinality({u \in ids : u < t}) <= Cardinality({u \in all : u < t})
        BY <2>5, <3>4, <3>5, BelowFacts
      <3>7. Cardinality({u \in ids : u < t}) < lim
        BY <2>2, <2>8, <3>6
      <3>8. t \in Lowest(lim, ids)
        BY <3>4, <3>7 DEF Lowest
      <3> QED BY <2>4, <3>3, <3>8 DEF ids
    <2> HIDE DEF all, lim
    <2>9. Lowest(lim, j.out) = Lowest(lim, all)
      BY <2>2, <2>5, <2>7, <2>8, LowestOfUnion DEF lim
    <2> QED BY <2>9 DEF SelectKeys, lim, all
  <1> QED BY <1>1, ShardsStayApart, PTL

-----------------------------------------------------------------------------
(* What was drained stays, and a drain that fails leaves no trace, when    *)
(* nobody appends to a root that is being drained.                         *)

LEMMA UndoneIsWas ==
    ASSUME ShardsInv, Quiet, NEW p \in Procs, task[p].op = "drain"
    PROVE  Undone(task[p]) = task[p].was
  <1> DEFINE o == task[p]
             d == root[o.dst]
             u == Undone(o)
  <1>1. /\ d \in Dirs \cup {Nil} /\ o.was \in Dirs \cup {Nil} /\ o.made \subseteq ShardIds
        /\ DrainOK(o, d, root[o.src])
    BY DrainOwn
  <1>2. (o.new <=> o.was = Nil) /\ (d = Nil => o.was = Nil)
    BY <1>1 DEF DrainOK
  <1>3. CASE o.new \/ d = Nil
    BY <1>2, <1>3 DEF Undone
  <1>4. CASE ~ (o.new \/ d = Nil)
    <2> DEFINE sh == [i \in ShardIds |-> IF i \in o.made THEN Nil ELSE d.shards[i]]
               mn == IF o.copied THEN Nil ELSE d.man
    <2>1. u = [man |-> mn, shards |-> sh]
      BY <1>4 DEF Undone
    <2>2. o.was # Nil /\ o.was \in Dirs /\ Before(o) = o.was
      BY <1>1, <1>2, <1>4, EmptyDir DEF Before, Base
    <2>3. /\ \A i \in ShardIds \ o.made : d.shards[i] = Before(o).shards[i]
          /\ \A i \in o.made : Before(o).shards[i] = Nil
          /\ IF o.copied THEN Before(o).man = Nil ELSE d.man = Before(o).man
      BY <1>1, <1>4 DEF DrainOK
    <2>4. /\ o.was.shards \in [ShardIds -> (SUBSET Rows) \cup {Nil}]
          /\ o.was = [man |-> o.was.man, shards |-> o.was.shards]
      BY <2>2, DirFields
    <2>5. mn = o.was.man
      BY <2>2, <2>3
    <2>6. \A i \in ShardIds : (IF i \in o.made THEN Nil ELSE d.shards[i]) = o.was.shards[i]
      BY <2>2, <2>3
    <2>7. sh = o.was.shards
      <3> DEFINE w == o.was.shards
      <3>1. w = [i \in ShardIds |-> w[i]]
        BY <2>4
      <3>2. sh = [i \in ShardIds |-> w[i]]
        BY <2>6
      <3> QED BY <3>1, <3>2
    <2> HIDE DEF sh, mn, u, o
    <2> QED BY <2>1, <2>4, <2>5, <2>7 DEF u, o
  <1> QED BY <1>3, <1>4

\* A drain that fails leaves the destination as it found it.
THEOREM FailedDrainsLeaveNoTrace == Exclusive /\ Quiet => (Spec => FailedDrainLeavesNoTrace)
  <1> SUFFICES ASSUME Exclusive, Quiet
               PROVE  Spec => FailedDrainLeavesNoTrace
    OBVIOUS
  <1> DEFINE NoTrace == \A p \in Procs : DrainUndo(p) => root'[task[p].dst] = task[p].was
  <1>1. ShardsInv => NoTrace
    <2> SUFFICES ASSUME ShardsInv, NEW p \in Procs, DrainUndo(p)
                 PROVE  root'[task[p].dst] = task[p].was
      OBVIOUS
    <2>1. task[p].op = "drain" /\ root' = [root EXCEPT ![task[p].dst] = Undone(task[p])]
      BY DEF DrainUndo
    <2>2. task[p].dst \in Roots /\ root \in [Roots -> Dirs \cup {Nil}]
      BY <2>1, DrainOwn, Own DEF Shapes
    <2> QED BY <2>1, <2>2, UndoneIsWas
  <1>2. Spec => []ShardsInv
    BY ShardsStayApart
  <1>3. Spec => [][NoTrace]_vars
    BY <1>1, <1>2, PTL
  <1> QED BY <1>3 DEF FailedDrainLeavesNoTrace

\* No root loses a trajectory.
Lasting == \A r \in Roots : DirRows(root[r]) \subseteq DirRows(root'[r])

LEMMA WithShardLasts ==
    ASSUME Shapes, NEW r \in Roots, NEW i \in ShardIds, NEW rows \in SUBSET Rows,
           root' = WithShard(r, i, rows), RowsIn(root[r], i) \subseteq rows
    PROVE  Lasting
  <1>1. /\ \A s \in Roots : s # r => root'[s] = root[s]
        /\ root'[r] # Nil /\ root'[r].shards[i] = rows /\ rows # Nil
        /\ \A k \in ShardIds : k # i => root'[r].shards[k] = Base(root[r]).shards[k]
    BY WithShardFacts
  <1>2. RowsIn(root'[r], i) = rows
    BY <1>1 DEF RowsIn
  <1>3. \A k \in ShardIds : k # i => RowsIn(root[r], k) \subseteq RowsIn(root'[r], k)
    BY <1>1 DEF RowsIn, Base
  <1>4. DirRows(root[r]) \subseteq DirRows(root'[r])
    BY <1>2, <1>3 DEF DirRows
  <1> QED BY <1>1, <1>4 DEF Lasting

LEMMA WithManifestLasts ==
    ASSUME Shapes, NEW r \in Roots, NEW n \in Counts, root' = WithManifest(r, n)
    PROVE  Lasting
  <1>1. /\ \A s \in Roots : s # r => root'[s] = root[s]
        /\ root'[r] # Nil /\ \A k \in ShardIds : root'[r].shards[k] = Base(root[r]).shards[k]
    BY WithManifestFacts
  <1>2. \A k \in ShardIds : RowsIn(root[r], k) \subseteq RowsIn(root'[r], k)
    BY <1>1 DEF RowsIn, Base
  <1>3. DirRows(root[r]) \subseteq DirRows(root'[r])
    BY <1>2 DEF DirRows
  <1> QED BY <1>1, <1>3 DEF Lasting

\* What was drained stays drained, for each thing a process may go on to.
LEMMA KeptStep ==
    ASSUME ShardsInv, Kept, NEW p \in Procs, NEW j, task' = [task EXCEPT ![p] = j], drained' = drained,
           \A t \in drained : t[2] \in DirRows(root'[t[1]]),
           j.op = "drain" =>
               (task[p].op = "drain" /\ j.dst = task[p].dst /\ j.was = task[p].was) \/ j.was = root[j.dst],
           j.op = "split" => (task[p].op = "split" /\ j.dst = task[p].dst) \/ root[j.dst] = Nil
    PROVE  Kept'
  <1>1. task'[p] = j /\ \A q \in Procs \ {p} : task'[q] = task[q]
    BY Own DEF Shapes
  <1> SUFFICES ASSUME NEW t \in drained
               PROVE  KeptAt(t[1], t[2])'
    BY DEF Kept
  <1>2. KeptAt(t[1], t[2])
    BY DEF Kept
  <1> DEFINE r == t[1]
             row == t[2]
  <1>3. /\ row \in DirRows(root[r])
        /\ \A q \in Procs : task[q].op = "drain" /\ task[q].dst = r => row \in DirRows(task[q].was)
        /\ \A q \in Procs : ~ (task[q].op = "split" /\ task[q].dst = r)
    BY <1>2 DEF KeptAt
  <1>4. root[r] # Nil
    <2>1. DirRows(Nil) = {}
      BY DEF DirRows, RowsIn
    <2> QED BY <1>3, <2>1
  <1> HIDE DEF r, row
  <1>5. ASSUME NEW q \in Procs
        PROVE  /\ task'[q].op = "drain" /\ task'[q].dst = r => row \in DirRows(task'[q].was)
               /\ ~ (task'[q].op = "split" /\ task'[q].dst = r)
    <2>1. CASE q # p
      BY <1>1, <1>3, <2>1
    <2>2. CASE q = p
      <3>1. j.op = "drain" /\ j.dst = r => row \in DirRows(j.was)
        BY <1>3
      <3>2. ~ (j.op = "split" /\ j.dst = r)
        BY <1>3, <1>4
      <3> QED BY <1>1, <2>2, <3>1, <3>2
    <2> QED BY <2>1, <2>2
  <1>6. row \in DirRows(root'[r])
    BY DEF r, row
  <1> QED BY <1>5, <1>6 DEF KeptAt, r, row

\* The same when no root loses anything, or when none is touched.
LEMMA KeptLasts ==
    ASSUME ShardsInv, Kept, Lasting
    PROVE  \A t \in drained : t[2] \in DirRows(root'[t[1]])
  <1> SUFFICES ASSUME NEW t \in drained
               PROVE  t[2] \in DirRows(root'[t[1]])
    OBVIOUS
  <1>1. t[1] \in Roots
    BY DEF ShardsInv, Shapes
  <1>2. t[2] \in DirRows(root[t[1]])
    BY DEF Kept, KeptAt
  <1> QED BY <1>1, <1>2 DEF Lasting

LEMMA KeptSame ==
    ASSUME ShardsInv, Kept, root' = root
    PROVE  \A t \in drained : t[2] \in DirRows(root'[t[1]])
  BY KeptLasts DEF Lasting

\* A step that leaves the roots alone and goes on to something else than a
\* drain or a split.
LEMMA KeptOther ==
    ASSUME ShardsInv, Kept, NEW p \in Procs, NEW j, task' = [task EXCEPT ![p] = j], drained' = drained,
           j.op \notin {"drain", "split"}, root' = root
    PROVE  Kept'
  BY KeptSame, KeptStep

LEMMA KeptIdle ==
    ASSUME ShardsInv, Kept, NEW p \in Procs, drained' = drained,
           (task' = task /\ task[p] = Idle) \/ Return(p),
           \A t \in drained : t[2] \in DirRows(root'[t[1]])
    PROVE  Kept'
  <1>1. task' = [task EXCEPT ![p] = Idle]
    BY Own DEF Return
  <1>2. Idle.op = "idle"
    BY DEF Idle
  <1> QED BY <1>1, <1>2, KeptStep

LEMMA OpenKeepsKept ==
    ASSUME ShardsInv, Kept, NEW p \in Procs,
           \/ \E r \in Roots : OpenFound(p, r)
           \/ \E r \in Roots, n \in Counts : OpenMissing(p, r, n)
           \/ WriteManifest(p) \/ CloseRoot(p)
    PROVE  Kept'
  <1>1. ASSUME NEW r \in Roots, OpenFound(p, r)
        PROVE  Kept'
    BY <1>1, KeptSame, KeptIdle DEF OpenFound
  <1>2. ASSUME NEW r \in Roots, NEW n \in Counts, OpenMissing(p, r, n)
        PROVE  Kept'
    <2> DEFINE j == [op |-> "open", dst |-> r, n |-> n]
    <2>1. task' = [task EXCEPT ![p] = j] /\ root' = root /\ drained' = drained
      BY <1>2 DEF OpenMissing, Become
    <2>2. j.op = "open"
      OBVIOUS
    <2> HIDE DEF j
    <2> QED BY <2>1, <2>2, KeptOther
  <1>3. CASE WriteManifest(p)
    <2>1. task[p].op = "open" /\ root' = WithManifest(task[p].dst, task[p].n) /\ Return(p)
          /\ drained' = drained
      BY <1>3 DEF WriteManifest
    <2>2. task[p].dst \in Roots /\ task[p].n \in Counts /\ Shapes
      BY <2>1, Own, TaskFields
    <2> QED BY <2>1, <2>2, WithManifestLasts, KeptLasts, KeptIdle
  <1>4. CASE CloseRoot(p)
    BY <1>4, KeptSame, KeptIdle DEF CloseRoot
  <1> QED BY <1>1, <1>2, <1>3, <1>4

LEMMA AppendKeepsKept ==
    ASSUME ShardsInv, Kept, NEW p \in Procs, NEW t \in Trajs, AppendTrajectory(p, t)
    PROVE  Kept'
  <1> DEFINE r == handle[p].root
             n == handle[p].n
             i == ShardForTraj(t, n)
             rows == IF Shard(r, i) = Nil THEN {} ELSE Shard(r, i)
             more == IF \E row \in rows : row[1] = t THEN rows ELSE rows \cup {<<t, r>>}
  <1>1. /\ task[p] = Idle /\ handle[p] # Nil /\ root' = WithShard(r, i, more)
        /\ task' = task /\ drained' = drained
    BY DEF AppendTrajectory
  <1>2. r \in Roots /\ n \in Counts /\ root[r] \in Dirs /\ root[r] # Nil /\ Shapes
    BY <1>1, Own, DirFields
  <1>3. i \in ShardIds
    BY <1>2, ShardRange
  <1>4. rows = RowsIn(root[r], i) /\ rows \subseteq Rows
    BY <1>2, <1>3, RowsInType DEF Shard, RowsIn
  <1>5. <<t, r>> \in Rows
    BY <1>2 DEF Rows
  <1>6. more \in SUBSET Rows /\ rows \subseteq more
    BY <1>4, <1>5
  <1> HIDE DEF more, rows, i, r
  <1> QED BY <1>1, <1>2, <1>3, <1>4, <1>6, WithShardLasts, KeptLasts, KeptIdle

LEMMA SelectKeepsKept ==
    ASSUME ShardsInv, Kept, NEW p \in Procs,
           \/ \E limit \in Limits : SelectBegin(p, limit)
           \/ SelectShard(p) \/ SelectEnd(p)
    PROVE  Kept'
  <1>1. ASSUME NEW limit \in Limits, SelectBegin(p, limit)
        PROVE  Kept'
    <2> DEFINE j == [op |-> "select", next |-> 0, limit |-> limit, out |-> {},
                     before |-> Contents(handle[p].root)]
    <2>1. task' = [task EXCEPT ![p] = j] /\ root' = root /\ drained' = drained
      BY <1>1 DEF SelectBegin, Become
    <2>2. j.op = "select"
      OBVIOUS
    <2> HIDE DEF j
    <2> QED BY <2>1, <2>2, KeptOther
  <1>2. CASE SelectShard(p)
    <2> DEFINE o == task[p]
               rows == Shard(handle[p].root, o.next)
               got == IF rows = Nil THEN o.out ELSE o.out \cup Lowest(o.limit, Ids(rows))
               j == [o EXCEPT !.next = o.next + 1, !.out = got]
    <2>1. o.op = "select" /\ task' = [task EXCEPT ![p] = j] /\ root' = root /\ drained' = drained
      BY <1>2 DEF SelectShard, Become
    <2>2. o \in Selects
      BY <2>1, Own DEF Tasks, Idle, Opens, Drains, Joins, Splits
    <2>3. j.op = "select"
      BY <2>1, <2>2 DEF Selects
    <2> HIDE DEF j
    <2> QED BY <2>1, <2>3, KeptOther
  <1>3. CASE SelectEnd(p)
    BY <1>3, KeptSame, KeptIdle DEF SelectEnd
  <1> QED BY <1>1, <1>2, <1>3

LEMMA DrainKeepsKept ==
    ASSUME ShardsInv, Kept, NEW p \in Procs,
           \/ \E src, dst \in Roots : DrainBegin(p, src, dst)
           \/ DrainCheck(p) \/ DrainManifest(p) \/ DrainCopy(p)
    PROVE  Kept'
  <1>0. Shapes /\ root \in [Roots -> Dirs \cup {Nil}]
    BY Own DEF Shapes
  <1>1. ASSUME NEW src \in Roots, NEW dst \in Roots, DrainBegin(p, src, dst)
        PROVE  Kept'
    <2> DEFINE j == [op |-> "drain", at |-> "check", from |-> {src}, src |-> src, dst |-> dst,
                     n |-> root[src].man, new |-> root[dst] = Nil, copied |-> FALSE,
                     next |-> 0, made |-> {}, rows |-> {}, was |-> root[dst]]
    <2>1. task' = [task EXCEPT ![p] = j] /\ root' = root /\ drained' = drained
      BY <1>1 DEF DrainBegin, Become
    <2>2. j.op = "drain" /\ j.was = root[j.dst]
      OBVIOUS
    <2> HIDE DEF j
    <2> QED BY <2>1, <2>2, KeptSame, KeptStep
  <1>2. CASE DrainCheck(p)
    <2> DEFINE o == task[p]
               fine == SameCount(o) /\ ~ Clash(o)
               j == DrainChecked(o, IF fine THEN "manifest" ELSE "undo", fine /\ ~ HasManifest(o.dst))
    <2>1. /\ o.op = "drain" /\ task' = [task EXCEPT ![p] = j] /\ drained' = drained
          /\ root' = IF root[o.dst] = Nil THEN [root EXCEPT ![o.dst] = Empty] ELSE root
      BY <1>2 DEF DrainCheck, Become, DrainChecked
    <2>2. o \in Drains /\ o.dst \in Roots
      BY <2>1, DrainOwn
    <2>3. SameDrain(o, j)
      <3>1. (IF fine THEN "manifest" ELSE "undo") \in {"check", "manifest", "copy", "undo"}
            /\ (fine /\ ~ HasManifest(o.dst)) \in BOOLEAN
        OBVIOUS
      <3> HIDE DEF o, fine
      <3> QED BY <2>2, <3>1, DrainCheckedFields
    <2> HIDE DEF j
    <2>4. Lasting
      <3>1. DirRows(Nil) = {}
        BY DEF DirRows, RowsIn
      <3> QED BY <1>0, <2>1, <2>2, <3>1 DEF Lasting
    <2> QED BY <2>1, <2>3, <2>4, KeptLasts, KeptStep DEF SameDrain
  <1>3. CASE DrainManifest(p)
    <2> DEFINE o == task[p]
               j == DrainAt(o, "copy")
    <2>1. /\ o.op = "drain" /\ task' = [task EXCEPT ![p] = j] /\ drained' = drained
          /\ root' = IF o.copied THEN WithManifest(o.dst, o.n) ELSE root
      BY <1>3 DEF DrainManifest, Become, DrainAt
    <2>2. o \in Drains /\ o.dst \in Roots /\ o.n \in Counts
      BY <2>1, DrainOwn
    <2>3. SameDrain(o, j)
      BY <2>2, DrainAtFields
    <2> HIDE DEF j
    <2>4. Lasting
      <3>1. root' = WithManifest(o.dst, o.n) => Lasting
        BY <1>0, <2>2, WithManifestLasts
      <3>2. root' = root => Lasting
        BY DEF Lasting
      <3> QED BY <2>1, <3>1, <3>2
    <2> QED BY <2>1, <2>3, <2>4, KeptLasts, KeptStep DEF SameDrain
  <1>4. CASE DrainCopy(p)
    <2> DEFINE o == task[p]
               k == o.next
               rows == Shard(o.src, k)
    <2>1. o.op = "drain" /\ o.at = "copy" /\ k < o.n /\ drained' = drained
      BY <1>4 DEF DrainCopy
    <2>2. /\ o \in Drains /\ o.dst \in Roots /\ o.src \in Roots /\ o.n \in Counts /\ k \in Nat
          /\ o.made \subseteq ShardIds /\ o.rows \subseteq Rows
          /\ root[o.src] \in Dirs /\ root[o.dst] \in Dirs \cup {Nil} /\ DrainOK(o, root[o.dst], root[o.src])
      BY <2>1, DrainOwn
    <2>3. k \in ShardIds /\ o.n \in Nat
      BY <2>1, <2>2, ShardRange
    <2>4. root[o.src] # Nil /\ root[o.src].shards \in [ShardIds -> (SUBSET Rows) \cup {Nil}]
      BY <2>2, DirFields
    <2>5. rows = root[o.src].shards[k]
      BY <2>4 DEF Shard
    <2>6. o.made \cup {k} \in SUBSET ShardIds /\ k + 1 \in Nat
      BY <2>2, <2>3
    <2>7. CASE rows = Nil
      <3> DEFINE j == DrainSkips(o, k + 1)
      <3>1. task' = [task EXCEPT ![p] = j] /\ root' = root
        BY <2>7, <1>4 DEF DrainCopy, Become, DrainSkips
      <3>2. SameDrain(o, j)
        <4>1. o \in Drains /\ k + 1 \in Nat
          BY <2>2, <2>6
        <4> HIDE DEF o, k
        <4> QED BY <4>1, DrainSkipsFields
      <3> HIDE DEF j
      <3> QED BY <2>1, <3>1, <3>2, KeptSame, KeptStep DEF SameDrain
    <2>8. CASE rows # Nil /\ Shard(o.dst, k) # Nil
      <3> DEFINE j == DrainRefused(o, "undo", o.made \cup {k})
      <3>1. task' = [task EXCEPT ![p] = j] /\ root' = root
        BY <2>8, <1>4 DEF DrainCopy, Become, DrainRefused
      <3>2. SameDrain(o, j)
        BY <2>2, <2>6, DrainRefusedFields
      <3> HIDE DEF j
      <3> QED BY <2>1, <3>1, <3>2, KeptSame, KeptStep DEF SameDrain
    <2>9. CASE rows # Nil /\ Shard(o.dst, k) = Nil
      <3> DEFINE j == DrainCopied(o, k + 1, o.made \cup {k}, o.rows \cup rows)
      <3>1. task' = [task EXCEPT ![p] = j] /\ root' = WithShard(o.dst, k, rows)
        BY <2>9, <1>4 DEF DrainCopy, Become, DrainCopied
      <3>2. rows \in SUBSET Rows
        BY <2>3, <2>4, <2>5, <2>9
      <3>3. SameDrain(o, j)
        <4>1. o.rows \cup rows \in SUBSET Rows /\ o \in Drains
          BY <2>2, <3>2
        <4> HIDE DEF o, k, rows
        <4> QED BY <2>6, <4>1, DrainCopiedFields
      <3>4. RowsIn(root[o.dst], k) \subseteq rows
        BY <2>9 DEF RowsIn, Shard
      <3> HIDE DEF j, k, rows
      <3>5. Lasting
        BY <1>0, <2>2, <2>3, <3>1, <3>2, <3>4, WithShardLasts
      <3> QED BY <2>1, <3>1, <3>3, <3>5, KeptLasts, KeptStep DEF SameDrain
    <2> QED BY <2>7, <2>8, <2>9
  <1> QED BY <1>1, <1>2, <1>3, <1>4

LEMMA DrainEndKeepsKept ==
    ASSUME ShardsInv, Kept, NEW p \in Procs, DrainEnd(p)
    PROVE  Kept'
  <1> DEFINE o == task[p]
  <1>1. /\ o.op = "drain" /\ o.at = "copy" /\ task' = [task EXCEPT ![p] = Idle] /\ root' = root
        /\ drained' = drained \cup {<<o.dst, row>> : row \in o.rows}
    BY DEF DrainEnd, Return
  <1>2. /\ o.dst \in Roots /\ o.made \subseteq ShardIds /\ root[o.dst] \in Dirs \cup {Nil}
        /\ DrainOK(o, root[o.dst], root[o.src]) /\ Filler(o) /\ Apart
    BY <1>1, DrainOwn, Own
  <1>3. task'[p] = Idle /\ \A q \in Procs \ {p} : task'[q] = task[q]
    BY <1>1, Own DEF Shapes
  <1>4. Idle.op = "idle"
    BY DEF Idle
  <1> SUFFICES ASSUME NEW t \in drained'
               PROVE  KeptAt(t[1], t[2])'
    BY DEF Kept
  <1> DEFINE r == t[1]
             row == t[2]
  <1>5. CASE t \in drained
    <2>1. KeptAt(r, row)
      BY <1>5 DEF Kept
    <2> HIDE DEF r, row
    <2>2. row \in DirRows(root'[r])
      BY <1>1, <2>1 DEF KeptAt
    <2>3. ASSUME NEW q \in Procs
          PROVE  /\ task'[q].op = "drain" /\ task'[q].dst = r => row \in DirRows(task'[q].was)
                 /\ ~ (task'[q].op = "split" /\ task'[q].dst = r)
      <3>1. CASE q = p
        BY <1>3, <1>4, <3>1
      <3>2. CASE q # p
        BY <1>3, <2>1, <3>2 DEF KeptAt
      <3> QED BY <3>1, <3>2
    <2> QED BY <2>2, <2>3 DEF KeptAt, r, row
  <1>6. CASE t \in {<<o.dst, x>> : x \in o.rows}
    <2>1. r = o.dst /\ row \in o.rows
      BY <1>6
    <2> HIDE DEF r, row
    <2>2. root[r] # Nil /\ \E i \in o.made : row \in RowsIn(root[r], i)
      BY <1>1, <1>2, <2>1 DEF DrainOK
    <2>3. row \in DirRows(root'[r])
      BY <1>1, <1>2, <2>2 DEF DirRows
    <2>4. ASSUME NEW q \in Procs
          PROVE  ~ (task'[q].op \in {"drain", "split"} /\ task'[q].dst = r)
      <3>1. CASE q = p
        BY <1>3, <1>4, <3>1
      <3>2. CASE q # p
        <4>1. Filler(task[q]) => task[q].dst # r
          BY <1>2, <2>1, <3>2 DEF Apart
        <4> QED BY <1>3, <3>2, <4>1 DEF Filler
      <3> QED BY <3>1, <3>2
    <2> QED BY <2>3, <2>4 DEF KeptAt, r, row
  <1> QED BY <1>1, <1>5, <1>6

LEMMA DrainUndoKeepsKept ==
    ASSUME ShardsInv, Kept, Quiet, NEW p \in Procs, DrainUndo(p)
    PROVE  Kept'
  <1> DEFINE o == task[p]
  <1>1. /\ o.op = "drain" /\ Return(p) /\ root' = [root EXCEPT ![o.dst] = Undone(o)]
        /\ drained' = drained
    BY DEF DrainUndo
  <1>2. o.dst \in Roots /\ root \in [Roots -> Dirs \cup {Nil}]
    BY <1>1, DrainOwn, Own DEF Shapes
  <1>3. root'[o.dst] = o.was /\ \A r \in Roots : r # o.dst => root'[r] = root[r]
    BY <1>1, <1>2, UndoneIsWas
  <1>4. ASSUME NEW t \in drained
        PROVE  t[2] \in DirRows(root'[t[1]])
    <2>1. t[1] \in Roots
      BY Own
    <2>2. /\ t[2] \in DirRows(root[t[1]])
          /\ t[1] = o.dst => t[2] \in DirRows(o.was)
      BY <1>1 DEF Kept, KeptAt
    <2> QED BY <1>3, <2>1, <2>2
  <1> QED BY <1>1, <1>4, KeptIdle

LEMMA JoinKeepsKept ==
    ASSUME ShardsInv, Kept, NEW p \in Procs,
           \/ \E src \in Sources, dst \in Envs : JoinBegin(p, src, dst)
           \/ JoinOpen(p) \/ JoinCopy(p) \/ JoinEnd(p) \/ JoinUndo(p)
    PROVE  Kept'
  <1>1. ASSUME NEW src \in Sources, NEW dst \in Envs, JoinBegin(p, src, dst)
        PROVE  Kept'
    <2> DEFINE from  == {src[i] : i \in DOMAIN src}
               parts == FlattenSeq([i \in DOMAIN src |-> Parts(src[i])])
               all   == UNION {Contents(a) : a \in from}
               j == [op |-> "join", at |-> "open", from |-> from, dst |-> dst,
                     todo |-> parts, seen |-> {}, before |-> all]
    <2>1. task' = [task EXCEPT ![p] = j] /\ root' = root /\ drained' = drained
      BY <1>1 DEF JoinBegin, Become
    <2> HIDE DEF from, parts, all
    <2>2. j.op = "join"
      OBVIOUS
    <2> HIDE DEF j
    <2> QED BY <2>1, <2>2, KeptOther
  <1>2. CASE JoinOpen(p)
    <2> DEFINE j == JoinAt(task[p], "copy")
    <2>1. task[p].op = "join" /\ task' = [task EXCEPT ![p] = j] /\ root' = root /\ drained' = drained
      BY <1>2 DEF JoinOpen, Become, JoinAt
    <2>2. j.op = "join"
      BY <2>1, JoinOwn, JoinAtFields
    <2> HIDE DEF j
    <2> QED BY <2>1, <2>2, KeptOther
  <1>3. CASE JoinCopy(p)
    <2> DEFINE o == task[p]
               rows == RowsOf(Head(o.todo))
               left == Tail(o.todo)
               seen == o.seen \cup Ids(rows)
    <2>1. o.op = "join" /\ root' = root /\ drained' = drained
          /\ \/ task' = [task EXCEPT ![p] = JoinAt(o, "undo")]
             \/ task' = [task EXCEPT ![p] = [o EXCEPT !.todo = left, !.seen = seen]]
      BY <1>3 DEF JoinCopy, Become, JoinAt, After
    <2>2. o \in Joins
      BY <2>1, JoinOwn
    <2> HIDE DEF left, seen, rows
    <2>3. JoinAt(o, "undo").op = "join"
      BY <2>2, JoinAtFields
    <2>4. [o EXCEPT !.todo = left, !.seen = seen].op = "join"
      BY <2>2 DEF Joins
    <2> HIDE DEF o
    <2> QED BY <2>1, <2>3, <2>4, KeptOther
  <1>4. CASE JoinEnd(p) \/ JoinUndo(p)
    BY <1>4, KeptSame, KeptIdle DEF JoinEnd, JoinUndo
  <1> QED BY <1>1, <1>2, <1>3, <1>4

LEMMA SplitKeepsKept ==
    ASSUME ShardsInv, Kept, NEW p \in Procs,
           \/ \E src \in Envs, dst \in Roots, n \in Counts : SplitBegin(p, src, dst, n)
           \/ SplitOpen(p) \/ SplitCopy(p) \/ SplitEnd(p) \/ SplitUndo(p)
    PROVE  Kept'
  <1>0. Shapes
    BY Own
  <1>1. ASSUME NEW src \in Envs, NEW dst \in Roots, NEW n \in Counts, SplitBegin(p, src, dst, n)
        PROVE  Kept'
    <2> DEFINE j == [op |-> "split", at |-> "open", from |-> {src}, src |-> src, dst |-> dst,
                     n |-> n, todo |-> {}, before |-> env[src]]
    <2>1. task' = [task EXCEPT ![p] = j] /\ root' = root /\ drained' = drained /\ root[dst] = Nil
      BY <1>1 DEF SplitBegin, Become
    <2>2. j.op = "split" /\ j.dst = dst
      OBVIOUS
    <2> HIDE DEF j
    <2> QED BY <2>1, <2>2, KeptSame, KeptStep
  <1>2. CASE SplitOpen(p)
    <2> DEFINE o == task[p]
               list == RowsOf(<<o.src, 0>>)
               j == SplitLists(o, "copy", list)
    <2>1. /\ o.op = "split" /\ o.at = "open" /\ root' = WithManifest(o.dst, o.n)
          /\ task' = [task EXCEPT ![p] = j] /\ drained' = drained
      BY <1>2 DEF SplitOpen, Become, SplitLists
    <2>2. o \in Splits /\ o.dst \in Roots /\ o.n \in Counts
      BY <2>1, SplitOwn
    <2> HIDE DEF list
    <2>3. j.op = "split" /\ j.dst = o.dst
      BY <2>2 DEF SplitLists, Splits
    <2> HIDE DEF j
    <2> QED BY <1>0, <2>1, <2>2, <2>3, WithManifestLasts, KeptLasts, KeptStep
  <1>3. CASE SplitCopy(p)
    <2> DEFINE o == task[p]
    <2>1. PICK row \in o.todo :
             LET i == ShardForTraj(row[1], o.n)
             IN  /\ root' = WithShard(o.dst, i, RowsOf(<<o.dst, i>>) \cup {row})
                 /\ task' = [task EXCEPT ![p] = SplitTakes(o, o.todo \ {row})]
      BY <1>3 DEF SplitCopy, Become, SplitTakes
    <2> DEFINE i == ShardForTraj(row[1], o.n)
               rows == RowsOf(<<o.dst, i>>)
               more == rows \cup {row}
               j == SplitTakes(o, o.todo \ {row})
    <2>2. o.op = "split" /\ drained' = drained
      BY <1>3 DEF SplitCopy
    <2>3. /\ o \in Splits /\ o.dst \in Roots /\ o.n \in Counts /\ o.todo \subseteq Rows
          /\ root[o.dst] \in Dirs \cup {Nil}
      BY <2>2, SplitOwn
    <2>4. row \in Rows /\ row[1] \in Trajs
      BY <2>3 DEF Rows
    <2>5. i \in ShardIds /\ i \in Nat
      BY <2>3, <2>4, ShardRange
    <2>6. rows = RowsIn(root[o.dst], i)
      <3>1. <<o.dst, i>> \in (Roots \cup Envs) \X Nat /\ <<o.dst, i>>[1] = o.dst /\ <<o.dst, i>>[2] = i
        BY <2>3, <2>5
      <3>2. PartRows(root, env, <<o.dst, i>>) = RowsIn(root[o.dst], i)
        BY <2>3, <3>1, ShardsAssumption DEF PartRows
      <3> QED BY <1>0, <3>1, <3>2, PlacesHold
    <2>7. more \in SUBSET Rows /\ RowsIn(root[o.dst], i) \subseteq more
      BY <2>3, <2>4, <2>5, <2>6, RowsInType
    <2>8. root' = WithShard(o.dst, i, more) /\ task' = [task EXCEPT ![p] = j]
      BY <2>1
    <2>9. j.op = "split" /\ j.dst = o.dst
      BY <2>3 DEF SplitTakes, Splits
    <2> HIDE DEF i, rows, more, j
    <2>10. Lasting
      BY <1>0, <2>3, <2>5, <2>7, <2>8, WithShardLasts
    <2> QED BY <2>2, <2>8, <2>9, <2>10, KeptLasts, KeptStep
  <1>4. CASE SplitEnd(p)
    BY <1>4, KeptSame, KeptIdle DEF SplitEnd
  <1>5. CASE SplitUndo(p)
    <2> DEFINE o == task[p]
    <2>1. o.op = "split" /\ Return(p) /\ root' = [root EXCEPT ![o.dst] = Nil] /\ drained' = drained
      BY <1>5 DEF SplitUndo
    <2>2. o.dst \in Roots /\ root \in [Roots -> Dirs \cup {Nil}]
      BY <2>1, <1>0, SplitOwn DEF Shapes
    <2>3. ASSUME NEW t \in drained
          PROVE  t[2] \in DirRows(root'[t[1]])
      <3>1. t[1] \in Roots
        BY Own
      <3>2. t[2] \in DirRows(root[t[1]]) /\ t[1] # o.dst
        BY <2>1 DEF Kept, KeptAt
      <3> QED BY <2>1, <2>2, <3>1, <3>2
    <2> QED BY <2>1, <2>3, KeptIdle
  <1> QED BY <1>1, <1>2, <1>3, <1>4, <1>5

LEMMA FailKeepsKept ==
    ASSUME ShardsInv, Kept, NEW p \in Procs, Fail(p) \/ Crash(p)
    PROVE  Kept'
  <1>1. CASE Fail(p)
    <2> DEFINE o == task[p]
               j == [o EXCEPT !.at = "undo"]
    <2>1. /\ o.op \in {"drain", "join", "split"} /\ task' = [task EXCEPT ![p] = j]
          /\ root' = root /\ drained' = drained
      BY <1>1 DEF Fail, Become
    <2>2. CASE o.op = "drain"
      <3>1. o \in Drains
        BY <2>2, DrainOwn
      <3>2. SameDrain(o, j)
        BY <3>1, DrainAtFields DEF DrainAt
      <3> HIDE DEF j
      <3> QED BY <2>1, <2>2, <3>2, KeptSame, KeptStep DEF SameDrain
    <2>3. CASE o.op = "join"
      <3>1. o \in Joins
        BY <2>3, JoinOwn
      <3>2. j.op = "join"
        BY <3>1, JoinAtFields DEF JoinAt
      <3> HIDE DEF j
      <3> QED BY <2>1, <3>2, KeptOther
    <2>4. CASE o.op = "split"
      <3>1. o \in Splits
        BY <2>4, SplitOwn
      <3>2. j.op = "split" /\ j.dst = o.dst
        BY <3>1 DEF Splits
      <3> HIDE DEF j
      <3> QED BY <2>1, <2>4, <3>2, KeptSame, KeptStep
    <2> QED BY <2>1, <2>2, <2>3, <2>4
  <1>2. CASE Crash(p)
    BY <1>2, KeptSame, KeptIdle DEF Crash
  <1> QED BY <1>1, <1>2

LEMMA KeptOK == Exclusive /\ Quiet /\ ShardsInv /\ Kept /\ [Next]_vars => Kept'
  <1> SUFFICES ASSUME Exclusive, Quiet, ShardsInv, Kept, [Next]_vars
               PROVE  Kept'
    OBVIOUS
  <1>1. CASE UNCHANGED vars
    BY <1>1 DEF vars, Kept, KeptAt
  <1>2. CASE Next
    <2> PICK p \in Procs : Step(p)
      BY <1>2 DEF Next
    <2>1. CASE \/ \E r \in Roots : OpenFound(p, r)
               \/ \E r \in Roots, n \in Counts : OpenMissing(p, r, n)
               \/ WriteManifest(p) \/ CloseRoot(p)
      BY <2>1, OpenKeepsKept
    <2>2. ASSUME NEW t \in Trajs, AppendTrajectory(p, t) PROVE Kept'
      BY <2>2, AppendKeepsKept
    <2>3. CASE \/ \E limit \in Limits : SelectBegin(p, limit)
               \/ SelectShard(p) \/ SelectEnd(p)
      BY <2>3, SelectKeepsKept
    <2>4. CASE \/ \E src, dst \in Roots : DrainBegin(p, src, dst)
               \/ DrainCheck(p) \/ DrainManifest(p) \/ DrainCopy(p)
      BY <2>4, DrainKeepsKept
    <2>5. CASE DrainEnd(p)
      BY <2>5, DrainEndKeepsKept
    <2>6. CASE DrainUndo(p)
      BY <2>6, DrainUndoKeepsKept
    <2>7. CASE \/ \E src \in Sources, dst \in Envs : JoinBegin(p, src, dst)
               \/ JoinOpen(p) \/ JoinCopy(p) \/ JoinEnd(p) \/ JoinUndo(p)
      BY <2>7, JoinKeepsKept
    <2>8. CASE \/ \E src \in Envs, dst \in Roots, n \in Counts : SplitBegin(p, src, dst, n)
               \/ SplitOpen(p) \/ SplitCopy(p) \/ SplitEnd(p) \/ SplitUndo(p)
      BY <2>8, SplitKeepsKept
    <2>9. CASE Fail(p) \/ Crash(p)
      BY <2>9, FailKeepsKept
    <2> QED BY <2>1, <2>2, <2>3, <2>4, <2>5, <2>6, <2>7, <2>8, <2>9 DEF Step
  <1> QED BY <1>1, <1>2

\* Frames a drain has reported as copied stay.
THEOREM DrainedFramesStay == Exclusive /\ Quiet => (Spec => []DrainedStays)
  <1> SUFFICES ASSUME Exclusive, Quiet
               PROVE  Spec => []DrainedStays
    OBVIOUS
  <1>1. Init => Kept
    BY DEF Init, Kept
  <1>2. ShardsInv /\ Kept /\ [Next]_vars => Kept'
    BY KeptOK
  <1>3. ShardsInv /\ Kept => DrainedStays
    <2> SUFFICES ASSUME ShardsInv, Kept, NEW t \in drained
                 PROVE  t[2] \in Contents(t[1])
      BY DEF DrainedStays
    <2>1. Shapes /\ t[1] \in Roots
      BY DEF ShardsInv, Shapes
    <2>2. t[2] \in DirRows(root[t[1]])
      BY DEF Kept, KeptAt
    <2> QED BY <2>1, <2>2, PlacesHold
  <1>4. Spec => []ShardsInv
    BY ShardsStayApart
  <1> QED BY <1>1, <1>2, <1>3, <1>4, PTL DEF Spec
=============================================================================
