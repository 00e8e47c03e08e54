--------------------------- MODULE TopologyProofs ---------------------------
(***************************************************************************)
(* The topology keys stay right for every number of clients, trajectories, *)
(* texts, parameters and methods, when an annotation overlaps neither      *)
(* another one nor an extension nor a reindex. Appends may come at any     *)
(* time, and extensions and reindexes may overlap one another. Each of the *)
(* three exclusions is needed: see the findings of the README.             *)
(***************************************************************************)
EXTENDS Topology, FiniteSetTheorems, TLAPS

\* The discipline the theorems assume of the callers.
AnnotatesAlone ==
    {{"annotate"}, {"annotate", "extend"}, {"annotate", "reindex"}} \subseteq Conflicts

Extends  == [op : {"extend"}, traj : Trajs, start : 0 .. MaxFrames, input : FrameLists]
Reindexes == [op : {"reindex"}, recorded : Stamps \cup {Nil}]
Lists    == [op : {"annotate"}, at : {"list"}, params : Params, recorded : Stamps \cup {Nil}]
Reads    == [op : {"annotate"}, at : {"read"}, params : Params, recorded : Stamps \cup {Nil},
             metas : [Trajs -> Metas \cup {Nil}],
             texts : UNION {[S -> Texts] : S \in SUBSET Keys}]

Shapes ==
    /\ frames \in [Keys -> Texts \cup {Nil}]
    /\ traj_meta \in [Trajs -> Metas \cup {Nil}]
    /\ topo_by_frame \in [Keys -> TopoKeys \cup {Nil}]
    /\ job \in [Clients -> {Idle} \cup Extends \cup Reindexes \cup Lists \cup Reads]

\* Frames lie within the count of their trajectory.
FramesCounted ==
    \A k \in Keys : frames[k] # Nil => traj_meta[k[1]] # Nil /\ k[2] < traj_meta[k[1]].n

\* Who annotates is alone with the appends.
Alone ==
    \A c, d \in Clients : c # d /\ job[c].op = "annotate" => job[d] = Idle

\* What an annotation knows is still so: the recorded parameters, the records
\* it listed and the texts it read.
AnnotationIsFresh(j) ==
    /\ Recorded = IF j.recorded = Nil THEN {} ELSE {j.recorded}
    /\ j.recorded # Nil => j.recorded.params = j.params
    /\ j.at = "read" =>
          /\ \A t \in Trajs :
                IF j.metas[t] # Nil THEN traj_meta[t] = j.metas[t]
                ELSE traj_meta[t] # Nil => traj_meta[t].stamp = Nil
          /\ DOMAIN j.texts \subseteq Listed(j)
          /\ \A k \in DOMAIN j.texts : frames[k] = j.texts[k]

JobsAreFresh ==
    /\ \A c \in Clients : job[c].op = "annotate" => AnnotationIsFresh(job[c])
    /\ \A c \in Clients : job[c].op = "extend" => job[c].start + Len(job[c].input) <= MaxFrames
    /\ \A c \in Clients : job[c].op = "reindex" /\ job[c].recorded = Nil =>
          \A k \in Keys : topo_by_frame[k] = Nil

\* All stamps are one, and every key was made under it.
OneStamp ==
    /\ \A s, u \in Recorded : s = u
    /\ \A k \in Keys : topo_by_frame[k] # Nil =>
          /\ traj_meta[k[1]] # Nil
          /\ Stamp(topo_by_frame[k].params, topo_by_frame[k].method)
                 = traj_meta[k[1]].stamp

TopologyInv ==
    /\ Shapes /\ FramesCounted /\ Alone /\ JobsAreFresh
    /\ OneStamp /\ RowsMirrorKeys /\ KeysAreOfTheirFrames

-----------------------------------------------------------------------------
(* Values.                                                                 *)

LEMMA NilFacts ==
    /\ MaxFrames \in Nat
    /\ \A x \in Texts : x # Nil
    /\ \A k \in TopoKeys : k # Nil
    /\ \A s \in Stamps : s # Nil
    /\ \A m \in Metas : m # Nil
  BY TopologyAssumption

LEMMA KeyFacts ==
    \A k \in Keys : k[1] \in Trajs /\ k[2] \in 0 .. MaxFrames - 1 /\ k = <<k[1], k[2]>>
  BY DEF Keys

LEMMA InputFacts ==
    ASSUME NEW input \in FrameLists
    PROVE  /\ Len(input) \in Nat /\ DOMAIN input = 1 .. Len(input)
           /\ \A i \in DOMAIN input : input[i] \in Texts
  <1>1. CASE \E a \in Texts : input = <<a>>
    BY <1>1
  <1>2. CASE \E a \in Texts, b \in Texts : input = <<a, b>>
    BY <1>2
  <1> QED BY <1>1, <1>2 DEF FrameLists

\* What a job is, by its operation.
LEMMA JobFacts ==
    ASSUME Shapes, NEW c \in Clients
    PROVE  /\ job[c] = Idle \/ job[c].op \in {"extend", "reindex", "annotate"}
           /\ job[c] = Idle => job[c].op = "idle"
           /\ job[c].op = "extend" => job[c] \in Extends
           /\ job[c].op = "reindex" => job[c] \in Reindexes
           /\ job[c].op = "annotate" => job[c] \in Lists \cup Reads
           /\ job[c].op = "annotate" /\ job[c].at = "list" => job[c] \in Lists
           /\ job[c].op = "annotate" /\ job[c].at = "read" => job[c] \in Reads
  BY DEF Shapes, Idle, Extends, Reindexes, Lists, Reads

LEMMA InRecorded ==
    \A s : s \in Recorded <=> s # Nil /\ \E t \in Trajs : traj_meta[t] # Nil /\ traj_meta[t].stamp = s
  BY DEF Recorded

LEMMA InRecordedNext ==
    \A s : s \in Recorded' <=> s # Nil /\ \E t \in Trajs : traj_meta'[t] # Nil /\ traj_meta'[t].stamp = s
  BY DEF Recorded

\* The recorded parameters, read off any one record.
LEMMA CollectedFacts ==
    ASSUME Shapes, OneStamp
    PROVE  /\ Recorded \subseteq Stamps
           /\ Recorded = {} => Collected = Nil
           /\ Recorded # {} => Recorded = {Collected} /\ Collected \in Stamps /\ Collected # Nil
           /\ Recorded = IF Collected = Nil THEN {} ELSE {Collected}
           /\ Collected \in Stamps \cup {Nil}
  <1>1. Recorded \subseteq Stamps
    BY InRecorded, NilFacts DEF Shapes, Metas
  <1>2. Recorded # {} => Collected \in Recorded
    BY DEF Collected
  <1>3. Recorded # {} => Recorded = {Collected}
    BY <1>2 DEF OneStamp
  <1> QED BY <1>1, <1>2, <1>3, NilFacts DEF Collected

-----------------------------------------------------------------------------
(* Storing frames: AppendTrajectory and ExtendCommit.                      *)

\* Frames go behind the ones there are, the record keeps its stamp, and what
\* is known of the keys stays.
LEMMA Stored ==
    ASSUME TopologyInv, NEW t \in Trajs, NEW input \in FrameLists,
           LiveCount(t) + Len(input) <= MaxFrames,
           frames' = PutFrames(t, LiveCount(t), input),
           traj_meta' = [traj_meta EXCEPT ![t] =
               [n |-> LiveCount(t) + Len(input),
                stamp |-> IF traj_meta[t] = Nil THEN Nil ELSE traj_meta[t].stamp]],
           UNCHANGED <<topo_by_frame, idx_topo>>
    PROVE  /\ frames' \in [Keys -> Texts \cup {Nil}]
           /\ traj_meta' \in [Trajs -> Metas \cup {Nil}]
           /\ FramesCounted' /\ Recorded' = Recorded
           /\ OneStamp' /\ RowsMirrorKeys' /\ KeysAreOfTheirFrames'
           /\ \A k \in Keys : frames[k] # Nil => frames'[k] = frames[k]
           /\ \A u \in Trajs : u # t => traj_meta'[u] = traj_meta[u]
           /\ traj_meta'[t] # Nil /\ traj_meta[t] = Nil => traj_meta'[t].stamp = Nil
  <1> DEFINE live == LiveCount(t)
  <1> DEFINE stamp == IF traj_meta[t] = Nil THEN Nil ELSE traj_meta[t].stamp
  <1> DEFINE new == [n |-> live + Len(input), stamp |-> stamp]
  <1>0. Shapes /\ FramesCounted /\ OneStamp /\ RowsMirrorKeys /\ KeysAreOfTheirFrames
    BY DEF TopologyInv
  <1>1. live \in Nat /\ stamp \in Stamps \cup {Nil}
    BY <1>0, NilFacts DEF Shapes, LiveCount, Metas
  <1>2. Len(input) \in Nat /\ DOMAIN input = 1 .. Len(input) /\ \A i \in DOMAIN input : input[i] \in Texts
    BY InputFacts
  <1>3. new \in Metas /\ new # Nil /\ new.n = live + Len(input) /\ new.stamp = stamp
    <2> HIDE DEF live, stamp
    <2>1. live + Len(input) \in 0 .. MaxFrames
      BY <1>1, <1>2, NilFacts DEF live
    <2>2. new \in Metas
      BY <1>1, <2>1 DEF Metas
    <2> QED BY <2>2, NilFacts
  <1>4. traj_meta' = [traj_meta EXCEPT ![t] = new] /\ traj_meta'[t] = new
        /\ \A u \in Trajs : u # t => traj_meta'[u] = traj_meta[u]
    BY <1>0 DEF Shapes
  <1> HIDE DEF new
  <1>5. traj_meta' \in [Trajs -> Metas \cup {Nil}]
    BY <1>0, <1>3, <1>4 DEF Shapes
  <1>6. \A k \in Keys : IF k[1] = t /\ k[2] - live + 1 \in 1 .. Len(input)
                        THEN frames'[k] \in Texts ELSE frames'[k] = frames[k]
    BY <1>2 DEF PutFrames
  <1>7. frames' \in [Keys -> Texts \cup {Nil}]
    <2>1. \A k \in Keys : frames'[k] \in Texts \cup {Nil}
      BY <1>0, <1>6 DEF Shapes
    <2>2. frames' = [k \in Keys |-> frames'[k]]
      BY DEF PutFrames
    <2> QED BY <2>1, <2>2
  <1>8. \A k \in Keys : k[1] = t /\ frames[k] # Nil => k[2] < live
    BY <1>0 DEF FramesCounted, LiveCount
  <1> HIDE DEF live, stamp
  <1>9. \A k \in Keys : frames[k] # Nil => frames'[k] = frames[k]
    BY <1>1, <1>2, <1>6, <1>8, KeyFacts
  <1>10. FramesCounted'
    <2>1. SUFFICES ASSUME NEW k \in Keys, frames'[k] # Nil
                   PROVE  traj_meta'[k[1]] # Nil /\ k[2] < traj_meta'[k[1]].n
      BY DEF FramesCounted
    <2>2. CASE k[1] # t
      BY <1>0, <1>4, <1>6, <2>1, <2>2, KeyFacts DEF FramesCounted
    <2>3. CASE k[1] = t
      <3>1. k[2] < live + Len(input)
        BY <1>1, <1>2, <1>6, <1>8, <2>1, <2>3, KeyFacts
      <3> QED BY <1>3, <1>4, <2>3, <3>1
    <2> QED BY <2>2, <2>3
  <1>11. \A u \in Trajs : /\ traj_meta[u] # Nil => traj_meta'[u] # Nil /\ traj_meta'[u].stamp = traj_meta[u].stamp
                          /\ traj_meta[u] = Nil /\ traj_meta'[u] # Nil => traj_meta'[u].stamp = Nil
    BY <1>3, <1>4 DEF stamp
  <1>12. Recorded' = Recorded
    <2>1. \A s : s \in Recorded' <=> s \in Recorded
      BY <1>11, InRecorded, InRecordedNext
    <2> QED BY <2>1
  <1>13. OneStamp'
    BY <1>0, <1>11, <1>12, KeyFacts DEF OneStamp
  <1>14. RowsMirrorKeys'
    BY <1>0 DEF RowsMirrorKeys, StoredRows
  <1>15. KeysAreOfTheirFrames'
    <2>1. \A k \in Keys : topo_by_frame[k] # Nil => topo_by_frame[k].text \in Texts
      BY <1>0 DEF Shapes, TopoKeys, TopoKey
    <2> QED BY <1>0, <1>9, <2>1, NilFacts DEF KeysAreOfTheirFrames
  <1> QED BY <1>4, <1>5, <1>7, <1>9, <1>10, <1>11, <1>12, <1>13, <1>14, <1>15

-----------------------------------------------------------------------------
(* Who is at work.                                                         *)

\* Whatever starts, no annotation is running; an annotation starts alone.
LEMMA StartsApart ==
    ASSUME AnnotatesAlone, Shapes, NEW c \in Clients, NEW op \in {"extend", "reindex", "annotate"},
           MayStart(c, op)
    PROVE  /\ job[c] = Idle
           /\ \A d \in Clients : job[d].op # "annotate"
           /\ op = "annotate" => \A d \in Clients : job[d] = Idle
  <1>1. \A d \in Clients : {op, job[d].op} \notin Conflicts
    BY DEF MayStart
  <1>2. ASSUME NEW d \in Clients, job[d].op = "annotate"
        PROVE  FALSE
    <2>1. CASE op = "annotate"
      <3>1. {op, job[d].op} = {"annotate"}
        BY <1>2, <2>1
      <3> QED BY <1>1, <3>1 DEF AnnotatesAlone
    <2>2. CASE op = "extend"
      <3>1. {op, job[d].op} = {"annotate", "extend"}
        BY <1>2, <2>2
      <3> QED BY <1>1, <3>1 DEF AnnotatesAlone
    <2>3. CASE op = "reindex"
      <3>1. {op, job[d].op} = {"annotate", "reindex"}
        BY <1>2, <2>3
      <3> QED BY <1>1, <3>1 DEF AnnotatesAlone
    <2> QED BY <2>1, <2>2, <2>3
  <1>3. ASSUME NEW d \in Clients, op = "annotate"
        PROVE  job[d] = Idle
    <2>1. job[d].op # "extend"
      <3>1. {"annotate", "extend"} = {op, "extend"}
        BY <1>3
      <3> QED BY <1>1, <3>1 DEF AnnotatesAlone
    <2>2. job[d].op # "reindex"
      <3>1. {"annotate", "reindex"} = {op, "reindex"}
        BY <1>3
      <3> QED BY <1>1, <3>1 DEF AnnotatesAlone
    <2> QED BY <1>2, <2>1, <2>2, JobFacts
  <1> QED BY <1>2, <1>3 DEF MayStart

\* A client that extends or reindexes has no annotation beside it.
LEMMA NobodyAnnotates ==
    ASSUME TopologyInv, NEW c \in Clients, job[c].op \in {"extend", "reindex"}
    PROVE  \A d \in Clients : job[d].op # "annotate"
  <1>1. job[c] # Idle
    BY DEF Idle
  <1> QED BY <1>1 DEF TopologyInv, Alone

\* The end of an operation that leaves the tables alone, or of the only one
\* that depends on what it changes.
LEMMA Finished ==
    ASSUME TopologyInv, NEW c \in Clients, Finish(c)
    PROVE  /\ job' \in [Clients -> {Idle} \cup Extends \cup Reindexes \cup Lists \cup Reads]
           /\ Alone'
           /\ \A d \in Clients : job'[d] = job[d] \/ job'[d] = Idle
           /\ job'[c] = Idle
  <1>1. job' = [job EXCEPT ![c] = Idle] /\ Shapes /\ Alone
    BY DEF TopologyInv, Finish
  <1>2. \A d \in Clients : job'[d] = IF d = c THEN Idle ELSE job[d]
    BY <1>1 DEF Shapes
  <1> QED BY <1>1, <1>2 DEF Shapes, Alone, Idle

\* The jobs stay fresh when nobody annotates and no key is stored.
LEMMA NoAnnotationToRefresh ==
    ASSUME TopologyInv, topo_by_frame' = topo_by_frame,
           \A d \in Clients : job'[d] = job[d] \/ job'[d] = Idle,
           \A d \in Clients : job[d].op # "annotate"
    PROVE  JobsAreFresh'
  <1>1. Idle.op = "idle" /\ JobsAreFresh
    BY DEF Idle, TopologyInv
  <1> QED BY <1>1 DEF JobsAreFresh

-----------------------------------------------------------------------------
(* The steps.                                                              *)

LEMMA AppendKeeps ==
    ASSUME TopologyInv, NEW t \in Trajs, NEW input \in FrameLists, AppendTrajectory(t, input)
    PROVE  TopologyInv' /\ \A k \in Keys : frames[k] # Nil => frames'[k] = frames[k]
  <1>0. Shapes /\ JobsAreFresh /\ Alone
    BY DEF TopologyInv
  <1>1. /\ LiveCount(t) = 0 /\ LiveCount(t) + Len(input) = Len(input)
        /\ traj_meta[t] = Nil /\ Len(input) <= MaxFrames /\ job' = job
        /\ UNCHANGED <<topo_by_frame, idx_topo>>
        /\ frames' = PutFrames(t, 0, input)
        /\ traj_meta' = [traj_meta EXCEPT ![t] = [n |-> Len(input), stamp |-> Nil]]
    BY InputFacts DEF AppendTrajectory, LiveCount
  <1>2. /\ frames' = PutFrames(t, LiveCount(t), input) /\ LiveCount(t) + Len(input) <= MaxFrames
        /\ traj_meta' = [traj_meta EXCEPT ![t] =
               [n |-> LiveCount(t) + Len(input),
                stamp |-> IF traj_meta[t] = Nil THEN Nil ELSE traj_meta[t].stamp]]
    BY <1>1
  <1>3. /\ frames' \in [Keys -> Texts \cup {Nil}]
        /\ traj_meta' \in [Trajs -> Metas \cup {Nil}]
        /\ FramesCounted' /\ Recorded' = Recorded
        /\ OneStamp' /\ RowsMirrorKeys' /\ KeysAreOfTheirFrames'
        /\ \A k \in Keys : frames[k] # Nil => frames'[k] = frames[k]
        /\ \A u \in Trajs : u # t => traj_meta'[u] = traj_meta[u]
        /\ traj_meta'[t] # Nil => traj_meta'[t].stamp = Nil
    BY <1>1, <1>2, Stored
  <1>4. Shapes' /\ Alone'
    BY <1>0, <1>1, <1>3 DEF Shapes, Alone
  <1>5. ASSUME NEW c \in Clients, job[c].op = "annotate"
        PROVE  AnnotationIsFresh(job[c])'
    <2> DEFINE j == job[c]
    <2>1. AnnotationIsFresh(j)
      BY <1>0, <1>5 DEF JobsAreFresh
    <2>2. job'[c] = j
      BY <1>1
    <2>3. CASE j.at = "read"
      <3>1. /\ j \in Reads /\ j.metas \in [Trajs -> Metas \cup {Nil}]
            /\ \A k \in DOMAIN j.texts : j.texts[k] \in Texts /\ k \in Keys
        BY <1>0, <1>5, <2>3, JobFacts DEF Reads
      <3>2. \A u \in Trajs : IF j.metas[u] # Nil THEN traj_meta'[u] = j.metas[u]
                             ELSE traj_meta'[u] # Nil => traj_meta'[u].stamp = Nil
        BY <1>1, <1>3, <2>1, <2>3 DEF AnnotationIsFresh
      <3>3. \A k \in DOMAIN j.texts : frames'[k] = j.texts[k]
        BY <1>3, <2>1, <2>3, <3>1, NilFacts DEF AnnotationIsFresh
      <3> QED BY <1>3, <2>1, <2>2, <2>3, <3>2, <3>3 DEF AnnotationIsFresh, Listed
    <2>4. CASE j.at # "read"
      BY <1>3, <2>1, <2>2, <2>4 DEF AnnotationIsFresh
    <2> QED BY <2>3, <2>4
  <1>6. JobsAreFresh'
    BY <1>0, <1>1, <1>5 DEF JobsAreFresh
  <1> QED BY <1>3, <1>4, <1>6 DEF TopologyInv

LEMMA ExtendCommitKeeps ==
    ASSUME TopologyInv, NEW c \in Clients, ExtendCommit(c)
    PROVE  TopologyInv' /\ \A k \in Keys : frames[k] # Nil => frames'[k] = frames[k]
  <1> DEFINE t == job[c].traj
             input == job[c].input
  <1>0. Shapes /\ JobsAreFresh /\ job[c].op = "extend" /\ job[c] \in Extends
    BY JobFacts DEF TopologyInv, ExtendCommit
  <1>1. t \in Trajs /\ input \in FrameLists
    BY <1>0 DEF Extends
  <1>2. /\ job[c].start = LiveCount(t) /\ job[c].start + Len(input) <= MaxFrames
        /\ frames' = PutFrames(t, job[c].start, input)
        /\ traj_meta' = [traj_meta EXCEPT ![t] =
               [n |-> job[c].start + Len(input),
                stamp |-> IF traj_meta[t] = Nil THEN Nil ELSE traj_meta[t].stamp]]
        /\ Finish(c) /\ UNCHANGED <<topo_by_frame, idx_topo>>
    BY <1>0 DEF ExtendCommit, JobsAreFresh
  <1> HIDE DEF t, input
  <1>3. /\ frames' \in [Keys -> Texts \cup {Nil}]
        /\ traj_meta' \in [Trajs -> Metas \cup {Nil}]
        /\ FramesCounted' /\ OneStamp' /\ RowsMirrorKeys' /\ KeysAreOfTheirFrames'
        /\ \A k \in Keys : frames[k] # Nil => frames'[k] = frames[k]
    BY <1>1, <1>2, Stored
  <1>4. Shapes' /\ Alone' /\ JobsAreFresh'
    BY <1>0, <1>2, <1>3, Finished, NobodyAnnotates, NoAnnotationToRefresh DEF Shapes
  <1> QED BY <1>3, <1>4 DEF TopologyInv

\* Operations that end and leave every table as it was.
LEMMA EndKeeps ==
    ASSUME TopologyInv, NEW c \in Clients, Finish(c),
           UNCHANGED <<frames, traj_meta, topo_by_frame, idx_topo>>
    PROVE  TopologyInv'
  <1>1. Shapes' /\ Alone' /\ (\A d \in Clients : job'[d] = job[d] \/ job'[d] = Idle)
    BY Finished DEF TopologyInv, Shapes
  <1>2. Recorded' = Recorded /\ Idle.op = "idle"
    BY DEF Recorded, Idle
  <1>3. JobsAreFresh'
    BY <1>1, <1>2 DEF TopologyInv, JobsAreFresh, AnnotationIsFresh, Listed
  <1>4. FramesCounted' /\ KeysAreOfTheirFrames'
    BY DEF TopologyInv, FramesCounted, KeysAreOfTheirFrames
  <1>5. OneStamp' /\ RowsMirrorKeys'
    BY <1>2 DEF TopologyInv, OneStamp, RowsMirrorKeys, StoredRows
  <1> QED BY <1>1, <1>3, <1>4, <1>5 DEF TopologyInv

LEMMA ReindexCommitKeeps ==
    ASSUME TopologyInv, NEW c \in Clients, ReindexCommit(c)
    PROVE  TopologyInv'
  <1>1. /\ Finish(c) /\ UNCHANGED <<frames, traj_meta, topo_by_frame>> /\ job[c].op = "reindex"
        /\ idx_topo' = IF job[c].recorded # Nil THEN StoredRows ELSE {}
    BY DEF ReindexCommit
  <1>2. job[c].recorded = Nil => StoredRows = {}
    BY <1>1 DEF TopologyInv, JobsAreFresh, StoredRows
  <1>3. idx_topo' = idx_topo
    BY <1>1, <1>2 DEF TopologyInv, RowsMirrorKeys
  <1> QED BY <1>1, <1>3, EndKeeps

\* An operation that starts, and reads nothing but the recorded parameters
\* and counts.
LEMMA StartKeeps ==
    ASSUME TopologyInv, NEW c \in Clients, NEW j \in Extends \cup Reindexes \cup Lists, Start(c, j),
           job[c] = Idle, \A d \in Clients : job[d].op # "annotate",
           j.op = "annotate" => AnnotationIsFresh(j) /\ \A d \in Clients : job[d] = Idle,
           j.op = "extend" => j.start + Len(j.input) <= MaxFrames,
           j.op = "reindex" /\ j.recorded = Nil => \A k \in Keys : topo_by_frame[k] = Nil
    PROVE  TopologyInv'
  <1>0. Shapes /\ JobsAreFresh
    BY DEF TopologyInv
  <1>1. job' = [job EXCEPT ![c] = j] /\ UNCHANGED <<frames, traj_meta, topo_by_frame, idx_topo>>
    BY DEF Start
  <1>2. \A d \in Clients : job'[d] = IF d = c THEN j ELSE job[d]
    BY <1>0, <1>1 DEF Shapes
  <1>3. Shapes'
    BY <1>0, <1>1 DEF Shapes
  <1>4. Alone'
    BY <1>2 DEF Alone
  <1>5. Recorded' = Recorded
    BY <1>1 DEF Recorded
  <1>6. j.op = "annotate" => j.at = "list"
    BY DEF Extends, Reindexes, Lists
  <1>7. JobsAreFresh'
    BY <1>0, <1>1, <1>2, <1>5, <1>6 DEF JobsAreFresh, AnnotationIsFresh
  <1>8. FramesCounted' /\ KeysAreOfTheirFrames'
    BY <1>1 DEF TopologyInv, FramesCounted, KeysAreOfTheirFrames
  <1>9. OneStamp' /\ RowsMirrorKeys'
    BY <1>1, <1>5 DEF TopologyInv, OneStamp, RowsMirrorKeys, StoredRows
  <1> QED BY <1>3, <1>4, <1>7, <1>8, <1>9 DEF TopologyInv

LEMMA BeginKeeps ==
    ASSUME AnnotatesAlone, TopologyInv, NEW c \in Clients,
           \/ \E t \in Trajs, input \in FrameLists : ExtendBegin(c, t, input)
           \/ ReindexBegin(c)
           \/ \E params \in Params : AnnotateBegin(c, params)
    PROVE  TopologyInv'
  <1>0. Shapes /\ OneStamp
    BY DEF TopologyInv
  <1>1. ASSUME NEW t \in Trajs, NEW input \in FrameLists, ExtendBegin(c, t, input)
        PROVE  TopologyInv'
    <2> DEFINE j == [op |-> "extend", traj |-> t, start |-> LiveCount(t), input |-> input]
    <2>1. LiveCount(t) \in 0 .. MaxFrames
      BY <1>0, NilFacts DEF LiveCount, Shapes, Metas
    <2>2. j \in Extends
      BY <2>1 DEF Extends
    <2>3. Start(c, j) /\ MayStart(c, "extend") /\ j.start + Len(j.input) <= MaxFrames /\ j.op = "extend"
      BY <1>1 DEF ExtendBegin
    <2> HIDE DEF j
    <2> QED BY <1>0, <2>2, <2>3, StartsApart, StartKeeps
  <1>2. CASE ReindexBegin(c)
    <2> DEFINE j == [op |-> "reindex", recorded |-> Collected]
    <2>1. j \in Reindexes
      BY <1>0, CollectedFacts DEF Reindexes
    <2>2. Start(c, j) /\ MayStart(c, "reindex") /\ j.op = "reindex" /\ j.recorded = Collected
      BY <1>2 DEF ReindexBegin
    <2>3. Collected = Nil => \A k \in Keys : topo_by_frame[k] = Nil
      <3>1. SUFFICES ASSUME Collected = Nil, NEW k \in Keys, topo_by_frame[k] # Nil
                     PROVE  FALSE
        OBVIOUS
      <3>2. Recorded = {}
        BY <1>0, <3>1, CollectedFacts
      <3>3. /\ k[1] \in Trajs /\ traj_meta[k[1]] # Nil
            /\ traj_meta[k[1]].stamp = Stamp(topo_by_frame[k].params, topo_by_frame[k].method)
        BY <1>0, <3>1, KeyFacts DEF OneStamp
      <3>4. topo_by_frame[k] \in TopoKeys
        BY <1>0, <3>1 DEF Shapes
      <3>5. traj_meta[k[1]].stamp \in Stamps
        BY <3>3, <3>4 DEF TopoKeys, TopoKey, Stamps
      <3> QED BY <3>2, <3>3, <3>5, InRecorded, NilFacts
    <2> HIDE DEF j
    <2> QED BY <1>0, <2>1, <2>2, <2>3, StartsApart, StartKeeps
  <1>3. ASSUME NEW params \in Params, AnnotateBegin(c, params)
        PROVE  TopologyInv'
    <2> DEFINE j == [op |-> "annotate", at |-> "list", params |-> params, recorded |-> Collected]
    <2>1. j \in Lists
      BY <1>0, CollectedFacts DEF Lists
    <2>2. Start(c, j) /\ MayStart(c, "annotate") /\ (Collected # Nil => Collected.params = params)
      BY <1>3 DEF AnnotateBegin
    <2>3. j.op = "annotate" /\ j.at = "list" /\ j.params = params /\ j.recorded = Collected
      OBVIOUS
    <2> HIDE DEF j
    <2>4. AnnotationIsFresh(j)
      BY <1>0, <2>2, <2>3, CollectedFacts DEF AnnotationIsFresh
    <2> QED BY <1>0, <2>1, <2>2, <2>3, <2>4, StartsApart, StartKeeps
  <1> QED BY <1>1, <1>2, <1>3

\* An annotation that goes on: its client was the only one at work.
LEMMA ContinueKeeps ==
    ASSUME TopologyInv, NEW c \in Clients, job[c].op = "annotate", NEW j \in Reads, Start(c, j),
           AnnotationIsFresh(j)
    PROVE  TopologyInv'
  <1>0. Shapes /\ JobsAreFresh /\ Alone
    BY DEF TopologyInv
  <1>1. job' = [job EXCEPT ![c] = j] /\ UNCHANGED <<frames, traj_meta, topo_by_frame, idx_topo>>
    BY DEF Start
  <1>2. \A d \in Clients : job'[d] = IF d = c THEN j ELSE job[d]
    BY <1>0, <1>1 DEF Shapes
  <1>3. \A d \in Clients : d # c => job[d] = Idle /\ job[d].op = "idle"
    BY <1>0 DEF Alone, Idle
  <1>4. j.op = "annotate"
    BY DEF Reads
  <1>5. Recorded' = Recorded
    BY <1>1 DEF Recorded
  <1>6. Shapes'
    BY <1>0, <1>1 DEF Shapes
  <1>7. Alone'
    BY <1>2, <1>3 DEF Alone, Idle
  <1>8. AnnotationIsFresh(j)'
    BY <1>1, <1>5 DEF AnnotationIsFresh, Listed
  <1>9. JobsAreFresh'
    BY <1>2, <1>3, <1>4, <1>8 DEF JobsAreFresh, AnnotationIsFresh, Listed
  <1>10. FramesCounted' /\ KeysAreOfTheirFrames'
    BY <1>1 DEF TopologyInv, FramesCounted, KeysAreOfTheirFrames
  <1>11. OneStamp' /\ RowsMirrorKeys'
    BY <1>1, <1>5 DEF TopologyInv, OneStamp, RowsMirrorKeys, StoredRows
  <1> QED BY <1>6, <1>7, <1>9, <1>10, <1>11 DEF TopologyInv

LEMMA ReadingKeeps ==
    ASSUME TopologyInv, NEW c \in Clients, AnnotateList(c) \/ AnnotateRead(c)
    PROVE  TopologyInv'
  <1> DEFINE j == job[c]
  <1>0. Shapes /\ j.op = "annotate" /\ AnnotationIsFresh(j)
    BY DEF TopologyInv, JobsAreFresh, AnnotateList, AnnotateRead
  <1>1. CASE AnnotateList(c)
    <2> DEFINE new == [op |-> "annotate", at |-> "read", params |-> j.params,
                       recorded |-> j.recorded, metas |-> traj_meta, texts |-> <<>>]
    <2>1. Start(c, new) /\ j.at = "list" /\ j \in Lists
      BY <1>0, <1>1, JobFacts DEF AnnotateList
    <2>2. <<>> \in [{} -> Texts] /\ DOMAIN <<>> = {}
      OBVIOUS
    <2>3. new \in Reads
      <3>1. <<>> \in UNION {[S -> Texts] : S \in SUBSET Keys}
        BY <2>2
      <3> QED BY <1>0, <2>1, <3>1 DEF Reads, Lists, Shapes
    <2>4. /\ new.recorded = j.recorded /\ new.params = j.params /\ new.metas = traj_meta
          /\ new.texts = <<>>
      OBVIOUS
    <2> HIDE DEF new
    <2>5. AnnotationIsFresh(new)
      BY <1>0, <2>2, <2>4 DEF AnnotationIsFresh
    <2> QED BY <1>0, <2>1, <2>3, <2>5, ContinueKeeps
  <1>2. CASE AnnotateRead(c)
    <2>1. j.at = "read" /\ j \in Reads
      BY <1>0, <1>2, JobFacts DEF AnnotateRead
    <2>2. PICK k \in Listed(j) \ DOMAIN j.texts :
              /\ frames[k] # Nil
              /\ Start(c, [j EXCEPT !.texts =
                     [l \in DOMAIN j.texts \cup {k} |->
                         IF l = k THEN frames[k] ELSE j.texts[l]]])
      BY <1>2 DEF AnnotateRead
    <2> DEFINE texts == [l \in DOMAIN j.texts \cup {k} |-> IF l = k THEN frames[k] ELSE j.texts[l]]
               new == [j EXCEPT !.texts = texts]
    <2>3. PICK S \in SUBSET Keys : j.texts \in [S -> Texts]
      BY <2>1 DEF Reads
    <2>4. k \in Keys /\ frames[k] \in Texts
      BY <1>0, <2>2 DEF Listed, Shapes
    <2>5. texts \in [S \cup {k} -> Texts] /\ S \cup {k} \in SUBSET Keys /\ DOMAIN texts = DOMAIN j.texts \cup {k}
      BY <2>3, <2>4
    <2>6. \A l \in DOMAIN texts : frames[l] = texts[l]
      BY <1>0, <2>1 DEF AnnotationIsFresh
    <2> HIDE DEF texts
    <2>7. new \in Reads
      <3>1. texts \in UNION {[U -> Texts] : U \in SUBSET Keys}
        BY <2>5
      <3> QED BY <2>1, <3>1 DEF Reads
    <2>8. /\ new.recorded = j.recorded /\ new.params = j.params /\ new.metas = j.metas
          /\ new.texts = texts /\ new.at = "read"
      BY <2>1 DEF Reads
    <2>9. Start(c, new)
      BY <2>2 DEF texts
    <2> HIDE DEF new
    <2>10. AnnotationIsFresh(new)
      <3>1. Listed(new) = Listed(j)
        BY <2>8 DEF Listed
      <3>2. DOMAIN new.texts \subseteq Listed(new)
        BY <1>0, <2>1, <2>2, <2>5, <2>8, <3>1 DEF AnnotationIsFresh
      <3>3. \A l \in DOMAIN new.texts : frames[l] = new.texts[l]
        BY <2>6, <2>8
      <3> QED BY <1>0, <2>1, <2>8, <3>2, <3>3 DEF AnnotationIsFresh
    <2> QED BY <1>0, <2>7, <2>9, <2>10, ContinueKeeps
  <1> QED BY <1>1, <1>2

\* The answers of seams go in with the stamp they were made under: every
\* stamped record was listed, and had the same stamp.
LEMMA AnnotateCommitKeeps ==
    ASSUME TopologyInv, NEW c \in Clients, NEW method \in Methods, AnnotateCommit(c, method)
    PROVE  TopologyInv'
  <1> DEFINE j == job[c]
             new == Answers(j, method)
             stamp == Stamp(j.params, method)
  <1>0. /\ Shapes /\ FramesCounted /\ OneStamp /\ RowsMirrorKeys /\ KeysAreOfTheirFrames /\ Alone
        /\ j.op = "annotate" /\ j.at = "read" /\ j \in Reads /\ AnnotationIsFresh(j)
    BY JobFacts DEF TopologyInv, JobsAreFresh, AnnotateCommit
  <1>1. /\ DOMAIN j.texts = Listed(j) /\ (j.recorded # Nil => j.recorded.method = method)
        /\ Annotated(new) /\ Finish(c) /\ frames' = frames
        /\ traj_meta' = [t \in Trajs |-> IF j.metas[t] = Nil THEN traj_meta[t]
                                         ELSE [j.metas[t] EXCEPT !.stamp = stamp]]
    BY DEF AnnotateCommit, Stamped
  <1>2. /\ j.params \in Params /\ j.recorded \in Stamps \cup {Nil}
        /\ j.metas \in [Trajs -> Metas \cup {Nil}]
        /\ \A k \in DOMAIN j.texts : k \in Keys /\ j.texts[k] \in Texts
    BY <1>0 DEF Reads
  <1>3. stamp \in Stamps /\ stamp # Nil
    BY <1>2, NilFacts DEF Stamps
  <1>4. j.recorded # Nil => j.recorded = stamp
    BY <1>0, <1>1, <1>2 DEF AnnotationIsFresh, Stamps, Stamp
  <1>5. Listed(j) \subseteq Keys /\ DOMAIN new = Listed(j)
        /\ \A k \in Listed(j) : /\ new[k] = TopoKey(j.texts[k], j.params, method)
                                /\ new[k] \in TopoKeys /\ new[k] # Nil /\ new[k].text = frames[k]
                                /\ Stamp(new[k].params, new[k].method) = stamp
    <2>1. Listed(j) \subseteq Keys
      BY DEF Listed
    <2>2. \A k \in Listed(j) : new[k] = TopoKey(j.texts[k], j.params, method) /\ j.texts[k] = frames[k]
                               /\ j.texts[k] \in Texts
      BY <1>0, <1>1, <1>2 DEF Answers, AnnotationIsFresh
    <2>3. \A k \in Listed(j) : new[k] \in TopoKeys
      BY <1>2, <2>2 DEF TopoKeys
    <2> QED BY <2>1, <2>2, <2>3, NilFacts DEF Answers, TopoKey
  <1> HIDE DEF j, new, stamp
  <1>6. \A t \in Trajs : IF j.metas[t] = Nil THEN traj_meta'[t] = traj_meta[t]
                         ELSE /\ traj_meta'[t] \in Metas /\ traj_meta'[t] # Nil
                              /\ traj_meta'[t].n = traj_meta[t].n /\ traj_meta[t] = j.metas[t]
                              /\ traj_meta'[t].stamp = stamp
    <2>1. SUFFICES ASSUME NEW t \in Trajs, j.metas[t] # Nil
                   PROVE  /\ traj_meta'[t] \in Metas /\ traj_meta'[t] # Nil
                          /\ traj_meta'[t].n = traj_meta[t].n /\ traj_meta[t] = j.metas[t]
                          /\ traj_meta'[t].stamp = stamp
      BY <1>1
    <2>2. j.metas[t] \in Metas /\ traj_meta[t] = j.metas[t]
          /\ traj_meta'[t] = [j.metas[t] EXCEPT !.stamp = stamp]
      BY <1>0, <1>1, <1>2, <2>1 DEF AnnotationIsFresh
    <2>3. traj_meta'[t] \in Metas /\ traj_meta'[t].n = j.metas[t].n /\ traj_meta'[t].stamp = stamp
      BY <1>3, <2>2 DEF Metas
    <2> QED BY <2>2, <2>3, NilFacts
  <1>7. traj_meta' \in [Trajs -> Metas \cup {Nil}]
    <2>1. \A t \in Trajs : traj_meta'[t] \in Metas \cup {Nil}
      BY <1>0, <1>6 DEF Shapes
    <2> QED BY <1>1, <2>1
  <1>8. /\ topo_by_frame' = [k \in Keys |-> IF k \in Listed(j) THEN new[k] ELSE topo_by_frame[k]]
        /\ idx_topo' = (idx_topo \ {<<topo_by_frame[k], k>> : k \in Listed(j)})
                           \cup {<<new[k], k>> : k \in Listed(j)}
    BY <1>1, <1>5 DEF Annotated
  <1>9. topo_by_frame' \in [Keys -> TopoKeys \cup {Nil}]
        /\ \A k \in Keys : topo_by_frame'[k] = IF k \in Listed(j) THEN new[k] ELSE topo_by_frame[k]
    BY <1>0, <1>5, <1>8 DEF Shapes
  <1>10. Shapes' /\ Alone'
    BY <1>0, <1>1, <1>7, <1>9, Finished DEF Shapes
  <1>11. FramesCounted'
    BY <1>0, <1>1, <1>6, KeyFacts DEF FramesCounted
  <1>12. JobsAreFresh'
    <2>1. \A d \in Clients : job'[d] = Idle
      BY <1>0, <1>1, Finished DEF Alone, j
    <2> QED BY <2>1 DEF JobsAreFresh, Idle
  <1>13. \A s \in Recorded' : s = stamp
    <2>1. SUFFICES ASSUME NEW t \in Trajs, traj_meta'[t] # Nil, traj_meta'[t].stamp # Nil
                   PROVE  traj_meta'[t].stamp = stamp
      BY InRecordedNext
    <2>2. j.metas[t] # Nil
      BY <1>0, <1>6, <2>1 DEF AnnotationIsFresh
    <2> QED BY <1>6, <2>2
  <1>14. OneStamp'
    <2>1. SUFFICES ASSUME NEW k \in Keys, topo_by_frame'[k] # Nil
                   PROVE  /\ traj_meta'[k[1]] # Nil
                          /\ Stamp(topo_by_frame'[k].params, topo_by_frame'[k].method) = traj_meta'[k[1]].stamp
      BY <1>13 DEF OneStamp
    <2>2. CASE k \in Listed(j)
      <3>1. k[1] \in Trajs /\ j.metas[k[1]] # Nil
        BY <2>2, KeyFacts DEF Listed
      <3> QED BY <1>5, <1>6, <1>9, <2>2, <3>1
    <2>3. CASE k \notin Listed(j)
      <3>1. /\ topo_by_frame'[k] = topo_by_frame[k] /\ k[1] \in Trajs /\ traj_meta[k[1]] # Nil
            /\ traj_meta[k[1]].stamp = Stamp(topo_by_frame[k].params, topo_by_frame[k].method)
        BY <1>0, <1>9, <2>1, <2>3, KeyFacts DEF OneStamp
      <3>2. traj_meta[k[1]].stamp \in Stamps
        <4>1. topo_by_frame[k] \in TopoKeys
          BY <1>0, <2>1, <3>1 DEF Shapes
        <4> QED BY <3>1, <4>1 DEF TopoKeys, TopoKey, Stamps
      <3>3. j.metas[k[1]] # Nil
        BY <1>0, <3>1, <3>2, NilFacts DEF AnnotationIsFresh
      <3>4. traj_meta[k[1]].stamp \in Recorded
        BY <3>1, <3>2, InRecorded, NilFacts
      <3>5. traj_meta[k[1]].stamp = stamp
        BY <1>0, <1>4, <3>4 DEF AnnotationIsFresh
      <3> QED BY <1>6, <3>1, <3>3, <3>5
    <2> QED BY <2>2, <2>3
  <1>15. RowsMirrorKeys'
    <2>1. \A row : row \in idx_topo' <=> \E k \in Keys : topo_by_frame'[k] # Nil /\ row = <<topo_by_frame'[k], k>>
      <3>1. ASSUME NEW row \in idx_topo'
            PROVE  \E k \in Keys : topo_by_frame'[k] # Nil /\ row = <<topo_by_frame'[k], k>>
        <4>1. CASE \E k \in Listed(j) : row = <<new[k], k>>
          BY <1>5, <1>9, <4>1
        <4>2. CASE row \in idx_topo /\ row \notin {<<topo_by_frame[k], k>> : k \in Listed(j)}
          <5>1. PICK k \in Keys : topo_by_frame[k] # Nil /\ row = <<topo_by_frame[k], k>>
            BY <1>0, <4>2 DEF RowsMirrorKeys, StoredRows
          <5>2. k \notin Listed(j)
            BY <4>2, <5>1
          <5> QED BY <1>9, <5>1, <5>2
        <4> QED BY <1>8, <3>1, <4>1, <4>2
      <3>2. ASSUME NEW k \in Keys, topo_by_frame'[k] # Nil
            PROVE  <<topo_by_frame'[k], k>> \in idx_topo'
        <4>1. CASE k \in Listed(j)
          BY <1>8, <1>9, <4>1
        <4>2. CASE k \notin Listed(j)
          <5>1. topo_by_frame'[k] = topo_by_frame[k] /\ <<topo_by_frame[k], k>> \in idx_topo
            BY <1>0, <1>9, <3>2, <4>2 DEF RowsMirrorKeys, StoredRows
          <5>2. <<topo_by_frame[k], k>> \notin {<<topo_by_frame[l], l>> : l \in Listed(j)}
            BY <4>2
          <5> QED BY <1>8, <5>1, <5>2
        <4> QED BY <4>1, <4>2
      <3> QED BY <3>1, <3>2
    <2> QED BY <2>1 DEF RowsMirrorKeys, StoredRows
  <1>16. KeysAreOfTheirFrames'
    BY <1>0, <1>1, <1>5, <1>9 DEF KeysAreOfTheirFrames
  <1> QED BY <1>10, <1>11, <1>12, <1>14, <1>15, <1>16 DEF TopologyInv

-----------------------------------------------------------------------------
(* The theorems.                                                           *)

LEMMA TopologyInit ==
    ASSUME Init
    PROVE  TopologyInv
  <1>1. Shapes /\ \A c \in Clients : job[c].op = "idle"
    BY DEF Init, Shapes, Idle
  <1>2. Recorded = {} /\ StoredRows = {}
    BY DEF Init, Recorded, StoredRows
  <1>3. \A k \in Keys : frames[k] = Nil /\ topo_by_frame[k] = Nil
    BY DEF Init
  <1> QED BY <1>1, <1>2, <1>3 DEF Init, TopologyInv, FramesCounted, Alone, JobsAreFresh, OneStamp,
                                   RowsMirrorKeys, KeysAreOfTheirFrames

LEMMA TopologyStutter ==
    ASSUME TopologyInv, UNCHANGED vars
    PROVE  TopologyInv'
  <1>1. Recorded' = Recorded /\ StoredRows' = StoredRows
    BY DEF vars, Recorded, StoredRows
  <1>2. (Shapes /\ FramesCounted /\ Alone)'
    BY DEF vars, TopologyInv, Shapes, FramesCounted, Alone
  <1>3. JobsAreFresh'
    BY <1>1 DEF vars, TopologyInv, JobsAreFresh, AnnotationIsFresh, Listed
  <1>4. (OneStamp /\ RowsMirrorKeys /\ KeysAreOfTheirFrames)'
    BY <1>1 DEF vars, TopologyInv, OneStamp, RowsMirrorKeys, KeysAreOfTheirFrames
  <1> QED BY <1>2, <1>3, <1>4 DEF TopologyInv

\* A step keeps the invariant and every frame there is.
LEMMA TopologyStep ==
    ASSUME AnnotatesAlone, TopologyInv, Next
    PROVE  TopologyInv' /\ \A k \in Keys : frames[k] # Nil => frames'[k] = frames[k]
  <1>1. ASSUME NEW c \in Clients, Step(c)
        PROVE  TopologyInv' /\ \A k \in Keys : frames[k] # Nil => frames'[k] = frames[k]
    <2>1. CASE ExtendCommit(c)
      BY <2>1, ExtendCommitKeeps
    <2>2. CASE \/ \E t \in Trajs, input \in FrameLists : ExtendBegin(c, t, input)
               \/ ReindexBegin(c)
               \/ \E params \in Params : AnnotateBegin(c, params)
      <3>1. frames' = frames
        BY <2>2 DEF ExtendBegin, ReindexBegin, AnnotateBegin, Start
      <3> QED BY <2>2, <3>1, BeginKeeps
    <2>3. CASE AnnotateList(c) \/ AnnotateRead(c)
      <3>1. frames' = frames
        BY <2>3 DEF AnnotateList, AnnotateRead, Start
      <3> QED BY <2>3, <3>1, ReadingKeeps
    <2>4. CASE ExtendRace(c) \/ AnnotateFail(c)
      BY <2>4, EndKeeps DEF ExtendRace, AnnotateFail
    <2>5. CASE ReindexCommit(c)
      BY <2>5, ReindexCommitKeeps DEF ReindexCommit
    <2>6. ASSUME NEW method \in Methods, AnnotateCommit(c, method)
          PROVE  TopologyInv' /\ \A k \in Keys : frames[k] # Nil => frames'[k] = frames[k]
      BY <2>6, AnnotateCommitKeeps DEF AnnotateCommit
    <2> QED BY <1>1, <2>1, <2>2, <2>3, <2>4, <2>5, <2>6 DEF Step
  <1> QED BY <1>1, AppendKeeps DEF Next

LEMMA TopologyInductive ==
    ASSUME AnnotatesAlone
    PROVE  Spec => []TopologyInv
  <1>1. AnnotatesAlone
    OBVIOUS
  <1>2. TopologyInv /\ [Next]_vars => TopologyInv'
    BY <1>1, TopologyStep, TopologyStutter
  <1>3. Init => TopologyInv
    BY TopologyInit
  <1> QED BY <1>2, <1>3, PTL DEF Spec

\* A search by topology key finds the frames that have the key and no other,
\* after any order of annotations, reindexes and extensions (corpus.rs
\* put_topo_entry and reindex).
THEOREM RowsAreTheKeys ==
    ASSUME AnnotatesAlone
    PROVE  Spec => []RowsMirrorKeys
  <1>1. TopologyInv => RowsMirrorKeys
    BY DEF TopologyInv
  <1> QED BY <1>1, TopologyInductive, PTL

\* All stamped records agree, and every key was made under the stamp of its
\* trajectory: "so methods are never mixed" (corpus.rs annotate_topology).
THEOREM OneMethodOnly ==
    ASSUME AnnotatesAlone
    PROVE  Spec => []MethodsNeverMixed
  <1>1. ASSUME TopologyInv
        PROVE  MethodsNeverMixed
    <2>1. Shapes /\ OneStamp
      BY <1>1 DEF TopologyInv
    <2>2. Recorded = {} \/ Recorded = {Collected}
      BY <2>1, CollectedFacts
    <2>3. Cardinality(Recorded) <= 1
      <3>1. Cardinality({}) = 0 /\ Cardinality({Collected}) = 1
        BY FS_EmptySet, FS_Singleton
      <3> QED BY <2>2, <3>1
    <2> QED BY <2>1, <2>3 DEF MethodsNeverMixed, Agreed, OneStamp
  <1> QED BY <1>1, TopologyInductive, PTL

\* The key stored with a frame is the key of the text stored with it, although
\* the texts were read in transactions before the keys were stored.
THEOREM KeysFitTheirFrames ==
    ASSUME AnnotatesAlone
    PROVE  Spec => []KeysAreOfTheirFrames
  <1>1. TopologyInv => KeysAreOfTheirFrames
    BY DEF TopologyInv
  <1> QED BY <1>1, TopologyInductive, PTL

\* No extension writes over a frame another one has stored, and no annotation
\* brings back a count that would let it (corpus.rs extend_trajectory:
\* "concurrent extend race").
THEOREM FramesStay ==
    ASSUME AnnotatesAlone
    PROVE  Spec => NoFrameIsReplaced
  <1>1. AnnotatesAlone
    OBVIOUS
  <1>2. TopologyInv /\ [Next]_vars =>
            [\A k \in Keys : frames[k] # Nil => frames'[k] = frames[k]]_frames
    BY <1>1, TopologyStep DEF vars
  <1> QED BY <1>2, TopologyInductive, PTL DEF Spec, NoFrameIsReplaced
=============================================================================
