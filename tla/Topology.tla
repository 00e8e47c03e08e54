------------------------------ MODULE Topology ------------------------------
(***************************************************************************)
(* The topology keys of one corpus (corpus.rs: annotate_topology and what  *)
(* append, extend and reindex do to the tables it fills). An annotation    *)
(* reads the recorded parameters, then the trajectories, then every frame, *)
(* each in a transaction of its own, has the external program `seams`      *)
(* fingerprint the texts, and commits keys and trajectory records at once. *)
(* The other tables are in Corpus.                                         *)
(***************************************************************************)
EXTENDS Integers, FiniteSets, Sequences

CONSTANTS Clients,    \* threads and processes with the corpus open
          Trajs,
          Texts,      \* CON texts of one frame
          MaxFrames,  \* bound on the frames of a trajectory
          Params,     \* (cutoff, graph, hops) a caller may ask for
          Methods,    \* methods seams may answer with
          Conflicts,  \* pairs of operations kept apart
          Nil

VARIABLES
    frames,         \* key -> text
    traj_meta,      \* trajectory -> its record: n_frames and the stamp
    topo_by_frame,  \* key -> the topology key of its frame
    idx_topo,       \* rows <<topology key, key>>
    job             \* client -> the operation it is in the middle of

vars == <<frames, traj_meta, topo_by_frame, idx_topo, job>>

Keys == Trajs \X (0 .. MaxFrames - 1)

KeyLess(a, b) == a[1] < b[1] \/ (a[1] = b[1] /\ a[2] < b[2])

\* What seams answers for a text: it depends on the parameters and the method.
TopoKey(text, params, method) == [text |-> text, params |-> params, method |-> method]

TopoKeys == {TopoKey(x, p, m) : x \in Texts, p \in Params, m \in Methods}

\* topo_cutoff, topo_graph, topo_hops and topo_method of a record.
Stamp(params, method) == [params |-> params, method |-> method]

Stamps == {Stamp(p, m) : p \in Params, m \in Methods}

\* A trajectory's record.
Metas == [n : 0 .. MaxFrames, stamp : Stamps \cup {Nil}]

ASSUME TopologyAssumption ==
    /\ Trajs \subseteq Nat /\ MaxFrames \in Nat
    /\ Nil \notin Texts \cup TopoKeys \cup Stamps \cup Metas

Idle == [op |-> "idle"]

-----------------------------------------------------------------------------
(* Reading the recorded parameters.                                        *)

Recorded == {traj_meta[t].stamp : t \in {u \in Trajs : traj_meta[u] # Nil}} \ {Nil}

\* collected_topo_params refuses records that do not agree.
Agreed == Cardinality(Recorded) <= 1

Collected == IF Recorded = {} THEN Nil ELSE CHOOSE s \in Recorded : TRUE

\* The discipline of a run: no two operations of a pair in Conflicts overlap.
MayStart(c, op) ==
    /\ job[c] = Idle
    /\ \A d \in Clients : {op, job[d].op} \notin Conflicts

Start(c, j) ==
    /\ job' = [job EXCEPT ![c] = j]
    /\ UNCHANGED <<frames, traj_meta, topo_by_frame, idx_topo>>

Finish(c) == job' = [job EXCEPT ![c] = Idle]

-----------------------------------------------------------------------------
(* Storing frames.                                                         *)

\* The n texts of `input`, from frame lo on.
PutFrames(t, lo, input) ==
    [k \in Keys |-> IF k[1] = t /\ k[2] - lo + 1 \in DOMAIN input
                    THEN input[k[2] - lo + 1] ELSE frames[k]]

\* Inputs of one or two frames.
FrameLists == {<<a>> : a \in Texts} \cup {<<a, b>> : a \in Texts, b \in Texts}

AppendTrajectory(t, input) ==
    /\ traj_meta[t] = Nil
    /\ Len(input) <= MaxFrames
    /\ frames' = PutFrames(t, 0, input)
    /\ traj_meta' = [traj_meta EXCEPT ![t] = [n |-> Len(input), stamp |-> Nil]]
    /\ UNCHANGED <<topo_by_frame, idx_topo, job>>

LiveCount(t) == IF traj_meta[t] = Nil THEN 0 ELSE traj_meta[t].n

ExtendBegin(c, t, input) ==
    /\ MayStart(c, "extend")
    /\ LiveCount(t) + Len(input) <= MaxFrames
    /\ Start(c, [op |-> "extend", traj |-> t, start |-> LiveCount(t), input |-> input])

\* Mutant: the record is written anew.
ExtendUnstamped(c) ==
    LET j == job[c]
    IN  /\ j.op = "extend"
        /\ LiveCount(j.traj) = j.start
        /\ frames' = PutFrames(j.traj, j.start, j.input)
        /\ traj_meta' = [traj_meta EXCEPT ![j.traj] =
               [n |-> j.start + Len(j.input), stamp |-> Nil]]
        /\ Finish(c)
        /\ UNCHANGED <<topo_by_frame, idx_topo>>

\* Mutant: n_frames may have moved.
ExtendUnchecked(c) ==
    LET j    == job[c]
        live == IF traj_meta[j.traj] = Nil THEN Nil ELSE traj_meta[j.traj].stamp
    IN  /\ j.op = "extend"
        /\ frames' = PutFrames(j.traj, j.start, j.input)
        /\ traj_meta' = [traj_meta EXCEPT ![j.traj] =
               [n |-> j.start + Len(j.input), stamp |-> live]]
        /\ Finish(c)
        /\ UNCHANGED <<topo_by_frame, idx_topo>>

\* The live record keeps its stamp and gets the new count.
ExtendCommit(c) ==
    LET j    == job[c]
        live == IF traj_meta[j.traj] = Nil THEN Nil ELSE traj_meta[j.traj].stamp
    IN  /\ j.op = "extend"
        /\ LiveCount(j.traj) = j.start
        /\ frames' = PutFrames(j.traj, j.start, j.input)
        /\ traj_meta' = [traj_meta EXCEPT ![j.traj] =
               [n |-> j.start + Len(j.input), stamp |-> live]]
        /\ Finish(c)
        /\ UNCHANGED <<topo_by_frame, idx_topo>>

\* "concurrent extend race"
ExtendRace(c) ==
    /\ job[c].op = "extend"
    /\ LiveCount(job[c].traj) # job[c].start
    /\ Finish(c)
    /\ UNCHANGED <<frames, traj_meta, topo_by_frame, idx_topo>>

-----------------------------------------------------------------------------
(* reindex reads the recorded parameters before its write transaction.     *)

ReindexBegin(c) ==
    /\ MayStart(c, "reindex")
    /\ Agreed
    /\ Start(c, [op |-> "reindex", recorded |-> Collected])

StoredRows == {<<topo_by_frame[k], k>> : k \in {l \in Keys : topo_by_frame[l] # Nil}}

\* Mutant: idx_topo is cleared and left at that.
ReindexForgets(c) ==
    /\ job[c].op = "reindex"
    /\ idx_topo' = {}
    /\ Finish(c)
    /\ UNCHANGED <<frames, traj_meta, topo_by_frame>>

\* idx_topo is cleared, and rebuilt if there were parameters at the start.
ReindexCommit(c) ==
    /\ job[c].op = "reindex"
    /\ idx_topo' = IF job[c].recorded # Nil THEN StoredRows ELSE {}
    /\ Finish(c)
    /\ UNCHANGED <<frames, traj_meta, topo_by_frame>>

-----------------------------------------------------------------------------
(* annotate_topology                                                       *)

\* Other parameters than the recorded ones are refused.
AnnotateBegin(c, params) ==
    /\ MayStart(c, "annotate")
    /\ Agreed
    /\ Collected # Nil => Collected.params = params
    /\ Start(c, [op |-> "annotate", at |-> "list", params |-> params,
                 recorded |-> Collected])

\* list_traj_metas, in a transaction of its own.
AnnotateList(c) ==
    LET j == job[c]
    IN  /\ j.op = "annotate" /\ j.at = "list"
        /\ Start(c, [op |-> "annotate", at |-> "read", params |-> j.params,
                     recorded |-> j.recorded, metas |-> traj_meta, texts |-> <<>>])

\* The frames an annotation has to read, by the records it listed.
Listed(j) == {k \in Keys : j.metas[k[1]] # Nil /\ k[2] < j.metas[k[1]].n}

\* One get_frame_text after another, in key order.
AnnotateRead(c) ==
    LET j == job[c]
    IN  /\ j.op = "annotate" /\ j.at = "read"
        /\ \E k \in Listed(j) \ DOMAIN j.texts :
              /\ \A l \in Listed(j) \ DOMAIN j.texts : ~KeyLess(l, k)
              /\ frames[k] # Nil
              /\ Start(c, [j EXCEPT !.texts =
                     [l \in DOMAIN j.texts \cup {k} |->
                         IF l = k THEN frames[k] ELSE j.texts[l]]])

\* put_topo_entry: the old row of a frame goes, the new one comes.
Annotated(new) ==
    /\ topo_by_frame' = [k \in Keys |-> IF k \in DOMAIN new THEN new[k]
                                                            ELSE topo_by_frame[k]]
    /\ idx_topo' = (idx_topo \ {<<topo_by_frame[k], k>> : k \in DOMAIN new})
                       \cup {<<new[k], k>> : k \in DOMAIN new}

\* Mutant: a trajectory's first answer is taken for all its frames.
AnswersOfTheFirst(j, method) ==
    [k \in Listed(j) |-> TopoKey(j.texts[<<k[1], 0>>], j.params, method)]

\* The answers in the order of the frames that were asked about.
Answers(j, method) ==
    [k \in Listed(j) |-> TopoKey(j.texts[k], j.params, method)]

\* stamp_topo
Stamped(params, method) == Stamp(params, method)

\* seams has answered with one method, the recorded one if there is one.
\* Every listed record is written back with the stamp, frames or not.
AnnotateCommit(c, method) ==
    LET j == job[c]
    IN  /\ j.op = "annotate" /\ j.at = "read"
        /\ DOMAIN j.texts = Listed(j) /\ Listed(j) # {}
        /\ j.recorded # Nil => j.recorded.method = method
        /\ Annotated(Answers(j, method))
        /\ traj_meta' = [t \in Trajs |->
               IF j.metas[t] = Nil THEN traj_meta[t]
               ELSE [j.metas[t] EXCEPT !.stamp = Stamped(j.params, method)]]
        /\ Finish(c)
        /\ UNCHANGED frames

\* seams is missing, fails, answers for another number of frames or with two
\* methods; a listed frame is not there; there is nothing to annotate.
AnnotateFail(c) ==
    /\ job[c].op = "annotate"
    /\ Finish(c)
    /\ UNCHANGED <<frames, traj_meta, topo_by_frame, idx_topo>>

-----------------------------------------------------------------------------
Init ==
    /\ frames = [k \in Keys |-> Nil]
    /\ traj_meta = [t \in Trajs |-> Nil]
    /\ topo_by_frame = [k \in Keys |-> Nil]
    /\ idx_topo = {}
    /\ job = [c \in Clients |-> Idle]

Step(c) ==
    \/ \E t \in Trajs, input \in FrameLists : ExtendBegin(c, t, input)
    \/ ExtendCommit(c) \/ ExtendRace(c)
    \/ ReindexBegin(c) \/ ReindexCommit(c)
    \/ \E params \in Params : AnnotateBegin(c, params)
    \/ AnnotateList(c) \/ AnnotateRead(c)
    \/ \E method \in Methods : AnnotateCommit(c, method)
    \/ AnnotateFail(c)

Next ==
    \/ \E t \in Trajs, input \in FrameLists : AppendTrajectory(t, input)
    \/ \E c \in Clients : Step(c)

Spec == Init /\ [][Next]_vars

-----------------------------------------------------------------------------
(* What has to hold.                                                       *)

\* A search by topology key finds the frames that have the key, and no other:
\* idx_topo is topo_by_frame the other way round. reindex rebuilds it "when
\* every annotated trajectory records the same cutoff/graph/hops/method".
RowsMirrorKeys == idx_topo = StoredRows

\* All records that are stamped bear one stamp, and every stored key was made
\* under the stamp of its trajectory ("so methods are never mixed").
MethodsNeverMixed ==
    /\ Agreed
    /\ \A k \in Keys : topo_by_frame[k] # Nil =>
          /\ traj_meta[k[1]] # Nil
          /\ Stamp(topo_by_frame[k].params, topo_by_frame[k].method)
                 = traj_meta[k[1]].stamp

\* A key that is stored is the key of the frame that is stored.
KeysAreOfTheirFrames ==
    \A k \in Keys : topo_by_frame[k] # Nil => topo_by_frame[k].text = frames[k]

\* No extension writes over a frame another one has stored ("Concurrent
\* extend of the same traj_id is rejected if n_frames moved").
NoFrameIsReplaced ==
    [][\A k \in Keys : frames[k] # Nil => frames'[k] = frames[k]]_frames
=============================================================================
