------------------------------ MODULE Selection ------------------------------
(***************************************************************************)
(* select of corpus.rs over the tables of Corpus: one set of keys for each *)
(* predicate, from the index that serves it, intersected, sorted and cut.  *)
(* The exact predicates (symbol, formula, element count, flag, pbc) walk   *)
(* a prefix alike and are the species rows; the ranges (fmax, mass,        *)
(* volume, energy) scan ordered words alike and are the scalar rows.       *)
(***************************************************************************)
EXTENDS Corpus, FloatKeys

CONSTANTS Queries,    \* the selections to look at
          Scalar(_)   \* the float a frame's scalar is

ASSUME SelectionAssumption ==
    /\ \A text \in Texts : Scalar(text) \in Floats
    /\ \A q \in Queries :
          /\ q.hash \in Texts \cup {Nil}
          /\ q.range = Nil \/ q.range \in (Floats \cup {Nil}) \X (Floats \cup {Nil})
          /\ q.limit \in Nat \cup {Nil}

\* A query gives a predicate or leaves it Nil; `range` is the pair of bounds,
\* each a float or Nil.
Given(x) == x # Nil

\* The one key posted for the digest.
HashKeys(h) == IF frame_by_hash[h] = Nil THEN {} ELSE {frame_by_hash[h]}

SpeciesKeys(mol) == {row[2] : row \in {r \in idx : r[1] = <<"species", mol>>}}

\* A scalar that is not finite has no row.
ScalarRows == {r \in idx : r[1][1] = "scalar" /\ IsFinite(Scalar(r[1][2]))}

RangeKeys(lo, hi) ==
    {row[2] : row \in {r \in ScalarRows :
        /\ LowBits(Given(lo), lo) <= OrderedBits(Scalar(r[1][2]))
        /\ OrderedBits(Scalar(r[1][2])) <= HighBits(Given(hi), hi)}}

PredicateSets(q) ==
    (IF Given(q.hash) THEN {HashKeys(q.hash)} ELSE {})
      \cup (IF Given(q.mol) THEN {SpeciesKeys(q.mol)} ELSE {})
      \cup (IF Given(q.range) THEN {RangeKeys(q.range[1], q.range[2])} ELSE {})

\* The hits up to key k: its place when they are sorted.
Place(S, k) == Cardinality({j \in S : KeyLeq(j, k)})

\* Sorted by key, and no more than the limit.
Listed(S, limit) ==
    LET n == IF Given(limit) /\ limit < Cardinality(S) THEN limit ELSE Cardinality(S)
    IN  [i \in 1 .. n |-> CHOOSE k \in S : Place(S, k) = i]

InTraj(q, S) == {k \in S : Given(q.traj) => k[1] = q.traj}

\* Mutant: the limit is applied before the trajectory is looked at.
SelectLimitFirst(q) ==
    LET keys == {k \in Keys : frames[k] # Nil}
        hits == {k \in keys : \A S \in PredicateSets(q) : k \in S}
    IN  SelectSeq(Listed(hits, q.limit), LAMBDA k : Given(q.traj) => k[1] = q.traj)

\* With no predicate every stored key is a hit.
Select(q) ==
    LET sets == PredicateSets(q)
        all  == {k \in Keys : frames[k] # Nil}
        hits == IF sets = {} THEN all
                ELSE {k \in UNION sets : \A S \in sets : k \in S}
    IN  Listed(InTraj(q, hits), q.limit)

-----------------------------------------------------------------------------
\* Does the text of key k satisfy the query, its digest aside?
Matches(k, q) ==
    LET x == Scalar(Text(k))
    IN  /\ Given(q.traj) => k[1] = q.traj
        /\ Given(q.mol) => Text(k).mol = q.mol
        /\ Given(q.range) =>
             /\ IsFinite(x)
             /\ Given(q.range[1]) /\ IsFinite(q.range[1]) => AtMost(q.range[1], x)
             /\ Given(q.range[2]) /\ IsFinite(q.range[2]) => AtMost(x, q.range[2])

\* A selection from the indexes is what a scan that decodes every frame would
\* list, whatever was appended, converted and reindexed before; a digest
\* stands for one of the frames that have it, and that frame must satisfy the
\* other predicates too (architecture.org, "Selection and query costs").
SelectAgreesWithScan ==
    \A q \in Queries :
        LET hits == {k \in Keys : frames[k] # Nil /\ Matches(k, q)}
            same == {k \in Keys : frames[k] # Nil /\ Text(k) = q.hash}
        IN  IF ~Given(q.hash) THEN Select(q) = Listed(hits, q.limit)
            ELSE IF same = {} THEN Select(q) = <<>>
            ELSE \E k \in same : Select(q) = Listed(hits \cap {k}, q.limit)
=============================================================================
