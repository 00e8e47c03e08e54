---------------------------- MODULE CorpusProofs ----------------------------
(***************************************************************************)
(* What the tables of Corpus keep. Whatever operations overlap: their      *)
(* types, that traj_meta counts the frames of every trajectory, and that   *)
(* no frame is read as another (no assumption is made about Conflicts).    *)
(* When one maintenance at a time works on a trajectory (MaintainsAlone):  *)
(* that every frame decodes, that hashes, postings, rows and cooked values *)
(* follow the texts, and that the tables implement FrameStore.             *)
(***************************************************************************)
EXTENDS Corpus, FiniteSetTheorems, SequenceTheorems, WellFoundedInduction, TLAPS

-----------------------------------------------------------------------------
(* pack_aligned and decode_frame, for every group length, every bound and  *)
(* every zstd: what is packed decodes to what was packed, and writing a    *)
(* range of a trajectory leaves the other frames as they were unless one   *)
(* of them redirects into the range.                                       *)

\* A nonempty set of naturals has a least element.
LEMMA LeastNat ==
    ASSUME NEW S, S \subseteq Nat, S # {}
    PROVE  \E m \in S : \A j \in S : m <= j
  <1> DEFINE R == OpToRel(<, Nat)
  <1>1. IsWellFoundedOn(R, Nat)
    BY NatLessThanWellFounded
  <1>2. \A x, y \in Nat : x < y => <<x, y>> \in R
    BY DEF OpToRel
  <1> HIDE DEF R
  <1>3. PICK m \in S : \A j \in S : ~ (<<j, m>> \in R)
    BY <1>1, WFMin
  <1>4. ASSUME NEW j \in S
        PROVE  m <= j
    <2>1. j \in Nat /\ m \in Nat
      OBVIOUS
    <2>2. ~ (j < m)
      BY <1>2, <1>3, <2>1, Zenon
    <2> QED BY <2>1, <2>2
  <1> QED BY <1>4

\* A nonempty set of naturals with an upper bound has a greatest element.
LEMMA GreatestNat ==
    ASSUME NEW S, S \subseteq Nat, S # {}, NEW b \in Nat, \A j \in S : j <= b
    PROVE  \E m \in S : \A j \in S : j <= m
  <1> DEFINE D == {b - j : j \in S}
  <1>1. D \subseteq Nat
    <2>1. \A j \in S : b - j \in Nat
      OBVIOUS
    <2> QED BY <2>1
  <1>5. D # {}
    OBVIOUS
  <1>2. PICK d \in D : \A e \in D : d <= e
    BY <1>1, <1>5, LeastNat
  <1>3. PICK m \in S : d = b - m
    OBVIOUS
  <1>4. \A j \in S : b - m <= b - j
    BY <1>2, <1>3
  <1> QED BY <1>3, <1>4

\* A function on 1..n is a sequence of length n.
LEMMA FunctionIsSeq ==
    ASSUME NEW S, NEW n \in Nat, NEW f \in [1 .. n -> S]
    PROVE  f \in Seq(S) /\ Len(f) = n /\ DOMAIN f = 1 .. n
  OBVIOUS

\* A run is named by a least and a greatest index, both in it.
LEMMA RunEnds ==
    ASSUME NEW lo \in Nat, NEW hi \in Int, NEW i \in lo .. hi
    PROVE  /\ i \in Run(lo, hi, i)
           /\ RunHead(lo, hi, i) \in Run(lo, hi, i)
           /\ RunLast(lo, hi, i) \in Run(lo, hi, i)
           /\ \A j \in Run(lo, hi, i) : RunHead(lo, hi, i) <= j /\ j <= RunLast(lo, hi, i)
  <1>1. i \in Run(lo, hi, i)
    BY DEF Run
  <1>2. Run(lo, hi, i) \subseteq Nat /\ hi \in Nat /\ \A j \in Run(lo, hi, i) : j <= hi
    BY DEF Run
  <1>3. \E m \in Run(lo, hi, i) : \A j \in Run(lo, hi, i) : m <= j
    BY <1>1, <1>2, LeastNat
  <1>4. \E m \in Run(lo, hi, i) : \A j \in Run(lo, hi, i) : j <= m
    BY <1>1, <1>2, GreatestNat
  <1> QED BY <1>1, <1>3, <1>4 DEF RunHead, RunLast

\* Two indices in one run have the same run, so the same head.
LEMMA SameRun ==
    ASSUME NEW lo, NEW hi, NEW i \in lo .. hi, NEW j \in Run(lo, hi, i)
    PROVE  /\ j \in lo .. hi
           /\ Run(lo, hi, j) = Run(lo, hi, i)
           /\ RunHead(lo, hi, j) = RunHead(lo, hi, i)
           /\ RunLast(lo, hi, j) = RunLast(lo, hi, i)
  BY DEF Run, RunHead, RunLast

\* The texts of a run, slot by slot: slot s+1 holds the text of frame head+s.
LEMMA RunTextsType ==
    ASSUME NEW lo \in Nat, NEW texts \in Seq(Texts), NEW i \in lo .. lo + Len(texts) - 1
    PROVE  LET hi   == lo + Len(texts) - 1
               head == RunHead(lo, hi, i)
               run  == RunTexts(lo, hi, i, texts)
           IN  /\ head \in lo .. i
               /\ run \in Seq(Texts)
               /\ i - head < Len(run)
               /\ run[1] = texts[head - lo + 1]
               /\ run[i - head + 1] = texts[i - lo + 1]
  <1> DEFINE hi   == lo + Len(texts) - 1
             head == RunHead(lo, hi, i)
             last == RunLast(lo, hi, i)
             run  == RunTexts(lo, hi, i, texts)
  <1>0. Len(texts) \in Nat /\ hi \in Int
    OBVIOUS
  <1>1. head \in Run(lo, hi, i) /\ last \in Run(lo, hi, i) /\ head <= i /\ i <= last
    BY <1>0, RunEnds
  <1>2. head \in lo .. hi /\ last \in lo .. hi
    BY <1>1 DEF Run
  <1>3. run = [s \in 1 .. last - head + 1 |-> texts[head - lo + s]]
    BY DEF RunTexts
  <1> HIDE DEF hi, head, last, run
  <1>4. \A s \in 1 .. last - head + 1 : texts[head - lo + s] \in Texts
    BY <1>0, <1>1, <1>2 DEF hi
  <1>5. last - head + 1 \in Nat
    BY <1>0, <1>1, <1>2
  <1>6. run \in Seq(Texts) /\ Len(run) = last - head + 1
    BY <1>3, <1>4, <1>5, FunctionIsSeq
  <1>7. i - head + 1 \in 1 .. last - head + 1 /\ 1 \in 1 .. last - head + 1
    BY <1>0, <1>1, <1>2
  <1>8. run[1] = texts[head - lo + 1]
    BY <1>3, <1>7
  <1>9. run[i - head + 1] = texts[head - lo + (i - head + 1)]
    BY <1>3, <1>7
  <1>10. head - lo + (i - head + 1) = i - lo + 1 /\ i - head < Len(run) /\ head \in lo .. i
    BY <1>0, <1>1, <1>2, <1>6
  <1> QED BY <1>6, <1>8, <1>9, <1>10 DEF hi, head, last, run

\* What a prepared range is: single values and groups that start with their
\* own frame's text, and redirects to a group of the same range that holds
\* the frame's text in that slot.
ValuesHold(lo, texts, values) ==
    LET span == lo .. lo + Len(texts) - 1
    IN  /\ values \in [span -> Values]
        /\ \A i \in span :
            \/ /\ values[i].kind \in {"single", "group"}
               /\ 0 < Len(values[i].texts)
               /\ values[i].texts[1] = texts[i - lo + 1]
            \/ /\ values[i].kind = "redirect"
               /\ values[i].head \in span
               /\ values[values[i].head].kind = "group"
               /\ values[i].slot < Len(values[values[i].head].texts)
               /\ values[values[i].head].texts[values[i].slot + 1] = texts[i - lo + 1]

LEMMA SingleShape ==
    ASSUME NEW x \in Texts
    PROVE  /\ Single(x) \in Values
           /\ Single(x).kind = "single"
           /\ Len(Single(x).texts) = 1
           /\ Single(x).texts[1] = x
  BY DEF Single, Values

LEMMA GroupShape ==
    ASSUME NEW r \in Seq(Texts)
    PROVE  Group(r) \in Values /\ Group(r).kind = "group" /\ Group(r).texts = r
  BY DEF Group, Values

LEMMA RedirectShape ==
    ASSUME NEW h \in FrameIdx, NEW s \in Nat \ {0}
    PROVE  /\ Redirect(h, s) \in Values
           /\ Redirect(h, s).kind = "redirect"
           /\ Redirect(h, s).head = h
           /\ Redirect(h, s).slot = s
  BY DEF Redirect, Values

LEMMA PackAlignedHolds ==
    ASSUME NEW lo \in Nat, NEW texts \in Seq(Texts), lo + Len(texts) <= MaxFrames
    PROVE  ValuesHold(lo, texts, PackAligned(lo, texts))
  <1> DEFINE hi      == lo + Len(texts) - 1
             H(i)    == RunHead(lo, hi, i)
             R(i)    == RunTexts(lo, hi, i, texts)
             G(i)    == Len(R(i)) > 1 /\ GroupIsShorter(R(i))
             V       == PackAligned(lo, texts)
  <1>0. Len(texts) \in Nat /\ hi \in Int /\ MaxFrames \in Nat
    BY CodecAssumption
  <1>1. V = [i \in lo .. hi |-> IF G(i) THEN IF i = H(i) THEN Group(R(i))
                                             ELSE Redirect(H(i), i - H(i))
                                ELSE Single(texts[i - lo + 1])]
    BY DEF PackAligned
  <1>2. \A i \in lo .. hi :
            /\ H(i) \in lo .. i
            /\ R(i) \in Seq(Texts)
            /\ i - H(i) < Len(R(i))
            /\ R(i)[1] = texts[H(i) - lo + 1]
            /\ R(i)[i - H(i) + 1] = texts[i - lo + 1]
    BY RunTextsType
  <1>3. \A i \in lo .. hi : H(i) \in lo .. hi /\ H(H(i)) = H(i) /\ R(H(i)) = R(i)
    <2> TAKE i \in lo .. hi
    <2>1. H(i) \in Run(lo, hi, i)
      BY <1>0, RunEnds
    <2>2. /\ H(i) \in lo .. hi
          /\ RunHead(lo, hi, H(i)) = RunHead(lo, hi, i)
          /\ RunLast(lo, hi, H(i)) = RunLast(lo, hi, i)
      BY <2>1, SameRun
    <2> QED BY <2>2 DEF RunTexts
  <1> HIDE DEF V, H, R, G
  <1>4. ASSUME NEW i \in lo .. hi
        PROVE  /\ V[i] \in Values
               /\ \/ /\ V[i].kind \in {"single", "group"}
                     /\ 0 < Len(V[i].texts)
                     /\ V[i].texts[1] = texts[i - lo + 1]
                  \/ /\ V[i].kind = "redirect"
                     /\ V[i].head \in lo .. hi
                     /\ V[V[i].head].kind = "group"
                     /\ V[i].slot < Len(V[V[i].head].texts)
                     /\ V[V[i].head].texts[V[i].slot + 1] = texts[i - lo + 1]
    <2>1. CASE ~ G(i)
      <3>1. V[i] = Single(texts[i - lo + 1])
        BY <1>1, <2>1
      <3>2. texts[i - lo + 1] \in Texts
        BY <1>0
      <3> QED BY <3>1, <3>2, SingleShape
    <2>2. CASE G(i) /\ i = H(i)
      <3>1. V[i] = Group(R(i))
        BY <1>1, <2>2
      <3>2. Group(R(i)).kind = "group" /\ Group(R(i)).texts = R(i) /\ Group(R(i)) \in Values
        BY <1>2, GroupShape
      <3>3. i - H(i) = 0 /\ i - H(i) + 1 = 1
        BY <1>0, <2>2
      <3>4. R(i)[1] = texts[i - lo + 1] /\ 0 < Len(R(i))
        BY <3>3, <1>2
      <3> QED BY <3>1, <3>2, <3>4
    <2>3. CASE G(i) /\ i # H(i)
      <3>1. V[i] = Redirect(H(i), i - H(i))
        BY <1>1, <2>3
      <3>2. H(i) \in lo .. hi /\ H(H(i)) = H(i) /\ R(H(i)) = R(i) /\ G(H(i))
        BY <1>3, <2>3 DEF G
      <3>3. V[H(i)] = Group(R(i))
        BY <1>1, <3>2
      <3>4. H(i) \in FrameIdx /\ i - H(i) \in Nat \ {0}
        BY <1>0, <1>2, <2>3, <3>2 DEF FrameIdx
      <3>5. Group(R(i)).kind = "group" /\ Group(R(i)).texts = R(i)
        BY <1>2, GroupShape
      <3>6. V[i].kind = "redirect" /\ V[i].head = H(i) /\ V[i].slot = i - H(i) /\ V[i] \in Values
        BY <3>1, <3>4, RedirectShape
      <3>7. V[H(i)].kind = "group" /\ V[H(i)].texts = R(i)
        BY <3>3, <3>5
      <3> QED BY <3>2, <3>6, <3>7, <1>2
    <2> QED BY <2>1, <2>2, <2>3
  <1>5. V \in [lo .. hi -> Values]
    BY <1>1, <1>4
  <1>6. ValuesHold(lo, texts, V)
    BY <1>4, <1>5 DEF ValuesHold
  <1> QED BY <1>6 DEF V

LEMMA StoredValuesHold ==
    ASSUME NEW lo \in Nat, NEW texts \in Seq(Texts), lo + Len(texts) <= MaxFrames,
           NEW compress
    PROVE  ValuesHold(lo, texts, StoredValues(lo, texts, compress))
  <1> DEFINE hi == lo + Len(texts) - 1
             S  == [i \in lo .. hi |-> Single(texts[i - lo + 1])]
  <1>1. CASE compress
    BY <1>1, PackAlignedHolds DEF StoredValues
  <1>2. CASE ~ compress
    <2>1. \A i \in lo .. hi : texts[i - lo + 1] \in Texts
      OBVIOUS
    <2>2. \A i \in lo .. hi : S[i] = Single(texts[i - lo + 1])
      OBVIOUS
    <2>3. \A i \in lo .. hi :
              /\ S[i] \in Values
              /\ S[i].kind = "single"
              /\ Len(S[i].texts) = 1
              /\ S[i].texts[1] = texts[i - lo + 1]
      BY <2>1, <2>2, SingleShape
    <2>4. S \in [lo .. hi -> Values]
      BY <2>3
    <2>5. S = StoredValues(lo, texts, compress)
      BY <1>2 DEF StoredValues
    <2> HIDE DEF S
    <2>6. ValuesHold(lo, texts, S)
      BY <2>3, <2>4 DEF ValuesHold
    <2> QED BY <2>5, <2>6
  <1> QED BY <1>1, <1>2

\* Where the texts of a prepared range lie: a single value or a group holds,
\* slot after slot, the texts of its own frame and of those after it in the
\* range, and a redirect names a head and a slot that add up to its own index.
ValuesLineUp(lo, texts, values) ==
    LET span == lo .. lo + Len(texts) - 1
    IN  \A i \in span :
            \/ /\ values[i].kind \in {"single", "group"}
               /\ \A s \in 1 .. Len(values[i].texts) :
                      i + s - 1 \in span /\ values[i].texts[s] = texts[i - lo + s]
            \/ /\ values[i].kind = "redirect"
               /\ values[i].head + values[i].slot = i

LEMMA StoredValuesLineUp ==
    ASSUME NEW lo \in Nat, NEW texts \in Seq(Texts), lo + Len(texts) <= MaxFrames,
           NEW compress
    PROVE  ValuesLineUp(lo, texts, StoredValues(lo, texts, compress))
  <1> DEFINE hi      == lo + Len(texts) - 1
             H(i)    == RunHead(lo, hi, i)
             R(i)    == RunTexts(lo, hi, i, texts)
             L(i)    == RunLast(lo, hi, i)
             V       == StoredValues(lo, texts, compress)
  <1>0. Len(texts) \in Nat /\ hi \in Int
    OBVIOUS
  <1>1. ASSUME NEW i \in lo .. hi
        PROVE  \/ V[i] = Single(texts[i - lo + 1])
               \/ V[i] = Group(R(i)) /\ i = H(i)
               \/ V[i] = Redirect(H(i), i - H(i))
    BY DEF StoredValues, PackAligned
  <1>2. ASSUME NEW i \in lo .. hi
        PROVE  /\ H(i) \in lo .. i /\ R(i) \in Seq(Texts)
               /\ L(i) \in i .. hi
               /\ R(i) = [s \in 1 .. L(i) - H(i) + 1 |-> texts[H(i) - lo + s]]
    <2>1. L(i) \in Run(lo, hi, i) /\ i <= L(i)
      BY <1>0, RunEnds
    <2>2. L(i) \in lo .. hi
      BY <2>1 DEF Run
    <2>3. H(i) \in lo .. i /\ R(i) \in Seq(Texts)
      BY RunTextsType
    <2>4. L(i) \in i .. hi
      BY <1>0, <2>1, <2>2
    <2> QED BY <2>3, <2>4 DEF RunTexts
  <1> HIDE DEF V, H, R, L
  <1>3. ASSUME NEW i \in lo .. hi
        PROVE  \/ /\ V[i].kind \in {"single", "group"}
                  /\ \A s \in 1 .. Len(V[i].texts) :
                         i + s - 1 \in lo .. hi /\ V[i].texts[s] = texts[i - lo + s]
               \/ V[i].kind = "redirect" /\ V[i].head + V[i].slot = i
    <2>1. CASE V[i] = Single(texts[i - lo + 1])
      <3>1. V[i].kind = "single" /\ V[i].texts = <<texts[i - lo + 1]>>
        BY <2>1 DEF Single
      <3> HIDE DEF hi
      <3>2. \A s \in 1 .. Len(V[i].texts) : s = 1
        BY <3>1
      <3> QED BY <1>0, <3>1, <3>2
    <2>2. CASE V[i] = Group(R(i)) /\ i = H(i)
      <3>1. V[i].kind = "group" /\ V[i].texts = R(i)
        BY <2>2 DEF Group
      <3>2. /\ L(i) - i + 1 \in Nat /\ i \in Nat /\ L(i) \in Nat
            /\ R(i) = [s \in 1 .. L(i) - i + 1 |-> texts[i - lo + s]]
        BY <1>0, <1>2, <2>2
      <3>3. Len(R(i)) = L(i) - i + 1
        <4>1. \A s \in 1 .. L(i) - i + 1 : texts[i - lo + s] \in Texts
          BY <1>0, <1>2, <3>2
        <4> QED BY <3>2, <4>1, FunctionIsSeq
      <3>4. \A s \in 1 .. Len(R(i)) : i + s - 1 \in lo .. hi /\ R(i)[s] = texts[i - lo + s]
        BY <1>0, <1>2, <3>2, <3>3
      <3> QED BY <3>1, <3>4
    <2>3. CASE V[i] = Redirect(H(i), i - H(i))
      <3>1. V[i].kind = "redirect" /\ V[i].head = H(i) /\ V[i].slot = i - H(i)
        BY <2>3 DEF Redirect
      <3> QED BY <1>0, <1>2, <3>1
    <2> QED BY <1>1, <2>1, <2>2, <2>3
  <1> QED BY <1>3 DEF ValuesLineUp, V

-----------------------------------------------------------------------------
(* Keys, and the tables as functions of keys.                              *)

LEMMA KeyFacts ==
    /\ MaxFrames \in Nat
    /\ \A k \in Keys : k[1] \in Trajs /\ k[2] \in FrameIdx /\ k = <<k[1], k[2]>>
    /\ \A t \in Trajs, i \in FrameIdx : <<t, i>> \in Keys
    /\ \A i \in FrameIdx : i \in Nat
    /\ \A t \in Trajs : t \in Nat
  BY CodecAssumption DEF Keys, FrameIdx

\* The range of keys a write covers lies inside Keys.
LEMMA KeyRangeType ==
    ASSUME NEW t \in Trajs, NEW lo \in Nat, NEW n \in Nat, lo + n <= MaxFrames
    PROVE  /\ KeyRange(t, lo, n) \subseteq Keys
           /\ \A k \in KeyRange(t, lo, n) :
                  k[1] = t /\ k[2] \in lo .. lo + n - 1 /\ k[2] - lo + 1 \in 1 .. n
           /\ \A k \in Keys : k \in KeyRange(t, lo, n) <=> k[1] = t /\ k[2] \in lo .. lo + n - 1
  <1>1. \A i \in lo .. lo + n - 1 : i \in FrameIdx /\ i - lo + 1 \in 1 .. n
    BY KeyFacts DEF FrameIdx
  <1>2. \A k \in KeyRange(t, lo, n) : \E i \in lo .. lo + n - 1 : k = <<t, i>>
    BY DEF KeyRange
  <1>3. \A k \in KeyRange(t, lo, n) : k \in Keys /\ k[1] = t /\ k[2] \in lo .. lo + n - 1
    BY <1>1, <1>2, KeyFacts
  <1>4. ASSUME NEW k \in Keys, k[1] = t, k[2] \in lo .. lo + n - 1
        PROVE  k \in KeyRange(t, lo, n)
    <2>1. k = <<t, k[2]>>
      BY <1>4, KeyFacts
    <2> QED BY <2>1, <1>4 DEF KeyRange
  <1> QED BY <1>1, <1>3, <1>4

\* A cursor's first key is in the set and below the others.
LEMMA LowestKeyIsLeast ==
    ASSUME NEW S, S \subseteq Keys
    PROVE  /\ S = {} => LowestKey(S) = Nil
           /\ S # {} => LowestKey(S) \in S
           /\ LowestKey(S) \in Keys \cup {Nil}
  <1>1. ASSUME S # {}
        PROVE  \E k \in S : \A j \in S : KeyLeq(k, j)
    <2> DEFINE A == {k[1] : k \in S}
    <2>1. A \subseteq Nat /\ A # {}
      BY <1>1, KeyFacts
    <2>2. PICK a \in A : \A b \in A : a <= b
      BY <2>1, LeastNat
    <2> DEFINE B == {k[2] : k \in {j \in S : j[1] = a}}
    <2>3. B \subseteq Nat /\ B # {}
      BY KeyFacts
    <2>4. PICK m \in B : \A b \in B : m <= b
      BY <2>3, LeastNat
    <2>5. PICK k \in S : k[1] = a /\ k[2] = m
      OBVIOUS
    <2>6. ASSUME NEW j \in S
          PROVE  KeyLeq(k, j)
      <3>1. a <= j[1] /\ a \in Nat /\ j[1] \in Nat
        BY <2>1, <2>2, KeyFacts
      <3>2. j[1] = a => m <= j[2]
        BY <2>4
      <3> QED BY <2>5, <3>1, <3>2 DEF KeyLeq
    <2> QED BY <2>6
  <1> QED BY <1>1 DEF LowestKey

\* put_index_puts on frames: the range gets the prepared values, no other key
\* changes.
LEMMA PutFramesFacts ==
    ASSUME NEW fr \in [Keys -> Values \cup {Nil}], NEW t \in Trajs, NEW lo,
           NEW values, values \in [DOMAIN values -> Values],
           DOMAIN values \subseteq FrameIdx
    PROVE  /\ PutFrames(fr, t, lo, values) \in [Keys -> Values \cup {Nil}]
           /\ \A i \in DOMAIN values : PutFrames(fr, t, lo, values)[<<t, i>>] = values[i]
           /\ \A k \in Keys : k[1] # t \/ k[2] \notin DOMAIN values =>
                                  PutFrames(fr, t, lo, values)[k] = fr[k]
  <1>1. \A i \in DOMAIN values : <<t, i>> \in Keys
    BY KeyFacts
  <1> QED BY <1>1 DEF PutFrames

LEMMA PutHashesType ==
    ASSUME NEW hb \in [Keys -> Texts \cup {Nil}], NEW t \in Trajs, NEW lo \in Nat,
           NEW texts \in Seq(Texts), lo + Len(texts) <= MaxFrames
    PROVE  PutHashes(hb, t, lo, texts) \in [Keys -> Texts \cup {Nil}]
  <1>1. \A k \in Keys : k \in KeyRange(t, lo, Len(texts)) => texts[k[2] - lo + 1] \in Texts
    BY KeyRangeType
  <1> QED BY <1>1 DEF PutHashes

LEMMA PutPostingsType ==
    ASSUME NEW fb \in [Texts -> Keys \cup {Nil}], NEW t \in Trajs, NEW lo \in Nat,
           NEW texts \in Seq(Texts), lo + Len(texts) <= MaxFrames
    PROVE  PutPostings(fb, t, lo, texts) \in [Texts -> Keys \cup {Nil}]
  <1> DEFINE S(h) == {k \in KeyRange(t, lo, Len(texts)) : texts[k[2] - lo + 1] = h}
  <1>1. \A h : S(h) \subseteq Keys
    BY KeyRangeType
  <1>2. \A h : LowestKey(S(h)) \in Keys \cup {Nil}
    BY <1>1, LowestKeyIsLeast
  <1>3. PutPostings(fb, t, lo, texts) =
            [h \in Texts |-> IF fb[h] # Nil THEN fb[h] ELSE LowestKey(S(h))]
    BY DEF PutPostings
  <1> HIDE DEF S
  <1> QED BY <1>2, <1>3

LEMMA RepointedType ==
    ASSUME NEW fb \in [Texts -> Keys \cup {Nil}], NEW stale, NEW hb
    PROVE  Repointed(fb, stale, hb) \in [Texts -> Keys \cup {Nil}]
  <1> DEFINE S(h) == {k \in Keys : hb[k] = h}
  <1>1. \A h : LowestKey(S(h)) \in Keys \cup {Nil}
    BY LowestKeyIsLeast
  <1>2. Repointed(fb, stale, hb) =
            [h \in Texts |-> IF h \in stale /\ fb[h] # Nil /\ hb[fb[h]] = Nil
                             THEN LowestKey(S(h)) ELSE fb[h]]
    BY DEF Repointed
  <1> HIDE DEF S
  <1> QED BY <1>1, <1>2

LEMMA DropKeysType ==
    ASSUME NEW table \in [Keys -> Texts \cup {Nil}], NEW ks
    PROVE  DropKeys(table, ks) \in [Keys -> Texts \cup {Nil}]
  BY DEF DropKeys

LEMMA RowsOfType ==
    ASSUME NEW t \in Trajs, NEW lo \in Nat,
           NEW parsed \in Seq(Texts), lo + Len(parsed) <= MaxFrames
    PROVE  RowsOf(t, lo, parsed) \subseteq AllRows \X Keys
  <1> DEFINE R == KeyRange(t, lo, Len(parsed))
  <1>1. \A k \in R : k \in Keys /\ parsed[k[2] - lo + 1] \in Texts
    BY KeyRangeType
  <1>2. \A f \in Texts : Rows(f) \subseteq AllRows
    BY DEF AllRows
  <1>3. \A r \in RowsOf(t, lo, parsed) :
            \E k \in R : r \in Rows(parsed[k[2] - lo + 1]) \X {k}
    BY DEF RowsOf
  <1> HIDE DEF R
  <1>4. ASSUME NEW r \in RowsOf(t, lo, parsed)
        PROVE  r \in AllRows \X Keys
    <2>1. PICK k \in R : r \in Rows(parsed[k[2] - lo + 1]) \X {k}
      BY <1>3
    <2>2. Rows(parsed[k[2] - lo + 1]) \subseteq AllRows
      BY <1>1, <1>2
    <2> QED BY <2>1, <2>2, <1>1
  <1> QED BY <1>4

LEMMA PrintedType ==
    ASSUME NEW input \in Seq(Texts), NEW format
    PROVE  LET texts == [i \in DOMAIN input |-> Printed(input[i], format)]
           IN  texts \in Seq(Texts) /\ Len(texts) = Len(input)
  <1>1. \A x \in Texts : Printed(x, format) \in Texts
    BY DEF Printed, Texts
  <1>2. DOMAIN input = 1 .. Len(input) /\ Len(input) \in Nat
    OBVIOUS
  <1>3. \A i \in 1 .. Len(input) : Printed(input[i], format) \in Texts
    BY <1>1
  <1> QED BY <1>2, <1>3, FunctionIsSeq

LEMMA RescaledType ==
    ASSUME NEW parsed \in Seq(Texts), NEW units \in UnitSystems
    PROVE  LET texts == [i \in DOMAIN parsed |-> Rescaled(parsed[i], units)]
           IN  texts \in Seq(Texts) /\ Len(texts) = Len(parsed)
  <1>1. \A x \in Texts : Rescaled(x, units) \in Texts
    BY DEF Rescaled, Texts
  <1>2. DOMAIN parsed = 1 .. Len(parsed) /\ Len(parsed) \in Nat
    OBVIOUS
  <1>3. \A i \in 1 .. Len(parsed) : Rescaled(parsed[i], units) \in Texts
    BY <1>1
  <1> QED BY <1>2, <1>3, FunctionIsSeq

\* A decoded frame is a text.
LEMMA DecodeType ==
    ASSUME NEW fr \in [Keys -> Values \cup {Nil}], NEW k \in Keys
    PROVE  Decode(fr, k) \in Texts \cup {Nil}
  <1>1. ASSUME NEW v \in Values \cup {Nil}, NEW s \in Nat
        PROVE  SlotText(v, s) \in Texts \cup {Nil}
    <2>1. CASE v = Nil \/ v.kind = "redirect" \/ s >= Len(v.texts)
      BY <2>1 DEF SlotText
    <2>2. CASE ~ (v = Nil \/ v.kind = "redirect" \/ s >= Len(v.texts))
      <3>1. v.texts \in Seq(Texts)
        BY <2>2 DEF Values
      <3>2. v.texts[s + 1] \in Texts
        BY <2>2, <3>1
      <3> QED BY <2>2, <3>2 DEF SlotText
    <2> QED BY <2>1, <2>2
  <1>2. CASE fr[k] # Nil /\ fr[k].kind = "redirect"
    <2>1. fr[k].head \in FrameIdx /\ fr[k].slot \in Nat
      BY <1>2 DEF Values
    <2>2. <<k[1], fr[k].head>> \in Keys
      BY <2>1, KeyFacts
    <2> QED BY <1>1, <1>2, <2>1, <2>2 DEF Decode
  <1>3. CASE ~ (fr[k] # Nil /\ fr[k].kind = "redirect")
    BY <1>1, <1>3 DEF Decode
  <1> QED BY <1>2, <1>3

-----------------------------------------------------------------------------
(* The inductive invariant of the counts: what an operation has read so    *)
(* far stays within the trajectory it read it from.                        *)

LiveIn(tm, t) == IF tm[t] = Nil THEN 0 ELSE tm[t]

Within(j, tm) ==
    /\ j.op = "extend" => j.start + Len(j.input) <= MaxFrames
    /\ j.op = "set_units" => /\ Len(j.parsed) <= Len(j.blobs)
                             /\ Len(j.blobs) <= j.n
                             /\ j.n <= LiveIn(tm, j.traj)
    /\ j.op = "repack" => /\ Len(j.olds) <= Len(j.blobs)
                          /\ Len(j.blobs) <= j.n
                          /\ j.n <= LiveIn(tm, j.traj)

JobBounds == \A c \in Clients : Within(job[c], traj_meta)

CountInv == TypeOK /\ CountMatchesFrames /\ JobBounds

\* The fields an operation's record has.
LEMMA JobFields ==
    ASSUME NEW j \in Jobs
    PROVE  /\ j.op = "extend" => /\ j.traj \in Trajs /\ j.start \in 0 .. MaxFrames
                                 /\ j.input \in Seq(Texts)
           /\ j.op = "set_units" => /\ j.traj \in Trajs /\ j.n \in 1 .. MaxFrames
                                    /\ j.units \in UnitSystems
                                    /\ j.blobs \in Seq(Texts) /\ j.parsed \in Seq(Texts)
           /\ j.op = "repack" => /\ j.traj \in Trajs /\ j.n \in 1 .. MaxFrames
                                 /\ j.blobs \in Seq(Texts) /\ j.olds \in Seq(Values)
           /\ j.op = "cook" => j.traj \in Trajs /\ j.at \in FrameIdx /\ j.text \in Texts
  BY DEF Jobs

LEMMA LiveInType ==
    ASSUME NEW tm \in [Trajs -> 0 .. MaxFrames \cup {Nil}], NEW t \in Trajs
    PROVE  /\ LiveIn(tm, t) \in 0 .. MaxFrames
           /\ LiveIn(tm, t) \in Nat
  BY KeyFacts DEF LiveIn

LEMMA LiveCountIs ==
    ASSUME NEW t \in Trajs
    PROVE  LiveCount(t) = LiveIn(traj_meta, t)
  BY DEF LiveCount, LiveIn

LEMMA IdleJob == Idle \in Jobs /\ \A tm : Within(Idle, tm)
  BY DEF Idle, Jobs, Within

\* Bounds that hold of a job go on holding when no trajectory shrinks.
LEMMA WithinGrows ==
    ASSUME NEW j \in Jobs,
           NEW tm \in [Trajs -> 0 .. MaxFrames \cup {Nil}],
           NEW um \in [Trajs -> 0 .. MaxFrames \cup {Nil}],
           \A t \in Trajs : LiveIn(tm, t) <= LiveIn(um, t),
           Within(j, tm)
    PROVE  Within(j, um)
  <1>1. CASE j.op = "set_units"
    <2>1. j.traj \in Trajs /\ j.n \in Nat
      BY <1>1, JobFields, KeyFacts
    <2>2. LiveIn(tm, j.traj) <= LiveIn(um, j.traj) /\ LiveIn(tm, j.traj) \in Nat /\ LiveIn(um, j.traj) \in Nat
      BY <2>1, LiveInType
    <2> QED BY <1>1, <2>1, <2>2 DEF Within
  <1>2. CASE j.op = "repack"
    <2>1. j.traj \in Trajs /\ j.n \in Nat
      BY <1>2, JobFields, KeyFacts
    <2>2. LiveIn(tm, j.traj) <= LiveIn(um, j.traj) /\ LiveIn(tm, j.traj) \in Nat /\ LiveIn(um, j.traj) \in Nat
      BY <2>1, LiveInType
    <2> QED BY <1>2, <2>1, <2>2 DEF Within
  <1>3. CASE j.op # "set_units" /\ j.op # "repack"
    BY <1>3 DEF Within
  <1> QED BY <1>1, <1>2, <1>3

\* A step that gives one client a job within bounds, and shrinks no count,
\* keeps every job typed and within bounds.
LEMMA JobsKept ==
    ASSUME TypeOK, JobBounds, NEW c \in Clients, NEW j \in Jobs,
           job' = [job EXCEPT ![c] = j],
           traj_meta' \in [Trajs -> 0 .. MaxFrames \cup {Nil}],
           \A t \in Trajs : LiveIn(traj_meta, t) <= LiveIn(traj_meta', t),
           Within(j, traj_meta')
    PROVE  job' \in [Clients -> Jobs] /\ JobBounds'
  <1>1. job \in [Clients -> Jobs] /\ traj_meta \in [Trajs -> 0 .. MaxFrames \cup {Nil}]
    BY DEF TypeOK
  <1>2. \A d \in Clients : Within(job[d], traj_meta')
    BY <1>1, WithinGrows DEF JobBounds
  <1> QED BY <1>1, <1>2 DEF JobBounds

\* The same when no job changes.
LEMMA JobsUnchanged ==
    ASSUME TypeOK, JobBounds, job' = job,
           traj_meta' \in [Trajs -> 0 .. MaxFrames \cup {Nil}],
           \A t \in Trajs : LiveIn(traj_meta, t) <= LiveIn(traj_meta', t)
    PROVE  job' \in [Clients -> Jobs] /\ JobBounds'
  <1>1. job \in [Clients -> Jobs] /\ traj_meta \in [Trajs -> 0 .. MaxFrames \cup {Nil}]
    BY DEF TypeOK
  <1> QED BY <1>1, WithinGrows DEF JobBounds

\* Starting, going on with, or finishing an operation leaves the tables alone.
LEMMA JobStep ==
    ASSUME CountInv, NEW c \in Clients, NEW j \in Jobs, Within(j, traj_meta),
           job' = [job EXCEPT ![c] = j], UNCHANGED tables
    PROVE  CountInv'
  <1>1. \A t \in Trajs : LiveIn(traj_meta, t) <= LiveIn(traj_meta', t)
    BY LiveInType DEF tables, CountInv, TypeOK
  <1>2. traj_meta' = traj_meta /\ traj_meta' \in [Trajs -> 0 .. MaxFrames \cup {Nil}]
    BY DEF tables, CountInv, TypeOK
  <1>3. job' \in [Clients -> Jobs] /\ JobBounds'
    BY <1>1, <1>2, JobsKept DEF CountInv
  <1>4. TypeOK'
    BY <1>3 DEF CountInv, TypeOK, tables
  <1>5. CountMatchesFrames'
    BY DEF CountInv, CountMatchesFrames, StoredIdx, LiveCount, tables
  <1> QED BY <1>3, <1>4, <1>5 DEF CountInv

\* Putting values adds the indices they cover to those that are stored.
LEMMA PutCovers ==
    ASSUME NEW fr \in [Keys -> Values \cup {Nil}], NEW t \in Trajs, NEW lo,
           NEW values, values \in [DOMAIN values -> Values],
           DOMAIN values \subseteq FrameIdx
    PROVE  LET P == PutFrames(fr, t, lo, values)
           IN  /\ P \in [Keys -> Values \cup {Nil}]
               /\ \A u \in Trajs, i \in FrameIdx :
                      P[<<u, i>>] # Nil <=> fr[<<u, i>>] # Nil \/ (u = t /\ i \in DOMAIN values)
  <1> DEFINE P == PutFrames(fr, t, lo, values)
  <1>1. /\ P \in [Keys -> Values \cup {Nil}]
        /\ \A i \in DOMAIN values : P[<<t, i>>] = values[i]
        /\ \A k \in Keys : k[1] # t \/ k[2] \notin DOMAIN values => P[k] = fr[k]
    BY PutFramesFacts
  <1> HIDE DEF P
  <1>2. ASSUME NEW u \in Trajs, NEW i \in FrameIdx
        PROVE  P[<<u, i>>] # Nil <=> fr[<<u, i>>] # Nil \/ (u = t /\ i \in DOMAIN values)
    <2>1. CASE u = t /\ i \in DOMAIN values
      <3>1. P[<<u, i>>] = values[i] /\ values[i] \in Values
        BY <1>1, <2>1
      <3> QED BY <3>1, <2>1, NilAssumption
    <2>2. CASE ~ (u = t /\ i \in DOMAIN values)
      BY <1>1, <2>2, KeyFacts
    <2> QED BY <2>1, <2>2
  <1> QED BY <1>1, <1>2 DEF P

\* If the counts grow by what was put, they go on matching the frames.
LEMMA CountsAfterPut ==
    ASSUME CountInv, NEW t \in Trajs, NEW lo,
           NEW values, values \in [DOMAIN values -> Values],
           DOMAIN values \subseteq FrameIdx,
           frames' = PutFrames(frames, t, lo, values),
           traj_meta' \in [Trajs -> 0 .. MaxFrames \cup {Nil}],
           \A u \in Trajs, i \in FrameIdx :
               i < LiveIn(traj_meta', u) <=>
                   i < LiveIn(traj_meta, u) \/ (u = t /\ i \in DOMAIN values)
    PROVE  frames' \in [Keys -> Values \cup {Nil}] /\ CountMatchesFrames'
  <1>0. frames \in [Keys -> Values \cup {Nil}]
    BY DEF CountInv, TypeOK
  <1>1. \A u \in Trajs, i \in FrameIdx :
            frames[<<u, i>>] # Nil <=> i \in 0 .. LiveIn(traj_meta, u) - 1
    BY LiveCountIs DEF CountInv, CountMatchesFrames, StoredIdx
  <1>2. /\ frames' \in [Keys -> Values \cup {Nil}]
        /\ \A u \in Trajs, i \in FrameIdx :
               frames'[<<u, i>>] # Nil <=> frames[<<u, i>>] # Nil \/ (u = t /\ i \in DOMAIN values)
    BY <1>0, PutCovers
  <1>3. ASSUME NEW u \in Trajs
        PROVE  StoredIdx(u)' = 0 .. LiveIn(traj_meta', u) - 1
    <2> DEFINE L == LiveIn(traj_meta, u)
               M == LiveIn(traj_meta', u)
    <2>1. L \in Nat /\ M \in 0 .. MaxFrames /\ M \in Nat
      BY LiveInType DEF CountInv, TypeOK
    <2>2. \A i \in FrameIdx : frames'[<<u, i>>] # Nil <=> i \in 0 .. L - 1 \/ (u = t /\ i \in DOMAIN values)
      BY <1>1, <1>2
    <2>3. \A i \in FrameIdx : i < M <=> i < L \/ (u = t /\ i \in DOMAIN values)
      OBVIOUS
    <2> HIDE DEF L, M
    <2>4. \A i \in FrameIdx : i < L <=> i \in 0 .. L - 1
      BY <2>1, KeyFacts
    <2>5. \A i : i \in FrameIdx /\ i < M <=> i \in 0 .. M - 1
      BY <2>1, KeyFacts DEF FrameIdx
    <2>6. \A i \in FrameIdx : frames'[<<u, i>>] # Nil <=> i < M
      BY <2>2, <2>3, <2>4
    <2>7. StoredIdx(u)' = 0 .. M - 1
      BY <2>5, <2>6 DEF StoredIdx
    <2> QED BY <2>7 DEF M
  <1>4. \A u \in Trajs : LiveCount(u)' = LiveIn(traj_meta', u)
    BY DEF LiveCount, LiveIn
  <1> QED BY <1>2, <1>3, <1>4 DEF CountMatchesFrames

-----------------------------------------------------------------------------
(* One lemma for each action that changes a table the counts depend on.    *)

LEMMA AppendKeepsCounts ==
    ASSUME CountInv, NEW t \in Trajs, NEW input \in Inputs, NEW format, NEW compress,
           AppendTrajectory(t, input, format, compress)
    PROVE  CountInv'
  <1> DEFINE texts  == [i \in DOMAIN input |-> Printed(input[i], format)]
             values == StoredValues(0, texts, compress)
  <1>0. input \in Seq(Texts) /\ Len(input) \in Nat /\ Len(input) <= MaxFrames
    BY CorpusAssumption DEF AppendTrajectory
  <1>1. texts \in Seq(Texts) /\ Len(texts) = Len(input)
    BY <1>0, PrintedType
  <1>2. /\ traj_meta[t] = Nil
        /\ frames' = PutFrames(frames, t, 0, values)
        /\ hash_by_frame' = PutHashes(hash_by_frame, t, 0, texts)
        /\ frame_by_hash' = PutPostings(frame_by_hash, t, 0, texts)
        /\ idx' = idx \cup RowsOf(t, 0, input)
        /\ traj_meta' = [traj_meta EXCEPT ![t] = Len(input)]
        /\ frames_soa' = frames_soa /\ job' = job
    BY DEF AppendTrajectory
  <1> HIDE DEF texts
  <1>3. /\ values \in [DOMAIN values -> Values]
        /\ DOMAIN values = 0 .. Len(input) - 1
        /\ DOMAIN values \subseteq FrameIdx
    <2>1. ValuesHold(0, texts, values)
      BY <1>0, <1>1, StoredValuesHold
    <2> QED BY <2>1, <1>0, <1>1, KeyFacts DEF ValuesHold, FrameIdx
  <1> HIDE DEF values
  <1>4. traj_meta \in [Trajs -> 0 .. MaxFrames \cup {Nil}]
    BY DEF CountInv, TypeOK
  <1>5. Len(input) \in 0 .. MaxFrames /\ Len(input) # Nil
    BY <1>0, NilAssumption, KeyFacts
  <1>6. /\ traj_meta' \in [Trajs -> 0 .. MaxFrames \cup {Nil}]
        /\ LiveIn(traj_meta, t) = 0 /\ LiveIn(traj_meta', t) = Len(input)
        /\ \A u \in Trajs \ {t} : LiveIn(traj_meta', u) = LiveIn(traj_meta, u)
    BY <1>2, <1>4, <1>5 DEF LiveIn
  <1>7. \A u \in Trajs : LiveIn(traj_meta, u) <= LiveIn(traj_meta', u)
    BY <1>0, <1>4, <1>6, LiveInType
  <1>8. frames' \in [Keys -> Values \cup {Nil}] /\ CountMatchesFrames'
    <2>1. \A i \in FrameIdx : i < Len(input) <=> i < 0 \/ i \in 0 .. Len(input) - 1
      BY <1>0, KeyFacts
    <2>2. \A u \in Trajs, i \in FrameIdx :
              i < LiveIn(traj_meta', u) <=>
                  i < LiveIn(traj_meta, u) \/ (u = t /\ i \in DOMAIN values)
      BY <1>3, <1>6, <2>1
    <2> QED BY <1>2, <1>3, <1>6, <2>2, CountsAfterPut
  <1>9. job' \in [Clients -> Jobs] /\ JobBounds'
    BY <1>2, <1>6, <1>7, JobsUnchanged DEF CountInv
  <1>10. TypeOK'
    <2>0. /\ hash_by_frame \in [Keys -> Texts \cup {Nil}]
          /\ frame_by_hash \in [Texts -> Keys \cup {Nil}]
          /\ idx \subseteq AllRows \X Keys
          /\ frames_soa \in [Keys -> Texts \cup {Nil}]
      BY DEF CountInv, TypeOK
    <2>a. 0 \in Nat /\ 0 + Len(texts) <= MaxFrames /\ 0 + Len(input) <= MaxFrames
      BY <1>0, <1>1, KeyFacts
    <2>1. hash_by_frame' \in [Keys -> Texts \cup {Nil}]
      <3>1. PutHashes(hash_by_frame, t, 0, texts) \in [Keys -> Texts \cup {Nil}]
        BY <1>1, <2>0, <2>a, PutHashesType
      <3> QED BY <1>2, <3>1
    <2>2. frame_by_hash' \in [Texts -> Keys \cup {Nil}]
      <3>1. PutPostings(frame_by_hash, t, 0, texts) \in [Texts -> Keys \cup {Nil}]
        BY <1>1, <2>0, <2>a, PutPostingsType
      <3> QED BY <1>2, <3>1
    <2>3. idx' \subseteq AllRows \X Keys
      BY <1>0, <1>2, <2>0, <2>a, RowsOfType
    <2>4. frames_soa' \in [Keys -> Texts \cup {Nil}]
      BY <1>2, <2>0
    <2> QED BY <1>6, <1>8, <1>9, <2>1, <2>2, <2>3, <2>4 DEF TypeOK
  <1> QED BY <1>8, <1>9, <1>10 DEF CountInv

\* What is prepared for the frames lo, lo+1, ... covers those indices.
LEMMA StoredValuesCover ==
    ASSUME NEW lo \in Nat, NEW texts \in Seq(Texts), lo + Len(texts) <= MaxFrames,
           NEW compress
    PROVE  LET values == StoredValues(lo, texts, compress)
           IN  /\ values \in [DOMAIN values -> Values]
               /\ DOMAIN values = lo .. lo + Len(texts) - 1
               /\ DOMAIN values \subseteq FrameIdx
  <1>1. ValuesHold(lo, texts, StoredValues(lo, texts, compress))
    BY StoredValuesHold
  <1> QED BY <1>1, KeyFacts DEF ValuesHold, FrameIdx

LEMMA ExtendKeepsCounts ==
    ASSUME CountInv, NEW c \in Clients, NEW compress, ExtendCommit(c, compress)
    PROVE  CountInv'
  <1> DEFINE j      == job[c]
             t      == j.traj
             texts  == [i \in DOMAIN j.input |-> Printed(j.input[i], "decimal")]
             values == StoredValues(j.start, texts, compress)
  <1>0. j \in Jobs /\ j.op = "extend" /\ Within(j, traj_meta)
    BY DEF CountInv, TypeOK, JobBounds, ExtendCommit
  <1>1. /\ t \in Trajs /\ j.start \in Nat /\ j.input \in Seq(Texts)
        /\ j.start + Len(j.input) <= MaxFrames
    BY <1>0, JobFields, KeyFacts DEF Within
  <1>2. texts \in Seq(Texts) /\ Len(texts) = Len(j.input)
    BY <1>1, PrintedType
  <1>3. /\ LiveCount(t) = j.start
        /\ frames' = PutFrames(frames, t, j.start, values)
        /\ hash_by_frame' = PutHashes(hash_by_frame, t, j.start, texts)
        /\ frame_by_hash' = PutPostings(frame_by_hash, t, j.start, texts)
        /\ idx' = idx \cup RowsOf(t, j.start, j.input)
        /\ traj_meta' = [traj_meta EXCEPT ![t] = j.start + Len(texts)]
        /\ job' = [job EXCEPT ![c] = Idle]
        /\ frames_soa' = frames_soa
    BY DEF ExtendCommit, Finish
  <1> HIDE DEF texts
  <1>4. /\ values \in [DOMAIN values -> Values]
        /\ DOMAIN values = j.start .. j.start + Len(texts) - 1
        /\ DOMAIN values \subseteq FrameIdx
    BY <1>1, <1>2, StoredValuesCover
  <1> HIDE DEF values, j
  <1>5. traj_meta \in [Trajs -> 0 .. MaxFrames \cup {Nil}]
    BY DEF CountInv, TypeOK
  <1>6. Len(texts) \in Nat /\ j.start + Len(texts) \in 0 .. MaxFrames /\ j.start + Len(texts) # Nil
    BY <1>1, <1>2, NilAssumption, KeyFacts
  <1>7. /\ traj_meta' \in [Trajs -> 0 .. MaxFrames \cup {Nil}]
        /\ LiveIn(traj_meta, t) = j.start
        /\ LiveIn(traj_meta', t) = j.start + Len(texts)
        /\ \A u \in Trajs \ {t} : LiveIn(traj_meta', u) = LiveIn(traj_meta, u)
    <2>1. traj_meta' \in [Trajs -> 0 .. MaxFrames \cup {Nil}]
      BY <1>3, <1>5, <1>6
    <2>2. LiveIn(traj_meta, t) = j.start
      BY <1>1, <1>3, LiveCountIs
    <2>3. traj_meta'[t] = j.start + Len(texts) /\ \A u \in Trajs \ {t} : traj_meta'[u] = traj_meta[u]
      BY <1>1, <1>3, <1>5
    <2> QED BY <1>6, <2>1, <2>2, <2>3 DEF LiveIn
  <1>8. \A u \in Trajs : LiveIn(traj_meta, u) <= LiveIn(traj_meta', u)
    <2>1. LiveIn(traj_meta, t) <= LiveIn(traj_meta', t)
      BY <1>1, <1>6, <1>7
    <2>2. \A u \in Trajs : LiveIn(traj_meta, u) \in Nat
      BY <1>5, LiveInType
    <2> QED BY <1>7, <2>1, <2>2
  <1>9. frames' \in [Keys -> Values \cup {Nil}] /\ CountMatchesFrames'
    <2>1. \A i \in FrameIdx : i < j.start + Len(texts) <=>
              i < j.start \/ i \in j.start .. j.start + Len(texts) - 1
      BY <1>1, <1>6, KeyFacts
    <2>2. \A u \in Trajs, i \in FrameIdx :
              i < LiveIn(traj_meta', u) <=>
                  i < LiveIn(traj_meta, u) \/ (u = t /\ i \in DOMAIN values)
      BY <1>4, <1>7, <2>1
    <2> QED BY <1>1, <1>3, <1>4, <1>7, <2>2, CountsAfterPut
  <1>10. job' \in [Clients -> Jobs] /\ JobBounds'
    BY <1>3, <1>7, <1>8, IdleJob, JobsKept DEF CountInv
  <1>11. TypeOK'
    <2>1. hash_by_frame' \in [Keys -> Texts \cup {Nil}]
      <3>1. hash_by_frame \in [Keys -> Texts \cup {Nil}]
        BY DEF CountInv, TypeOK
      <3>2. PutHashes(hash_by_frame, t, j.start, texts) \in [Keys -> Texts \cup {Nil}]
        BY <1>1, <1>2, <3>1, PutHashesType
      <3> QED BY <1>3, <3>2
    <2>2. frame_by_hash' \in [Texts -> Keys \cup {Nil}]
      <3>1. frame_by_hash \in [Texts -> Keys \cup {Nil}]
        BY DEF CountInv, TypeOK
      <3>2. PutPostings(frame_by_hash, t, j.start, texts) \in [Texts -> Keys \cup {Nil}]
        BY <1>1, <1>2, <3>1, PutPostingsType
      <3> QED BY <1>3, <3>2
    <2>3. idx' \subseteq AllRows \X Keys
      BY <1>1, <1>3, RowsOfType DEF CountInv, TypeOK
    <2>4. frames_soa' \in [Keys -> Texts \cup {Nil}]
      BY <1>3 DEF CountInv, TypeOK
    <2> QED BY <1>7, <1>9, <1>10, <2>1, <2>2, <2>3, <2>4 DEF TypeOK
  <1> QED BY <1>9, <1>10, <1>11 DEF CountInv

\* Rewriting frames that are there changes no count: the case of the unit
\* change and of the repack.
LEMMA RewriteKeepsCounts ==
    ASSUME CountInv, NEW t \in Trajs, NEW lo, NEW n \in Nat, n <= LiveIn(traj_meta, t),
           NEW values, values \in [DOMAIN values -> Values],
           DOMAIN values \subseteq 0 .. n - 1,
           frames' = PutFrames(frames, t, lo, values),
           traj_meta' = traj_meta
    PROVE  frames' \in [Keys -> Values \cup {Nil}] /\ CountMatchesFrames'
  <1>1. LiveIn(traj_meta, t) \in 0 .. MaxFrames /\ traj_meta \in [Trajs -> 0 .. MaxFrames \cup {Nil}]
    BY LiveInType DEF CountInv, TypeOK
  <1>2. \A i \in DOMAIN values : i \in FrameIdx /\ i < LiveIn(traj_meta, t)
    BY <1>1, KeyFacts DEF FrameIdx
  <1>3. \A u \in Trajs, i \in FrameIdx :
            i < LiveIn(traj_meta', u) <=>
                i < LiveIn(traj_meta, u) \/ (u = t /\ i \in DOMAIN values)
    BY <1>2
  <1> QED BY <1>1, <1>2, <1>3, CountsAfterPut

LEMMA SetUnitsKeepsCounts ==
    ASSUME CountInv, NEW c \in Clients, NEW compress, SetUnitsCommit(c, compress)
    PROVE  CountInv'
  <1> DEFINE j      == job[c]
             t      == j.traj
             texts  == [i \in DOMAIN j.parsed |-> Rescaled(j.parsed[i], j.units)]
             values == StoredValues(0, texts, compress)
             ks     == KeyRange(t, 0, j.n)
             hb     == DropKeys(hash_by_frame, ks)
             fb     == Repointed(frame_by_hash, StaleDigests(frame_by_hash, t, j.blobs), hb)
  <1>0. j \in Jobs /\ j.op = "set_units" /\ Len(j.parsed) = j.n /\ Within(j, traj_meta)
    BY DEF CountInv, TypeOK, JobBounds, SetUnitsCommit
  <1>1. /\ t \in Trajs /\ j.n \in 1 .. MaxFrames /\ j.n \in Nat /\ j.units \in UnitSystems
        /\ j.parsed \in Seq(Texts) /\ j.n <= LiveIn(traj_meta, t)
    BY <1>0, JobFields, KeyFacts DEF Within
  <1>2. texts \in Seq(Texts) /\ Len(texts) = j.n
    BY <1>0, <1>1, RescaledType
  <1>3. /\ frames' = PutFrames(frames, t, 0, values)
        /\ hash_by_frame' = PutHashes(hb, t, 0, texts)
        /\ frame_by_hash' = PutPostings(fb, t, 0, texts)
        /\ idx' = (idx \ RowsOf(t, 0, j.parsed)) \cup RowsOf(t, 0, texts)
        /\ frames_soa' = DropKeys(frames_soa, ks)
        /\ job' = [job EXCEPT ![c] = Idle]
        /\ traj_meta' = traj_meta
    BY DEF SetUnitsCommit, Finish, ReplacedRows
  <1> HIDE DEF texts
  <1>4. /\ values \in [DOMAIN values -> Values]
        /\ DOMAIN values \subseteq 0 .. j.n - 1
    <2>1. 0 + Len(texts) <= MaxFrames /\ 0 + Len(texts) - 1 = j.n - 1
      BY <1>1, <1>2
    <2>2. /\ values \in [DOMAIN values -> Values]
          /\ DOMAIN values = 0 .. 0 + Len(texts) - 1
      BY <1>2, <2>1, StoredValuesCover
    <2> QED BY <2>1, <2>2
  <1>5. hb \in [Keys -> Texts \cup {Nil}] /\ fb \in [Texts -> Keys \cup {Nil}]
    BY DropKeysType, RepointedType DEF CountInv, TypeOK
  <1> HIDE DEF values, ks, hb, fb, j
  <1>6. traj_meta' \in [Trajs -> 0 .. MaxFrames \cup {Nil}]
            /\ \A u \in Trajs : LiveIn(traj_meta, u) <= LiveIn(traj_meta', u)
    BY <1>3, LiveInType DEF CountInv, TypeOK
  <1>7. frames' \in [Keys -> Values \cup {Nil}] /\ CountMatchesFrames'
    BY <1>1, <1>3, <1>4, RewriteKeepsCounts
  <1>8. job' \in [Clients -> Jobs] /\ JobBounds'
    BY <1>3, <1>6, IdleJob, JobsKept DEF CountInv
  <1>9. TypeOK'
    <2>0. 0 + Len(texts) <= MaxFrames
      BY <1>1, <1>2
    <2>1. hash_by_frame' \in [Keys -> Texts \cup {Nil}]
      BY <1>1, <1>2, <1>3, <1>5, <2>0, PutHashesType
    <2>2. frame_by_hash' \in [Texts -> Keys \cup {Nil}]
      BY <1>1, <1>2, <1>3, <1>5, <2>0, PutPostingsType
    <2>3. idx' \subseteq AllRows \X Keys
      BY <1>1, <1>2, <1>3, <2>0, RowsOfType DEF CountInv, TypeOK
    <2>4. frames_soa' \in [Keys -> Texts \cup {Nil}]
      BY <1>3, DropKeysType DEF CountInv, TypeOK
    <2> QED BY <1>6, <1>7, <1>8, <2>1, <2>2, <2>3, <2>4 DEF TypeOK
  <1> QED BY <1>7, <1>8, <1>9 DEF CountInv

LEMMA RepackKeepsCounts ==
    ASSUME CountInv, NEW c \in Clients, RepackCommit(c)
    PROVE  CountInv'
  <1> DEFINE j       == job[c]
             t       == j.traj
             packed  == PackAligned(0, j.blobs)
             changed == {i \in DOMAIN packed : packed[i] # j.olds[i + 1]}
             values  == [i \in changed |-> packed[i]]
  <1>0. j \in Jobs /\ j.op = "repack" /\ Len(j.olds) = j.n /\ Within(j, traj_meta)
    BY DEF CountInv, TypeOK, JobBounds, RepackCommit
  <1>1. /\ t \in Trajs /\ j.n \in 1 .. MaxFrames /\ j.n \in Nat
        /\ j.blobs \in Seq(Texts) /\ Len(j.blobs) = j.n /\ j.n <= LiveIn(traj_meta, t)
    BY <1>0, JobFields, KeyFacts DEF Within
  <1>2. /\ frames' = PutFrames(frames, t, 0, values)
        /\ job' = [job EXCEPT ![c] = Idle]
        /\ traj_meta' = traj_meta /\ hash_by_frame' = hash_by_frame
        /\ frame_by_hash' = frame_by_hash /\ idx' = idx /\ frames_soa' = frames_soa
    BY DEF RepackCommit, Finish
  <1>3. packed \in [0 .. j.n - 1 -> Values]
    <2>1. 0 + Len(j.blobs) <= MaxFrames /\ 0 + Len(j.blobs) - 1 = j.n - 1
      BY <1>1
    <2>2. ValuesHold(0, j.blobs, packed)
      BY <1>1, <2>1, PackAlignedHolds
    <2> QED BY <2>1, <2>2 DEF ValuesHold
  <1> HIDE DEF packed, j
  <1>4. /\ values \in [DOMAIN values -> Values]
        /\ DOMAIN values \subseteq 0 .. j.n - 1
    BY <1>3
  <1> HIDE DEF values
  <1>6. traj_meta' \in [Trajs -> 0 .. MaxFrames \cup {Nil}]
            /\ \A u \in Trajs : LiveIn(traj_meta, u) <= LiveIn(traj_meta', u)
    BY <1>2, LiveInType DEF CountInv, TypeOK
  <1>7. frames' \in [Keys -> Values \cup {Nil}] /\ CountMatchesFrames'
    BY <1>1, <1>2, <1>4, RewriteKeepsCounts
  <1>8. job' \in [Clients -> Jobs] /\ JobBounds'
    BY <1>2, <1>6, IdleJob, JobsKept DEF CountInv
  <1>9. TypeOK'
    BY <1>2, <1>6, <1>7, <1>8 DEF CountInv, TypeOK
  <1> QED BY <1>7, <1>8, <1>9 DEF CountInv

LEMMA ReindexKeepsCounts ==
    ASSUME CountInv, Reindex
    PROVE  CountInv'
  <1>1. frames \in [Keys -> Values \cup {Nil}]
    BY DEF CountInv, TypeOK
  <1>2. \A k \in Keys : Text(k) \in Texts \cup {Nil}
    BY <1>1, DecodeType DEF Text
  <1>3. hash_by_frame' \in [Keys -> Texts \cup {Nil}]
    BY <1>2 DEF Reindex
  <1>4. frame_by_hash' \in [Texts -> Keys \cup {Nil}]
    <2> DEFINE S(h) == {k \in Keys : Text(k) = h}
    <2>1. \A h : LowestKey(S(h)) \in Keys \cup {Nil}
      BY LowestKeyIsLeast
    <2>2. frame_by_hash' = [h \in Texts |-> LowestKey(S(h))]
      BY DEF Reindex
    <2> HIDE DEF S
    <2> QED BY <2>1, <2>2
  <1>5. idx' \subseteq AllRows \X Keys
    <2>1. \A k \in Keys : frames[k] # Nil => Text(k) \in Texts
      BY <1>2 DEF Reindex
    <2>2. \A f \in Texts : Rows(f) \subseteq AllRows
      BY DEF AllRows
    <2>3. ASSUME NEW r \in idx'
          PROVE  r \in AllRows \X Keys
      <3>1. PICK k \in Keys : frames[k] # Nil /\ r \in Rows(Text(k)) \X {k}
        BY DEF Reindex
      <3>2. Rows(Text(k)) \subseteq AllRows
        BY <2>1, <2>2, <3>1
      <3> QED BY <3>1, <3>2
    <2> QED BY <2>3
  <1>6. frames' = frames /\ traj_meta' = traj_meta /\ frames_soa' = frames_soa /\ job' = job
    BY DEF Reindex
  <1>7. TypeOK'
    BY <1>3, <1>4, <1>5, <1>6 DEF CountInv, TypeOK
  <1>8. CountMatchesFrames' /\ JobBounds'
    BY <1>6 DEF CountInv, CountMatchesFrames, StoredIdx, LiveCount, JobBounds
  <1> QED BY <1>7, <1>8 DEF CountInv

\* A step that only touches the cooked values, and perhaps ends a job.
LEMMA CookedStep ==
    ASSUME CountInv, frames_soa' \in [Keys -> Texts \cup {Nil}],
           job' = job \/ \E c \in Clients : job' = [job EXCEPT ![c] = Idle],
           UNCHANGED <<frames, traj_meta, hash_by_frame, frame_by_hash, idx>>
    PROVE  CountInv'
  <1>1. traj_meta' \in [Trajs -> 0 .. MaxFrames \cup {Nil}]
            /\ \A u \in Trajs : LiveIn(traj_meta, u) <= LiveIn(traj_meta', u)
    BY LiveInType DEF CountInv, TypeOK
  <1>2. job' \in [Clients -> Jobs] /\ JobBounds'
    <2>1. CASE job' = job
      BY <2>1, <1>1, JobsUnchanged DEF CountInv
    <2>2. CASE \E c \in Clients : job' = [job EXCEPT ![c] = Idle]
      BY <2>2, <1>1, IdleJob, JobsKept DEF CountInv
    <2> QED BY <2>1, <2>2
  <1>3. CountMatchesFrames'
    BY DEF CountInv, CountMatchesFrames, StoredIdx, LiveCount
  <1> QED BY <1>2, <1>3 DEF CountInv, TypeOK

LEMMA CookKeepsCounts ==
    ASSUME CountInv, NEW c \in Clients, CookCommit(c)
    PROVE  CountInv'
  <1>1. job[c].traj \in Trajs /\ job[c].at \in FrameIdx /\ job[c].text \in Texts
    BY JobFields DEF CookCommit, CountInv, TypeOK
  <1>2. frames_soa' \in [Keys -> Texts \cup {Nil}]
    BY <1>1 DEF CookCommit, CountInv, TypeOK
  <1>3. job' = [job EXCEPT ![c] = Idle]
    BY DEF CookCommit, Finish
  <1> QED BY <1>2, <1>3, CookedStep DEF CookCommit

LEMMA DeleteKeepsCounts ==
    ASSUME CountInv, NEW key \in Keys, DeleteCooked(key)
    PROVE  CountInv'
  <1>1. frames_soa' \in [Keys -> Texts \cup {Nil}] /\ job' = job
    BY DEF DeleteCooked, CountInv, TypeOK
  <1> QED BY <1>1, CookedStep DEF DeleteCooked

-----------------------------------------------------------------------------
(* The steps that start an operation or read for it.                       *)

\* The keys a maintenance operation lists are as many as the count says.
LEMMA ListedCount ==
    ASSUME CountInv, NEW t \in Trajs, StoredIdx(t) # {}
    PROVE  /\ Cardinality(StoredIdx(t)) = LiveIn(traj_meta, t)
           /\ LiveIn(traj_meta, t) \in 1 .. MaxFrames
  <1> DEFINE L == LiveIn(traj_meta, t)
  <1>1. StoredIdx(t) = 0 .. L - 1
    BY LiveCountIs DEF CountInv, CountMatchesFrames
  <1>2. L \in 0 .. MaxFrames /\ L \in Nat
    BY LiveInType DEF CountInv, TypeOK
  <1> HIDE DEF L
  <1>3. 0 \in Int /\ L - 1 \in Int /\ L > 0
    BY <1>1, <1>2
  <1>4. Cardinality(0 .. L - 1) = IF 0 > L - 1 THEN 0 ELSE (L - 1) - 0 + 1
    BY <1>3, FS_Interval
  <1>5. Cardinality(0 .. L - 1) = L
    BY <1>2, <1>3, <1>4
  <1>6. L \in 1 .. MaxFrames
    BY <1>2, <1>3
  <1> QED BY <1>1, <1>5, <1>6 DEF L

LEMMA ExtendBeginKeepsCounts ==
    ASSUME CountInv, NEW c \in Clients, NEW t \in Trajs, NEW input \in Inputs,
           ExtendBegin(c, t, input)
    PROVE  CountInv'
  <1> DEFINE j == [op |-> "extend", traj |-> t, start |-> LiveCount(t), input |-> input]
  <1>1. LiveCount(t) \in 0 .. MaxFrames
    BY LiveCountIs, LiveInType DEF CountInv, TypeOK
  <1>2. input \in Seq(Texts)
    BY CorpusAssumption
  <1>3. j \in Jobs
    BY <1>1, <1>2 DEF Jobs
  <1>4. Within(j, traj_meta)
    BY DEF Within, ExtendBegin
  <1>5. job' = [job EXCEPT ![c] = j] /\ UNCHANGED tables
    BY DEF ExtendBegin, Start
  <1> QED BY <1>3, <1>4, <1>5, JobStep

LEMMA SetUnitsBeginKeepsCounts ==
    ASSUME CountInv, NEW c \in Clients, NEW t \in Trajs, NEW units \in UnitSystems,
           SetUnitsBegin(c, t, units)
    PROVE  CountInv'
  <1> DEFINE j == [op |-> "set_units", traj |-> t, n |-> Cardinality(StoredIdx(t)),
                   units |-> units, blobs |-> <<>>, parsed |-> <<>>]
  <1>1. /\ Cardinality(StoredIdx(t)) = LiveIn(traj_meta, t)
        /\ LiveIn(traj_meta, t) \in 1 .. MaxFrames
    BY ListedCount DEF SetUnitsBegin
  <1>2. <<>> \in Seq(Texts) /\ Len(<<>>) = 0
    OBVIOUS
  <1>3. j \in Jobs
    BY <1>1, <1>2 DEF Jobs
  <1>4. Within(j, traj_meta)
    BY <1>1, <1>2, KeyFacts DEF Within
  <1>5. job' = [job EXCEPT ![c] = j] /\ UNCHANGED tables
    BY DEF SetUnitsBegin, Start
  <1> QED BY <1>3, <1>4, <1>5, JobStep

LEMMA RepackBeginKeepsCounts ==
    ASSUME CountInv, NEW c \in Clients, NEW t \in Trajs, RepackBegin(c, t)
    PROVE  CountInv'
  <1> DEFINE j == [op |-> "repack", traj |-> t, n |-> Cardinality(StoredIdx(t)),
                   blobs |-> <<>>, olds |-> <<>>]
  <1>1. /\ Cardinality(StoredIdx(t)) = LiveIn(traj_meta, t)
        /\ LiveIn(traj_meta, t) \in 1 .. MaxFrames
    BY ListedCount DEF RepackBegin
  <1>2. <<>> \in Seq(Texts) /\ <<>> \in Seq(Values) /\ Len(<<>>) = 0
    OBVIOUS
  <1>3. j \in Jobs
    BY <1>1, <1>2 DEF Jobs
  <1>4. Within(j, traj_meta)
    BY <1>1, <1>2, KeyFacts DEF Within
  <1>5. job' = [job EXCEPT ![c] = j] /\ UNCHANGED tables
    BY DEF RepackBegin, Start
  <1> QED BY <1>3, <1>4, <1>5, JobStep

LEMMA CookBeginKeepsCounts ==
    ASSUME CountInv, NEW c \in Clients, NEW key \in Keys, CookBegin(c, key)
    PROVE  CountInv'
  <1> DEFINE j == [op |-> "cook", traj |-> key[1], at |-> key[2], text |-> Text(key)]
  <1>1. Text(key) \in Texts
    BY DecodeType DEF CookBegin, CountInv, TypeOK, Text
  <1>2. j \in Jobs /\ Within(j, traj_meta)
    BY <1>1, KeyFacts DEF Jobs, Within
  <1>3. job' = [job EXCEPT ![c] = j] /\ UNCHANGED tables
    BY DEF CookBegin, Start
  <1> QED BY <1>2, <1>3, JobStep

\* One more frame read keeps the record typed and within bounds.
LEMMA ReadMore ==
    ASSUME NEW S, NEW q \in Seq(S), NEW x \in S
    PROVE  Append(q, x) \in Seq(S) /\ Len(Append(q, x)) = Len(q) + 1
  OBVIOUS

LEMMA ReadTextKeepsCounts ==
    ASSUME CountInv, NEW c \in Clients, ReadText(c)
    PROVE  CountInv'
  <1> DEFINE j == job[c]
             k == <<j.traj, Len(j.blobs)>>
             g == [j EXCEPT !.blobs = Append(@, Text(k))]
  <1>0. j \in Jobs /\ Within(j, traj_meta)
    BY DEF CountInv, TypeOK, JobBounds
  <1>1. /\ \/ j.op = "set_units" /\ Len(j.blobs) = Len(j.parsed)
           \/ j.op = "repack" /\ Len(j.blobs) = Len(j.olds)
        /\ Len(j.blobs) < j.n /\ Text(k) # Nil
        /\ job' = [job EXCEPT ![c] = g] /\ UNCHANGED tables
    BY DEF ReadText, Start
  <1>2. /\ j.traj \in Trajs /\ j.n \in 1 .. MaxFrames /\ j.blobs \in Seq(Texts)
        /\ Len(j.blobs) \in Nat
    BY <1>0, <1>1, JobFields
  <1>3. k \in Keys
    BY <1>1, <1>2, KeyFacts DEF FrameIdx
  <1>4. Text(k) \in Texts
    BY <1>1, <1>3, DecodeType DEF CountInv, TypeOK, Text
  <1> DEFINE b == Append(j.blobs, Text(k))
  <1>5. b \in Seq(Texts) /\ Len(b) = Len(j.blobs) + 1
    BY <1>2, <1>4, ReadMore
  <1>6. CASE j.op = "set_units"
    <2>1. j \in [op : {"set_units"}, traj : Trajs, n : 1 .. MaxFrames, units : UnitSystems,
                 blobs : Seq(Texts), parsed : Seq(Texts)]
      BY <1>0, <1>6 DEF Jobs
    <2>2. g = [j EXCEPT !.blobs = b]
      OBVIOUS
    <2> HIDE DEF b, g, j
    <2>3. /\ g \in [op : {"set_units"}, traj : Trajs, n : 1 .. MaxFrames, units : UnitSystems,
                    blobs : Seq(Texts), parsed : Seq(Texts)]
          /\ g.op = "set_units" /\ g.blobs = b /\ g.parsed = j.parsed /\ g.n = j.n
          /\ g.traj = j.traj
      BY <1>5, <2>1, <2>2
    <2>4. Within(g, traj_meta)
      BY <1>0, <1>1, <1>2, <1>5, <1>6, <2>3 DEF Within
    <2>5. g \in Jobs
      BY <2>3 DEF Jobs
    <2> QED BY <1>1, <2>4, <2>5, JobStep DEF g, j
  <1>7. CASE j.op = "repack"
    <2>1. j \in [op : {"repack"}, traj : Trajs, n : 1 .. MaxFrames,
                 blobs : Seq(Texts), olds : Seq(Values)]
      BY <1>0, <1>7 DEF Jobs
    <2>2. g = [j EXCEPT !.blobs = b]
      OBVIOUS
    <2> HIDE DEF b, g, j
    <2>3. /\ g \in [op : {"repack"}, traj : Trajs, n : 1 .. MaxFrames,
                    blobs : Seq(Texts), olds : Seq(Values)]
          /\ g.op = "repack" /\ g.blobs = b /\ g.olds = j.olds /\ g.n = j.n
          /\ g.traj = j.traj
      BY <1>5, <2>1, <2>2
    <2>4. Within(g, traj_meta)
      BY <1>0, <1>1, <1>2, <1>5, <1>7, <2>3 DEF Within
    <2>5. g \in Jobs
      BY <2>3 DEF Jobs
    <2> QED BY <1>1, <2>4, <2>5, JobStep DEF g, j
  <1> QED BY <1>1, <1>6, <1>7

LEMMA ReadParsedKeepsCounts ==
    ASSUME CountInv, NEW c \in Clients, ReadParsed(c)
    PROVE  CountInv'
  <1> DEFINE j == job[c]
             k == <<j.traj, Len(j.parsed)>>
             g == [j EXCEPT !.parsed = Append(@, Text(k))]
  <1>0. j \in Jobs /\ Within(j, traj_meta)
    BY DEF CountInv, TypeOK, JobBounds
  <1>1. /\ j.op = "set_units" /\ Len(j.parsed) < Len(j.blobs) /\ Text(k) # Nil
        /\ job' = [job EXCEPT ![c] = g] /\ UNCHANGED tables
    BY DEF ReadParsed, Start
  <1>2. /\ j.traj \in Trajs /\ j.n \in 1 .. MaxFrames
        /\ j.blobs \in Seq(Texts) /\ Len(j.blobs) \in Nat /\ Len(j.blobs) <= j.n
        /\ j.parsed \in Seq(Texts) /\ Len(j.parsed) \in Nat
    BY <1>0, <1>1, JobFields DEF Within
  <1>3. k \in Keys
    BY <1>1, <1>2, KeyFacts DEF FrameIdx
  <1>4. Text(k) \in Texts
    BY <1>1, <1>3, DecodeType DEF CountInv, TypeOK, Text
  <1> DEFINE b == Append(j.parsed, Text(k))
  <1>5. b \in Seq(Texts) /\ Len(b) = Len(j.parsed) + 1
    BY <1>2, <1>4, ReadMore
  <1>6. j \in [op : {"set_units"}, traj : Trajs, n : 1 .. MaxFrames, units : UnitSystems,
               blobs : Seq(Texts), parsed : Seq(Texts)]
    BY <1>0, <1>1 DEF Jobs
  <1>7. g = [j EXCEPT !.parsed = b]
    OBVIOUS
  <1> HIDE DEF b, g, j
  <1>8. /\ g \in [op : {"set_units"}, traj : Trajs, n : 1 .. MaxFrames, units : UnitSystems,
                  blobs : Seq(Texts), parsed : Seq(Texts)]
        /\ g.op = "set_units" /\ g.blobs = j.blobs /\ g.parsed = b /\ g.n = j.n
        /\ g.traj = j.traj
    BY <1>5, <1>6, <1>7
  <1>9. Within(g, traj_meta)
    BY <1>0, <1>1, <1>2, <1>5, <1>8 DEF Within
  <1>10. g \in Jobs
    BY <1>8 DEF Jobs
  <1> QED BY <1>1, <1>9, <1>10, JobStep DEF g, j

LEMMA ReadStoredKeepsCounts ==
    ASSUME CountInv, NEW c \in Clients, ReadStored(c)
    PROVE  CountInv'
  <1> DEFINE j == job[c]
             k == <<j.traj, Len(j.olds)>>
             g == [j EXCEPT !.olds = Append(@, frames[k])]
  <1>0. j \in Jobs /\ Within(j, traj_meta)
    BY DEF CountInv, TypeOK, JobBounds
  <1>1. /\ j.op = "repack" /\ Len(j.olds) < Len(j.blobs) /\ frames[k] # Nil
        /\ job' = [job EXCEPT ![c] = g] /\ UNCHANGED tables
    BY DEF ReadStored, Start
  <1>2. /\ j.traj \in Trajs /\ j.n \in 1 .. MaxFrames
        /\ j.blobs \in Seq(Texts) /\ Len(j.blobs) \in Nat /\ Len(j.blobs) <= j.n
        /\ j.olds \in Seq(Values) /\ Len(j.olds) \in Nat
    BY <1>0, <1>1, JobFields DEF Within
  <1>3. k \in Keys
    BY <1>1, <1>2, KeyFacts DEF FrameIdx
  <1>4. frames[k] \in Values
    BY <1>1, <1>3 DEF CountInv, TypeOK
  <1> DEFINE b == Append(j.olds, frames[k])
  <1>5. b \in Seq(Values) /\ Len(b) = Len(j.olds) + 1
    BY <1>2, <1>4, ReadMore
  <1>6. j \in [op : {"repack"}, traj : Trajs, n : 1 .. MaxFrames,
               blobs : Seq(Texts), olds : Seq(Values)]
    BY <1>0, <1>1 DEF Jobs
  <1>7. g = [j EXCEPT !.olds = b]
    OBVIOUS
  <1> HIDE DEF b, g, j
  <1>8. /\ g \in [op : {"repack"}, traj : Trajs, n : 1 .. MaxFrames,
                  blobs : Seq(Texts), olds : Seq(Values)]
        /\ g.op = "repack" /\ g.blobs = j.blobs /\ g.olds = b /\ g.n = j.n
        /\ g.traj = j.traj
    BY <1>5, <1>6, <1>7
  <1>9. Within(g, traj_meta)
    BY <1>0, <1>1, <1>2, <1>5, <1>8 DEF Within
  <1>10. g \in Jobs
    BY <1>8 DEF Jobs
  <1> QED BY <1>1, <1>9, <1>10, JobStep DEF g, j

-----------------------------------------------------------------------------
(* The invariant, and the theorems that follow from it.                    *)

LEMMA InitCounts == Init => CountInv
  <1> SUFFICES ASSUME Init PROVE CountInv
    OBVIOUS
  <1>1. TypeOK
    BY IdleJob DEF Init, TypeOK
  <1>2. CountMatchesFrames
    <2>1. ASSUME NEW t \in Trajs
          PROVE  StoredIdx(t) = {} /\ LiveCount(t) = 0
      BY KeyFacts DEF Init, StoredIdx, LiveCount
    <2>2. 0 .. 0 - 1 = {}
      OBVIOUS
    <2> QED BY <2>1, <2>2 DEF CountMatchesFrames
  <1>3. JobBounds
    BY IdleJob DEF Init, JobBounds
  <1> QED BY <1>1, <1>2, <1>3 DEF CountInv

LEMMA StutterKeepsCounts ==
    ASSUME CountInv, UNCHANGED vars
    PROVE  CountInv'
  BY DEF CountInv, TypeOK, CountMatchesFrames, JobBounds, StoredIdx, LiveCount, vars

LEMMA NextKeepsCounts == CountInv /\ [Next]_vars => CountInv'
  <1> SUFFICES ASSUME CountInv, [Next]_vars
               PROVE  CountInv'
    OBVIOUS
  <1>1. CASE Transaction
    BY <1>1, AppendKeepsCounts, ReindexKeepsCounts, DeleteKeepsCounts DEF Transaction
  <1>2. CASE \E c \in Clients : Step(c)
    <2> PICK c \in Clients : Step(c)
      BY <1>2
    <2>1. CASE \E t \in Trajs, input \in Inputs : ExtendBegin(c, t, input)
      BY <2>1, ExtendBeginKeepsCounts
    <2>2. CASE \E compress \in CompressModes : ExtendCommit(c, compress)
      BY <2>2, ExtendKeepsCounts
    <2>3. CASE \E t \in Trajs, units \in UnitSystems : SetUnitsBegin(c, t, units)
      BY <2>3, SetUnitsBeginKeepsCounts
    <2>4. CASE \E t \in Trajs : RepackBegin(c, t)
      BY <2>4, RepackBeginKeepsCounts
    <2>5. CASE ReadText(c)
      BY <2>5, ReadTextKeepsCounts
    <2>6. CASE ReadParsed(c)
      BY <2>6, ReadParsedKeepsCounts
    <2>7. CASE ReadStored(c)
      BY <2>7, ReadStoredKeepsCounts
    <2>8. CASE \E compress \in CompressModes : SetUnitsCommit(c, compress)
      BY <2>8, SetUnitsKeepsCounts
    <2>9. CASE RepackCommit(c)
      BY <2>9, RepackKeepsCounts
    <2>10. CASE \E key \in Keys : CookBegin(c, key)
      BY <2>10, CookBeginKeepsCounts
    <2>11. CASE CookCommit(c)
      BY <2>11, CookKeepsCounts
    <2>12. CASE ExtendRace(c) \/ Abandon(c)
      <3>1. job' = [job EXCEPT ![c] = Idle] /\ UNCHANGED tables
        BY <2>12 DEF ExtendRace, Abandon, Finish
      <3> QED BY <3>1, IdleJob, JobStep
    <2> QED BY <2>1, <2>2, <2>3, <2>4, <2>5, <2>6, <2>7, <2>8, <2>9, <2>10, <2>11, <2>12
            DEF Step
  <1>3. CASE UNCHANGED vars
    BY <1>3, StutterKeepsCounts
  <1> QED BY <1>1, <1>2, <1>3 DEF Next

LEMMA CountsInvariant == Spec => []CountInv
  <1> QED BY InitCounts, NextKeepsCounts, PTL DEF Spec

\* The tables stay typed, for any number of clients, any inputs and any
\* interleaving of the operations of corpus.rs.
THEOREM TypeCorrect == Spec => []TypeOK
  <1>1. CountInv => TypeOK
    BY DEF CountInv
  <1> QED BY <1>1, CountsInvariant, PTL

\* traj_meta.n_frames is the number of frames stored, which have no gap, with
\* no discipline among the operations: the check extend makes in its commit
\* transaction (corpus.rs:1287-1297) is enough.
THEOREM CountsMatch == Spec => []CountMatchesFrames
  <1>1. CountInv => CountMatchesFrames
    BY DEF CountInv
  <1> QED BY <1>1, CountsInvariant, PTL

-----------------------------------------------------------------------------
(* No frame is read as another, whatever operations overlap.               *)

\* M says which molecule each key was written with: a stored value holds, slot
\* after slot, texts of the frames from its own on, all of them stored, and a
\* redirect's head and slot add up to its own index.
PlacedAt(M, fr, t, i) ==
    \/ /\ fr[<<t, i>>].kind \in {"single", "group"}
       /\ \A s \in 1 .. Len(fr[<<t, i>>].texts) :
              /\ i + s - 1 \in FrameIdx
              /\ fr[<<t, i + s - 1>>] # Nil
              /\ fr[<<t, i>>].texts[s].mol = M[<<t, i + s - 1>>]
    \/ /\ fr[<<t, i>>].kind = "redirect"
       /\ fr[<<t, i>>].head + fr[<<t, i>>].slot = i

Placed(M, fr) == \A t \in Trajs, i \in FrameIdx : fr[<<t, i>>] # Nil => PlacedAt(M, fr, t, i)

\* The texts a job has read are of the frames 0, 1, ... of its trajectory.
ReadInPlace(M, j) ==
    /\ j.op \in {"set_units", "repack"} =>
          \A s \in 1 .. Len(j.blobs) : j.blobs[s].mol = M[<<j.traj, s - 1>>]
    /\ j.op = "set_units" =>
          \A s \in 1 .. Len(j.parsed) : j.parsed[s].mol = M[<<j.traj, s - 1>>]

InPlace(M) == Placed(M, frames) /\ \A c \in Clients : ReadInPlace(M, job[c])

MolInv == CountInv /\ \E M : InPlace(M)

\* M2 tells of every stored frame what M told.
Extends(M2, M) == \A k \in Keys : frames[k] # Nil => M2[k] = M[k]

\* What decodes at all decodes to the molecule of its key: in whatever order
\* groups and the redirects into them were rewritten.
LEMMA DecodesInPlace ==
    ASSUME NEW fr \in [Keys -> Values \cup {Nil}], NEW M, Placed(M, fr),
           NEW k \in Keys, Decode(fr, k) # Nil
    PROVE  fr[k] # Nil /\ Decode(fr, k).mol = M[k]
  <1> DEFINE t == k[1]
             i == k[2]
  <1>1. t \in Trajs /\ i \in FrameIdx /\ k = <<t, i>> /\ i \in Nat
    BY KeyFacts
  <1>2. fr[k] # Nil
    BY DEF Decode, SlotText
  <1> HIDE DEF t, i
  <1>3. CASE fr[k].kind = "redirect"
    <2>1. fr[k].head \in FrameIdx /\ fr[k].slot \in Nat /\ fr[k].head + fr[k].slot = i
      BY <1>1, <1>2, <1>3 DEF Values, Placed, PlacedAt
    <2> DEFINE h == fr[k].head
               g == <<t, h>>
    <2>2. g \in Keys /\ Decode(fr, k) = SlotText(fr[g], fr[k].slot)
      BY <1>1, <1>2, <1>3, <2>1, KeyFacts DEF Decode
    <2>3. /\ fr[g] # Nil /\ fr[g].kind # "redirect" /\ ~ (fr[k].slot >= Len(fr[g].texts))
          /\ Decode(fr, k) = fr[g].texts[fr[k].slot + 1]
      BY <2>2 DEF SlotText
    <2>4. fr[g].texts \in Seq(Texts)
      BY <2>2, <2>3 DEF Values
    <2>a. Len(fr[g].texts) \in Nat /\ h \in Nat
      BY <2>1, <2>4, KeyFacts
    <2> HIDE DEF h, g
    <2>b. h + fr[k].slot = i
      BY <2>1 DEF h
    <2>5. fr[k].slot + 1 \in 1 .. Len(fr[g].texts) /\ h + (fr[k].slot + 1) - 1 = i
      <3>1. \A x, n, y \in Nat : ~ (x >= n) => x + 1 \in 1 .. n /\ y + (x + 1) - 1 = y + x
        OBVIOUS
      <3> QED BY <2>1, <2>3, <2>a, <2>b, <3>1
    <2>6. fr[g].texts[fr[k].slot + 1].mol = M[<<t, h + (fr[k].slot + 1) - 1>>]
      BY <1>1, <2>1, <2>3, <2>5 DEF Placed, PlacedAt, h, g
    <2> QED BY <1>1, <1>2, <2>3, <2>5, <2>6
  <1>4. CASE fr[k].kind # "redirect"
    <2>1. Decode(fr, k) = SlotText(fr[k], 0)
      BY <1>4 DEF Decode
    <2>2. ~ (0 >= Len(fr[k].texts)) /\ Decode(fr, k) = fr[k].texts[1]
      BY <1>4, <2>1 DEF SlotText
    <2>3. fr[k].texts \in Seq(Texts)
      BY <1>2, <1>4 DEF Values
    <2>4. 1 \in 1 .. Len(fr[k].texts) /\ i + 1 - 1 = i
      BY <1>1, <2>2, <2>3
    <2>5. fr[k].texts[1].mol = M[<<t, i + 1 - 1>>]
      BY <1>1, <1>2, <1>4, <2>4 DEF Placed, PlacedAt
    <2> QED BY <1>1, <1>2, <2>2, <2>4, <2>5
  <1> QED BY <1>3, <1>4

\* A put of prepared values, or of some of them, keeps the stored texts in
\* place if the range they were prepared for is stored then.
LEMMA PutKeepsPlaced ==
    ASSUME NEW fr \in [Keys -> Values \cup {Nil}], NEW M, NEW M2, Placed(M, fr),
           \A k \in Keys : fr[k] # Nil => M2[k] = M[k],
           NEW t \in Trajs, NEW lo \in Nat, NEW texts \in Seq(Texts), lo + Len(texts) <= MaxFrames,
           NEW values, values \in [lo .. lo + Len(texts) - 1 -> Values],
           ValuesLineUp(lo, texts, values),
           \A i \in lo .. lo + Len(texts) - 1 : M2[<<t, i>>] = texts[i - lo + 1].mol,
           NEW part, DOMAIN part \subseteq lo .. lo + Len(texts) - 1,
           part \in [DOMAIN part -> Values], \A i \in DOMAIN part : part[i] = values[i],
           \A i \in lo .. lo + Len(texts) - 1 : i \in DOMAIN part \/ fr[<<t, i>>] # Nil
    PROVE  Placed(M2, PutFrames(fr, t, lo, part))
  <1> DEFINE P    == PutFrames(fr, t, lo, part)
             span == lo .. lo + Len(texts) - 1
  <1>0. Len(texts) \in Nat /\ \A i \in span : i \in FrameIdx /\ i \in Nat
    BY KeyFacts DEF FrameIdx
  <1>1. /\ part \in [DOMAIN part -> Values] /\ DOMAIN part \subseteq FrameIdx
        /\ \A i \in DOMAIN part : i \in span /\ part[i] = values[i]
    BY <1>0
  <1>2. /\ P \in [Keys -> Values \cup {Nil}]
        /\ \A i \in DOMAIN part : P[<<t, i>>] = values[i]
        /\ \A k \in Keys : k[1] # t \/ k[2] \notin DOMAIN part => P[k] = fr[k]
    BY <1>1, PutFramesFacts
  <1>3. ASSUME NEW u \in Trajs, NEW i \in FrameIdx
        PROVE  P[<<u, i>>] # Nil <=> fr[<<u, i>>] # Nil \/ (u = t /\ i \in DOMAIN part)
    <2> HIDE DEF P
    <2>1. \A d \in DOMAIN part : values[d] # Nil
      BY <1>1, NilAssumption
    <2>2. CASE u = t /\ i \in DOMAIN part
      BY <1>2, <2>1, <2>2
    <2>3. CASE ~ (u = t /\ i \in DOMAIN part)
      <3>1. P[<<u, i>>] = fr[<<u, i>>]
        BY <1>2, <2>3, KeyFacts
      <3> QED BY <2>3, <3>1
    <2> QED BY <2>2, <2>3
  <1> HIDE DEF P
  <1>4. ASSUME NEW u \in Trajs, NEW i \in FrameIdx, P[<<u, i>>] # Nil
        PROVE  PlacedAt(M2, P, u, i)
    <2>1. CASE u = t /\ i \in DOMAIN part
      <3>1. P[<<u, i>>] = values[i] /\ i \in span /\ i \in Nat
        BY <1>0, <1>1, <1>2, <2>1
      <3>2. CASE /\ values[i].kind \in {"single", "group"}
                 /\ \A s \in 1 .. Len(values[i].texts) :
                        i + s - 1 \in span /\ values[i].texts[s] = texts[i - lo + s]
        <4>1. values[i].texts \in Seq(Texts)
          BY <3>1, <3>2 DEF Values
        <4>2. ASSUME NEW s \in 1 .. Len(values[i].texts)
              PROVE  /\ i + s - 1 \in FrameIdx
                     /\ P[<<u, i + s - 1>>] # Nil
                     /\ values[i].texts[s].mol = M2[<<u, i + s - 1>>]
          <5>1. i + s - 1 \in span /\ values[i].texts[s] = texts[i - lo + s]
            BY <3>2
          <5>2. (i + s - 1) - lo + 1 = i - lo + s
            BY <1>0, <3>1, <4>1
          <5>3. M2[<<t, i + s - 1>>] = texts[i - lo + s].mol
            BY <5>1, <5>2
          <5> QED BY <1>0, <1>3, <2>1, <5>1, <5>3
        <4> QED BY <3>1, <3>2, <4>2 DEF PlacedAt
      <3>3. CASE values[i].kind = "redirect" /\ values[i].head + values[i].slot = i
        BY <3>1, <3>3 DEF PlacedAt
      <3> QED BY <3>1, <3>2, <3>3 DEF ValuesLineUp
    <2>2. CASE ~ (u = t /\ i \in DOMAIN part)
      <3>1. P[<<u, i>>] = fr[<<u, i>>] /\ fr[<<u, i>>] # Nil
        BY <1>2, <1>4, <2>2, KeyFacts
      <3>2. CASE /\ fr[<<u, i>>].kind \in {"single", "group"}
                 /\ \A s \in 1 .. Len(fr[<<u, i>>].texts) :
                        /\ i + s - 1 \in FrameIdx
                        /\ fr[<<u, i + s - 1>>] # Nil
                        /\ fr[<<u, i>>].texts[s].mol = M[<<u, i + s - 1>>]
        BY <1>3, <3>1, <3>2, KeyFacts DEF PlacedAt
      <3>3. CASE fr[<<u, i>>].kind = "redirect" /\ fr[<<u, i>>].head + fr[<<u, i>>].slot = i
        BY <3>1, <3>3 DEF PlacedAt
      <3> QED BY <3>1, <3>2, <3>3 DEF Placed, PlacedAt
    <2> QED BY <2>1, <2>2
  <1>5. Placed(M2, P)
    BY <1>4 DEF Placed
  <1> QED BY <1>5 DEF P

-----------------------------------------------------------------------------
(* What the commits do, without the records they do it from.               *)

\* Frames are added where trajectory t ends: parsed as given, texts as printed.
Adds(t, lo, parsed, texts, values) ==
    /\ t \in Trajs /\ lo \in Nat /\ LiveIn(traj_meta, t) = lo
    /\ parsed \in Seq(Texts) /\ texts \in Seq(Texts) /\ Len(texts) = Len(parsed)
    /\ lo + Len(texts) <= MaxFrames
    /\ \A i \in 1 .. Len(texts) : texts[i] \in {parsed[i], Printed(parsed[i], "decimal")}
    /\ ValuesHold(lo, texts, values) /\ ValuesLineUp(lo, texts, values)
    /\ frames' = PutFrames(frames, t, lo, values)
    /\ hash_by_frame' = PutHashes(hash_by_frame, t, lo, texts)
    /\ frame_by_hash' = PutPostings(frame_by_hash, t, lo, texts)
    /\ idx' = idx \cup RowsOf(t, lo, parsed)
    /\ traj_meta' = [traj_meta EXCEPT ![t] = lo + Len(texts)]
    /\ frames_soa' = frames_soa

\* The first n frames of trajectory t are rewritten in other units.
Converts(t, j, texts, values) ==
    /\ t \in Trajs /\ j.n \in 1 .. MaxFrames /\ j.n <= LiveIn(traj_meta, t)
    /\ j.parsed \in Seq(Texts) /\ Len(j.parsed) = j.n
    /\ j.blobs \in Seq(Texts) /\ Len(j.blobs) = j.n
    /\ texts \in Seq(Texts) /\ Len(texts) = j.n /\ j.units \in UnitSystems
    /\ \A i \in 1 .. j.n : texts[i] = Rescaled(j.parsed[i], j.units)
    /\ ValuesHold(0, texts, values) /\ ValuesLineUp(0, texts, values)
    /\ frames' = PutFrames(frames, t, 0, values)
    /\ hash_by_frame' = PutHashes(DropKeys(hash_by_frame, KeyRange(t, 0, j.n)), t, 0, texts)
    /\ frame_by_hash' =
          PutPostings(Repointed(frame_by_hash, StaleDigests(frame_by_hash, t, j.blobs),
                                DropKeys(hash_by_frame, KeyRange(t, 0, j.n))), t, 0, texts)
    /\ idx' = (idx \ RowsOf(t, 0, j.parsed)) \cup RowsOf(t, 0, texts)
    /\ frames_soa' = DropKeys(frames_soa, KeyRange(t, 0, j.n))
    /\ traj_meta' = traj_meta

\* The first n frames of trajectory t are packed anew; what was stored so
\* already is not put.
Repacks(t, j, values, part) ==
    /\ t \in Trajs /\ j.n \in 1 .. MaxFrames /\ j.n <= LiveIn(traj_meta, t)
    /\ j.blobs \in Seq(Texts) /\ Len(j.blobs) = j.n
    /\ j.olds \in Seq(Values) /\ Len(j.olds) = j.n
    /\ ValuesHold(0, j.blobs, values) /\ ValuesLineUp(0, j.blobs, values)
    /\ DOMAIN part \subseteq 0 .. j.n - 1 /\ part \in [DOMAIN part -> Values]
    /\ \A i \in 0 .. j.n - 1 : IF i \in DOMAIN part THEN part[i] = values[i]
                                                    ELSE values[i] = j.olds[i + 1]
    /\ frames' = PutFrames(frames, t, 0, part)
    /\ UNCHANGED <<traj_meta, hash_by_frame, frame_by_hash, idx, frames_soa>>

\* No job changes but that of c, which ends.
Ends(c) == /\ job'[c] = Idle
           /\ \A d \in Clients : d # c => job'[d] = job[d]

LEMMA AppendAdds ==
    ASSUME CountInv, NEW t \in Trajs, NEW input \in Inputs, NEW format \in {"exact", "decimal"},
           NEW compress, AppendTrajectory(t, input, format, compress)
    PROVE  \E texts, values : Adds(t, 0, input, texts, values) /\ traj_meta[t] = Nil /\ job' = job
  <1> DEFINE texts  == [i \in DOMAIN input |-> Printed(input[i], format)]
             values == StoredValues(0, texts, compress)
  <1>0. input \in Seq(Texts) /\ Len(input) \in Nat /\ Len(input) <= MaxFrames
    BY CorpusAssumption DEF AppendTrajectory
  <1>1. texts \in Seq(Texts) /\ Len(texts) = Len(input)
    BY <1>0, PrintedType
  <1>2. /\ traj_meta[t] = Nil
        /\ frames' = PutFrames(frames, t, 0, values)
        /\ hash_by_frame' = PutHashes(hash_by_frame, t, 0, texts)
        /\ frame_by_hash' = PutPostings(frame_by_hash, t, 0, texts)
        /\ idx' = idx \cup RowsOf(t, 0, input)
        /\ traj_meta' = [traj_meta EXCEPT ![t] = Len(input)]
        /\ frames_soa' = frames_soa /\ job' = job
    BY DEF AppendTrajectory
  <1>3. \A i \in 1 .. Len(texts) : texts[i] \in {input[i], Printed(input[i], "decimal")}
    <2>1. \A i \in DOMAIN input : Printed(input[i], format) \in {input[i], Printed(input[i], "decimal")}
      BY DEF Printed
    <2>2. DOMAIN input = 1 .. Len(texts)
      BY <1>0, <1>1
    <2> QED BY <2>1, <2>2
  <1> HIDE DEF texts
  <1>4. 0 + Len(texts) <= MaxFrames /\ 0 + Len(texts) = Len(input) /\ 0 \in Nat
    BY <1>0, <1>1
  <1>5. ValuesHold(0, texts, values) /\ ValuesLineUp(0, texts, values)
    BY <1>1, <1>4, StoredValuesHold, StoredValuesLineUp
  <1> HIDE DEF values
  <1>6. LiveIn(traj_meta, t) = 0
    BY <1>2 DEF LiveIn
  <1>7. Adds(t, 0, input, texts, values)
    BY <1>0, <1>1, <1>2, <1>3, <1>4, <1>5, <1>6 DEF Adds
  <1> QED BY <1>2, <1>7

LEMMA ExtendAdds ==
    ASSUME CountInv, NEW c \in Clients, NEW compress, ExtendCommit(c, compress)
    PROVE  /\ \E texts, values : Adds(job[c].traj, job[c].start, job[c].input, texts, values)
           /\ Ends(c)
  <1> DEFINE j      == job[c]
             t      == j.traj
             texts  == [i \in DOMAIN j.input |-> Printed(j.input[i], "decimal")]
             values == StoredValues(j.start, texts, compress)
  <1>0. j \in Jobs /\ j.op = "extend" /\ Within(j, traj_meta)
    BY DEF CountInv, TypeOK, JobBounds, ExtendCommit
  <1>1. /\ t \in Trajs /\ j.start \in Nat /\ j.input \in Seq(Texts)
        /\ j.start + Len(j.input) <= MaxFrames
    BY <1>0, JobFields, KeyFacts DEF Within
  <1>2. texts \in Seq(Texts) /\ Len(texts) = Len(j.input)
    BY <1>1, PrintedType
  <1>3. /\ LiveCount(t) = j.start
        /\ frames' = PutFrames(frames, t, j.start, values)
        /\ hash_by_frame' = PutHashes(hash_by_frame, t, j.start, texts)
        /\ frame_by_hash' = PutPostings(frame_by_hash, t, j.start, texts)
        /\ idx' = idx \cup RowsOf(t, j.start, j.input)
        /\ traj_meta' = [traj_meta EXCEPT ![t] = j.start + Len(texts)]
        /\ job' = [job EXCEPT ![c] = Idle]
        /\ frames_soa' = frames_soa
    BY DEF ExtendCommit, Finish
  <1>4. \A i \in 1 .. Len(texts) : texts[i] \in {j.input[i], Printed(j.input[i], "decimal")}
    <2>1. DOMAIN j.input = 1 .. Len(texts)
      BY <1>1, <1>2
    <2> QED BY <2>1
  <1> HIDE DEF texts, j
  <1>5. j.start + Len(texts) <= MaxFrames
    BY <1>1, <1>2
  <1>6. ValuesHold(j.start, texts, values) /\ ValuesLineUp(j.start, texts, values)
    BY <1>1, <1>2, <1>5, StoredValuesHold, StoredValuesLineUp
  <1> HIDE DEF values
  <1>7. LiveIn(traj_meta, t) = j.start
    BY <1>1, <1>3, LiveCountIs
  <1>8. Adds(t, j.start, j.input, texts, values)
    BY <1>1, <1>2, <1>3, <1>4, <1>5, <1>6, <1>7 DEF Adds
  <1>9. Ends(c)
    BY <1>3 DEF Ends, CountInv, TypeOK
  <1> QED BY <1>8, <1>9 DEF j

LEMMA SetUnitsConverts ==
    ASSUME CountInv, NEW c \in Clients, NEW compress, SetUnitsCommit(c, compress)
    PROVE  /\ \E texts, values : Converts(job[c].traj, job[c], texts, values)
           /\ job[c].op = "set_units" /\ Ends(c)
  <1> DEFINE j      == job[c]
             t      == j.traj
             texts  == [i \in DOMAIN j.parsed |-> Rescaled(j.parsed[i], j.units)]
             values == StoredValues(0, texts, compress)
             ks     == KeyRange(t, 0, j.n)
             hb     == DropKeys(hash_by_frame, ks)
             fb     == Repointed(frame_by_hash, StaleDigests(frame_by_hash, t, j.blobs), hb)
  <1>0. j \in Jobs /\ j.op = "set_units" /\ Len(j.parsed) = j.n /\ Within(j, traj_meta)
    BY DEF CountInv, TypeOK, JobBounds, SetUnitsCommit
  <1>1. /\ t \in Trajs /\ j.n \in 1 .. MaxFrames /\ j.n \in Nat /\ j.units \in UnitSystems
        /\ j.parsed \in Seq(Texts) /\ j.blobs \in Seq(Texts) /\ j.n <= LiveIn(traj_meta, t)
    BY <1>0, JobFields, KeyFacts DEF Within
  <1>2. texts \in Seq(Texts) /\ Len(texts) = j.n
    BY <1>0, <1>1, RescaledType
  <1>3. /\ frames' = PutFrames(frames, t, 0, values)
        /\ hash_by_frame' = PutHashes(hb, t, 0, texts)
        /\ frame_by_hash' = PutPostings(fb, t, 0, texts)
        /\ idx' = (idx \ RowsOf(t, 0, j.parsed)) \cup RowsOf(t, 0, texts)
        /\ frames_soa' = DropKeys(frames_soa, ks)
        /\ job' = [job EXCEPT ![c] = Idle]
        /\ traj_meta' = traj_meta
    BY DEF SetUnitsCommit, Finish, ReplacedRows
  <1>4. \A i \in 1 .. j.n : texts[i] = Rescaled(j.parsed[i], j.units)
    BY <1>0, <1>1
  <1>5. Len(j.blobs) = j.n
    <2>1. Len(j.blobs) \in Nat /\ Len(j.parsed) <= Len(j.blobs) /\ Len(j.blobs) <= j.n
      BY <1>0, <1>1 DEF Within
    <2> QED BY <1>0, <1>1, <2>1
  <1> HIDE DEF texts, j
  <1>6. 0 + Len(texts) <= MaxFrames
    BY <1>1, <1>2
  <1>7. ValuesHold(0, texts, values) /\ ValuesLineUp(0, texts, values)
    BY <1>2, <1>6, StoredValuesHold, StoredValuesLineUp
  <1> HIDE DEF values
  <1>8. Converts(t, j, texts, values)
    BY <1>0, <1>1, <1>2, <1>3, <1>4, <1>5, <1>7 DEF Converts
  <1>9. Ends(c)
    BY <1>3 DEF Ends, CountInv, TypeOK
  <1> QED BY <1>0, <1>8, <1>9 DEF j

LEMMA RepackRepacks ==
    ASSUME CountInv, NEW c \in Clients, RepackCommit(c)
    PROVE  /\ \E values, part : Repacks(job[c].traj, job[c], values, part)
           /\ job[c].op = "repack" /\ Ends(c)
  <1> DEFINE j       == job[c]
             t       == j.traj
             packed  == PackAligned(0, j.blobs)
             changed == {i \in DOMAIN packed : packed[i] # j.olds[i + 1]}
             part    == [i \in changed |-> packed[i]]
  <1>0. j \in Jobs /\ j.op = "repack" /\ Len(j.olds) = j.n /\ Within(j, traj_meta)
    BY DEF CountInv, TypeOK, JobBounds, RepackCommit
  <1>1. /\ t \in Trajs /\ j.n \in 1 .. MaxFrames /\ j.n \in Nat /\ j.olds \in Seq(Values)
        /\ j.blobs \in Seq(Texts) /\ Len(j.blobs) = j.n /\ j.n <= LiveIn(traj_meta, t)
    BY <1>0, JobFields, KeyFacts DEF Within
  <1>2. /\ frames' = PutFrames(frames, t, 0, part)
        /\ job' = [job EXCEPT ![c] = Idle]
        /\ UNCHANGED <<traj_meta, hash_by_frame, frame_by_hash, idx, frames_soa>>
    BY DEF RepackCommit, Finish
  <1>3. 0 + Len(j.blobs) <= MaxFrames /\ 0 + Len(j.blobs) - 1 = j.n - 1
    BY <1>1
  <1>4. ValuesHold(0, j.blobs, packed) /\ ValuesLineUp(0, j.blobs, packed)
    <2>1. packed = StoredValues(0, j.blobs, TRUE)
      BY DEF StoredValues
    <2> QED BY <1>1, <1>3, <2>1, StoredValuesHold, StoredValuesLineUp
  <1>5. packed \in [0 .. j.n - 1 -> Values]
    BY <1>3, <1>4 DEF ValuesHold
  <1> HIDE DEF packed, j
  <1>6. /\ DOMAIN part \subseteq 0 .. j.n - 1 /\ part \in [DOMAIN part -> Values]
        /\ \A i \in 0 .. j.n - 1 : IF i \in DOMAIN part THEN part[i] = packed[i]
                                                        ELSE packed[i] = j.olds[i + 1]
    BY <1>5
  <1> HIDE DEF part
  <1>7. Repacks(t, j, packed, part)
    BY <1>0, <1>1, <1>2, <1>4, <1>6 DEF Repacks
  <1>8. Ends(c)
    BY <1>2 DEF Ends, CountInv, TypeOK
  <1> QED BY <1>0, <1>7, <1>8 DEF j

\* A record that is one field longer.
LEMMA ReadTextGives ==
    ASSUME CountInv, NEW c \in Clients, ReadText(c)
    PROVE  LET j == job[c]
               g == job'[c]
               k == <<j.traj, Len(j.blobs)>>
           IN  /\ UNCHANGED tables /\ \A d \in Clients : d # c => job'[d] = job[d]
               /\ j.op \in {"set_units", "repack"} /\ g.op = j.op
               /\ g.traj = j.traj /\ g.n = j.n
               /\ j.blobs \in Seq(Texts) /\ k \in Keys /\ Text(k) \in Texts
               /\ g.blobs = Append(j.blobs, Text(k))
               /\ j.op = "set_units" => g.parsed = j.parsed
               /\ j.op = "repack" => g.olds = j.olds
  <1> DEFINE j == job[c]
             k == <<j.traj, Len(j.blobs)>>
             b == Append(j.blobs, Text(k))
             g == [j EXCEPT !.blobs = Append(@, Text(k))]
  <1>0. j \in Jobs /\ Within(j, traj_meta)
    BY DEF CountInv, TypeOK, JobBounds
  <1>1. /\ j.op \in {"set_units", "repack"}
        /\ Len(j.blobs) < j.n /\ Text(k) # Nil
        /\ job' = [job EXCEPT ![c] = g] /\ UNCHANGED tables
    BY DEF ReadText, Start
  <1>2. /\ j.traj \in Trajs /\ j.n \in 1 .. MaxFrames /\ j.blobs \in Seq(Texts)
        /\ Len(j.blobs) \in Nat
    BY <1>0, <1>1, JobFields
  <1>3. k \in Keys
    BY <1>1, <1>2, KeyFacts DEF FrameIdx
  <1>4. Text(k) \in Texts
    BY <1>1, <1>3, DecodeType DEF CountInv, TypeOK, Text
  <1>5. job'[c] = g /\ \A d \in Clients : d # c => job'[d] = job[d]
    BY <1>1 DEF CountInv, TypeOK
  <1>6. g = [j EXCEPT !.blobs = b]
    OBVIOUS
  <1>7. CASE j.op = "set_units"
    <2>1. j \in [op : {"set_units"}, traj : Trajs, n : 1 .. MaxFrames, units : UnitSystems,
                 blobs : Seq(Texts), parsed : Seq(Texts)]
      BY <1>0, <1>7 DEF Jobs
    <2> HIDE DEF b, g, j
    <2>2. g.op = j.op /\ g.traj = j.traj /\ g.n = j.n /\ g.blobs = b /\ g.parsed = j.parsed
      BY <1>6, <2>1
    <2> QED BY <1>1, <1>2, <1>3, <1>4, <1>5, <1>7, <2>2 DEF j, b
  <1>8. CASE j.op = "repack"
    <2>1. j \in [op : {"repack"}, traj : Trajs, n : 1 .. MaxFrames,
                 blobs : Seq(Texts), olds : Seq(Values)]
      BY <1>0, <1>8 DEF Jobs
    <2> HIDE DEF b, g, j
    <2>2. g.op = j.op /\ g.traj = j.traj /\ g.n = j.n /\ g.blobs = b /\ g.olds = j.olds
      BY <1>6, <2>1
    <2> QED BY <1>1, <1>2, <1>3, <1>4, <1>5, <1>8, <2>2 DEF j, b
  <1> QED BY <1>1, <1>7, <1>8

LEMMA ReadParsedGives ==
    ASSUME CountInv, NEW c \in Clients, ReadParsed(c)
    PROVE  LET j == job[c]
               g == job'[c]
               k == <<j.traj, Len(j.parsed)>>
           IN  /\ UNCHANGED tables /\ \A d \in Clients : d # c => job'[d] = job[d]
               /\ j.op = "set_units" /\ g.op = j.op
               /\ g.traj = j.traj /\ g.n = j.n /\ g.blobs = j.blobs
               /\ j.parsed \in Seq(Texts) /\ k \in Keys /\ Text(k) \in Texts
               /\ g.parsed = Append(j.parsed, Text(k))
  <1> DEFINE j == job[c]
             k == <<j.traj, Len(j.parsed)>>
             b == Append(j.parsed, Text(k))
             g == [j EXCEPT !.parsed = Append(@, Text(k))]
  <1>0. j \in Jobs /\ Within(j, traj_meta)
    BY DEF CountInv, TypeOK, JobBounds
  <1>1. /\ j.op = "set_units" /\ Len(j.parsed) < Len(j.blobs) /\ Text(k) # Nil
        /\ job' = [job EXCEPT ![c] = g] /\ UNCHANGED tables
    BY DEF ReadParsed, Start
  <1>2. /\ j.traj \in Trajs /\ j.n \in 1 .. MaxFrames
        /\ j.blobs \in Seq(Texts) /\ Len(j.blobs) \in Nat /\ Len(j.blobs) <= j.n
        /\ j.parsed \in Seq(Texts) /\ Len(j.parsed) \in Nat
    <2>1. /\ j.traj \in Trajs /\ j.n \in 1 .. MaxFrames
          /\ j.blobs \in Seq(Texts) /\ j.parsed \in Seq(Texts)
      BY <1>0, <1>1, JobFields
    <2>2. Len(j.blobs) <= j.n
      BY <1>0, <1>1 DEF Within
    <2> QED BY <2>1, <2>2
  <1>3. k \in Keys
    BY <1>1, <1>2, KeyFacts DEF FrameIdx
  <1>4. Text(k) \in Texts
    BY <1>1, <1>3, DecodeType DEF CountInv, TypeOK, Text
  <1>5. job'[c] = g /\ \A d \in Clients : d # c => job'[d] = job[d]
    BY <1>1 DEF CountInv, TypeOK
  <1>6. g = [j EXCEPT !.parsed = b]
    OBVIOUS
  <1>7. j \in [op : {"set_units"}, traj : Trajs, n : 1 .. MaxFrames, units : UnitSystems,
               blobs : Seq(Texts), parsed : Seq(Texts)]
    BY <1>0, <1>1 DEF Jobs
  <1> HIDE DEF b, g, j
  <1>8. g.op = j.op /\ g.traj = j.traj /\ g.n = j.n /\ g.blobs = j.blobs /\ g.parsed = b
    BY <1>6, <1>7
  <1> QED BY <1>1, <1>2, <1>3, <1>4, <1>5, <1>8 DEF j, b

LEMMA ReadStoredGives ==
    ASSUME CountInv, NEW c \in Clients, ReadStored(c)
    PROVE  LET j == job[c]
               g == job'[c]
               k == <<j.traj, Len(j.olds)>>
           IN  /\ UNCHANGED tables /\ \A d \in Clients : d # c => job'[d] = job[d]
               /\ j.op = "repack" /\ g.op = j.op
               /\ g.traj = j.traj /\ g.n = j.n /\ g.blobs = j.blobs
               /\ j.olds \in Seq(Values) /\ k \in Keys /\ frames[k] \in Values
               /\ g.olds = Append(j.olds, frames[k])
  <1> DEFINE j == job[c]
             k == <<j.traj, Len(j.olds)>>
             b == Append(j.olds, frames[k])
             g == [j EXCEPT !.olds = Append(@, frames[k])]
  <1>0. j \in Jobs /\ Within(j, traj_meta)
    BY DEF CountInv, TypeOK, JobBounds
  <1>1. /\ j.op = "repack" /\ Len(j.olds) < Len(j.blobs) /\ frames[k] # Nil
        /\ job' = [job EXCEPT ![c] = g] /\ UNCHANGED tables
    BY DEF ReadStored, Start
  <1>2. /\ j.traj \in Trajs /\ j.n \in 1 .. MaxFrames
        /\ j.blobs \in Seq(Texts) /\ Len(j.blobs) \in Nat /\ Len(j.blobs) <= j.n
        /\ j.olds \in Seq(Values) /\ Len(j.olds) \in Nat
    BY <1>0, <1>1, JobFields DEF Within
  <1>3. k \in Keys
    BY <1>1, <1>2, KeyFacts DEF FrameIdx
  <1>4. frames[k] \in Values
    BY <1>1, <1>3 DEF CountInv, TypeOK
  <1>5. job'[c] = g /\ \A d \in Clients : d # c => job'[d] = job[d]
    BY <1>1 DEF CountInv, TypeOK
  <1>6. g = [j EXCEPT !.olds = b]
    OBVIOUS
  <1>7. j \in [op : {"repack"}, traj : Trajs, n : 1 .. MaxFrames,
               blobs : Seq(Texts), olds : Seq(Values)]
    BY <1>0, <1>1 DEF Jobs
  <1> HIDE DEF b, g, j
  <1>8. g.op = j.op /\ g.traj = j.traj /\ g.n = j.n /\ g.blobs = j.blobs /\ g.olds = b
    BY <1>6, <1>7
  <1> QED BY <1>1, <1>2, <1>3, <1>4, <1>5, <1>8 DEF j, b

-----------------------------------------------------------------------------
(* Each step leaves every stored text with the molecule of its key.        *)

LEMMA StoredIsLive ==
    ASSUME CountInv, NEW t \in Trajs, NEW i \in FrameIdx
    PROVE  /\ LiveIn(traj_meta, t) \in Nat /\ LiveIn(traj_meta, t) <= MaxFrames
           /\ frames[<<t, i>>] # Nil <=> i < LiveIn(traj_meta, t)
  <1>1. LiveIn(traj_meta, t) \in 0 .. MaxFrames /\ LiveIn(traj_meta, t) \in Nat
    BY LiveInType DEF CountInv, TypeOK
  <1>2. i \in StoredIdx(t) <=> i \in 0 .. LiveIn(traj_meta, t) - 1
    BY LiveCountIs DEF CountInv, CountMatchesFrames
  <1>3. i \in StoredIdx(t) <=> frames[<<t, i>>] # Nil
    BY DEF StoredIdx
  <1> QED BY <1>1, <1>2, <1>3, KeyFacts

\* A job has read stored frames only, so what it read is told of as before.
LEMMA ReadsStayInPlace ==
    ASSUME CountInv, NEW M, NEW M2, Extends(M2, M), NEW c \in Clients, ReadInPlace(M, job[c])
    PROVE  ReadInPlace(M2, job[c])
  <1> DEFINE j == job[c]
  <1>0. j \in Jobs /\ Within(j, traj_meta)
    BY DEF CountInv, TypeOK, JobBounds
  <1>1. ASSUME j.op \in {"set_units", "repack"}
        PROVE  /\ j.traj \in Trajs /\ j.n \in Nat /\ j.n <= LiveIn(traj_meta, j.traj)
               /\ j.blobs \in Seq(Texts) /\ Len(j.blobs) <= j.n
               /\ j.op = "set_units" => j.parsed \in Seq(Texts) /\ Len(j.parsed) <= Len(j.blobs)
    <2>1. /\ j.traj \in Trajs /\ j.n \in 1 .. MaxFrames /\ j.blobs \in Seq(Texts)
          /\ j.op = "set_units" => j.parsed \in Seq(Texts)
      BY <1>0, <1>1, JobFields
    <2> QED BY <1>0, <1>1, <2>1, KeyFacts DEF Within
  <1>2. ASSUME j.op \in {"set_units", "repack"}, NEW s \in Nat, s >= 1, s <= Len(j.blobs)
        PROVE  M2[<<j.traj, s - 1>>] = M[<<j.traj, s - 1>>]
    <2> DEFINE L == LiveIn(traj_meta, j.traj)
    <2>1. /\ j.traj \in Trajs /\ j.n \in Nat /\ j.n <= L /\ Len(j.blobs) \in Nat
          /\ Len(j.blobs) <= j.n
      BY <1>1, <1>2
    <2>2. L \in 0 .. MaxFrames
      BY <2>1, LiveInType DEF CountInv, TypeOK
    <2> HIDE DEF L
    <2>3. s - 1 \in FrameIdx /\ s - 1 < L
      <3>1. \A n, b, m \in Nat : s <= b /\ b <= n /\ n <= L /\ L \in 0 .. m
                => s - 1 \in 0 .. m - 1 /\ s - 1 < L
        BY <1>2
      <3> QED BY <1>2, <2>1, <2>2, <3>1, KeyFacts DEF FrameIdx
    <2>4. frames[<<j.traj, s - 1>>] # Nil
      BY <2>1, <2>3, StoredIsLive DEF L
    <2> QED BY <2>1, <2>3, <2>4, KeyFacts DEF Extends
  <1>3. ASSUME j.op \in {"set_units", "repack"}, NEW s \in 1 .. Len(j.blobs)
        PROVE  j.blobs[s].mol = M2[<<j.traj, s - 1>>]
    <2>1. Len(j.blobs) \in Nat
      BY <1>1, <1>3
    <2>2. s \in Nat /\ s >= 1 /\ s <= Len(j.blobs)
      BY <2>1
    <2>3. M2[<<j.traj, s - 1>>] = M[<<j.traj, s - 1>>]
      BY <1>2, <1>3, <2>2
    <2> QED BY <1>3, <2>3 DEF ReadInPlace
  <1>4. ASSUME j.op = "set_units", NEW s \in 1 .. Len(j.parsed)
        PROVE  j.parsed[s].mol = M2[<<j.traj, s - 1>>]
    <2>1. Len(j.blobs) \in Nat /\ Len(j.parsed) \in Nat /\ Len(j.parsed) <= Len(j.blobs)
      BY <1>1, <1>4
    <2>2. s \in Nat /\ s >= 1 /\ s <= Len(j.blobs)
      BY <2>1
    <2>3. M2[<<j.traj, s - 1>>] = M[<<j.traj, s - 1>>]
      BY <1>2, <1>4, <2>2
    <2> QED BY <1>4, <2>3 DEF ReadInPlace
  <1> QED BY <1>3, <1>4 DEF ReadInPlace

LEMMA IdleInPlace == \A M : ReadInPlace(M, Idle)
  BY DEF ReadInPlace, Idle

LEMMA AddsInPlace ==
    ASSUME CountInv, NEW M, InPlace(M), NEW t, NEW lo, NEW parsed, NEW texts, NEW values,
           Adds(t, lo, parsed, texts, values),
           \A c \in Clients : job'[c] = job[c] \/ job'[c] = Idle
    PROVE  \E M2 : InPlace(M2)' /\ Extends(M2, M)
  <1> DEFINE span == lo .. lo + Len(texts) - 1
             M2   == [k \in Keys |-> IF k[1] = t /\ k[2] \in span THEN texts[k[2] - lo + 1].mol
                                                                  ELSE M[k]]
  <1>0. /\ t \in Trajs /\ lo \in Nat /\ LiveIn(traj_meta, t) = lo
        /\ texts \in Seq(Texts) /\ Len(texts) \in Nat /\ lo + Len(texts) <= MaxFrames
        /\ ValuesHold(lo, texts, values) /\ ValuesLineUp(lo, texts, values)
        /\ frames' = PutFrames(frames, t, lo, values)
    BY DEF Adds
  <1>1. values \in [span -> Values]
    BY <1>0 DEF ValuesHold
  <1>2. frames \in [Keys -> Values \cup {Nil}]
    BY DEF CountInv, TypeOK
  <1>3. ASSUME NEW k \in Keys, frames[k] # Nil
        PROVE  M2[k] = M[k]
    <2>1. k[1] \in Trajs /\ k[2] \in FrameIdx /\ k = <<k[1], k[2]>> /\ k[2] \in Nat
      BY KeyFacts
    <2>2. k[2] < LiveIn(traj_meta, k[1])
      BY <1>3, <2>1, StoredIsLive
    <2>3. ~ (k[1] = t /\ k[2] \in span)
      BY <1>0, <2>1, <2>2
    <2> QED BY <2>3
  <1>4. ASSUME NEW i \in span
        PROVE  M2[<<t, i>>] = texts[i - lo + 1].mol
    <2>1. i \in FrameIdx
      BY <1>0, KeyFacts DEF FrameIdx
    <2> QED BY <1>0, <2>1, KeyFacts
  <1> HIDE DEF M2
  <1>5. Extends(M2, M)
    BY <1>3 DEF Extends
  <1>6. Placed(M2, frames')
    <2>1. DOMAIN values = span /\ Placed(M, frames)
      BY <1>1 DEF InPlace
    <2> HIDE DEF span
    <2>2. /\ DOMAIN values \subseteq span /\ values \in [DOMAIN values -> Values]
          /\ \A i \in DOMAIN values : values[i] = values[i]
          /\ \A i \in span : i \in DOMAIN values \/ frames[<<t, i>>] # Nil
      BY <1>1, <2>1
    <2> USE DEF span
    <2> QED BY <1>0, <1>1, <1>2, <1>3, <1>4, <2>1, <2>2, PutKeepsPlaced
  <1>7. \A c \in Clients : ReadInPlace(M2, job'[c])
    BY <1>5, ReadsStayInPlace, IdleInPlace DEF InPlace
  <1>8. InPlace(M2)'
    BY <1>6, <1>7 DEF InPlace
  <1> QED BY <1>5, <1>8

\* The texts put where they were read from: the molecules are told as before.
LEMMA RewriteInPlace ==
    ASSUME CountInv, NEW M, InPlace(M), NEW t \in Trajs, NEW texts \in Seq(Texts),
           Len(texts) <= LiveIn(traj_meta, t), NEW values,
           ValuesHold(0, texts, values), ValuesLineUp(0, texts, values),
           \A s \in 1 .. Len(texts) : texts[s].mol = M[<<t, s - 1>>],
           NEW part, DOMAIN part \subseteq 0 .. Len(texts) - 1,
           part \in [DOMAIN part -> Values], \A i \in DOMAIN part : part[i] = values[i],
           frames' = PutFrames(frames, t, 0, part),
           \A c \in Clients : job'[c] = job[c] \/ job'[c] = Idle
    PROVE  InPlace(M)'
  <1> DEFINE L    == LiveIn(traj_meta, t)
             span == 0 .. 0 + Len(texts) - 1
  <1>0. /\ L \in 0 .. MaxFrames /\ Len(texts) \in Nat /\ MaxFrames \in Nat /\ 0 + Len(texts) <= MaxFrames
        /\ 0 + Len(texts) - 1 = Len(texts) - 1
    <2>1. L \in 0 .. MaxFrames
      BY LiveInType DEF CountInv, TypeOK
    <2>2. Len(texts) \in Nat /\ MaxFrames \in Nat
      BY KeyFacts
    <2> HIDE DEF L
    <2>3. Len(texts) <= L
      BY DEF L
    <2> QED BY <2>1, <2>2, <2>3
  <1>1. values \in [span -> Values]
    BY DEF ValuesHold
  <1>2. frames \in [Keys -> Values \cup {Nil}] /\ Placed(M, frames)
    BY DEF CountInv, TypeOK, InPlace
  <1>3. ASSUME NEW i \in span
        PROVE  M[<<t, i>>] = texts[i - 0 + 1].mol /\ frames[<<t, i>>] # Nil
    <2>1. i \in FrameIdx /\ i < L /\ i + 1 \in 1 .. Len(texts) /\ (i + 1) - 1 = i /\ i - 0 + 1 = i + 1
      BY <1>0 DEF FrameIdx
    <2>2. frames[<<t, i>>] # Nil
      BY <2>1, StoredIsLive
    <2>3. texts[i + 1].mol = M[<<t, (i + 1) - 1>>]
      BY <2>1
    <2> QED BY <2>1, <2>2, <2>3
  <1>4. DOMAIN part \subseteq span
    BY <1>0
  <1>5. Placed(M, PutFrames(frames, t, 0, part))
    <2> DEFINE lo == 0
    <2>1. lo \in Nat
      OBVIOUS
    <2>2. /\ lo + Len(texts) <= MaxFrames /\ values \in [lo .. lo + Len(texts) - 1 -> Values]
          /\ ValuesLineUp(lo, texts, values) /\ DOMAIN part \subseteq lo .. lo + Len(texts) - 1
          /\ \A i \in lo .. lo + Len(texts) - 1 : M[<<t, i>>] = texts[i - lo + 1].mol
          /\ \A i \in lo .. lo + Len(texts) - 1 : i \in DOMAIN part \/ frames[<<t, i>>] # Nil
      BY <1>0, <1>1, <1>3, <1>4
    <2> HIDE DEF lo
    <2>3. \A k \in Keys : frames[k] # Nil => M[k] = M[k]
      OBVIOUS
    <2>4. Placed(M, PutFrames(frames, t, lo, part))
      BY <1>2, <2>1, <2>2, <2>3, PutKeepsPlaced
    <2> QED BY <2>4 DEF lo
  <1>6. \A c \in Clients : ReadInPlace(M, job'[c])
    BY IdleInPlace DEF InPlace
  <1> QED BY <1>5, <1>6 DEF InPlace

LEMMA ConvertsInPlace ==
    ASSUME CountInv, NEW M, InPlace(M), NEW c \in Clients, job[c].op = "set_units",
           NEW texts, NEW values, Converts(job[c].traj, job[c], texts, values), Ends(c)
    PROVE  InPlace(M)'
  <1> DEFINE j == job[c]
             t == j.traj
             n == j.n
  <1>1. /\ t \in Trajs /\ n \in Nat /\ n <= LiveIn(traj_meta, t)
        /\ j.parsed \in Seq(Texts) /\ Len(j.parsed) = n
        /\ texts \in Seq(Texts) /\ Len(texts) = n
        /\ \A i \in 1 .. n : texts[i] = Rescaled(j.parsed[i], j.units)
        /\ ValuesHold(0, texts, values) /\ ValuesLineUp(0, texts, values)
        /\ frames' = PutFrames(frames, t, 0, values)
    BY DEF Converts
  <1>2. ReadInPlace(M, j)
    BY DEF InPlace
  <1>3. ASSUME NEW s \in 1 .. Len(texts)
        PROVE  texts[s].mol = M[<<t, s - 1>>]
    <2>1. s \in 1 .. n /\ j.parsed[s] \in Texts
      BY <1>1
    <2>2. texts[s].mol = j.parsed[s].mol
      BY <1>1, <2>1 DEF Rescaled, Texts
    <2>3. j.parsed[s].mol = M[<<t, s - 1>>]
      BY <1>1, <1>2, <2>1 DEF ReadInPlace
    <2> QED BY <2>2, <2>3
  <1>4. DOMAIN values \subseteq 0 .. Len(texts) - 1 /\ values \in [DOMAIN values -> Values]
    <2>1. 0 + Len(texts) - 1 = Len(texts) - 1
      BY <1>1
    <2>2. values \in [0 .. 0 + Len(texts) - 1 -> Values]
      BY <1>1 DEF ValuesHold
    <2> QED BY <2>1, <2>2
  <1>5. \A d \in Clients : job'[d] = job[d] \/ job'[d] = Idle
    BY DEF Ends
  <1>6. \A i \in DOMAIN values : values[i] = values[i]
    OBVIOUS
  <1> HIDE DEF j, t, n
  <1> QED BY <1>1, <1>3, <1>4, <1>5, <1>6, RewriteInPlace

LEMMA RepacksInPlace ==
    ASSUME CountInv, NEW M, InPlace(M), NEW c \in Clients, job[c].op = "repack",
           NEW values, NEW part, Repacks(job[c].traj, job[c], values, part), Ends(c)
    PROVE  InPlace(M)'
  <1> DEFINE j == job[c]
             t == j.traj
             n == j.n
  <1>1. /\ t \in Trajs /\ n \in Nat /\ n <= LiveIn(traj_meta, t)
        /\ j.blobs \in Seq(Texts) /\ Len(j.blobs) = n
        /\ ValuesHold(0, j.blobs, values) /\ ValuesLineUp(0, j.blobs, values)
        /\ DOMAIN part \subseteq 0 .. n - 1 /\ part \in [DOMAIN part -> Values]
        /\ frames' = PutFrames(frames, t, 0, part)
    BY DEF Repacks
  <1>2. \A s \in 1 .. Len(j.blobs) : j.blobs[s].mol = M[<<t, s - 1>>]
    BY DEF InPlace, ReadInPlace
  <1>3. \A i \in DOMAIN part : part[i] = values[i]
    BY <1>1 DEF Repacks
  <1>4. \A d \in Clients : job'[d] = job[d] \/ job'[d] = Idle
    BY DEF Ends
  <1> HIDE DEF j, t, n
  <1> QED BY <1>1, <1>2, <1>3, <1>4, RewriteInPlace

LEMMA ReadTextInPlace ==
    ASSUME CountInv, NEW M, InPlace(M), NEW c \in Clients, ReadText(c)
    PROVE  InPlace(M)'
  <1> DEFINE j == job[c]
             g == job'[c]
             b == j.blobs
             k == <<j.traj, Len(b)>>
  <1>1. /\ UNCHANGED tables /\ \A d \in Clients : d # c => job'[d] = job[d]
        /\ j.op \in {"set_units", "repack"} /\ g.op = j.op
        /\ g.traj = j.traj /\ g.n = j.n
        /\ b \in Seq(Texts) /\ k \in Keys /\ Text(k) \in Texts
        /\ g.blobs = Append(b, Text(k))
        /\ j.op = "set_units" => g.parsed = j.parsed
    BY ReadTextGives
  <1>2. Text(k).mol = M[k]
    BY <1>1, DecodesInPlace, NilAssumption DEF CountInv, TypeOK, InPlace, Text
  <1>3. ReadInPlace(M, j)
    BY DEF InPlace
  <1>4. ASSUME NEW s \in 1 .. Len(g.blobs)
        PROVE  g.blobs[s].mol = M[<<g.traj, s - 1>>]
    <2>1. Len(b) \in Nat /\ Len(g.blobs) = Len(b) + 1
      BY <1>1, ReadMore
    <2>2. CASE s = Len(b) + 1
      <3>1. g.blobs[s] = Text(k)
        BY <1>1, <2>2
      <3>2. s - 1 = Len(b)
        BY <2>1, <2>2
      <3> QED BY <1>1, <1>2, <3>1, <3>2
    <2>3. CASE s # Len(b) + 1
      <3>1. s \in 1 .. Len(b)
        BY <2>1, <2>3
      <3>2. g.blobs[s] = b[s]
        BY <1>1, <3>1
      <3> QED BY <1>1, <1>3, <3>1, <3>2 DEF ReadInPlace
    <2> QED BY <2>2, <2>3
  <1>5. ReadInPlace(M, g)
    BY <1>1, <1>3, <1>4 DEF ReadInPlace
  <1>6. \A d \in Clients : ReadInPlace(M, job'[d])
    BY <1>1, <1>5 DEF InPlace
  <1> QED BY <1>1, <1>6 DEF InPlace, tables

LEMMA ReadParsedInPlace ==
    ASSUME CountInv, NEW M, InPlace(M), NEW c \in Clients, ReadParsed(c)
    PROVE  InPlace(M)'
  <1> DEFINE j == job[c]
             g == job'[c]
             b == j.parsed
             k == <<j.traj, Len(b)>>
  <1>1. /\ UNCHANGED tables /\ \A d \in Clients : d # c => job'[d] = job[d]
        /\ j.op = "set_units" /\ g.op = j.op
        /\ g.traj = j.traj /\ g.n = j.n /\ g.blobs = j.blobs
        /\ b \in Seq(Texts) /\ k \in Keys /\ Text(k) \in Texts
        /\ g.parsed = Append(b, Text(k))
    BY ReadParsedGives
  <1>2. Text(k).mol = M[k]
    BY <1>1, DecodesInPlace, NilAssumption DEF CountInv, TypeOK, InPlace, Text
  <1>3. ReadInPlace(M, j)
    BY DEF InPlace
  <1>4. ASSUME NEW s \in 1 .. Len(g.parsed)
        PROVE  g.parsed[s].mol = M[<<g.traj, s - 1>>]
    <2>1. Len(b) \in Nat /\ Len(g.parsed) = Len(b) + 1
      BY <1>1, ReadMore
    <2>2. CASE s = Len(b) + 1
      <3>1. g.parsed[s] = Text(k)
        BY <1>1, <2>2
      <3>2. s - 1 = Len(b)
        BY <2>1, <2>2
      <3> QED BY <1>1, <1>2, <3>1, <3>2
    <2>3. CASE s # Len(b) + 1
      <3>1. s \in 1 .. Len(b)
        BY <2>1, <2>3
      <3>2. g.parsed[s] = b[s]
        BY <1>1, <3>1
      <3> QED BY <1>1, <1>3, <3>1, <3>2 DEF ReadInPlace
    <2> QED BY <2>2, <2>3
  <1>5. ReadInPlace(M, g)
    BY <1>1, <1>3, <1>4 DEF ReadInPlace
  <1>6. \A d \in Clients : ReadInPlace(M, job'[d])
    BY <1>1, <1>5 DEF InPlace
  <1> QED BY <1>1, <1>6 DEF InPlace, tables

LEMMA ReadStoredInPlace ==
    ASSUME CountInv, NEW M, InPlace(M), NEW c \in Clients, ReadStored(c)
    PROVE  InPlace(M)'
  <1>1. /\ UNCHANGED tables /\ \A d \in Clients : d # c => job'[d] = job[d]
        /\ job[c].op = "repack" /\ job'[c].op = job[c].op
        /\ job'[c].traj = job[c].traj /\ job'[c].blobs = job[c].blobs
    BY ReadStoredGives
  <1>2. ReadInPlace(M, job[c])
    BY DEF InPlace
  <1>3. ReadInPlace(M, job'[c])
    BY <1>1, <1>2 DEF ReadInPlace
  <1>4. \A d \in Clients : ReadInPlace(M, job'[d])
    BY <1>1, <1>3 DEF InPlace
  <1> QED BY <1>1, <1>4 DEF InPlace, tables

\* A step that leaves the frames alone and gives one client a job that has
\* read nothing yet.
LEMMA QuietInPlace ==
    ASSUME CountInv, NEW M, InPlace(M), frames' = frames,
           \A c \in Clients : job'[c] = job[c] \/ ReadInPlace(M, job'[c])
    PROVE  InPlace(M)'
  BY DEF InPlace

LEMMA StartsInPlace ==
    ASSUME CountInv, NEW M, InPlace(M), NEW c \in Clients,
           \/ \E t \in Trajs, input \in Inputs : ExtendBegin(c, t, input)
           \/ \E t \in Trajs, units \in UnitSystems : SetUnitsBegin(c, t, units)
           \/ \E t \in Trajs : RepackBegin(c, t)
           \/ \E key \in Keys : CookBegin(c, key)
           \/ CookCommit(c)
           \/ ExtendRace(c) \/ Abandon(c)
    PROVE  InPlace(M)'
  <1>1. ASSUME NEW j, frames' = frames, job' = [job EXCEPT ![c] = j], ReadInPlace(M, j)
        PROVE  InPlace(M)'
    <2>1. \A d \in Clients : job'[d] = job[d] \/ ReadInPlace(M, job'[d])
      BY <1>1 DEF CountInv, TypeOK
    <2> QED BY <1>1, <2>1, QuietInPlace
  <1>2. CASE \E t \in Trajs, input \in Inputs : ExtendBegin(c, t, input)
    <2> PICK t \in Trajs, input \in Inputs : ExtendBegin(c, t, input)
      BY <1>2
    <2> DEFINE j == [op |-> "extend", traj |-> t, start |-> LiveCount(t), input |-> input]
    <2>1. frames' = frames /\ job' = [job EXCEPT ![c] = j]
      BY DEF ExtendBegin, Start, tables
    <2>2. ReadInPlace(M, j)
      BY DEF ReadInPlace
    <2> QED BY <1>1, <2>1, <2>2
  <1>3. CASE \E t \in Trajs, units \in UnitSystems : SetUnitsBegin(c, t, units)
    <2> PICK t \in Trajs, units \in UnitSystems : SetUnitsBegin(c, t, units)
      BY <1>3
    <2> DEFINE j == [op |-> "set_units", traj |-> t, n |-> Cardinality(StoredIdx(t)),
                     units |-> units, blobs |-> <<>>, parsed |-> <<>>]
    <2>1. frames' = frames /\ job' = [job EXCEPT ![c] = j]
      BY DEF SetUnitsBegin, Start, tables
    <2>2. ReadInPlace(M, j)
      BY DEF ReadInPlace
    <2> QED BY <1>1, <2>1, <2>2
  <1>4. CASE \E t \in Trajs : RepackBegin(c, t)
    <2> PICK t \in Trajs : RepackBegin(c, t)
      BY <1>4
    <2> DEFINE j == [op |-> "repack", traj |-> t, n |-> Cardinality(StoredIdx(t)),
                     blobs |-> <<>>, olds |-> <<>>]
    <2>1. frames' = frames /\ job' = [job EXCEPT ![c] = j]
      BY DEF RepackBegin, Start, tables
    <2>2. ReadInPlace(M, j)
      BY DEF ReadInPlace
    <2> QED BY <1>1, <2>1, <2>2
  <1>5. CASE \E key \in Keys : CookBegin(c, key)
    <2> PICK key \in Keys : CookBegin(c, key)
      BY <1>5
    <2> DEFINE j == [op |-> "cook", traj |-> key[1], at |-> key[2], text |-> Text(key)]
    <2>1. frames' = frames /\ job' = [job EXCEPT ![c] = j]
      BY DEF CookBegin, Start, tables
    <2>2. ReadInPlace(M, j)
      BY DEF ReadInPlace
    <2> QED BY <1>1, <2>1, <2>2
  <1>6. CASE CookCommit(c) \/ ExtendRace(c) \/ Abandon(c)
    <2>1. frames' = frames /\ job' = [job EXCEPT ![c] = Idle]
      BY <1>6 DEF CookCommit, ExtendRace, Abandon, Finish, tables
    <2> QED BY <1>1, <2>1, IdleInPlace
  <1> QED BY <1>2, <1>3, <1>4, <1>5, <1>6

LEMMA NextKeepsPlaces ==
    ASSUME CountInv, NEW M, InPlace(M), [Next]_vars
    PROVE  \E M2 : InPlace(M2)' /\ Extends(M2, M)
  <1>0. Extends(M, M)
    BY DEF Extends
  <1>1. CASE Transaction
    <2>1. CASE \E t \in Trajs, input \in Inputs, format \in {"exact", "decimal"},
                  compress \in CompressModes : AppendTrajectory(t, input, format, compress)
      <3> PICK t \in Trajs, input \in Inputs, format \in {"exact", "decimal"},
               compress \in CompressModes : AppendTrajectory(t, input, format, compress)
        BY <2>1
      <3>1. PICK texts, values : Adds(t, 0, input, texts, values) /\ job' = job
        BY AppendAdds
      <3> QED BY <3>1, AddsInPlace
    <2>2. CASE Reindex \/ \E key \in Keys : DeleteCooked(key)
      <3>1. frames' = frames /\ job' = job
        BY <2>2 DEF Reindex, DeleteCooked
      <3> QED BY <1>0, <3>1, QuietInPlace
    <2> QED BY <1>1, <2>1, <2>2 DEF Transaction
  <1>2. CASE \E c \in Clients : Step(c)
    <2> PICK c \in Clients : Step(c)
      BY <1>2
    <2>1. CASE \E compress \in CompressModes : ExtendCommit(c, compress)
      <3>1. PICK texts, values : Adds(job[c].traj, job[c].start, job[c].input, texts, values)
        BY <2>1, ExtendAdds
      <3>2. \A d \in Clients : job'[d] = job[d] \/ job'[d] = Idle
        BY <2>1, ExtendAdds DEF Ends
      <3> QED BY <3>1, <3>2, AddsInPlace
    <2>2. CASE \E compress \in CompressModes : SetUnitsCommit(c, compress)
      BY <1>0, <2>2, SetUnitsConverts, ConvertsInPlace
    <2>3. CASE RepackCommit(c)
      BY <1>0, <2>3, RepackRepacks, RepacksInPlace
    <2>4. CASE ReadText(c) \/ ReadParsed(c) \/ ReadStored(c)
      BY <1>0, <2>4, ReadTextInPlace, ReadParsedInPlace, ReadStoredInPlace
    <2>5. CASE \/ \E t \in Trajs, input \in Inputs : ExtendBegin(c, t, input)
               \/ \E t \in Trajs, units \in UnitSystems : SetUnitsBegin(c, t, units)
               \/ \E t \in Trajs : RepackBegin(c, t)
               \/ \E key \in Keys : CookBegin(c, key)
               \/ CookCommit(c)
               \/ ExtendRace(c) \/ Abandon(c)
      BY <1>0, <2>5, StartsInPlace
    <2> QED BY <2>1, <2>2, <2>3, <2>4, <2>5 DEF Step
  <1>3. CASE UNCHANGED vars
    <2>1. frames' = frames /\ job' = job
      BY <1>3 DEF vars
    <2> QED BY <1>0, <2>1, QuietInPlace
  <1> QED BY <1>1, <1>2, <1>3 DEF Next

LEMMA InitPlaces == Init => MolInv
  <1> SUFFICES ASSUME Init
               PROVE  MolInv
    OBVIOUS
  <1>1. \A M : InPlace(M)
    <2>1. \A t \in Trajs : \A i \in FrameIdx : frames[<<t, i>>] = Nil
      <3>1. \A k \in Keys : frames[k] = Nil
        BY DEF Init
      <3> QED BY <3>1 DEF Keys
    <2>2. \A c \in Clients : job[c] = Idle
      BY DEF Init
    <2> QED BY <2>1, <2>2, IdleInPlace DEF InPlace, Placed
  <1> QED BY <1>1, InitCounts DEF MolInv

LEMMA PlacesInvariant == Spec => []MolInv
  <1>1. MolInv /\ [Next]_vars => MolInv'
    BY NextKeepsCounts, NextKeepsPlaces DEF MolInv
  <1> QED BY <1>1, InitPlaces, PTL DEF Spec

\* A frame decodes to the molecule it was written with or not at all, with no
\* discipline among the operations: a redirect whose group was rewritten by
\* another operation (frame_codec.rs decode_frame) reads its own frame or
\* nothing, and no frame is overwritten by another.
THEOREM FramesStayThemselves == Spec => FramesKeepTheirMolecule
  <1>1. MolInv /\ [Next]_vars =>
            [\A k \in Keys : Text(k) # Nil /\ Text(k)' # Nil => Text(k)'.mol = Text(k).mol]_vars
    <2> SUFFICES ASSUME MolInv, [Next]_vars, NEW k \in Keys, Text(k) # Nil, Text(k)' # Nil
                 PROVE  Text(k)'.mol = Text(k).mol
      OBVIOUS
    <2>1. PICK M : InPlace(M)
      BY DEF MolInv
    <2>2. PICK M2 : InPlace(M2)' /\ Extends(M2, M)
      BY <2>1, NextKeepsPlaces DEF MolInv
    <2>3. CountInv /\ CountInv'
      BY NextKeepsCounts DEF MolInv
    <2>4. frames[k] # Nil /\ Text(k).mol = M[k]
      BY <2>1, <2>3, DecodesInPlace DEF CountInv, TypeOK, InPlace, Text
    <2>5. Text(k)' = Decode(frames', k)
      BY DEF Text
    <2>6. Text(k)'.mol = M2[k]
      BY <2>2, <2>3, <2>5, DecodesInPlace DEF CountInv, TypeOK, InPlace
    <2> QED BY <2>2, <2>4, <2>6 DEF Extends
  <1> QED BY <1>1, PlacesInvariant, PTL DEF Spec, FramesKeepTheirMolecule

-----------------------------------------------------------------------------
(* What decodes after a put. From here on the operations of a trajectory   *)
(* keep the discipline of `MaintainsAlone`.                                *)

\* fr2 is fr with n prepared values put from frame lo of trajectory t on.
PutAt(fr, fr2, t, lo, n, values) ==
    /\ \A i \in lo .. lo + n - 1 : fr2[<<t, i>>] = values[i]
    /\ \A k \in Keys : k \notin KeyRange(t, lo, n) => fr2[k] = fr[k]

\* No redirect leads into the range from outside.
NoneLeadsInto(fr, t, lo, n) ==
    \A i \in FrameIdx :
        /\ i \notin lo .. lo + n - 1
        /\ fr[<<t, i>>] # Nil
        /\ fr[<<t, i>>].kind = "redirect"
        => fr[<<t, i>>].head \notin lo .. lo + n - 1

\* A range of values put where no redirect from outside leads: the range
\* decodes to its texts, and every other frame as before.
LEMMA SpanDecodes ==
    ASSUME NEW fr \in [Keys -> Values \cup {Nil}], NEW fr2,
           NEW t \in Trajs, NEW lo \in Nat, NEW texts \in Seq(Texts), lo + Len(texts) <= MaxFrames,
           NEW values, ValuesHold(lo, texts, values),
           PutAt(fr, fr2, t, lo, Len(texts), values), NoneLeadsInto(fr, t, lo, Len(texts))
    PROVE  \A k \in Keys :
               Decode(fr2, k) = IF k \in KeyRange(t, lo, Len(texts)) THEN texts[k[2] - lo + 1]
                                                                     ELSE Decode(fr, k)
  <1> DEFINE span == lo .. lo + Len(texts) - 1
             R    == KeyRange(t, lo, Len(texts))
  <1>0. Len(texts) \in Nat /\ values \in [span -> Values]
    BY DEF ValuesHold
  <1>1. \A k \in Keys : k \in R <=> k[1] = t /\ k[2] \in span
    BY <1>0, KeyRangeType
  <1>2. \A i \in span : i \in FrameIdx /\ values[i] # Nil
    BY <1>0, KeyFacts, NilAssumption DEF FrameIdx
  <1> HIDE DEF R
  <1>3. ASSUME NEW k \in Keys, k \in R
        PROVE  Decode(fr2, k) = texts[k[2] - lo + 1]
    <2> DEFINE i == k[2]
    <2>1. k[1] = t /\ i \in span /\ k = <<t, i>> /\ fr2[k] = values[i] /\ fr2[k] # Nil
      BY <1>1, <1>2, <1>3, KeyFacts DEF PutAt
    <2> HIDE DEF i, span
    <2>2. CASE /\ values[i].kind \in {"single", "group"}
               /\ 0 < Len(values[i].texts)
               /\ values[i].texts[1] = texts[i - lo + 1]
      <3>1. values[i].texts \in Seq(Texts)
        BY <1>0, <2>1, <2>2 DEF Values
      <3>2. Decode(fr2, k) = SlotText(values[i], 0)
        BY <2>1, <2>2 DEF Decode
      <3>3. SlotText(values[i], 0) = values[i].texts[1]
        BY <2>1, <2>2, <3>1 DEF SlotText
      <3> QED BY <2>2, <3>2, <3>3 DEF i
    <2>3. CASE /\ values[i].kind = "redirect"
               /\ values[i].head \in span
               /\ values[values[i].head].kind = "group"
               /\ values[i].slot < Len(values[values[i].head].texts)
               /\ values[values[i].head].texts[values[i].slot + 1] = texts[i - lo + 1]
      <3> DEFINE h == values[i].head
                 s == values[i].slot
      <3>1. h \in span /\ fr2[<<t, h>>] = values[h] /\ values[h] # Nil
        BY <1>2, <2>3 DEF span, PutAt
      <3>2. s \in Nat /\ values[h].texts \in Seq(Texts)
        BY <1>0, <2>1, <2>3, <3>1 DEF Values
      <3>3. Decode(fr2, k) = SlotText(values[h], s)
        BY <2>1, <2>3, <3>1 DEF Decode
      <3>4. ~ (s >= Len(values[h].texts))
        BY <2>3, <3>2
      <3>5. SlotText(values[h], s) = values[h].texts[s + 1]
        BY <2>3, <3>1, <3>4 DEF SlotText
      <3> QED BY <2>3, <3>3, <3>5 DEF i
    <2> QED BY <2>1, <2>2, <2>3 DEF ValuesHold, span
  <1>4. ASSUME NEW k \in Keys, k \notin R
        PROVE  Decode(fr2, k) = Decode(fr, k)
    <2>1. fr2[k] = fr[k]
      BY <1>4 DEF R, PutAt
    <2>2. CASE fr[k] # Nil /\ fr[k].kind = "redirect"
      <3>1. fr[k].head \in FrameIdx
        BY <2>2 DEF Values
      <3> DEFINE g == <<k[1], fr[k].head>>
      <3>2. g \in Keys /\ k[1] \in Trajs /\ k[2] \in FrameIdx /\ k = <<k[1], k[2]>>
        BY <3>1, KeyFacts
      <3>3. g \notin R
        <4>1. CASE k[1] = t
          <5>1. k[2] \notin span
            BY <1>1, <1>4, <4>1
          <5>2. fr[k].head \notin span
            BY <2>2, <3>2, <4>1, <5>1 DEF NoneLeadsInto
          <5> QED BY <1>1, <3>2, <5>2
        <4>2. CASE k[1] # t
          BY <1>1, <3>2, <4>2
        <4> QED BY <4>1, <4>2
      <3>4. fr2[g] = fr[g]
        BY <3>2, <3>3 DEF R, PutAt
      <3> QED BY <2>1, <2>2, <3>4 DEF Decode
    <2>3. CASE ~ (fr[k] # Nil /\ fr[k].kind = "redirect")
      BY <2>1, <2>3 DEF Decode
    <2> QED BY <2>2, <2>3
  <1> QED BY <1>3, <1>4 DEF R

\* Only what is stored decodes.
LEMMA NilDecodes ==
    ASSUME NEW fr, NEW k, fr[k] = Nil
    PROVE  Decode(fr, k) = Nil
  BY DEF Decode, SlotText

\* A redirect that decodes leads to a stored frame.
LEMMA HeadIsStored ==
    ASSUME NEW fr, NEW t, NEW i, fr[<<t, i>>] # Nil, fr[<<t, i>>].kind = "redirect",
           Decode(fr, <<t, i>>) # Nil
    PROVE  fr[<<t, fr[<<t, i>>].head>>] # Nil
  BY DEF Decode, SlotText

\* The texts of a range are new, those of all other keys are as before.
Changes(t, lo, texts) ==
    \A k \in Keys :
        Text(k)' = IF k \in KeyRange(t, lo, Len(texts)) THEN texts[k[2] - lo + 1] ELSE Text(k)

LEMMA AddsChanges ==
    ASSUME CountInv, EveryFrameDecodes, NEW t, NEW lo, NEW parsed, NEW texts, NEW values,
           Adds(t, lo, parsed, texts, values)
    PROVE  /\ Changes(t, lo, texts)
           /\ \A k \in Keys : frames[k] # Nil => k \notin KeyRange(t, lo, Len(texts))
           /\ \A k \in Keys : k \notin KeyRange(t, lo, Len(texts)) => frames'[k] = frames[k]
           /\ \A i \in lo .. lo + Len(texts) - 1 : frames'[<<t, i>>] = values[i]
  <1> DEFINE span == lo .. lo + Len(texts) - 1
             R    == KeyRange(t, lo, Len(texts))
  <1>0. /\ t \in Trajs /\ lo \in Nat /\ LiveIn(traj_meta, t) = lo
        /\ texts \in Seq(Texts) /\ Len(texts) \in Nat /\ lo + Len(texts) <= MaxFrames
        /\ ValuesHold(lo, texts, values) /\ frames' = PutFrames(frames, t, lo, values)
    BY DEF Adds
  <1>1. values \in [span -> Values]
    BY <1>0 DEF ValuesHold
  <1>2. frames \in [Keys -> Values \cup {Nil}]
    BY DEF CountInv, TypeOK
  <1>3. \A k \in Keys : k \in R <=> k[1] = t /\ k[2] \in span
    BY <1>0, KeyRangeType
  <1> HIDE DEF R
  <1>4. ASSUME NEW i \in FrameIdx, frames[<<t, i>>] # Nil
        PROVE  i \notin span
    <2>1. i < lo /\ i \in Nat
      BY <1>0, <1>4, StoredIsLive, KeyFacts
    <2> QED BY <1>0, <2>1
  <1>5. \A k \in Keys : frames[k] # Nil => k \notin R
    BY <1>3, <1>4, KeyFacts
  <1>6. DOMAIN values \subseteq FrameIdx /\ DOMAIN values = span /\ values \in [DOMAIN values -> Values]
    <2>1. span \subseteq FrameIdx
      BY <1>0, KeyFacts DEF FrameIdx
    <2> HIDE DEF span
    <2> QED BY <1>1, <2>1
  <1>7. /\ \A i \in span : frames'[<<t, i>>] = values[i]
        /\ \A k \in Keys : k \notin R => frames'[k] = frames[k]
    <2>1. /\ \A i \in DOMAIN values : frames'[<<t, i>>] = values[i]
          /\ \A k \in Keys : k[1] # t \/ k[2] \notin DOMAIN values => frames'[k] = frames[k]
      <3> HIDE DEF span
      <3> DEFINE P == PutFrames(frames, t, lo, values)
      <3>1. /\ \A i \in DOMAIN values : P[<<t, i>>] = values[i]
            /\ \A k \in Keys : k[1] # t \/ k[2] \notin DOMAIN values => P[k] = frames[k]
        BY <1>0, <1>2, <1>6, PutFramesFacts
      <3> HIDE DEF P
      <3>2. frames' = P
        BY <1>0 DEF P
      <3> QED BY <3>1, <3>2
    <2> HIDE DEF span
    <2> QED BY <1>3, <1>6, <2>1
  <1>8. ASSUME NEW i \in FrameIdx, i \notin span, frames[<<t, i>>] # Nil,
               frames[<<t, i>>].kind = "redirect"
        PROVE  frames[<<t, i>>].head \notin span
    <2>1. <<t, i>> \in Keys
      BY <1>0, KeyFacts
    <2>2. Decode(frames, <<t, i>>) # Nil
      BY <1>8, <2>1 DEF EveryFrameDecodes, Text
    <2>3. frames[<<t, frames[<<t, i>>].head>>] # Nil
      BY <1>8, <2>2, HeadIsStored
    <2>4. frames[<<t, i>>].head \in FrameIdx
      BY <1>2, <1>8, <2>1 DEF Values
    <2> QED BY <1>4, <2>3, <2>4
  <1>9. \A k \in Keys : Decode(frames', k) = IF k \in R THEN texts[k[2] - lo + 1] ELSE Decode(frames, k)
    <2>1. PutAt(frames, frames', t, lo, Len(texts), values)
      BY <1>7 DEF PutAt, R
    <2>2. NoneLeadsInto(frames, t, lo, Len(texts))
      BY <1>8 DEF NoneLeadsInto
    <2> QED BY <1>0, <1>2, <2>1, <2>2, SpanDecodes DEF R
  <1>10. Changes(t, lo, texts)
    BY <1>9 DEF Changes, Text, R
  <1> QED BY <1>5, <1>7, <1>10 DEF R

\* The discipline: one maintenance operation at a time on a trajectory, and no
\* cooking of a trajectory while its units change. Extensions are free.
MaintainsAlone ==
    {{"set_units"}, {"repack"}, {"set_units", "repack"}, {"set_units", "cook"}} \subseteq Conflicts

Maintains(j) == j.op \in {"set_units", "repack"}

Clash(a, b) == (Maintains(a) /\ Maintains(b)) \/ (a.op = "set_units" /\ b.op = "cook")

\* What the discipline keeps apart stays apart.
Alone == \A c, d \in Clients : c # d /\ Clash(job[c], job[d]) => job[c].traj # job[d].traj

\* What a job has read is what the tables still hold.
FreshIn(fr, j) ==
    /\ Maintains(j) => \A s \in 1 .. Len(j.blobs) : j.blobs[s] = Decode(fr, <<j.traj, s - 1>>)
    /\ j.op = "set_units" =>
          \A s \in 1 .. Len(j.parsed) : j.parsed[s] = Decode(fr, <<j.traj, s - 1>>)
    /\ j.op = "repack" => \A s \in 1 .. Len(j.olds) : j.olds[s] = fr[<<j.traj, s - 1>>]
    /\ j.op = "cook" => j.text = Decode(fr, <<j.traj, j.at>>)

\* No frame added since a maintenance listed its keys is in a group that the
\* maintenance is about to rewrite.
SplitAt(fr, j) ==
    Maintains(j) =>
        \A i \in FrameIdx :
            i >= j.n /\ fr[<<j.traj, i>>] # Nil /\ fr[<<j.traj, i>>].kind = "redirect"
                => fr[<<j.traj, i>>].head >= j.n

JobsFresh == \A c \in Clients : FreshIn(frames, job[c]) /\ SplitAt(frames, job[c])

\* The invariant of the content: what the operations hold is still true of the
\* tables, and the secondary tables are of the texts the frames decode to.
ContentInv ==
    /\ CountInv
    /\ Alone
    /\ JobsFresh
    /\ EveryFrameDecodes
    /\ HashesMatchText
    /\ PostingsExact
    /\ CookedIsFresh

\* A maintenance that puts texts where its keys were.
LEMMA RewriteChanges ==
    ASSUME CountInv, NEW j, Maintains(j), SplitAt(frames, j), NEW t \in Trajs, j.traj = t,
           NEW n \in Nat, j.n = n, n <= LiveIn(traj_meta, t),
           NEW texts \in Seq(Texts), Len(texts) = n, NEW values, ValuesHold(0, texts, values),
           \A i \in 0 .. n - 1 : frames'[<<t, i>>] = values[i],
           \A k \in Keys : k \notin KeyRange(t, 0, n) => frames'[k] = frames[k]
    PROVE  Changes(t, 0, texts)
  <1> DEFINE lo == 0
  <1>0. n <= MaxFrames
    <2>1. LiveIn(traj_meta, t) \in 0 .. MaxFrames
      BY LiveInType DEF CountInv, TypeOK
    <2>2. MaxFrames \in Nat
      BY KeyFacts
    <2> QED BY <2>1, <2>2
  <1>1. ASSUME NEW i \in FrameIdx, i \notin lo .. lo + Len(texts) - 1, frames[<<t, i>>] # Nil,
               frames[<<t, i>>].kind = "redirect"
        PROVE  frames[<<t, i>>].head \notin lo .. lo + Len(texts) - 1
    <2>1. i >= n
      BY <1>1, KeyFacts
    <2>2. frames[<<t, i>>].head >= n
      BY <1>1, <2>1 DEF SplitAt
    <2> QED BY <2>2
  <1>2. /\ lo \in Nat /\ lo + Len(texts) <= MaxFrames /\ ValuesHold(lo, texts, values)
        /\ \A i \in lo .. lo + Len(texts) - 1 : frames'[<<t, i>>] = values[i]
        /\ \A k \in Keys : k \notin KeyRange(t, lo, Len(texts)) => frames'[k] = frames[k]
    BY <1>0
  <1>3. frames \in [Keys -> Values \cup {Nil}]
    BY DEF CountInv, TypeOK
  <1> HIDE DEF lo
  <1>4. \A k \in Keys : Decode(frames', k) = IF k \in KeyRange(t, lo, Len(texts))
                                             THEN texts[k[2] - lo + 1] ELSE Decode(frames, k)
    <2>1. PutAt(frames, frames', t, lo, Len(texts), values)
      BY <1>2 DEF PutAt
    <2>2. NoneLeadsInto(frames, t, lo, Len(texts))
      BY <1>1 DEF NoneLeadsInto
    <2> QED BY <1>2, <1>3, <2>1, <2>2, SpanDecodes
  <1>5. Changes(t, lo, texts)
    BY <1>4 DEF Changes, Text
  <1> QED BY <1>5 DEF lo

\* A put of some of the values of the keys 0 .. n-1: the rest are as before.
LEMMA PutRange ==
    ASSUME CountInv, NEW t \in Trajs, NEW n \in Nat, n <= LiveIn(traj_meta, t),
           NEW part, DOMAIN part \subseteq 0 .. n - 1, part \in [DOMAIN part -> Values],
           frames' = PutFrames(frames, t, 0, part)
    PROVE  /\ n <= MaxFrames
           /\ \A k \in Keys : k \in KeyRange(t, 0, n) <=> k[1] = t /\ k[2] \in 0 .. n - 1
           /\ \A i \in 0 .. n - 1 : i \in FrameIdx /\ <<t, i>> \in Keys /\ frames[<<t, i>>] # Nil
           /\ \A i \in 0 .. n - 1 :
                  frames'[<<t, i>>] = IF i \in DOMAIN part THEN part[i] ELSE frames[<<t, i>>]
           /\ \A k \in Keys : k \notin KeyRange(t, 0, n) => frames'[k] = frames[k]
  <1>0. LiveIn(traj_meta, t) \in 0 .. MaxFrames /\ MaxFrames \in Nat
    BY LiveInType, KeyFacts DEF CountInv, TypeOK
  <1>1. n <= MaxFrames
    BY <1>0
  <1>2. \A k \in Keys : k \in KeyRange(t, 0, n) <=> k[1] = t /\ k[2] \in 0 .. n - 1
    <2>1. 0 + n <= MaxFrames /\ 0 + n - 1 = n - 1 /\ 0 \in Nat
      BY <1>1
    <2>2. \A k \in Keys : k \in KeyRange(t, 0, n) <=> k[1] = t /\ k[2] \in 0 .. 0 + n - 1
      BY <2>1, KeyRangeType
    <2> QED BY <2>1, <2>2
  <1>3. ASSUME NEW i \in 0 .. n - 1
        PROVE  i \in FrameIdx /\ <<t, i>> \in Keys /\ frames[<<t, i>>] # Nil
    <2>1. i \in FrameIdx /\ i < LiveIn(traj_meta, t)
      BY <1>0, <1>1 DEF FrameIdx
    <2> QED BY <2>1, StoredIsLive, KeyFacts
  <1>4. DOMAIN part \subseteq FrameIdx /\ frames \in [Keys -> Values \cup {Nil}]
    BY <1>3 DEF CountInv, TypeOK
  <1> DEFINE P == PutFrames(frames, t, 0, part)
  <1>5. /\ \A i \in DOMAIN part : P[<<t, i>>] = part[i]
        /\ \A k \in Keys : k[1] # t \/ k[2] \notin DOMAIN part => P[k] = frames[k]
    BY <1>4, PutFramesFacts
  <1>6. frames' = P
    OBVIOUS
  <1> HIDE DEF P
  <1>7. ASSUME NEW k \in Keys, k \notin KeyRange(t, 0, n)
        PROVE  frames'[k] = frames[k]
    <2>1. k[1] # t \/ k[2] \notin DOMAIN part
      BY <1>2, <1>7
    <2> QED BY <1>5, <1>6, <2>1
  <1>8. ASSUME NEW i \in 0 .. n - 1
        PROVE  frames'[<<t, i>>] = IF i \in DOMAIN part THEN part[i] ELSE frames[<<t, i>>]
    BY <1>3, <1>5, <1>6, <1>8
  <1> QED BY <1>1, <1>2, <1>3, <1>7, <1>8

LEMMA ConvertsChanges ==
    ASSUME CountInv, NEW c \in Clients, job[c].op = "set_units", SplitAt(frames, job[c]),
           NEW texts, NEW values, Converts(job[c].traj, job[c], texts, values)
    PROVE  /\ Changes(job[c].traj, 0, texts)
           /\ \A k \in Keys : k[1] # job[c].traj => frames'[k] = frames[k]
           /\ \A k \in Keys : frames'[k] = Nil <=> frames[k] = Nil
  <1> DEFINE j == job[c]
             t == j.traj
             n == j.n
  <1>1. /\ t \in Trajs /\ n \in Nat /\ n <= LiveIn(traj_meta, t)
        /\ texts \in Seq(Texts) /\ Len(texts) = n /\ ValuesHold(0, texts, values)
        /\ frames' = PutFrames(frames, t, 0, values)
    BY DEF Converts
  <1>2. DOMAIN values = 0 .. n - 1 /\ values \in [DOMAIN values -> Values]
    <2>1. 0 + Len(texts) - 1 = n - 1
      BY <1>1
    <2>2. values \in [0 .. 0 + Len(texts) - 1 -> Values]
      BY <1>1 DEF ValuesHold
    <2> QED BY <2>1, <2>2
  <1>3. Maintains(j)
    BY DEF Maintains
  <1> HIDE DEF j, t, n
  <1>4. /\ \A k \in Keys : k \in KeyRange(t, 0, n) <=> k[1] = t /\ k[2] \in 0 .. n - 1
        /\ \A i \in 0 .. n - 1 : <<t, i>> \in Keys /\ frames[<<t, i>>] # Nil
        /\ \A i \in 0 .. n - 1 : frames'[<<t, i>>] = values[i]
        /\ \A k \in Keys : k \notin KeyRange(t, 0, n) => frames'[k] = frames[k]
    BY <1>1, <1>2, PutRange
  <1>5. Changes(t, 0, texts)
    BY <1>1, <1>3, <1>4, RewriteChanges DEF j, t, n
  <1>6. ASSUME NEW k \in Keys
        PROVE  frames'[k] = Nil <=> frames[k] = Nil
    <2>1. CASE k \in KeyRange(t, 0, n)
      <3>1. k = <<t, k[2]>> /\ k[2] \in 0 .. n - 1
        BY <1>4, <2>1, KeyFacts
      <3>2. values[k[2]] \in Values
        BY <1>2, <3>1
      <3> QED BY <1>4, <3>1, <3>2, NilAssumption
    <2> QED BY <1>4, <2>1
  <1> QED BY <1>4, <1>5, <1>6 DEF j, t

\* A migration changes how frames are stored, and no text.
LEMMA RepacksChanges ==
    ASSUME CountInv, EveryFrameDecodes, NEW c \in Clients, job[c].op = "repack",
           SplitAt(frames, job[c]), FreshIn(frames, job[c]),
           NEW values, NEW part, Repacks(job[c].traj, job[c], values, part)
    PROVE  /\ \A k \in Keys : Text(k)' = Text(k)
           /\ \A k \in Keys : k[1] # job[c].traj => frames'[k] = frames[k]
           /\ \A k \in Keys : frames'[k] # Nil => frames[k] # Nil
  <1> DEFINE j == job[c]
             t == j.traj
             n == j.n
  <1>1. /\ t \in Trajs /\ n \in Nat /\ n <= LiveIn(traj_meta, t)
        /\ j.blobs \in Seq(Texts) /\ Len(j.blobs) = n /\ Len(j.olds) = n
        /\ ValuesHold(0, j.blobs, values)
        /\ DOMAIN part \subseteq 0 .. n - 1 /\ part \in [DOMAIN part -> Values]
        /\ \A i \in 0 .. n - 1 : IF i \in DOMAIN part THEN part[i] = values[i]
                                                      ELSE values[i] = j.olds[i + 1]
        /\ frames' = PutFrames(frames, t, 0, part)
    BY DEF Repacks
  <1>2. /\ Maintains(j) /\ SplitAt(frames, j)
        /\ \A s \in 1 .. n : j.blobs[s] = Decode(frames, <<t, s - 1>>)
        /\ \A s \in 1 .. n : j.olds[s] = frames[<<t, s - 1>>]
    BY <1>1 DEF Maintains, FreshIn
  <1>t. j.traj = t /\ j.n = n
    OBVIOUS
  <1> HIDE DEF j, t, n
  <1>3. /\ \A k \in Keys : k \in KeyRange(t, 0, n) <=> k[1] = t /\ k[2] \in 0 .. n - 1
        /\ \A i \in 0 .. n - 1 : frames[<<t, i>>] # Nil
        /\ \A i \in 0 .. n - 1 :
               frames'[<<t, i>>] = IF i \in DOMAIN part THEN part[i] ELSE frames[<<t, i>>]
        /\ \A k \in Keys : k \notin KeyRange(t, 0, n) => frames'[k] = frames[k]
    BY <1>1, PutRange
  <1>4. ASSUME NEW i \in 0 .. n - 1
        PROVE  frames'[<<t, i>>] = values[i]
    <2>1. i + 1 \in 1 .. n /\ (i + 1) - 1 = i
      BY <1>1
    <2>2. j.olds[i + 1] = frames[<<t, (i + 1) - 1>>]
      BY <1>2, <2>1
    <2> QED BY <1>1, <1>3, <2>1, <2>2
  <1>5. Changes(t, 0, j.blobs)
    BY <1>1, <1>2, <1>3, <1>4, <1>t, RewriteChanges
  <1>6. ASSUME NEW k \in Keys
        PROVE  Text(k)' = Text(k)
    <2>1. CASE k \in KeyRange(t, 0, n)
      <3>1. k = <<t, k[2]>> /\ k[2] \in 0 .. n - 1
        BY <1>3, <2>1, KeyFacts
      <3>2. k[2] + 1 \in 1 .. n /\ (k[2] + 1) - 1 = k[2] /\ k[2] - 0 + 1 = k[2] + 1
        BY <1>1, <3>1
      <3>3. Text(k)' = j.blobs[k[2] + 1]
        BY <1>1, <1>5, <2>1, <3>2 DEF Changes
      <3>4. j.blobs[k[2] + 1] = Decode(frames, <<t, (k[2] + 1) - 1>>)
        BY <1>2, <3>2
      <3> QED BY <3>1, <3>2, <3>3, <3>4 DEF Text
    <2>2. CASE k \notin KeyRange(t, 0, n)
      BY <1>1, <1>5, <2>2 DEF Changes
    <2> QED BY <2>1, <2>2
  <1>7. \A k \in Keys : k[1] # t => frames'[k] = frames[k]
    BY <1>3
  <1>8. ASSUME NEW k \in Keys, frames'[k] # Nil
        PROVE  frames[k] # Nil
    <2>1. CASE k \in KeyRange(t, 0, n)
      <3>1. k = <<t, k[2]>> /\ k[2] \in 0 .. n - 1
        BY <1>3, <2>1, KeyFacts
      <3> QED BY <1>3, <3>1
    <2> QED BY <1>3, <1>8, <2>1
  <1> QED BY <1>6, <1>7, <1>8 DEF j, t

-----------------------------------------------------------------------------
(* What the operations hold stays true of the tables.                      *)

LEMMA EndsAlone ==
    ASSUME Alone, \A d \in Clients : job'[d] = job[d] \/ job'[d] = Idle
    PROVE  Alone'
  <1>1. \A a : ~ Clash(Idle, a) /\ ~ Clash(a, Idle)
    BY DEF Clash, Maintains, Idle
  <1> QED BY <1>1 DEF Alone

LEMMA GoesOnAlone ==
    ASSUME Alone, NEW c \in Clients, \A d \in Clients : d # c => job'[d] = job[d],
           job'[c].op = job[c].op, job'[c].traj = job[c].traj
    PROVE  Alone'
  <1>1. \A d \in Clients : job'[d].op = job[d].op /\ job'[d].traj = job[d].traj
    OBVIOUS
  <1>2. \A a, b \in Clients : Clash(job'[a], job'[b]) <=> Clash(job[a], job[b])
    BY <1>1 DEF Clash, Maintains
  <1> QED BY <1>1, <1>2 DEF Alone

\* Whoever starts a clashing operation waits for the other to end.
LEMMA StartsAlone ==
    ASSUME MaintainsAlone, CountInv, Alone, NEW c \in Clients, NEW j,
           MayStart(c, j.op, j.traj), job' = [job EXCEPT ![c] = j]
    PROVE  Alone'
  <1>1. job'[c] = j /\ \A d \in Clients : d # c => job'[d] = job[d]
    BY DEF CountInv, TypeOK
  <1>2. ASSUME NEW d \in Clients, d # c, Clash(j, job[d]) \/ Clash(job[d], j)
        PROVE  j.traj # job[d].traj
    <2>1. {j.op, job[d].op} \in Conflicts
      <3>1. \/ j.op = "set_units" /\ job[d].op = "set_units"
            \/ j.op = "repack" /\ job[d].op = "repack"
            \/ j.op = "set_units" /\ job[d].op = "repack"
            \/ j.op = "repack" /\ job[d].op = "set_units"
            \/ j.op = "set_units" /\ job[d].op = "cook"
            \/ j.op = "cook" /\ job[d].op = "set_units"
        BY <1>2 DEF Clash, Maintains
      <3>2. CASE j.op = "set_units" /\ job[d].op = "set_units"
        <4>1. {j.op, job[d].op} = {"set_units"}
          BY <3>2
        <4> QED BY <4>1 DEF MaintainsAlone
      <3>3. CASE j.op = "repack" /\ job[d].op = "repack"
        <4>1. {j.op, job[d].op} = {"repack"}
          BY <3>3
        <4> QED BY <4>1 DEF MaintainsAlone
      <3>4. CASE \/ j.op = "set_units" /\ job[d].op = "repack"
                 \/ j.op = "repack" /\ job[d].op = "set_units"
        <4>1. {j.op, job[d].op} = {"set_units", "repack"}
          BY <3>4
        <4> QED BY <4>1 DEF MaintainsAlone
      <3>5. CASE \/ j.op = "set_units" /\ job[d].op = "cook"
                 \/ j.op = "cook" /\ job[d].op = "set_units"
        <4>1. {j.op, job[d].op} = {"set_units", "cook"}
          BY <3>5
        <4> QED BY <4>1 DEF MaintainsAlone
      <3> QED BY <3>1, <3>2, <3>3, <3>4, <3>5
    <2>2. Busy(d)
      BY <1>2 DEF Busy, Clash, Maintains
    <2> QED BY <2>1, <2>2 DEF MayStart
  <1>3. ASSUME NEW a \in Clients, NEW b \in Clients, a # b, Clash(job'[a], job'[b])
        PROVE  job'[a].traj # job'[b].traj
    <2>1. CASE a = c
      BY <1>1, <1>2, <1>3, <2>1
    <2>2. CASE b = c
      BY <1>1, <1>2, <1>3, <2>2
    <2>3. CASE a # c /\ b # c
      BY <1>1, <1>3, <2>3 DEF Alone
    <2> QED BY <2>1, <2>2, <2>3
  <1> QED BY <1>3 DEF Alone

\* What a maintenance works on is stored.
LEMMA MaintainsStored ==
    ASSUME CountInv, NEW c \in Clients, Maintains(job[c])
    PROVE  LET j == job[c]
           IN  /\ j.traj \in Trajs /\ j.n \in Nat /\ j.n <= LiveIn(traj_meta, j.traj)
               /\ j.blobs \in Seq(Texts) /\ Len(j.blobs) <= j.n
               /\ j.op = "set_units" => j.parsed \in Seq(Texts) /\ Len(j.parsed) <= j.n
               /\ j.op = "repack" => j.olds \in Seq(Values) /\ Len(j.olds) <= j.n
               /\ \A s \in 1 .. j.n : <<j.traj, s - 1>> \in Keys /\ frames[<<j.traj, s - 1>>] # Nil
  <1> DEFINE j == job[c]
             t == j.traj
             n == j.n
  <1>0. j \in Jobs /\ Within(j, traj_meta) /\ j.op \in {"set_units", "repack"}
    BY DEF CountInv, TypeOK, JobBounds, Maintains
  <1>1. /\ t \in Trajs /\ n \in 1 .. MaxFrames /\ j.blobs \in Seq(Texts)
        /\ j.op = "set_units" => j.parsed \in Seq(Texts)
        /\ j.op = "repack" => j.olds \in Seq(Values)
    BY <1>0, JobFields
  <1>2. /\ n <= LiveIn(traj_meta, t) /\ Len(j.blobs) <= n
        /\ j.op = "set_units" => Len(j.parsed) <= Len(j.blobs)
        /\ j.op = "repack" => Len(j.olds) <= Len(j.blobs)
    BY <1>0 DEF Within
  <1>3. n \in Nat /\ n <= MaxFrames
    BY <1>1, KeyFacts
  <1>4. /\ j.op = "set_units" => Len(j.parsed) <= n
        /\ j.op = "repack" => Len(j.olds) <= n
    <2> HIDE DEF n
    <2>1. Len(j.blobs) \in Nat /\ Len(j.blobs) <= n /\ n \in Nat
      BY <1>1, <1>2, <1>3
    <2>2. ASSUME j.op = "set_units"
          PROVE  Len(j.parsed) <= n
      <3>1. Len(j.parsed) \in Nat /\ Len(j.parsed) <= Len(j.blobs)
        BY <1>1, <1>2, <2>2
      <3> QED BY <2>1, <3>1
    <2>3. ASSUME j.op = "repack"
          PROVE  Len(j.olds) <= n
      <3>1. Len(j.olds) \in Nat /\ Len(j.olds) <= Len(j.blobs)
        BY <1>1, <1>2, <2>3
      <3> QED BY <2>1, <3>1
    <2> QED BY <2>2, <2>3
  <1>5. ASSUME NEW s \in 1 .. n
        PROVE  <<t, s - 1>> \in Keys /\ frames[<<t, s - 1>>] # Nil
    <2> HIDE DEF t, n
    <2>0. LiveIn(traj_meta, t) \in Nat
      BY <1>1, LiveInType DEF CountInv, TypeOK
    <2>1. s - 1 \in FrameIdx /\ s - 1 < LiveIn(traj_meta, t)
      BY <1>2, <1>3, <2>0, KeyFacts DEF FrameIdx
    <2> QED BY <1>1, <2>1, StoredIsLive, KeyFacts
  <1> QED BY <1>1, <1>2, <1>3, <1>4, <1>5

\* A change of the frames that leaves the stored texts of its trajectory alone,
\* and for a migration their values, makes nothing stale that a job has read.
LEMMA FreshKept ==
    ASSUME CountInv, NEW c \in Clients, FreshIn(frames, job[c]), NEW fr2,
           \A k \in Keys : k[1] = job[c].traj /\ frames[k] # Nil =>
                               Decode(fr2, k) = Decode(frames, k),
           job[c].op = "repack" =>
               \A k \in Keys : k[1] = job[c].traj /\ frames[k] # Nil => fr2[k] = frames[k]
    PROVE  FreshIn(fr2, job[c])
  <1> DEFINE j == job[c]
  <1>1. ASSUME Maintains(j), NEW s \in Nat, s >= 1, s <= j.n
        PROVE  /\ Decode(fr2, <<j.traj, s - 1>>) = Decode(frames, <<j.traj, s - 1>>)
               /\ j.op = "repack" => fr2[<<j.traj, s - 1>>] = frames[<<j.traj, s - 1>>]
    <2> DEFINE k == <<j.traj, s - 1>>
    <2>1. k \in Keys /\ frames[k] # Nil /\ k[1] = j.traj
      BY <1>1, MaintainsStored
    <2> HIDE DEF k
    <2>2. Decode(fr2, k) = Decode(frames, k) /\ (j.op = "repack" => fr2[k] = frames[k])
      BY <2>1
    <2> QED BY <2>2 DEF k
  <1>2. ASSUME Maintains(j), NEW s \in 1 .. Len(j.blobs)
        PROVE  j.blobs[s] = Decode(fr2, <<j.traj, s - 1>>)
    <2>1. s \in Nat /\ s >= 1 /\ s <= j.n
      <3>1. j.blobs \in Seq(Texts) /\ Len(j.blobs) <= j.n /\ j.n \in Nat
        BY <1>2, MaintainsStored
      <3>2. Len(j.blobs) \in Nat
        BY <3>1
      <3> QED BY <3>1, <3>2
    <2> QED BY <1>1, <1>2, <2>1 DEF FreshIn
  <1>3. ASSUME j.op = "set_units", NEW s \in 1 .. Len(j.parsed)
        PROVE  j.parsed[s] = Decode(fr2, <<j.traj, s - 1>>)
    <2>0. Maintains(j)
      BY <1>3 DEF Maintains
    <2>1. s \in Nat /\ s >= 1 /\ s <= j.n
      <3>1. j.parsed \in Seq(Texts) /\ Len(j.parsed) <= j.n /\ j.n \in Nat
        BY <1>3, <2>0, MaintainsStored
      <3>2. Len(j.parsed) \in Nat
        BY <3>1
      <3> QED BY <3>1, <3>2
    <2> QED BY <1>1, <1>3, <2>0, <2>1 DEF FreshIn
  <1>4. ASSUME j.op = "repack", NEW s \in 1 .. Len(j.olds)
        PROVE  j.olds[s] = fr2[<<j.traj, s - 1>>]
    <2>0. Maintains(j)
      BY <1>4 DEF Maintains
    <2>1. s \in Nat /\ s >= 1 /\ s <= j.n
      <3>1. j.olds \in Seq(Values) /\ Len(j.olds) <= j.n /\ j.n \in Nat
        BY <1>4, <2>0, MaintainsStored
      <3>2. Len(j.olds) \in Nat
        BY <3>1
      <3> QED BY <3>1, <3>2
    <2> QED BY <1>1, <1>4, <2>0, <2>1 DEF FreshIn
  <1>5. ASSUME j.op = "cook"
        PROVE  j.text = Decode(fr2, <<j.traj, j.at>>)
    <2> DEFINE k == <<j.traj, j.at>>
    <2>1. j.traj \in Trajs /\ j.at \in FrameIdx /\ j.text \in Texts
      BY <1>5, JobFields DEF CountInv, TypeOK
    <2>2. j.text = Decode(frames, k)
      BY <1>5 DEF FreshIn
    <2>3. k \in Keys /\ k[1] = j.traj
      BY <2>1, KeyFacts
    <2> HIDE DEF k
    <2>4. frames[k] # Nil
      BY <2>1, <2>2, NilDecodes, NilAssumption
    <2>5. Decode(fr2, k) = Decode(frames, k)
      BY <2>3, <2>4
    <2> QED BY <2>2, <2>5 DEF k
  <1> QED BY <1>2, <1>3, <1>4, <1>5 DEF FreshIn

LEMMA IdleFresh == \A fr : FreshIn(fr, Idle) /\ SplitAt(fr, Idle)
  BY DEF FreshIn, SplitAt, Maintains, Idle

LEMMA AddsFresh ==
    ASSUME CountInv, EveryFrameDecodes, JobsFresh, NEW t, NEW lo, NEW parsed, NEW texts, NEW values,
           Adds(t, lo, parsed, texts, values),
           \A d \in Clients : job'[d] = job[d] \/ job'[d] = Idle
    PROVE  JobsFresh'
  <1> DEFINE span == lo .. lo + Len(texts) - 1
             R    == KeyRange(t, lo, Len(texts))
  <1>0. /\ t \in Trajs /\ lo \in Nat /\ LiveIn(traj_meta, t) = lo
        /\ texts \in Seq(Texts) /\ Len(texts) \in Nat /\ lo + Len(texts) <= MaxFrames
        /\ ValuesHold(lo, texts, values)
    BY DEF Adds
  <1>1. /\ \A k \in Keys : Text(k)' = IF k \in R THEN texts[k[2] - lo + 1] ELSE Text(k)
        /\ \A k \in Keys : frames[k] # Nil => k \notin R
        /\ \A k \in Keys : k \notin R => frames'[k] = frames[k]
        /\ \A i \in span : frames'[<<t, i>>] = values[i]
    BY AddsChanges DEF Changes
  <1>2. \A k \in Keys : k \in R <=> k[1] = t /\ k[2] \in span
    BY <1>0, KeyRangeType
  <1> HIDE DEF R
  <1>3. ASSUME NEW d \in Clients
        PROVE  FreshIn(frames', job[d])
    <2>1. \A k \in Keys : frames[k] # Nil => Decode(frames', k) = Decode(frames, k)
      BY <1>1 DEF Text
    <2>2. \A k \in Keys : frames[k] # Nil => frames'[k] = frames[k]
      BY <1>1
    <2> DEFINE fr2 == frames'
    <2>3. \A k \in Keys : frames[k] # Nil => Decode(fr2, k) = Decode(frames, k) /\ fr2[k] = frames[k]
      BY <2>1, <2>2
    <2> HIDE DEF fr2
    <2>4. FreshIn(fr2, job[d])
      BY <2>3, FreshKept DEF JobsFresh
    <2> QED BY <2>4 DEF fr2
  <1>4. ASSUME NEW d \in Clients
        PROVE  SplitAt(frames', job[d])
    <2> DEFINE j == job[d]
    <2>1. ASSUME Maintains(j), NEW i \in FrameIdx, i >= j.n, frames'[<<j.traj, i>>] # Nil,
                 frames'[<<j.traj, i>>].kind = "redirect"
          PROVE  frames'[<<j.traj, i>>].head >= j.n
      <3>1. /\ j.traj \in Trajs /\ j.n \in Nat /\ j.n <= LiveIn(traj_meta, j.traj)
            /\ <<j.traj, i>> \in Keys
        BY <2>1, MaintainsStored, KeyFacts
      <3>2. CASE j.traj = t /\ i \in span
        <4>1. values[i].kind = "redirect" /\ frames'[<<j.traj, i>>] = values[i]
          BY <1>1, <2>1, <3>2
        <4>2. values[i].head \in span
          BY <1>0, <3>2, <4>1 DEF ValuesHold
        <4>3. j.n <= lo
          BY <1>0, <3>1, <3>2
        <4> QED BY <1>0, <3>1, <4>1, <4>2, <4>3
      <3>3. CASE ~ (j.traj = t /\ i \in span)
        <4>1. <<j.traj, i>> \notin R
          BY <1>2, <3>1, <3>3
        <4>2. frames'[<<j.traj, i>>] = frames[<<j.traj, i>>]
          BY <1>1, <3>1, <4>1
        <4>3. SplitAt(frames, j)
          BY DEF JobsFresh
        <4> QED BY <2>1, <4>2, <4>3 DEF SplitAt
      <3> QED BY <3>2, <3>3
    <2> QED BY <2>1 DEF SplitAt
  <1> QED BY <1>3, <1>4, IdleFresh DEF JobsFresh

\* A maintenance on trajectory t ends; the others are not about its frames, or
\* cook what it has not changed.
LEMMA RewriteFresh ==
    ASSUME CountInv, JobsFresh, NEW c \in Clients, Ends(c),
           \A k \in Keys : k[1] # job[c].traj =>
               frames'[k] = frames[k] /\ Decode(frames', k) = Decode(frames, k),
           \A d \in Clients : d # c /\ job[d].traj = job[c].traj =>
               /\ ~ Maintains(job[d])
               /\ job[d].op = "cook" => \A k \in Keys : Decode(frames', k) = Decode(frames, k)
    PROVE  JobsFresh'
  <1> DEFINE fr2 == frames'
  <1>1. ASSUME NEW d \in Clients, d # c, job[d].traj # job[c].traj
        PROVE  FreshIn(fr2, job[d]) /\ SplitAt(fr2, job[d])
    <2>1. \A k \in Keys : k[1] = job[d].traj => fr2[k] = frames[k] /\ Decode(fr2, k) = Decode(frames, k)
      BY <1>1
    <2> HIDE DEF fr2
    <2>2. FreshIn(fr2, job[d])
      BY <2>1, FreshKept DEF JobsFresh
    <2>3. Maintains(job[d]) => \A i \in FrameIdx : fr2[<<job[d].traj, i>>] = frames[<<job[d].traj, i>>]
      <3>1. ASSUME Maintains(job[d]), NEW i \in FrameIdx
            PROVE  fr2[<<job[d].traj, i>>] = frames[<<job[d].traj, i>>]
        <4>1. <<job[d].traj, i>> \in Keys
          BY <3>1, MaintainsStored, KeyFacts
        <4> QED BY <2>1, <4>1
      <3> QED BY <3>1
    <2>4. SplitAt(frames, job[d])
      BY DEF JobsFresh
    <2>5. SplitAt(fr2, job[d])
      BY <2>3, <2>4 DEF SplitAt
    <2> QED BY <2>2, <2>5
  <1>2. ASSUME NEW d \in Clients, d # c, job[d].traj = job[c].traj
        PROVE  FreshIn(fr2, job[d]) /\ SplitAt(fr2, job[d])
    <2>1. ~ Maintains(job[d])
      BY <1>2
    <2>2. CASE job[d].op = "cook"
      <3>1. \A k \in Keys : Decode(fr2, k) = Decode(frames, k)
        BY <1>2, <2>2
      <3> HIDE DEF fr2
      <3> QED BY <2>1, <2>2, <3>1, FreshKept DEF JobsFresh, SplitAt
    <2>3. CASE job[d].op # "cook"
      BY <2>1, <2>3 DEF FreshIn, SplitAt, Maintains
    <2> QED BY <2>2, <2>3
  <1>3. \A d \in Clients : FreshIn(fr2, job'[d]) /\ SplitAt(fr2, job'[d])
    BY <1>1, <1>2, IdleFresh DEF Ends
  <1> QED BY <1>3 DEF JobsFresh

-----------------------------------------------------------------------------
(* The secondary tables.                                                   *)

PostsExactly(fb, hb) ==
    \A h \in Texts :
        IF \E k \in Keys : hb[k] = h THEN fb[h] # Nil /\ hb[fb[h]] = h ELSE fb[h] = Nil

KeysOf(hb, h) == {k \in Keys : hb[k] = h}

Posts(key, hb, h) == IF KeysOf(hb, h) # {} THEN key # Nil /\ hb[key] = h ELSE key = Nil

\* A cursor's first key posts a digest exactly.
LEMMA LowestPosts ==
    ASSUME NEW hb, NEW h, NEW S, S = KeysOf(hb, h)
    PROVE  Posts(LowestKey(S), hb, h)
  <1>0. S \subseteq Keys
    BY DEF KeysOf
  <1>1. CASE S = {}
    BY <1>0, <1>1, LowestKeyIsLeast DEF Posts
  <1>2. CASE S # {}
    <2>1. LowestKey(S) \in S
      BY <1>0, <1>2, LowestKeyIsLeast
    <2> QED BY <1>2, <2>1, NilAssumption DEF Posts, KeysOf
  <1> QED BY <1>1, <1>2

\* New digests are posted once, old ones keep their key.
LEMMA PutKeepsPostings ==
    ASSUME NEW hb \in [Keys -> Texts \cup {Nil}], NEW fb \in [Texts -> Keys \cup {Nil}],
           PostsExactly(fb, hb), NEW t \in Trajs, NEW lo \in Nat, NEW texts \in Seq(Texts),
           lo + Len(texts) <= MaxFrames, \A k \in KeyRange(t, lo, Len(texts)) : hb[k] = Nil
    PROVE  PostsExactly(PutPostings(fb, t, lo, texts), PutHashes(hb, t, lo, texts))
  <1> DEFINE R    == KeyRange(t, lo, Len(texts))
             S(h) == {k \in R : texts[k[2] - lo + 1] = h}
             hb2  == PutHashes(hb, t, lo, texts)
             fb2  == PutPostings(fb, t, lo, texts)
  <1>1. R \subseteq Keys
    BY KeyRangeType
  <1>2. \A k \in Keys : hb2[k] = IF k \in R THEN texts[k[2] - lo + 1] ELSE hb[k]
    BY DEF PutHashes
  <1>3. \A h \in Texts : fb2[h] = IF fb[h] # Nil THEN fb[h] ELSE LowestKey(S(h))
    BY DEF PutPostings
  <1>4. \A k \in R : hb[k] = Nil
    OBVIOUS
  <1>5. ASSUME NEW h \in Texts
        PROVE  \A k : k \in S(h) <=> k \in R /\ texts[k[2] - lo + 1] = h
    OBVIOUS
  <1> HIDE DEF R, S, hb2, fb2
  <1>6. ASSUME NEW h \in Texts
        PROVE  IF \E k \in Keys : hb2[k] = h THEN fb2[h] # Nil /\ hb2[fb2[h]] = h ELSE fb2[h] = Nil
    <2>0. h # Nil
      BY NilAssumption
    <2>1. CASE fb[h] # Nil
      <3>1. fb[h] \in Keys /\ hb[fb[h]] = h
        BY <2>1 DEF PostsExactly
      <3>2. hb2[fb[h]] = h
        BY <1>2, <1>4, <2>0, <3>1
      <3>3. fb2[h] = fb[h]
        BY <1>3, <2>1
      <3> QED BY <2>1, <3>1, <3>2, <3>3
    <2>2. CASE fb[h] = Nil
      <3>1. \A k \in Keys : hb[k] # h
        BY <2>2 DEF PostsExactly
      <3>2. \A k \in Keys : k \in S(h) <=> hb2[k] = h
        BY <1>2, <1>5, <3>1
      <3>3. S(h) \subseteq Keys
        BY <1>1, <1>5
      <3>4. fb2[h] = LowestKey(S(h))
        BY <1>3, <2>2
      <3>5. S(h) = KeysOf(hb2, h)
        BY <3>2, <3>3 DEF KeysOf
      <3>6. Posts(fb2[h], hb2, h)
        BY <3>4, <3>5, LowestPosts
      <3> QED BY <3>6 DEF Posts, KeysOf
    <2> QED BY <2>1, <2>2
  <1>7. PostsExactly(fb2, hb2)
    BY <1>6 DEF PostsExactly
  <1> QED BY <1>7 DEF fb2, hb2

\* Repointing what was posted under a dropped key posts every digest that is
\* left, and no other.
LEMMA RepointKeepsPostings ==
    ASSUME NEW hb \in [Keys -> Texts \cup {Nil}], NEW fb \in [Texts -> Keys \cup {Nil}],
           PostsExactly(fb, hb), NEW ks, NEW stale,
           \A h \in Texts : fb[h] # Nil /\ fb[h] \in ks => h \in stale
    PROVE  PostsExactly(Repointed(fb, stale, DropKeys(hb, ks)), DropKeys(hb, ks))
  <1> DEFINE hb1  == DropKeys(hb, ks)
             fb1  == Repointed(fb, stale, hb1)
             S(h) == {k \in Keys : hb1[k] = h}
  <1>1. \A k \in Keys : hb1[k] = IF k \in ks THEN Nil ELSE hb[k]
    BY DEF DropKeys
  <1> HIDE DEF hb1
  <1>2. \A h \in Texts : fb1[h] = IF h \in stale /\ fb[h] # Nil /\ hb1[fb[h]] = Nil
                                  THEN LowestKey(S(h)) ELSE fb[h]
    BY DEF Repointed
  <1>3. \A h \in Texts : \A k : k \in S(h) <=> k \in Keys /\ hb1[k] = h
    OBVIOUS
  <1> HIDE DEF fb1, S
  <1>4. ASSUME NEW h \in Texts
        PROVE  IF \E k \in Keys : hb1[k] = h THEN fb1[h] # Nil /\ hb1[fb1[h]] = h ELSE fb1[h] = Nil
    <2>0. h # Nil
      BY NilAssumption
    <2>1. CASE h \in stale /\ fb[h] # Nil /\ hb1[fb[h]] = Nil
      <3>1. fb1[h] = LowestKey(S(h))
        BY <1>2, <2>1
      <3>2. S(h) \subseteq Keys /\ \A k \in Keys : k \in S(h) <=> hb1[k] = h
        BY <1>3
      <3>3. S(h) = KeysOf(hb1, h)
        BY <3>2 DEF KeysOf
      <3>4. Posts(fb1[h], hb1, h)
        BY <3>1, <3>3, LowestPosts
      <3> QED BY <3>4 DEF Posts, KeysOf
    <2>2. CASE fb[h] = Nil
      <3>1. fb1[h] = Nil
        BY <1>2, <2>2
      <3>2. \A k \in Keys : hb[k] # h
        BY <2>2 DEF PostsExactly
      <3>3. \A k \in Keys : hb1[k] # h
        BY <1>1, <2>0, <3>2
      <3> QED BY <3>1, <3>3
    <2>3. CASE fb[h] # Nil /\ ~ (h \in stale /\ hb1[fb[h]] = Nil)
      <3>1. fb[h] \in Keys /\ hb[fb[h]] = h
        BY <2>3 DEF PostsExactly
      <3>2. fb[h] \notin ks
        BY <1>1, <2>3, <3>1
      <3>3. hb1[fb[h]] = h
        BY <1>1, <3>1, <3>2
      <3>4. fb1[h] = fb[h]
        BY <1>2, <2>3
      <3> QED BY <2>3, <3>1, <3>3, <3>4
    <2> QED BY <2>1, <2>2, <2>3
  <1>5. PostsExactly(fb1, hb1)
    BY <1>4 DEF PostsExactly
  <1> QED BY <1>5 DEF fb1, hb1

\* The four invariants of the tables.
TablesInv == EveryFrameDecodes /\ HashesMatchText /\ PostingsExact /\ CookedIsFresh

LEMMA AddsTables ==
    ASSUME CountInv, TablesInv, NEW t, NEW lo, NEW parsed, NEW texts, NEW values,
           Adds(t, lo, parsed, texts, values)
    PROVE  TablesInv'
  <1> DEFINE R == KeyRange(t, lo, Len(texts))
  <1>0. /\ t \in Trajs /\ lo \in Nat /\ texts \in Seq(Texts) /\ Len(texts) \in Nat
        /\ lo + Len(texts) <= MaxFrames
        /\ hash_by_frame' = PutHashes(hash_by_frame, t, lo, texts)
        /\ frame_by_hash' = PutPostings(frame_by_hash, t, lo, texts)
        /\ frames_soa' = frames_soa
    BY DEF Adds
  <1>1. /\ \A k \in Keys : Text(k)' = IF k \in R THEN texts[k[2] - lo + 1] ELSE Text(k)
        /\ \A k \in Keys : frames[k] # Nil => k \notin R
        /\ \A k \in Keys : k \notin R => frames'[k] = frames[k]
    BY AddsChanges DEF Changes, TablesInv
  <1>2. R \subseteq Keys /\ \A k \in R : texts[k[2] - lo + 1] \in Texts
    BY <1>0, KeyRangeType
  <1>3. \A k \in R : Text(k) = Nil
    BY <1>1, <1>2, NilDecodes DEF Text
  <1>4. \A k \in R : hash_by_frame[k] = Nil
    BY <1>2, <1>3 DEF TablesInv, HashesMatchText
  <1>5. HashesMatchText'
    <2>1. \A k \in Keys : hash_by_frame'[k] = IF k \in R THEN texts[k[2] - lo + 1] ELSE hash_by_frame[k]
      BY <1>0 DEF PutHashes
    <2> HIDE DEF R
    <2>2. \A k \in Keys : hash_by_frame'[k] = Text(k)'
      BY <1>1, <2>1 DEF TablesInv, HashesMatchText
    <2> QED BY <2>2 DEF HashesMatchText
  <1>6. PostingsExact'
    <2>1. PostsExactly(frame_by_hash, hash_by_frame)
      BY DEF TablesInv, PostingsExact, PostsExactly
    <2>2. hash_by_frame \in [Keys -> Texts \cup {Nil}] /\ frame_by_hash \in [Texts -> Keys \cup {Nil}]
      BY DEF CountInv, TypeOK
    <2>3. PostsExactly(PutPostings(frame_by_hash, t, lo, texts), PutHashes(hash_by_frame, t, lo, texts))
      BY <1>0, <1>4, <2>1, <2>2, PutKeepsPostings
    <2>4. PostsExactly(frame_by_hash', hash_by_frame')
      BY <1>0, <2>3
    <2> QED BY <2>4 DEF PostingsExact, PostsExactly
  <1> HIDE DEF R
  <1>7. EveryFrameDecodes'
    <2>1. \A k \in Keys : frames'[k] # Nil => Text(k)' # Nil
      BY <1>1, <1>2, NilAssumption DEF TablesInv, EveryFrameDecodes
    <2> QED BY <2>1 DEF EveryFrameDecodes
  <1>8. CookedIsFresh'
    <2>1. \A k \in Keys : frames_soa[k] # Nil => frames_soa[k] = Text(k)'
      BY <1>1, <1>3 DEF TablesInv, CookedIsFresh
    <2> QED BY <1>0, <2>1 DEF CookedIsFresh
  <1> QED BY <1>5, <1>6, <1>7, <1>8 DEF TablesInv

LEMMA ConvertsTables ==
    ASSUME CountInv, TablesInv, NEW c \in Clients, job[c].op = "set_units",
           FreshIn(frames, job[c]), SplitAt(frames, job[c]),
           NEW texts, NEW values, Converts(job[c].traj, job[c], texts, values)
    PROVE  TablesInv'
  <1> DEFINE j  == job[c]
             t  == j.traj
             n  == j.n
             R  == KeyRange(t, 0, n)
             hb == DropKeys(hash_by_frame, R)
             stale == StaleDigests(frame_by_hash, t, j.blobs)
             fb == Repointed(frame_by_hash, stale, hb)
  <1>0. /\ t \in Trajs /\ n \in Nat /\ texts \in Seq(Texts) /\ Len(texts) = n
        /\ j.blobs \in Seq(Texts) /\ Len(j.blobs) = n
        /\ n <= LiveIn(traj_meta, t)
        /\ hash_by_frame' = PutHashes(hb, t, 0, texts)
        /\ frame_by_hash' = PutPostings(fb, t, 0, texts)
        /\ frames_soa' = DropKeys(frames_soa, R)
    BY DEF Converts
  <1>m. n <= MaxFrames /\ 0 + n <= MaxFrames /\ 0 + n - 1 = n - 1 /\ 0 \in Nat
    <2>1. LiveIn(traj_meta, t) \in 0 .. MaxFrames /\ MaxFrames \in Nat
      BY <1>0, LiveInType, KeyFacts DEF CountInv, TypeOK
    <2> HIDE DEF n
    <2> QED BY <1>0, <2>1
  <1>1. /\ \A k \in Keys : Text(k)' = IF k \in R THEN texts[k[2] - 0 + 1] ELSE Text(k)
        /\ \A k \in Keys : frames'[k] = Nil <=> frames[k] = Nil
    <2>1. Changes(t, 0, texts) /\ \A k \in Keys : frames'[k] = Nil <=> frames[k] = Nil
      BY ConvertsChanges
    <2>2. Len(texts) = n
      BY <1>0
    <2> HIDE DEF t, n, j
    <2> QED BY <2>1, <2>2 DEF Changes
  <1>f. \A s \in 1 .. n : j.blobs[s] = Decode(frames, <<t, s - 1>>)
    BY <1>0 DEF FreshIn, Maintains
  <1>t. /\ hash_by_frame \in [Keys -> Texts \cup {Nil}] /\ frame_by_hash \in [Texts -> Keys \cup {Nil}]
        /\ frames_soa \in [Keys -> Texts \cup {Nil}]
    BY DEF CountInv, TypeOK
  <1> HIDE DEF t, n, j
  <1>2. /\ R \subseteq Keys /\ \A k \in R : texts[k[2] - 0 + 1] \in Texts
        /\ \A k \in R : k[1] = t /\ k[2] \in 0 .. n - 1 /\ k = <<t, k[2]>>
    <2>1. /\ R \subseteq Keys
          /\ \A k \in R : k[1] = t /\ k[2] \in 0 .. 0 + n - 1 /\ k[2] - 0 + 1 \in 1 .. n
      BY <1>0, <1>m, KeyRangeType
    <2> HIDE DEF R
    <2>2. \A k \in R : k = <<t, k[2]>>
      BY <2>1, KeyFacts
    <2> QED BY <1>0, <1>m, <2>1, <2>2
  <1>3. ASSUME NEW h \in Texts, frame_by_hash[h] # Nil, frame_by_hash[h] \in R
        PROVE  h \in stale
    <2> DEFINE k == frame_by_hash[h]
    <2>1. hash_by_frame[k] = h /\ k \in Keys
      BY <1>3, <1>t DEF TablesInv, PostingsExact
    <2>2. Text(k) = h
      BY <2>1 DEF TablesInv, HashesMatchText
    <2>3. k[2] \in 0 .. n - 1 /\ k = <<t, k[2]>> /\ k \in R
      BY <1>2, <1>3
    <2> HIDE DEF k, R
    <2>4. k[2] + 1 \in 1 .. n /\ (k[2] + 1) - 1 = k[2]
      BY <1>0, <2>3
    <2>5. j.blobs[k[2] + 1] = Decode(frames, <<t, (k[2] + 1) - 1>>)
      BY <1>f, <2>4
    <2>6. j.blobs[k[2] + 1] = h
      BY <2>2, <2>3, <2>4, <2>5 DEF Text
    <2>7. k \in KeyRange(t, 0, Len(j.blobs))
      BY <1>0, <2>3 DEF R
    <2> QED BY <2>6, <2>7 DEF StaleDigests, k
  <1>4. PostsExactly(fb, hb)
    <2>1. PostsExactly(frame_by_hash, hash_by_frame)
      BY DEF TablesInv, PostingsExact, PostsExactly
    <2> HIDE DEF R, stale
    <2> QED BY <1>3, <1>t, <2>1, RepointKeepsPostings
  <1>5. hb \in [Keys -> Texts \cup {Nil}] /\ fb \in [Texts -> Keys \cup {Nil}]
    BY <1>t, DropKeysType, RepointedType
  <1>6. \A k \in R : hb[k] = Nil
    BY <1>2 DEF DropKeys
  <1> HIDE DEF hb, fb
  <1>7. PostingsExact'
    <2>1. PostsExactly(PutPostings(fb, t, 0, texts), PutHashes(hb, t, 0, texts))
      BY <1>0, <1>m, <1>4, <1>5, <1>6, PutKeepsPostings
    <2>2. PostsExactly(frame_by_hash', hash_by_frame')
      BY <1>0, <2>1
    <2> QED BY <2>2 DEF PostingsExact, PostsExactly
  <1>8. HashesMatchText'
    <2>1. \A k \in Keys : hash_by_frame'[k] = IF k \in R THEN texts[k[2] - 0 + 1] ELSE hb[k]
      BY <1>0 DEF PutHashes
    <2>2. \A k \in Keys : k \notin R => hb[k] = hash_by_frame[k]
      BY DEF DropKeys, hb
    <2> HIDE DEF R
    <2>3. \A k \in Keys : hash_by_frame'[k] = Text(k)'
      BY <1>1, <2>1, <2>2 DEF TablesInv, HashesMatchText
    <2> QED BY <2>3 DEF HashesMatchText
  <1>9. CookedIsFresh'
    <2>1. \A k \in Keys : frames_soa'[k] = IF k \in R THEN Nil ELSE frames_soa[k]
      BY <1>0 DEF DropKeys
    <2> HIDE DEF R
    <2>2. \A k \in Keys : frames_soa'[k] # Nil => frames_soa'[k] = Text(k)'
      BY <1>1, <2>1 DEF TablesInv, CookedIsFresh
    <2> QED BY <2>2 DEF CookedIsFresh
  <1> HIDE DEF R
  <1>10. EveryFrameDecodes'
    <2>1. \A k \in Keys : frames'[k] # Nil => Text(k)' # Nil
      BY <1>1, <1>2, NilAssumption DEF TablesInv, EveryFrameDecodes
    <2> QED BY <2>1 DEF EveryFrameDecodes
  <1> QED BY <1>7, <1>8, <1>9, <1>10 DEF TablesInv

LEMMA RepacksTables ==
    ASSUME CountInv, TablesInv, NEW c \in Clients, job[c].op = "repack",
           FreshIn(frames, job[c]), SplitAt(frames, job[c]),
           NEW values, NEW part, Repacks(job[c].traj, job[c], values, part)
    PROVE  TablesInv'
  <1>1. /\ \A k \in Keys : Text(k)' = Text(k)
        /\ \A k \in Keys : frames'[k] # Nil => frames[k] # Nil
    BY RepacksChanges DEF TablesInv
  <1>2. UNCHANGED <<hash_by_frame, frame_by_hash, frames_soa>>
    BY DEF Repacks
  <1>3. EveryFrameDecodes'
    <2>1. \A k \in Keys : frames'[k] # Nil => Text(k)' # Nil
      BY <1>1 DEF TablesInv, EveryFrameDecodes
    <2> QED BY <2>1 DEF EveryFrameDecodes
  <1>4. HashesMatchText'
    <2>1. \A k \in Keys : hash_by_frame'[k] = Text(k)'
      BY <1>1, <1>2 DEF TablesInv, HashesMatchText
    <2> QED BY <2>1 DEF HashesMatchText
  <1>5. CookedIsFresh'
    <2>1. \A k \in Keys : frames_soa'[k] # Nil => frames_soa'[k] = Text(k)'
      BY <1>1, <1>2 DEF TablesInv, CookedIsFresh
    <2> QED BY <2>1 DEF CookedIsFresh
  <1>6. PostingsExact'
    BY <1>2 DEF TablesInv, PostingsExact
  <1> QED BY <1>3, <1>4, <1>5, <1>6 DEF TablesInv

LEMMA ReindexTables ==
    ASSUME CountInv, TablesInv, Reindex
    PROVE  TablesInv'
  <1>1. frames' = frames /\ frames_soa' = frames_soa
    BY DEF Reindex
  <1>2. \A k \in Keys : Text(k)' = Text(k)
    BY <1>1 DEF Text
  <1>3. EveryFrameDecodes' /\ CookedIsFresh'
    BY <1>1, <1>2 DEF TablesInv, EveryFrameDecodes, CookedIsFresh
  <1>4. HashesMatchText'
    <2>1. \A k \in Keys : hash_by_frame'[k] = Text(k)'
      BY <1>2 DEF Reindex
    <2> QED BY <2>1 DEF HashesMatchText
  <1>5. PostingsExact'
    <2>1. ASSUME NEW h \in Texts
          PROVE  Posts(frame_by_hash'[h], hash_by_frame', h)
      <3>1. {k \in Keys : Text(k) = h} = KeysOf(hash_by_frame', h)
        BY DEF Reindex, KeysOf
      <3>2. frame_by_hash'[h] = LowestKey({k \in Keys : Text(k) = h})
        BY DEF Reindex
      <3> QED BY <3>1, <3>2, LowestPosts
    <2> QED BY <2>1 DEF PostingsExact, Posts, KeysOf
  <1> QED BY <1>3, <1>4, <1>5 DEF TablesInv

LEMMA SameTables ==
    ASSUME TablesInv, UNCHANGED <<frames, hash_by_frame, frame_by_hash, frames_soa>>
    PROVE  TablesInv'
  <1>1. \A k \in Keys : Text(k)' = Text(k)
    BY DEF Text
  <1> QED BY <1>1 DEF TablesInv, EveryFrameDecodes, HashesMatchText, PostingsExact, CookedIsFresh

\* What is cooked is dropped, or comes from the text the frame still has.
LEMMA CookTables ==
    ASSUME CountInv, TablesInv,
           UNCHANGED <<frames, hash_by_frame, frame_by_hash>>,
           NEW key \in Keys, NEW text \in {Nil, Text(key)},
           frames_soa' = [frames_soa EXCEPT ![key] = text]
    PROVE  TablesInv'
  <1>1. \A k \in Keys : Text(k)' = Text(k)
    BY DEF Text
  <1>2. frames_soa \in [Keys -> Texts \cup {Nil}]
    BY DEF CountInv, TypeOK
  <1>3. CookedIsFresh'
    <2>1. \A k \in Keys : frames_soa'[k] # Nil => frames_soa'[k] = Text(k)'
      BY <1>1, <1>2 DEF TablesInv, CookedIsFresh
    <2> QED BY <2>1 DEF CookedIsFresh
  <1> QED BY <1>1, <1>3 DEF TablesInv, EveryFrameDecodes, HashesMatchText, PostingsExact

-----------------------------------------------------------------------------
(* The steps that only change a job.                                       *)

\* One more text or value read: the list goes on being what is stored.
LEMMA ReadOneMore ==
    ASSUME NEW S, NEW b \in Seq(S), NEW x \in S, NEW f,
           \A s \in 1 .. Len(b) : b[s] = f[s], x = f[Len(b) + 1]
    PROVE  \A s \in 1 .. Len(Append(b, x)) : Append(b, x)[s] = f[s]
  <1>1. Len(Append(b, x)) = Len(b) + 1 /\ Len(b) \in Nat
    OBVIOUS
  <1>2. ASSUME NEW s \in 1 .. Len(b) + 1
        PROVE  Append(b, x)[s] = f[s]
    <2>1. CASE s = Len(b) + 1
      BY <1>1, <2>1
    <2>2. CASE s # Len(b) + 1
      <3>1. s \in 1 .. Len(b)
        BY <1>1, <2>2
      <3> QED BY <3>1
    <2> QED BY <2>1, <2>2
  <1> QED BY <1>1, <1>2

TextsFrom(t, b) == \A s \in 1 .. Len(b) : b[s] = Decode(frames, <<t, s - 1>>)

ValuesFrom(t, b) == \A s \in 1 .. Len(b) : b[s] = frames[<<t, s - 1>>]

LEMMA TextReadFresh ==
    ASSUME NEW t, NEW b \in Seq(Texts), Decode(frames, <<t, Len(b)>>) \in Texts, TextsFrom(t, b)
    PROVE  TextsFrom(t, Append(b, Decode(frames, <<t, Len(b)>>)))
  <1> DEFINE f  == [s \in Nat |-> Decode(frames, <<t, s - 1>>)]
             x  == Decode(frames, <<t, Len(b)>>)
             b2 == Append(b, x)
  <1>0. Len(b) \in Nat /\ Len(b) + 1 \in Nat /\ (Len(b) + 1) - 1 = Len(b)
    OBVIOUS
  <1>1. \A s \in Nat : f[s] = Decode(frames, <<t, s - 1>>)
    OBVIOUS
  <1> HIDE DEF f, x
  <1>2. x = f[Len(b) + 1]
    BY <1>0, <1>1 DEF x
  <1>3. \A s \in 1 .. Len(b) : b[s] = f[s]
    <2>1. \A s \in 1 .. Len(b) : s \in Nat
      BY <1>0
    <2> QED BY <1>1, <2>1 DEF TextsFrom, ValuesFrom
  <1>4. \A s \in 1 .. Len(b2) : b2[s] = f[s]
    BY <1>2, <1>3, ReadOneMore DEF x
  <1>5. Len(b2) \in Nat
    BY ReadMore DEF x
  <1>6. \A s \in 1 .. Len(b2) : s \in Nat
    BY <1>5
  <1>7. \A s \in 1 .. Len(b2) : b2[s] = Decode(frames, <<t, s - 1>>)
    BY <1>1, <1>4, <1>6
  <1> QED BY <1>7 DEF x, TextsFrom

LEMMA ValueReadFresh ==
    ASSUME NEW t, NEW b \in Seq(Values), frames[<<t, Len(b)>>] \in Values, ValuesFrom(t, b)
    PROVE  ValuesFrom(t, Append(b, frames[<<t, Len(b)>>]))
  <1> DEFINE f  == [s \in Nat |-> frames[<<t, s - 1>>]]
             x  == frames[<<t, Len(b)>>]
             b2 == Append(b, x)
  <1>0. Len(b) \in Nat /\ Len(b) + 1 \in Nat /\ (Len(b) + 1) - 1 = Len(b)
    OBVIOUS
  <1>1. \A s \in Nat : f[s] = frames[<<t, s - 1>>]
    OBVIOUS
  <1> HIDE DEF f, x
  <1>2. x = f[Len(b) + 1]
    BY <1>0, <1>1 DEF x
  <1>3. \A s \in 1 .. Len(b) : b[s] = f[s]
    <2>1. \A s \in 1 .. Len(b) : s \in Nat
      BY <1>0
    <2> QED BY <1>1, <2>1 DEF TextsFrom, ValuesFrom
  <1>4. \A s \in 1 .. Len(b2) : b2[s] = f[s]
    BY <1>2, <1>3, ReadOneMore DEF x
  <1>5. Len(b2) \in Nat
    BY ReadMore DEF x
  <1>6. \A s \in 1 .. Len(b2) : s \in Nat
    BY <1>5
  <1>7. \A s \in 1 .. Len(b2) : b2[s] = frames[<<t, s - 1>>]
    BY <1>1, <1>4, <1>6
  <1> QED BY <1>7 DEF x, ValuesFrom

LEMMA OneJobFresh ==
    ASSUME JobsFresh, NEW c \in Clients, frames' = frames,
           \A d \in Clients : d # c => job'[d] = job[d],
           FreshIn(frames, job'[c]), SplitAt(frames, job'[c])
    PROVE  JobsFresh'
  <1>1. \A d \in Clients : FreshIn(frames, job'[d]) /\ SplitAt(frames, job'[d])
    BY DEF JobsFresh
  <1> QED BY <1>1 DEF JobsFresh

LEMMA ReadsContent ==
    ASSUME ContentInv, CountInv', NEW c \in Clients, ReadText(c) \/ ReadParsed(c) \/ ReadStored(c)
    PROVE  ContentInv'
  <1> DEFINE j == job[c]
             g == job'[c]
             t == j.traj
  <1>0. CountInv /\ FreshIn(frames, j) /\ SplitAt(frames, j)
    BY DEF ContentInv, JobsFresh
  <1>1. CASE ReadText(c)
    <2>1. /\ UNCHANGED tables /\ \A d \in Clients : d # c => job'[d] = job[d]
          /\ j.op \in {"set_units", "repack"} /\ g.op = j.op
          /\ g.traj = t /\ g.n = j.n /\ j.blobs \in Seq(Texts)
          /\ Decode(frames, <<t, Len(j.blobs)>>) \in Texts
          /\ g.blobs = Append(j.blobs, Decode(frames, <<t, Len(j.blobs)>>))
          /\ j.op = "set_units" => g.parsed = j.parsed
          /\ j.op = "repack" => g.olds = j.olds
      BY <1>0, <1>1, ReadTextGives DEF Text
    <2>2. \A s \in 1 .. Len(g.blobs) : g.blobs[s] = Decode(frames, <<t, s - 1>>)
      <3>1. \A s \in 1 .. Len(j.blobs) : j.blobs[s] = Decode(frames, <<t, s - 1>>)
        BY <1>0, <2>1 DEF FreshIn, Maintains
      <3>2. TextsFrom(t, j.blobs)
        BY <3>1 DEF TextsFrom
      <3>3. TextsFrom(t, Append(j.blobs, Decode(frames, <<t, Len(j.blobs)>>)))
        BY <2>1, <3>2, TextReadFresh
      <3>4. TextsFrom(t, g.blobs)
        BY <2>1, <3>3
      <3> QED BY <3>4 DEF TextsFrom
    <2>3. FreshIn(frames, g) /\ SplitAt(frames, g)
      BY <1>0, <2>1, <2>2 DEF FreshIn, SplitAt, Maintains
    <2> QED BY <2>1, <2>3, OneJobFresh, GoesOnAlone, SameTables DEF ContentInv, TablesInv, tables
  <1>2. CASE ReadParsed(c)
    <2>1. /\ UNCHANGED tables /\ \A d \in Clients : d # c => job'[d] = job[d]
          /\ j.op = "set_units" /\ g.op = j.op
          /\ g.traj = t /\ g.n = j.n /\ g.blobs = j.blobs /\ j.parsed \in Seq(Texts)
          /\ Decode(frames, <<t, Len(j.parsed)>>) \in Texts
          /\ g.parsed = Append(j.parsed, Decode(frames, <<t, Len(j.parsed)>>))
      BY <1>0, <1>2, ReadParsedGives DEF Text
    <2>2. \A s \in 1 .. Len(g.parsed) : g.parsed[s] = Decode(frames, <<t, s - 1>>)
      <3>1. \A s \in 1 .. Len(j.parsed) : j.parsed[s] = Decode(frames, <<t, s - 1>>)
        BY <1>0, <2>1 DEF FreshIn, Maintains
      <3>2. TextsFrom(t, j.parsed)
        BY <3>1 DEF TextsFrom
      <3>3. TextsFrom(t, Append(j.parsed, Decode(frames, <<t, Len(j.parsed)>>)))
        BY <2>1, <3>2, TextReadFresh
      <3>4. TextsFrom(t, g.parsed)
        BY <2>1, <3>3
      <3> QED BY <3>4 DEF TextsFrom
    <2>3. FreshIn(frames, g) /\ SplitAt(frames, g)
      BY <1>0, <2>1, <2>2 DEF FreshIn, SplitAt, Maintains
    <2> QED BY <2>1, <2>3, OneJobFresh, GoesOnAlone, SameTables DEF ContentInv, TablesInv, tables
  <1>3. CASE ReadStored(c)
    <2>1. /\ UNCHANGED tables /\ \A d \in Clients : d # c => job'[d] = job[d]
          /\ j.op = "repack" /\ g.op = j.op
          /\ g.traj = t /\ g.n = j.n /\ g.blobs = j.blobs /\ j.olds \in Seq(Values)
          /\ frames[<<t, Len(j.olds)>>] \in Values
          /\ g.olds = Append(j.olds, frames[<<t, Len(j.olds)>>])
      BY <1>0, <1>3, ReadStoredGives
    <2>2. \A s \in 1 .. Len(g.olds) : g.olds[s] = frames[<<t, s - 1>>]
      <3>1. \A s \in 1 .. Len(j.olds) : j.olds[s] = frames[<<t, s - 1>>]
        BY <1>0, <2>1 DEF FreshIn, Maintains
      <3>2. ValuesFrom(t, j.olds)
        BY <3>1 DEF ValuesFrom
      <3>3. ValuesFrom(t, Append(j.olds, frames[<<t, Len(j.olds)>>]))
        BY <2>1, <3>2, ValueReadFresh
      <3>4. ValuesFrom(t, g.olds)
        BY <2>1, <3>3
      <3> QED BY <3>4 DEF ValuesFrom
    <2>3. FreshIn(frames, g) /\ SplitAt(frames, g)
      BY <1>0, <2>1, <2>2 DEF FreshIn, SplitAt, Maintains
    <2> QED BY <2>1, <2>3, OneJobFresh, GoesOnAlone, SameTables DEF ContentInv, TablesInv, tables
  <1> QED BY <1>1, <1>2, <1>3

LEMMA StartContent ==
    ASSUME MaintainsAlone, ContentInv, CountInv', NEW c \in Clients, NEW j,
           MayStart(c, j.op, j.traj), Start(c, j), FreshIn(frames, j), SplitAt(frames, j)
    PROVE  ContentInv'
  <1>1. job' = [job EXCEPT ![c] = j] /\ UNCHANGED tables /\ CountInv
    BY DEF Start, ContentInv
  <1>2. job'[c] = j /\ \A d \in Clients : d # c => job'[d] = job[d]
    BY <1>1 DEF CountInv, TypeOK
  <1>3. Alone'
    BY <1>1, StartsAlone DEF ContentInv
  <1>4. JobsFresh'
    BY <1>1, <1>2, OneJobFresh DEF ContentInv, tables
  <1>5. TablesInv'
    BY <1>1, SameTables DEF ContentInv, TablesInv, tables
  <1> QED BY <1>3, <1>4, <1>5 DEF ContentInv, TablesInv

\* A maintenance lists all the frames there are: none lies beyond its keys.
LEMMA ListedSplit ==
    ASSUME CountInv, NEW t \in Trajs, StoredIdx(t) # {}, NEW j, j.traj = t,
           j.n = Cardinality(StoredIdx(t))
    PROVE  SplitAt(frames, j)
  <1>1. j.n = LiveIn(traj_meta, t)
    BY ListedCount
  <1>2. ASSUME NEW i \in FrameIdx, i >= j.n
        PROVE  frames[<<t, i>>] = Nil
    <2> DEFINE L == LiveIn(traj_meta, t)
    <2>0. L \in Nat /\ i \in Nat /\ i >= L
      BY <1>1, <1>2, StoredIsLive, KeyFacts
    <2> HIDE DEF L
    <2>1. ~ (i < LiveIn(traj_meta, t))
      BY <2>0 DEF L
    <2> QED BY <2>1, StoredIsLive
  <1> QED BY <1>2 DEF SplitAt

LEMMA StartsContent ==
    ASSUME MaintainsAlone, ContentInv, CountInv', NEW c \in Clients,
           \/ \E t \in Trajs, input \in Inputs : ExtendBegin(c, t, input)
           \/ \E t \in Trajs, units \in UnitSystems : SetUnitsBegin(c, t, units)
           \/ \E t \in Trajs : RepackBegin(c, t)
           \/ \E key \in Keys : CookBegin(c, key)
    PROVE  ContentInv'
  <1>0. CountInv
    BY DEF ContentInv
  <1>1. CASE \E t \in Trajs, input \in Inputs : ExtendBegin(c, t, input)
    <2> PICK t \in Trajs, input \in Inputs : ExtendBegin(c, t, input)
      BY <1>1
    <2> DEFINE j == [op |-> "extend", traj |-> t, start |-> LiveCount(t), input |-> input]
    <2>1. MayStart(c, "extend", t) /\ Start(c, j)
      BY DEF ExtendBegin
    <2>2. j.op = "extend" /\ j.traj = t
      OBVIOUS
    <2>3. FreshIn(frames, j) /\ SplitAt(frames, j)
      BY DEF FreshIn, SplitAt, Maintains
    <2> HIDE DEF j
    <2> QED BY <2>1, <2>2, <2>3, StartContent
  <1>2. CASE \E t \in Trajs, units \in UnitSystems : SetUnitsBegin(c, t, units)
    <2> PICK t \in Trajs, units \in UnitSystems : SetUnitsBegin(c, t, units)
      BY <1>2
    <2> DEFINE j == [op |-> "set_units", traj |-> t, n |-> Cardinality(StoredIdx(t)),
                     units |-> units, blobs |-> <<>>, parsed |-> <<>>]
    <2>1. MayStart(c, "set_units", t) /\ Start(c, j) /\ StoredIdx(t) # {}
      BY DEF SetUnitsBegin
    <2>2. /\ j.op = "set_units" /\ j.traj = t /\ j.n = Cardinality(StoredIdx(t))
          /\ j.blobs = <<>> /\ j.parsed = <<>>
      OBVIOUS
    <2> HIDE DEF j
    <2>3. FreshIn(frames, j)
      BY <2>2 DEF FreshIn
    <2>4. SplitAt(frames, j)
      BY <1>0, <2>1, <2>2, ListedSplit
    <2> QED BY <2>1, <2>2, <2>3, <2>4, StartContent
  <1>3. CASE \E t \in Trajs : RepackBegin(c, t)
    <2> PICK t \in Trajs : RepackBegin(c, t)
      BY <1>3
    <2> DEFINE j == [op |-> "repack", traj |-> t, n |-> Cardinality(StoredIdx(t)),
                     blobs |-> <<>>, olds |-> <<>>]
    <2>1. MayStart(c, "repack", t) /\ Start(c, j) /\ StoredIdx(t) # {}
      BY DEF RepackBegin
    <2>2. /\ j.op = "repack" /\ j.traj = t /\ j.n = Cardinality(StoredIdx(t))
          /\ j.blobs = <<>> /\ j.olds = <<>>
      OBVIOUS
    <2> HIDE DEF j
    <2>3. FreshIn(frames, j)
      BY <2>2 DEF FreshIn
    <2>4. SplitAt(frames, j)
      BY <1>0, <2>1, <2>2, ListedSplit
    <2> QED BY <2>1, <2>2, <2>3, <2>4, StartContent
  <1>4. CASE \E key \in Keys : CookBegin(c, key)
    <2> PICK key \in Keys : CookBegin(c, key)
      BY <1>4
    <2> DEFINE j == [op |-> "cook", traj |-> key[1], at |-> key[2], text |-> Text(key)]
    <2>1. MayStart(c, "cook", key[1]) /\ Start(c, j)
      BY DEF CookBegin
    <2>2. j.op = "cook" /\ j.traj = key[1] /\ j.at = key[2] /\ j.text = Text(key)
      OBVIOUS
    <2> HIDE DEF j
    <2>3. key = <<key[1], key[2]>>
      BY KeyFacts
    <2>4. FreshIn(frames, j) /\ SplitAt(frames, j)
      BY <2>2, <2>3 DEF FreshIn, SplitAt, Maintains, Text
    <2> QED BY <2>1, <2>2, <2>4, StartContent
  <1> QED BY <1>1, <1>2, <1>3, <1>4

-----------------------------------------------------------------------------
(* The steps that end a job, and the theorems.                             *)

LEMMA AddsContent ==
    ASSUME ContentInv, CountInv', NEW t, NEW lo, NEW parsed, NEW texts, NEW values,
           Adds(t, lo, parsed, texts, values),
           \A d \in Clients : job'[d] = job[d] \/ job'[d] = Idle
    PROVE  ContentInv'
  BY AddsFresh, AddsTables, EndsAlone DEF ContentInv, TablesInv

LEMMA SetUnitsContent ==
    ASSUME ContentInv, CountInv', NEW c \in Clients, NEW compress, SetUnitsCommit(c, compress)
    PROVE  ContentInv'
  <1>0. CountInv /\ Alone /\ JobsFresh /\ TablesInv /\ FreshIn(frames, job[c]) /\ SplitAt(frames, job[c])
    BY DEF ContentInv, TablesInv, JobsFresh
  <1>1. job[c].op = "set_units" /\ Ends(c)
    BY <1>0, SetUnitsConverts
  <1>2. PICK texts, values : Converts(job[c].traj, job[c], texts, values)
    BY <1>0, SetUnitsConverts
  <1>3. TablesInv'
    BY <1>0, <1>1, <1>2, ConvertsTables
  <1>4. Alone'
    BY <1>0, <1>1, EndsAlone DEF Ends
  <1>5. ASSUME NEW k \in Keys, k[1] # job[c].traj
        PROVE  frames'[k] = frames[k] /\ Decode(frames', k) = Decode(frames, k)
    <2>1. frames'[k] = frames[k] /\ Changes(job[c].traj, 0, texts)
      BY <1>0, <1>1, <1>2, <1>5, ConvertsChanges
    <2>2. k \notin KeyRange(job[c].traj, 0, Len(texts))
      BY <1>5 DEF KeyRange
    <2> QED BY <2>1, <2>2 DEF Changes, Text
  <1>6. ASSUME NEW d \in Clients, d # c, job[d].traj = job[c].traj
        PROVE  ~ Maintains(job[d]) /\ job[d].op # "cook"
    BY <1>0, <1>1, <1>6 DEF Alone, Clash, Maintains
  <1>7. JobsFresh'
    BY <1>0, <1>1, <1>5, <1>6, RewriteFresh
  <1> QED BY <1>3, <1>4, <1>7 DEF ContentInv, TablesInv

LEMMA RepackContent ==
    ASSUME ContentInv, CountInv', NEW c \in Clients, RepackCommit(c)
    PROVE  ContentInv'
  <1>0. CountInv /\ Alone /\ JobsFresh /\ TablesInv /\ FreshIn(frames, job[c]) /\ SplitAt(frames, job[c])
    BY DEF ContentInv, TablesInv, JobsFresh
  <1>1. job[c].op = "repack" /\ Ends(c)
    BY <1>0, RepackRepacks
  <1>2. PICK values, part : Repacks(job[c].traj, job[c], values, part)
    BY <1>0, RepackRepacks
  <1>3. TablesInv'
    BY <1>0, <1>1, <1>2, RepacksTables
  <1>4. Alone'
    BY <1>0, <1>1, EndsAlone DEF Ends
  <1>5. /\ \A k \in Keys : Decode(frames', k) = Decode(frames, k)
        /\ \A k \in Keys : k[1] # job[c].traj => frames'[k] = frames[k]
    BY <1>0, <1>1, <1>2, RepacksChanges DEF TablesInv, Text
  <1>6. \A d \in Clients : d # c /\ job[d].traj = job[c].traj => ~ Maintains(job[d])
    BY <1>0, <1>1 DEF Alone, Clash, Maintains
  <1>7. JobsFresh'
    BY <1>0, <1>1, <1>5, <1>6, RewriteFresh
  <1> QED BY <1>3, <1>4, <1>7 DEF ContentInv, TablesInv

\* A step that leaves the frames and ends a job, or changes no job.
LEMMA QuietContent ==
    ASSUME ContentInv, CountInv', TablesInv', frames' = frames,
           \A d \in Clients : job'[d] = job[d] \/ job'[d] = Idle
    PROVE  ContentInv'
  <1>1. JobsFresh'
    <2>1. \A d \in Clients : FreshIn(frames, job'[d]) /\ SplitAt(frames, job'[d])
      BY IdleFresh DEF ContentInv, JobsFresh
    <2> QED BY <2>1 DEF JobsFresh
  <1> QED BY <1>1, EndsAlone DEF ContentInv, TablesInv

LEMMA CookContent ==
    ASSUME ContentInv, CountInv', NEW c \in Clients, CookCommit(c)
    PROVE  ContentInv'
  <1> DEFINE key == <<job[c].traj, job[c].at>>
  <1>0. CountInv /\ TablesInv /\ FreshIn(frames, job[c])
    BY DEF ContentInv, TablesInv, JobsFresh
  <1>1. /\ job[c].op = "cook" /\ frames_soa' = [frames_soa EXCEPT ![key] = job[c].text]
        /\ job' = [job EXCEPT ![c] = Idle]
        /\ UNCHANGED <<frames, hash_by_frame, frame_by_hash>>
    BY DEF CookCommit, Finish
  <1>2. key \in Keys
    BY <1>0, <1>1, JobFields, KeyFacts DEF CountInv, TypeOK
  <1>3. job[c].text = Text(key)
    BY <1>0, <1>1 DEF FreshIn, Text
  <1> HIDE DEF key
  <1>4. TablesInv'
    BY <1>0, <1>1, <1>2, <1>3, CookTables
  <1>5. \A d \in Clients : job'[d] = job[d] \/ job'[d] = Idle
    BY <1>0, <1>1 DEF CountInv, TypeOK
  <1> QED BY <1>1, <1>4, <1>5, QuietContent

LEMMA EndsContent ==
    ASSUME ContentInv, CountInv', NEW c \in Clients, ExtendRace(c) \/ Abandon(c)
    PROVE  ContentInv'
  <1>1. job' = [job EXCEPT ![c] = Idle] /\ UNCHANGED tables
    BY DEF ExtendRace, Abandon, Finish
  <1>2. TablesInv'
    BY <1>1, SameTables DEF ContentInv, TablesInv, tables
  <1>3. \A d \in Clients : job'[d] = job[d] \/ job'[d] = Idle
    BY <1>1 DEF ContentInv, CountInv, TypeOK
  <1> QED BY <1>1, <1>2, <1>3, QuietContent DEF tables

LEMMA TransactionContent ==
    ASSUME ContentInv, CountInv', Transaction
    PROVE  ContentInv'
  <1>0. CountInv /\ TablesInv
    BY DEF ContentInv, TablesInv
  <1>1. CASE \E t \in Trajs, input \in Inputs, format \in {"exact", "decimal"},
                compress \in CompressModes : AppendTrajectory(t, input, format, compress)
    <2> PICK t \in Trajs, input \in Inputs, format \in {"exact", "decimal"},
             compress \in CompressModes : AppendTrajectory(t, input, format, compress)
      BY <1>1
    <2>1. PICK texts, values : Adds(t, 0, input, texts, values) /\ job' = job
      BY <1>0, AppendAdds
    <2> QED BY <2>1, AddsContent
  <1>2. CASE Reindex
    <2>1. frames' = frames /\ job' = job
      BY <1>2 DEF Reindex
    <2>2. TablesInv'
      BY <1>0, <1>2, ReindexTables
    <2> QED BY <2>1, <2>2, QuietContent
  <1>3. CASE \E key \in Keys : DeleteCooked(key)
    <2> PICK key \in Keys : DeleteCooked(key)
      BY <1>3
    <2>1. /\ frames_soa' = [frames_soa EXCEPT ![key] = Nil] /\ job' = job
          /\ UNCHANGED <<frames, hash_by_frame, frame_by_hash>>
      BY DEF DeleteCooked
    <2>2. TablesInv'
      BY <1>0, <2>1, CookTables
    <2> QED BY <2>1, <2>2, QuietContent
  <1> QED BY <1>1, <1>2, <1>3 DEF Transaction

LEMMA NextKeepsContent ==
    ASSUME MaintainsAlone, ContentInv, [Next]_vars
    PROVE  ContentInv'
  <1>0. CountInv /\ CountInv'
    BY NextKeepsCounts DEF ContentInv
  <1>1. CASE Transaction
    BY <1>0, <1>1, TransactionContent
  <1>2. CASE \E c \in Clients : Step(c)
    <2> PICK c \in Clients : Step(c)
      BY <1>2
    <2>1. CASE \E compress \in CompressModes : ExtendCommit(c, compress)
      <3>1. PICK texts, values : Adds(job[c].traj, job[c].start, job[c].input, texts, values)
        BY <1>0, <2>1, ExtendAdds
      <3>2. \A d \in Clients : job'[d] = job[d] \/ job'[d] = Idle
        BY <1>0, <2>1, ExtendAdds DEF Ends
      <3> QED BY <1>0, <3>1, <3>2, AddsContent
    <2>2. CASE \E compress \in CompressModes : SetUnitsCommit(c, compress)
      BY <1>0, <2>2, SetUnitsContent
    <2>3. CASE RepackCommit(c)
      BY <1>0, <2>3, RepackContent
    <2>4. CASE ReadText(c) \/ ReadParsed(c) \/ ReadStored(c)
      BY <1>0, <2>4, ReadsContent
    <2>5. CASE \/ \E t \in Trajs, input \in Inputs : ExtendBegin(c, t, input)
               \/ \E t \in Trajs, units \in UnitSystems : SetUnitsBegin(c, t, units)
               \/ \E t \in Trajs : RepackBegin(c, t)
               \/ \E key \in Keys : CookBegin(c, key)
      BY <1>0, <2>5, StartsContent
    <2>6. CASE CookCommit(c)
      BY <1>0, <2>6, CookContent
    <2>7. CASE ExtendRace(c) \/ Abandon(c)
      BY <1>0, <2>7, EndsContent
    <2> QED BY <2>1, <2>2, <2>3, <2>4, <2>5, <2>6, <2>7 DEF Step
  <1>3. CASE UNCHANGED vars
    <2>1. frames' = frames /\ job' = job /\ UNCHANGED <<hash_by_frame, frame_by_hash, frames_soa>>
      BY <1>3 DEF vars
    <2>2. TablesInv'
      BY <2>1, SameTables DEF ContentInv, TablesInv
    <2> QED BY <1>0, <2>1, <2>2, QuietContent
  <1> QED BY <1>1, <1>2, <1>3 DEF Next

LEMMA InitContent == Init => ContentInv
  <1> SUFFICES ASSUME Init
               PROVE  ContentInv
    OBVIOUS
  <1>1. /\ \A k \in Keys : frames[k] = Nil /\ hash_by_frame[k] = Nil /\ frames_soa[k] = Nil
        /\ \A h \in Texts : frame_by_hash[h] = Nil
        /\ \A c \in Clients : job[c] = Idle
    BY DEF Init
  <1>2. \A k \in Keys : Text(k) = Nil
    BY <1>1, NilDecodes DEF Text
  <1>3. TablesInv
    BY <1>1, <1>2, NilAssumption
       DEF TablesInv, EveryFrameDecodes, HashesMatchText, PostingsExact, CookedIsFresh
  <1>4. Alone
    BY <1>1 DEF Alone, Clash, Maintains, Idle
  <1>5. JobsFresh
    BY <1>1, IdleFresh DEF JobsFresh
  <1> QED BY <1>3, <1>4, <1>5, InitCounts DEF ContentInv, TablesInv

LEMMA ContentInvariant ==
    ASSUME MaintainsAlone
    PROVE  Spec => []ContentInv
  <1>1. ContentInv /\ [Next]_vars => ContentInv'
    BY NextKeepsContent
  <1> QED BY <1>1, InitContent, PTL DEF Spec

\* Every stored frame decodes, though maintenance rewrites groups while
\* extensions add frames: a group is never rewritten under a redirect from
\* outside the keys that were listed (corpus.rs repack_traj,
\* set_trajectory_units; frame_codec.rs pack_aligned).
THEOREM FramesDecode ==
    ASSUME MaintainsAlone
    PROVE  Spec => []EveryFrameDecodes
  <1>1. ContentInv => EveryFrameDecodes
    BY DEF ContentInv
  <1> QED BY <1>1, ContentInvariant, PTL

\* hash_by_frame follows every rewrite of the text (corpus.rs put_index_puts,
\* delete_index_puts).
THEOREM HashesFollow ==
    ASSUME MaintainsAlone
    PROVE  Spec => []HashesMatchText
  <1>1. ContentInv => HashesMatchText
    BY DEF ContentInv
  <1> QED BY <1>1, ContentInvariant, PTL

\* frame_by_hash posts a frame for each digest some frame has, and nothing
\* else, through conversions that move or drop postings (corpus.rs
\* repoint_frame_by_hash).
THEOREM PostingsStayExact ==
    ASSUME MaintainsAlone
    PROVE  Spec => []PostingsExact
  <1>1. ContentInv => PostingsExact
    BY DEF ContentInv
  <1> QED BY <1>1, ContentInvariant, PTL

\* Cooked numbers come from the text the frame has now (corpus.rs cook_frame,
\* get_positions).
THEOREM CookedStaysFresh ==
    ASSUME MaintainsAlone
    PROVE  Spec => []CookedIsFresh
  <1>1. ContentInv => CookedIsFresh
    BY DEF ContentInv
  <1> QED BY <1>1, ContentInvariant, PTL

-----------------------------------------------------------------------------
(* The index rows. A frame is indexed as it was given and stored as it was *)
(* printed: the rows are those of the stored texts when the two agree.     *)

PlainInputs == \A input \in Inputs : \A i \in DOMAIN input : input[i].fine = FALSE

GivenInputs == \A c \in Clients : job[c].op = "extend" => job[c].input \in Inputs

RowsInv == ContentInv /\ GivenInputs /\ RowsExact

InRow(r, f, k) == r \in Rows(f) \X {k}

LEMMA InRowKey ==
    ASSUME NEW r, NEW f, NEW k, InRow(r, f, k)
    PROVE  r[2] = k
  BY DEF InRow

LEMMA InRowsOf ==
    ASSUME NEW t, NEW lo, NEW parsed, NEW r
    PROVE  r \in RowsOf(t, lo, parsed) <=>
               \E k \in KeyRange(t, lo, Len(parsed)) : InRow(r, parsed[k[2] - lo + 1], k)
  BY DEF RowsOf, InRow

RowsExactly == \A r : r \in idx <=> \E k \in Keys : frames[k] # Nil /\ InRow(r, Text(k), k)

LEMMA RowsBothWays == RowsExact <=> RowsExactly
  <1> DEFINE U == UNION {Rows(Text(k)) \X {k} : k \in {j \in Keys : frames[j] # Nil}}
  <1>1. \A r : r \in U <=> \E k \in Keys : frames[k] # Nil /\ InRow(r, Text(k), k)
    BY DEF InRow
  <1>2. RowsExact <=> idx = U
    BY DEF RowsExact
  <1> HIDE DEF U
  <1>3. RowsExactly <=> \A r : r \in idx <=> r \in U
    BY <1>1 DEF RowsExactly
  <1>4. idx = U <=> \A r : r \in idx <=> r \in U
    OBVIOUS
  <1> QED BY <1>2, <1>3, <1>4

\* A put of texts under the keys R, where the rows there were of R are gone.
LEMMA RowsFollow ==
    ASSUME RowsExact, NEW R, R \subseteq Keys, NEW gone, NEW added, NEW new,
           \A k \in Keys : Text(k)' = IF k \in R THEN new[k] ELSE Text(k),
           \A k \in Keys : k \notin R => (frames'[k] # Nil <=> frames[k] # Nil),
           \A k \in R : frames'[k] # Nil,
           \A r : r \in added <=> \E k \in R : InRow(r, new[k], k),
           \A r \in gone : r[2] \in R,
           \A k \in R : frames[k] # Nil => \A r : InRow(r, Text(k), k) => r \in gone,
           idx' = (idx \ gone) \cup added
    PROVE  RowsExact'
  <1>0. \A r : r \in idx <=> \E k \in Keys : frames[k] # Nil /\ InRow(r, Text(k), k)
    BY RowsBothWays DEF RowsExactly
  <1>1. ASSUME NEW r, r \in idx'
        PROVE  \E k \in Keys : frames'[k] # Nil /\ InRow(r, Text(k)', k)
    <2>1. CASE r \in added
      <3>1. PICK k \in R : InRow(r, new[k], k)
        BY <2>1
      <3>2. k \in Keys /\ frames'[k] # Nil /\ Text(k)' = new[k]
        BY <3>1
      <3> QED BY <3>1, <3>2
    <2>2. CASE r \in idx /\ r \notin gone
      <3>1. PICK k \in Keys : frames[k] # Nil /\ InRow(r, Text(k), k)
        BY <1>0, <2>2
      <3>2. k \notin R
        BY <2>2, <3>1
      <3>3. frames'[k] # Nil /\ Text(k)' = Text(k)
        BY <3>1, <3>2
      <3> QED BY <3>1, <3>3
    <2> QED BY <1>1, <2>1, <2>2
  <1>2. ASSUME NEW r, NEW k \in Keys, frames'[k] # Nil, InRow(r, Text(k)', k)
        PROVE  r \in idx'
    <2>1. CASE k \in R
      <3>1. InRow(r, new[k], k)
        BY <1>2, <2>1
      <3> QED BY <2>1, <3>1
    <2>2. CASE k \notin R
      <3>1. frames[k] # Nil /\ InRow(r, Text(k), k)
        BY <1>2, <2>2
      <3>2. r \in idx
        BY <1>0, <3>1
      <3>3. r \notin gone
        BY <2>2, <3>1, InRowKey
      <3> QED BY <3>2, <3>3
    <2> QED BY <2>1, <2>2
  <1>3. RowsExactly'
    BY <1>1, <1>2 DEF RowsExactly
  <1> QED BY <1>3, RowsBothWays, PTL

LEMMA PlainPrints ==
    ASSUME NEW x \in Texts, x.fine = FALSE
    PROVE  Printed(x, "decimal") = x
  BY DEF Printed, Texts

LEMMA AddsRows ==
    ASSUME CountInv, EveryFrameDecodes, RowsExact, NEW t, NEW lo, NEW parsed, NEW texts, NEW values,
           Adds(t, lo, parsed, texts, values), \A i \in DOMAIN parsed : parsed[i].fine = FALSE
    PROVE  RowsExact'
  <1> DEFINE R   == KeyRange(t, lo, Len(texts))
             new == [k \in R |-> texts[k[2] - lo + 1]]
  <1>0. /\ t \in Trajs /\ lo \in Nat /\ parsed \in Seq(Texts) /\ texts \in Seq(Texts)
        /\ Len(texts) \in Nat /\ Len(texts) = Len(parsed) /\ lo + Len(texts) <= MaxFrames
        /\ \A i \in 1 .. Len(texts) : texts[i] \in {parsed[i], Printed(parsed[i], "decimal")}
        /\ ValuesHold(lo, texts, values)
        /\ idx' = idx \cup RowsOf(t, lo, parsed)
    BY DEF Adds
  <1>1. /\ \A k \in Keys : Text(k)' = IF k \in R THEN texts[k[2] - lo + 1] ELSE Text(k)
        /\ \A k \in Keys : frames[k] # Nil => k \notin R
        /\ \A k \in Keys : k \notin R => frames'[k] = frames[k]
        /\ \A i \in lo .. lo + Len(texts) - 1 : frames'[<<t, i>>] = values[i]
    BY AddsChanges DEF Changes
  <1>2. \A k \in R : /\ k \in Keys /\ k[1] = t /\ k[2] \in lo .. lo + Len(texts) - 1
                     /\ k[2] - lo + 1 \in 1 .. Len(texts)
    <2> DEFINE n == Len(texts)
    <2>1. n \in Nat /\ lo + n <= MaxFrames
      BY <1>0
    <2> HIDE DEF n
    <2>2. \A k \in KeyRange(t, lo, n) : /\ k \in Keys /\ k[1] = t /\ k[2] \in lo .. lo + n - 1
                                       /\ k[2] - lo + 1 \in 1 .. n
      BY <1>0, <2>1, KeyRangeType
    <2> QED BY <2>2 DEF n
  <1>3. \A i \in 1 .. Len(texts) : texts[i] = parsed[i]
    <2>1. ASSUME NEW i \in 1 .. Len(texts)
          PROVE  texts[i] = parsed[i]
      <3>1. parsed[i] \in Texts /\ parsed[i].fine = FALSE
        BY <1>0
      <3> QED BY <1>0, <3>1, PlainPrints
    <2> QED BY <2>1
  <1>4. \A k \in R : new[k] = parsed[k[2] - lo + 1] /\ new[k] = texts[k[2] - lo + 1]
    BY <1>2, <1>3
  <1> HIDE DEF new
  <1>5. \A k \in R : frames'[k] # Nil
    <2>1. ASSUME NEW k \in R
          PROVE  frames'[k] # Nil
      <3>1. k = <<t, k[2]>> /\ k[2] \in lo .. lo + Len(texts) - 1
        BY <1>2, KeyFacts
      <3>2. values[k[2]] \in Values
        BY <1>0, <3>1 DEF ValuesHold
      <3> QED BY <1>1, <3>1, <3>2, NilAssumption
    <2> QED BY <2>1
  <1>6. \A r : r \in RowsOf(t, lo, parsed) <=> \E k \in R : InRow(r, new[k], k)
    BY <1>0, <1>4, InRowsOf
  <1>7. R \subseteq Keys /\ idx' = (idx \ {}) \cup RowsOf(t, lo, parsed)
    BY <1>0, <1>2
  <1>8. \A k \in Keys : Text(k)' = IF k \in R THEN new[k] ELSE Text(k)
    BY <1>1, <1>4
  <1> HIDE DEF R
  <1>9. \A k \in R : frames[k] = Nil
    BY <1>1, <1>2
  <1> DEFINE gone  == {}
             added == RowsOf(t, lo, parsed)
  <1>10. /\ \A k \in Keys : k \notin R => (frames'[k] # Nil <=> frames[k] # Nil)
         /\ \A r \in gone : r[2] \in R
         /\ \A k \in R : frames[k] # Nil => \A r : InRow(r, Text(k), k) => r \in gone
         /\ idx' = (idx \ gone) \cup added
    BY <1>1, <1>7, <1>9
  <1> HIDE DEF gone, added
  <1> QED BY <1>5, <1>6, <1>7, <1>8, <1>10, RowsFollow DEF added

LEMMA ConvertsRows ==
    ASSUME CountInv, RowsExact, NEW c \in Clients, job[c].op = "set_units",
           FreshIn(frames, job[c]), SplitAt(frames, job[c]),
           NEW texts, NEW values, Converts(job[c].traj, job[c], texts, values)
    PROVE  RowsExact'
  <1> DEFINE j   == job[c]
             t   == j.traj
             n   == j.n
             R   == KeyRange(t, 0, n)
             new == [k \in R |-> texts[k[2] - 0 + 1]]
  <1>0. /\ t \in Trajs /\ n \in Nat /\ texts \in Seq(Texts) /\ Len(texts) = n
        /\ j.parsed \in Seq(Texts) /\ Len(j.parsed) = n /\ n <= LiveIn(traj_meta, t)
        /\ idx' = (idx \ RowsOf(t, 0, j.parsed)) \cup RowsOf(t, 0, texts)
    BY DEF Converts
  <1>m. n <= MaxFrames /\ 0 + n <= MaxFrames /\ 0 + n - 1 = n - 1 /\ 0 \in Nat
    <2>1. LiveIn(traj_meta, t) \in 0 .. MaxFrames /\ MaxFrames \in Nat
      BY <1>0, LiveInType, KeyFacts DEF CountInv, TypeOK
    <2> HIDE DEF n
    <2> QED BY <1>0, <2>1
  <1>1. /\ \A k \in Keys : Text(k)' = IF k \in R THEN texts[k[2] - 0 + 1] ELSE Text(k)
        /\ \A k \in Keys : frames'[k] = Nil <=> frames[k] = Nil
    <2>1. Changes(t, 0, texts) /\ \A k \in Keys : frames'[k] = Nil <=> frames[k] = Nil
      BY ConvertsChanges
    <2>2. Len(texts) = n
      BY <1>0
    <2> HIDE DEF t, n, j
    <2> QED BY <2>1, <2>2 DEF Changes
  <1>f. \A s \in 1 .. n : j.parsed[s] = Decode(frames, <<t, s - 1>>)
    BY <1>0 DEF FreshIn
  <1>s. \A s \in 1 .. n : frames[<<t, s - 1>>] # Nil
    BY MaintainsStored DEF Maintains
  <1> HIDE DEF t, n, j
  <1>2. R \subseteq Keys /\ \A k \in R : k[2] \in 0 .. n - 1 /\ k = <<t, k[2]>>
    <2>1. R \subseteq Keys /\ \A k \in R : k[1] = t /\ k[2] \in 0 .. 0 + n - 1
      BY <1>0, <1>m, KeyRangeType
    <2> HIDE DEF R
    <2>2. \A k \in R : k = <<t, k[2]>>
      BY <2>1, KeyFacts
    <2> QED BY <1>m, <2>1, <2>2
  <1>3. \A k \in R : new[k] = texts[k[2] - 0 + 1]
    OBVIOUS
  <1> HIDE DEF new
  <1>4. ASSUME NEW k \in R
        PROVE  frames[k] # Nil /\ j.parsed[k[2] - 0 + 1] = Text(k)
    <2>1. k[2] \in 0 .. n - 1 /\ k = <<t, k[2]>>
      BY <1>2
    <2> HIDE DEF R
    <2> DEFINE i == k[2]
    <2>a. n \in Nat /\ i \in 0 .. n - 1
      BY <1>0, <2>1
    <2> HIDE DEF i
    <2>b. i + 1 \in 1 .. n /\ (i + 1) - 1 = i /\ i - 0 + 1 = i + 1
      BY <2>a
    <2>2. k[2] + 1 \in 1 .. n /\ (k[2] + 1) - 1 = k[2] /\ k[2] - 0 + 1 = k[2] + 1
      BY <2>b DEF i
    <2>3. j.parsed[k[2] + 1] = Decode(frames, <<t, (k[2] + 1) - 1>>)
      BY <1>f, <2>2
    <2>4. frames[<<t, (k[2] + 1) - 1>>] # Nil
      BY <1>s, <2>2
    <2> QED BY <2>1, <2>2, <2>3, <2>4 DEF Text
  <1>5. \A k \in R : frames'[k] # Nil
    BY <1>1, <1>2, <1>4
  <1>6. \A r : r \in RowsOf(t, 0, texts) <=> \E k \in R : InRow(r, new[k], k)
    BY <1>0, <1>3, InRowsOf
  <1>7. \A r : r \in RowsOf(t, 0, j.parsed) <=> \E k \in R : InRow(r, j.parsed[k[2] - 0 + 1], k)
    BY <1>0, InRowsOf
  <1> HIDE DEF R
  <1>8. \A r \in RowsOf(t, 0, j.parsed) : r[2] \in R
    BY <1>7, InRowKey
  <1>9. \A k \in R : frames[k] # Nil => \A r : InRow(r, Text(k), k) => r \in RowsOf(t, 0, j.parsed)
    BY <1>4, <1>7
  <1>10. \A k \in Keys : Text(k)' = IF k \in R THEN new[k] ELSE Text(k)
    BY <1>1, <1>3
  <1>11. \A k \in Keys : k \notin R => (frames'[k] # Nil <=> frames[k] # Nil)
    BY <1>1
  <1> DEFINE gone  == RowsOf(t, 0, j.parsed)
             added == RowsOf(t, 0, texts)
  <1>12. idx' = (idx \ gone) \cup added
    BY <1>0
  <1> HIDE DEF gone, added
  <1> QED BY <1>2, <1>5, <1>6, <1>8, <1>9, <1>10, <1>11, <1>12, RowsFollow DEF gone, added

LEMMA SameRows ==
    ASSUME RowsExact, idx' = idx, \A k \in Keys : frames'[k] # Nil <=> frames[k] # Nil,
           \A k \in Keys : Text(k)' = Text(k)
    PROVE  RowsExact'
  BY DEF RowsExact

LEMMA InputsStay ==
    ASSUME CountInv, GivenInputs, [Next]_vars
    PROVE  GivenInputs'
  <1>1. ASSUME \A d \in Clients : job'[d] = job[d] \/ job'[d] = Idle
        PROVE  GivenInputs'
    <2>1. Idle.op # "extend"
      BY DEF Idle
    <2> QED BY <1>1, <2>1 DEF GivenInputs
  <1>2. ASSUME NEW c \in Clients, NEW j, job' = [job EXCEPT ![c] = j],
               j.op = "extend" => j.input \in Inputs
        PROVE  GivenInputs'
    <2>1. job'[c] = j /\ \A d \in Clients : d # c => job'[d] = job[d]
      BY <1>2 DEF CountInv, TypeOK
    <2> QED BY <1>2, <2>1 DEF GivenInputs
  <1>3. CASE Transaction \/ UNCHANGED vars
    <2>1. job' = job
      BY <1>3 DEF Transaction, AppendTrajectory, Reindex, DeleteCooked, vars
    <2> QED BY <1>1, <2>1
  <1>4. CASE \E c \in Clients : Step(c)
    <2> PICK c \in Clients : Step(c)
      BY <1>4
    <2>1. CASE \/ \E compress \in CompressModes : ExtendCommit(c, compress)
               \/ \E compress \in CompressModes : SetUnitsCommit(c, compress)
               \/ RepackCommit(c) \/ CookCommit(c) \/ ExtendRace(c) \/ Abandon(c)
      <3>1. job' = [job EXCEPT ![c] = Idle]
        BY <2>1 DEF ExtendCommit, SetUnitsCommit, RepackCommit, CookCommit, ExtendRace, Abandon, Finish
      <3>2. \A d \in Clients : job'[d] = job[d] \/ job'[d] = Idle
        BY <3>1 DEF CountInv, TypeOK
      <3> QED BY <1>1, <3>2
    <2>2. CASE ReadText(c) \/ ReadParsed(c) \/ ReadStored(c)
      <3>1. job'[c].op = job[c].op /\ job[c].op # "extend" /\ \A d \in Clients : d # c => job'[d] = job[d]
        BY <2>2, ReadTextGives, ReadParsedGives, ReadStoredGives
      <3> QED BY <3>1 DEF GivenInputs
    <2>3. CASE \E t \in Trajs, input \in Inputs : ExtendBegin(c, t, input)
      <3> PICK t \in Trajs, input \in Inputs : ExtendBegin(c, t, input)
        BY <2>3
      <3> DEFINE j == [op |-> "extend", traj |-> t, start |-> LiveCount(t), input |-> input]
      <3>1. job' = [job EXCEPT ![c] = j] /\ j.input \in Inputs
        BY DEF ExtendBegin, Start
      <3> HIDE DEF j
      <3> QED BY <1>2, <3>1
    <2>4. CASE \E t \in Trajs, units \in UnitSystems : SetUnitsBegin(c, t, units)
      <3> PICK t \in Trajs, units \in UnitSystems : SetUnitsBegin(c, t, units)
        BY <2>4
      <3> DEFINE j == [op |-> "set_units", traj |-> t, n |-> Cardinality(StoredIdx(t)),
                       units |-> units, blobs |-> <<>>, parsed |-> <<>>]
      <3>1. job' = [job EXCEPT ![c] = j] /\ j.op # "extend"
        BY DEF SetUnitsBegin, Start
      <3> HIDE DEF j
      <3> QED BY <1>2, <3>1
    <2>5. CASE \E t \in Trajs : RepackBegin(c, t)
      <3> PICK t \in Trajs : RepackBegin(c, t)
        BY <2>5
      <3> DEFINE j == [op |-> "repack", traj |-> t, n |-> Cardinality(StoredIdx(t)),
                       blobs |-> <<>>, olds |-> <<>>]
      <3>1. job' = [job EXCEPT ![c] = j] /\ j.op # "extend"
        BY DEF RepackBegin, Start
      <3> HIDE DEF j
      <3> QED BY <1>2, <3>1
    <2>6. CASE \E key \in Keys : CookBegin(c, key)
      <3> PICK key \in Keys : CookBegin(c, key)
        BY <2>6
      <3> DEFINE j == [op |-> "cook", traj |-> key[1], at |-> key[2], text |-> Text(key)]
      <3>1. job' = [job EXCEPT ![c] = j] /\ j.op # "extend"
        BY DEF CookBegin, Start
      <3> HIDE DEF j
      <3> QED BY <1>2, <3>1
    <2> QED BY <2>1, <2>2, <2>3, <2>4, <2>5, <2>6 DEF Step
  <1> QED BY <1>3, <1>4 DEF Next

LEMMA NextKeepsRows ==
    ASSUME MaintainsAlone, PlainInputs, RowsInv, [Next]_vars
    PROVE  RowsInv'
  <1>0. /\ CountInv /\ RowsExact /\ EveryFrameDecodes /\ ContentInv /\ GivenInputs
        /\ \A c \in Clients : FreshIn(frames, job[c]) /\ SplitAt(frames, job[c])
    BY DEF RowsInv, ContentInv, JobsFresh
  <1>1. ContentInv' /\ GivenInputs'
    BY <1>0, NextKeepsContent, InputsStay
  <1> SUFFICES RowsExact'
    BY <1>1 DEF RowsInv
  <1>2. ASSUME frames' = frames, idx' = idx
        PROVE  RowsExact'
    <2>1. \A k \in Keys : Text(k)' = Text(k)
      BY <1>2 DEF Text
    <2> QED BY <1>0, <1>2, <2>1, SameRows
  <1>3. CASE Transaction
    <2>1. CASE \E t \in Trajs, input \in Inputs, format \in {"exact", "decimal"},
                  compress \in CompressModes : AppendTrajectory(t, input, format, compress)
      <3> PICK t \in Trajs, input \in Inputs, format \in {"exact", "decimal"},
               compress \in CompressModes : AppendTrajectory(t, input, format, compress)
        BY <2>1
      <3>1. PICK texts, values : Adds(t, 0, input, texts, values) /\ job' = job
        BY <1>0, AppendAdds
      <3>2. \A i \in DOMAIN input : input[i].fine = FALSE
        BY DEF PlainInputs
      <3> QED BY <1>0, <3>1, <3>2, AddsRows
    <2>2. CASE Reindex
      <3>1. frames' = frames /\ idx' = UNION {Rows(Text(k)) \X {k} : k \in {j \in Keys : frames[j] # Nil}}
        BY <2>2 DEF Reindex
      <3>2. \A k \in Keys : Text(k)' = Text(k)
        BY <3>1 DEF Text
      <3> QED BY <3>1, <3>2 DEF RowsExact
    <2>3. CASE \E key \in Keys : DeleteCooked(key)
      BY <1>2, <2>3 DEF DeleteCooked
    <2> QED BY <1>3, <2>1, <2>2, <2>3 DEF Transaction
  <1>4. CASE \E c \in Clients : Step(c)
    <2> PICK c \in Clients : Step(c)
      BY <1>4
    <2>1. CASE \E compress \in CompressModes : ExtendCommit(c, compress)
      <3>1. PICK texts, values : Adds(job[c].traj, job[c].start, job[c].input, texts, values)
        BY <1>0, <2>1, ExtendAdds
      <3>2. job[c].input \in Inputs
        BY <1>0, <2>1 DEF GivenInputs, ExtendCommit
      <3>3. \A i \in DOMAIN job[c].input : job[c].input[i].fine = FALSE
        BY <3>2 DEF PlainInputs
      <3> QED BY <1>0, <3>1, <3>3, AddsRows
    <2>2. CASE \E compress \in CompressModes : SetUnitsCommit(c, compress)
      <3>1. PICK texts, values : Converts(job[c].traj, job[c], texts, values)
        BY <1>0, <2>2, SetUnitsConverts
      <3>2. job[c].op = "set_units"
        BY <2>2 DEF SetUnitsCommit
      <3> QED BY <1>0, <3>1, <3>2, ConvertsRows
    <2>3. CASE RepackCommit(c)
      <3>1. PICK values, part : Repacks(job[c].traj, job[c], values, part)
        BY <1>0, <2>3, RepackRepacks
      <3>2. job[c].op = "repack"
        BY <2>3 DEF RepackCommit
      <3>3. /\ \A k \in Keys : Text(k)' = Text(k)
            /\ \A k \in Keys : frames'[k] # Nil => frames[k] # Nil
        BY <1>0, <3>1, <3>2, RepacksChanges
      <3>4. \A k \in Keys : frames[k] # Nil => frames'[k] # Nil
        <4>1. ASSUME NEW k \in Keys, frames[k] # Nil
              PROVE  frames'[k] # Nil
          <5>1. Decode(frames', k) = Text(k) /\ Text(k) # Nil
            BY <1>0, <3>3, <4>1 DEF EveryFrameDecodes, Text
          <5> QED BY <5>1, NilDecodes
        <4> QED BY <4>1
      <3>5. idx' = idx
        BY <2>3 DEF RepackCommit
      <3> QED BY <1>0, <3>3, <3>4, <3>5, SameRows
    <2>4. CASE ReadText(c) \/ ReadParsed(c) \/ ReadStored(c)
      <3>1. UNCHANGED tables
        BY <2>4 DEF ReadText, ReadParsed, ReadStored, Start
      <3> QED BY <1>2, <3>1 DEF tables
    <2>5. CASE \/ \E t \in Trajs, input \in Inputs : ExtendBegin(c, t, input)
               \/ \E t \in Trajs, units \in UnitSystems : SetUnitsBegin(c, t, units)
               \/ \E t \in Trajs : RepackBegin(c, t)
               \/ \E key \in Keys : CookBegin(c, key)
               \/ ExtendRace(c) \/ Abandon(c)
      <3>1. UNCHANGED tables
        BY <2>5 DEF ExtendBegin, SetUnitsBegin, RepackBegin, CookBegin, ExtendRace, Abandon, Start
      <3> QED BY <1>2, <3>1 DEF tables
    <2>6. CASE CookCommit(c)
      BY <1>2, <2>6 DEF CookCommit
    <2> QED BY <2>1, <2>2, <2>3, <2>4, <2>5, <2>6 DEF Step
  <1>5. CASE UNCHANGED vars
    BY <1>2, <1>5 DEF vars
  <1> QED BY <1>3, <1>4, <1>5 DEF Next

LEMMA InitRows == Init => RowsInv
  <1> SUFFICES ASSUME Init
               PROVE  RowsInv
    OBVIOUS
  <1>1. RowsExact
    <2>1. {j \in Keys : frames[j] # Nil} = {}
      BY DEF Init
    <2> QED BY <2>1 DEF RowsExact, Init
  <1>2. GivenInputs
    BY DEF GivenInputs, Init, Idle
  <1> QED BY <1>1, <1>2, InitContent DEF RowsInv

\* The idx_* tables hold the rows of the stored frames and no others, through
\* extensions, conversions and migrations (corpus.rs put_index_puts,
\* delete_index_puts), when the inputs carry no digits the writer drops.
THEOREM RowsFollowFrames ==
    ASSUME MaintainsAlone, PlainInputs
    PROVE  Spec => []RowsExact
  <1>1. RowsInv /\ [Next]_vars => RowsInv'
    BY NextKeepsRows
  <1>2. RowsInv => RowsExact
    BY DEF RowsInv
  <1> QED BY <1>1, <1>2, InitRows, PTL DEF Spec

-----------------------------------------------------------------------------
(* The abstract store: seen through the decoder, every step claims,        *)
(* extends or converts one trajectory, or changes nothing.                 *)

\* A claimed trajectory is the sequence of the texts its frames decode to.
LEMMA ContentIs ==
    ASSUME CountInv, EveryFrameDecodes, NEW t \in Trajs
    PROVE  /\ traj_meta[t] = Nil => Content[t] = Nil
           /\ traj_meta[t] # Nil =>
                 /\ traj_meta[t] \in Nat /\ traj_meta[t] <= MaxFrames
                 /\ Content[t] \in Seq(Texts) /\ Content[t] # Nil
                 /\ Len(Content[t]) = traj_meta[t]
                 /\ Content[t] = [i \in 1 .. traj_meta[t] |-> Text(<<t, i - 1>>)]
                 /\ \A i \in 1 .. traj_meta[t] :
                       /\ <<t, i - 1>> \in Keys
                       /\ Content[t][i] = Text(<<t, i - 1>>)
  <1>1. traj_meta[t] = Nil => Content[t] = Nil
    BY DEF Content, Text
  <1>2. ASSUME traj_meta[t] # Nil
        PROVE  /\ traj_meta[t] \in Nat /\ traj_meta[t] <= MaxFrames
               /\ Content[t] \in Seq(Texts) /\ Content[t] # Nil
               /\ Len(Content[t]) = traj_meta[t]
               /\ Content[t] = [i \in 1 .. traj_meta[t] |-> Text(<<t, i - 1>>)]
               /\ \A i \in 1 .. traj_meta[t] :
                     /\ <<t, i - 1>> \in Keys
                     /\ Content[t][i] = Text(<<t, i - 1>>)
    <2> DEFINE n == traj_meta[t]
               C == Content[t]
    <2>1. n \in Nat /\ n <= MaxFrames
      <3>1. n \in 0 .. MaxFrames
        BY <1>2 DEF CountInv, TypeOK
      <3> QED BY <3>1, KeyFacts
    <2>2. LiveIn(traj_meta, t) = n
      BY <1>2 DEF LiveIn
    <2>3. C = [i \in 1 .. n |-> Text(<<t, i - 1>>)]
      BY <1>2 DEF Content, Text
    <2> HIDE DEF n, C
    <2>4. ASSUME NEW i \in 1 .. n
          PROVE  <<t, i - 1>> \in Keys /\ Text(<<t, i - 1>>) \in Texts
      <3>1. i - 1 \in FrameIdx /\ i - 1 < n
        BY <2>1, KeyFacts DEF FrameIdx
      <3>2. <<t, i - 1>> \in Keys
        BY <3>1, KeyFacts
      <3>3. frames[<<t, i - 1>>] # Nil
        BY <2>2, <3>1, StoredIsLive
      <3>4. Text(<<t, i - 1>>) # Nil
        BY <3>2, <3>3 DEF EveryFrameDecodes
      <3>5. Text(<<t, i - 1>>) \in Texts \cup {Nil}
        BY <3>2, DecodeType DEF CountInv, TypeOK, Text
      <3> QED BY <3>2, <3>4, <3>5
    <2>5. C \in Seq(Texts) /\ Len(C) = n /\ \A i \in 1 .. n : C[i] = Text(<<t, i - 1>>)
      BY <2>1, <2>3, <2>4
    <2>6. C # Nil
      BY <2>5, NilAssumption
    <2> QED BY <2>1, <2>3, <2>4, <2>5, <2>6 DEF n, C
  <1> QED BY <1>1, <1>2

ContentTyped ==
    \A t \in Trajs : traj_meta[t] # Nil =>
        /\ traj_meta[t] \in Nat
        /\ Content[t] \in Seq(Texts) /\ Content[t] # Nil
        /\ Len(Content[t]) = traj_meta[t]
        /\ \A i \in 1 .. traj_meta[t] :
              /\ <<t, i - 1>> \in Keys
              /\ Content[t][i] = Decode(frames, <<t, i - 1>>)

LEMMA ContentHasType == CountInv /\ EveryFrameDecodes => ContentTyped
  BY ContentIs DEF ContentTyped, Text

\* The same of the next state.
LEMMA NewContentIs ==
    ASSUME CountInv', EveryFrameDecodes', NEW t \in Trajs, traj_meta'[t] # Nil
    PROVE  /\ traj_meta'[t] \in Nat
           /\ Content'[t] \in Seq(Texts) /\ Content'[t] # Nil
           /\ Len(Content'[t]) = traj_meta'[t]
           /\ \A i \in 1 .. traj_meta'[t] :
                 /\ <<t, i - 1>> \in Keys
                 /\ Content'[t][i] = Decode(frames', <<t, i - 1>>)
  <1>1. CountInv' /\ EveryFrameDecodes' => ContentTyped'
    BY ContentHasType, PTL
  <1> QED BY <1>1 DEF ContentTyped

\* What neither counts nor decodes anew has the same content.
LEMMA SameContent ==
    ASSUME CountInv, EveryFrameDecodes, NEW t \in Trajs,
           traj_meta'[t] = traj_meta[t],
           \A k \in Keys : k[1] = t => Text(k)' = Text(k)
    PROVE  Content'[t] = Content[t]
  <1>1. CASE traj_meta[t] = Nil
    BY <1>1 DEF Content, Text
  <1>2. CASE traj_meta[t] # Nil
    <2>1. \A i \in 1 .. traj_meta[t] : <<t, i - 1>> \in Keys
      BY <1>2, ContentIs
    <2>2. \A i \in 1 .. traj_meta[t] :
             Decode(frames', <<t, i - 1>>) = Decode(frames, <<t, i - 1>>)
      <3>1. \A k \in Keys : k[1] = t => Decode(frames', k) = Decode(frames, k)
        BY DEF Text
      <3> QED BY <2>1, <3>1
    <2>3. /\ Content'[t] = [i \in 1 .. traj_meta[t] |-> Decode(frames', <<t, i - 1>>)]
          /\ Content[t] = [i \in 1 .. traj_meta[t] |-> Decode(frames, <<t, i - 1>>)]
      BY <1>2 DEF Content, Text
    <2> QED BY <2>2, <2>3
  <1> QED BY <1>1, <1>2

\* Two contents that differ in one trajectory at most.
LEMMA ContentExcept ==
    ASSUME NEW t \in Trajs, NEW texts, Content'[t] = texts,
           \A s \in Trajs : s # t => Content'[s] = Content[s]
    PROVE  Content' = [Content EXCEPT ![t] = texts]
  <1>1. Content = [s \in Trajs |-> Content[s]] /\ Content' = [s \in Trajs |-> Content'[s]]
    BY DEF Content, Text
  <1> QED BY <1>1

\* A sequence that starts with another is that one with the rest added.
LEMMA RestAdded ==
    ASSUME NEW S, NEW a \in Seq(S), NEW b \in Seq(S), Len(a) <= Len(b),
           \A i \in 1 .. Len(a) : b[i] = a[i]
    PROVE  b = a \o SubSeq(b, Len(a) + 1, Len(b))
  <1> DEFINE n == Len(a)
             m == Len(b)
             r == SubSeq(b, n + 1, m)
  <1>1. n \in Nat /\ m \in Nat /\ n <= m
    OBVIOUS
  <1>2. \A i \in n + 1 .. m : b[i] \in S
    OBVIOUS
  <1>3. /\ r \in Seq(S)
        /\ Len(r) = IF n + 1 <= m THEN m - (n + 1) + 1 ELSE 0
        /\ \A i \in 1 .. m - (n + 1) + 1 : r[i] = b[(n + 1) + i - 1]
    BY <1>1, <1>2, SubSeqProperties
  <1> HIDE DEF r
  <1>4. /\ a \o r \in Seq(S) /\ Len(a \o r) = n + Len(r)
        /\ \A i \in 1 .. n + Len(r) : (a \o r)[i] = IF i <= n THEN a[i] ELSE r[i - n]
    BY <1>3, ConcatProperties
  <1>5. Len(r) = m - n
    BY <1>1, <1>3
  <1>6. \A i \in 1 .. m : (a \o r)[i] = b[i]
    <2> SUFFICES ASSUME NEW i \in 1 .. m
                 PROVE  (a \o r)[i] = b[i]
      OBVIOUS
    <2>1. CASE i <= n
      BY <1>1, <1>4, <1>5, <2>1
    <2>2. CASE i > n
      <3>1. i - n \in 1 .. m - (n + 1) + 1 /\ (n + 1) + (i - n) - 1 = i
        BY <1>1, <2>2
      <3>2. r[i - n] = b[i]
        BY <1>3, <3>1
      <3>3. (a \o r)[i] = r[i - n]
        BY <1>1, <1>4, <1>5, <2>2
      <3> QED BY <3>2, <3>3
    <2>3. i \in Nat /\ (i <= n \/ i > n)
      BY <1>1
    <2> QED BY <2>1, <2>2, <2>3
  <1>7. Len(a \o r) = m
    BY <1>1, <1>4, <1>5
  <1> QED BY <1>4, <1>6, <1>7, SeqEqual DEF r

\* Frames added where a trajectory ends claim it or extend it.
LEMMA AddsRefines ==
    ASSUME CountInv, CountInv', EveryFrameDecodes, EveryFrameDecodes',
           NEW t, NEW lo, NEW parsed, NEW texts, NEW values,
           Adds(t, lo, parsed, texts, values)
    PROVE  Store!Next
  <1> DEFINE m == lo + Len(texts)
  <1>0. /\ t \in Trajs /\ lo \in Nat /\ LiveIn(traj_meta, t) = lo
        /\ Len(texts) \in Nat /\ texts \in Seq(Texts)
        /\ traj_meta' = [traj_meta EXCEPT ![t] = lo + Len(texts)]
    BY DEF Adds
  <1>1. m \in Nat /\ m >= lo /\ m # Nil
    BY <1>0, NilAssumption
  <1>2. traj_meta'[t] = m /\ \A s \in Trajs : s # t => traj_meta'[s] = traj_meta[s]
    BY <1>0 DEF CountInv, TypeOK
  <1>3. Changes(t, lo, texts)
    BY AddsChanges
  <1>4. \A s \in Trajs : s # t => Content'[s] = Content[s]
    <2> SUFFICES ASSUME NEW s \in Trajs, s # t
                 PROVE  Content'[s] = Content[s]
      OBVIOUS
    <2>1. \A k \in Keys : k[1] = s => k \notin KeyRange(t, lo, Len(texts))
      BY DEF KeyRange
    <2>2. \A k \in Keys : k[1] = s => Text(k)' = Text(k)
      BY <1>3, <2>1 DEF Changes
    <2> QED BY <1>2, <2>2, SameContent
  <1>5. /\ Content'[t] \in Seq(Texts) /\ Content'[t] # Nil /\ Len(Content'[t]) = m
        /\ \A i \in 1 .. m : <<t, i - 1>> \in Keys /\ Content'[t][i] = Decode(frames', <<t, i - 1>>)
    BY <1>0, <1>1, <1>2, NewContentIs
  <1> DEFINE new == Content'[t]
  <1>6. CASE traj_meta[t] = Nil
    <2>1. Content[t] = Nil
      BY <1>0, <1>6, ContentIs
    <2>2. Content' = [Content EXCEPT ![t] = Content'[t]]
      BY <1>0, <1>4, ContentExcept
    <2> QED BY <1>0, <1>5, <2>1, <2>2 DEF Store!Next, Store!Claim
  <1>7. CASE traj_meta[t] # Nil
    <2>1. traj_meta[t] = lo
      BY <1>0, <1>7 DEF LiveIn
    <2>2. /\ Content[t] \in Seq(Texts) /\ Content[t] # Nil /\ Len(Content[t]) = lo
          /\ \A i \in 1 .. lo : Content[t][i] = Decode(frames, <<t, i - 1>>)
      BY <1>0, <1>7, <2>1, ContentIs DEF Text
    <2>3. \A i \in 1 .. lo : Content'[t][i] = Content[t][i]
      <3> SUFFICES ASSUME NEW i \in 1 .. lo
                   PROVE  Content'[t][i] = Content[t][i]
        OBVIOUS
      <3>1. <<t, i - 1>> \in Keys /\ Content'[t][i] = Decode(frames', <<t, i - 1>>)
        BY <1>0, <1>1, <1>5
      <3>2. <<t, i - 1>> \notin KeyRange(t, lo, Len(texts))
        BY <1>0 DEF KeyRange
      <3>3. Decode(frames', <<t, i - 1>>) = Decode(frames, <<t, i - 1>>)
        BY <1>3, <3>1, <3>2 DEF Changes, Text
      <3> QED BY <2>2, <3>1, <3>3
    <2>4. Content'[t] = Content[t] \o SubSeq(Content'[t], Len(Content[t]) + 1, Len(Content'[t]))
      BY <1>0, <1>1, <1>5, <2>2, <2>3, RestAdded
    <2> DEFINE rest == SubSeq(Content'[t], Len(Content[t]) + 1, Len(Content'[t]))
    <2>5. Content' = [Content EXCEPT ![t] = Content[t] \o rest]
      BY <1>0, <1>4, <2>4, ContentExcept
    <2>6. Store!Extend(t, rest)
      BY <2>2, <2>5 DEF Store!Extend
    <2> QED BY <1>0, <1>5, <2>2, <2>6 DEF Store!Next
  <1> QED BY <1>6, <1>7

\* A conversion converts the frames it listed, from the first one on.
LEMMA ConvertsRefines ==
    ASSUME CountInv, CountInv', EveryFrameDecodes, EveryFrameDecodes',
           NEW c \in Clients, job[c].op = "set_units", SplitAt(frames, job[c]),
           FreshIn(frames, job[c]), NEW texts, NEW values,
           Converts(job[c].traj, job[c], texts, values)
    PROVE  Store!Next
  <1> DEFINE j == job[c]
             t == j.traj
             n == j.n
  <1>0. /\ t \in Trajs /\ n \in 1 .. MaxFrames /\ n <= LiveIn(traj_meta, t)
        /\ Len(j.parsed) = n /\ Len(texts) = n /\ j.units \in UnitSystems
        /\ \A i \in 1 .. n : texts[i] = Rescaled(j.parsed[i], j.units)
        /\ traj_meta' = traj_meta
    BY DEF Converts
  <1>1. Changes(t, 0, texts)
    BY ConvertsChanges
  <1>2. \A i \in 1 .. n : j.parsed[i] = Decode(frames, <<t, i - 1>>)
    BY <1>0 DEF FreshIn
  <1>3. n \in Nat /\ n # 0 /\ traj_meta[t] # Nil
    BY <1>0, KeyFacts DEF LiveIn
  <1>4. \A s \in Trajs : s # t => Content'[s] = Content[s]
    <2> SUFFICES ASSUME NEW s \in Trajs, s # t
                 PROVE  Content'[s] = Content[s]
      OBVIOUS
    <2>1. \A k \in Keys : k[1] = s => k \notin KeyRange(t, 0, Len(texts))
      BY DEF KeyRange
    <2>2. \A k \in Keys : k[1] = s => Text(k)' = Text(k)
      BY <1>1, <2>1 DEF Changes
    <2> QED BY <1>0, <2>2, SameContent
  <1> DEFINE m == traj_meta[t]
             units == j.units
  <1>5. /\ m \in Nat /\ Content[t] # Nil /\ n <= m
        /\ Content[t] \in Seq(Texts) /\ Len(Content[t]) = m /\ DOMAIN Content[t] = 1 .. m
        /\ \A i \in 1 .. m : <<t, i - 1>> \in Keys /\ Content[t][i] = Decode(frames, <<t, i - 1>>)
    <2>1. n <= m
      BY <1>0, <1>3 DEF LiveIn
    <2> QED BY <1>0, <1>3, <2>1, ContentIs DEF Text
  <1>6. Content'[t] = [i \in 1 .. m |-> Decode(frames', <<t, i - 1>>)]
    BY <1>0, <1>3 DEF Content, Text
  <1> HIDE DEF n, m, units
  <1>7. ASSUME NEW i \in 1 .. m
        PROVE  Decode(frames', <<t, i - 1>>) =
                  IF i <= n THEN Store!Converted(Content[t][i], units) ELSE Content[t][i]
    <2>1. /\ <<t, i - 1>> \in Keys /\ Content[t][i] = Decode(frames, <<t, i - 1>>)
          /\ i \in Nat /\ i >= 1
      BY <1>5, <1>7
    <2>2. KeyRange(t, 0, Len(texts)) = {<<t, l>> : l \in 0 .. n - 1}
      BY <1>0, <1>3 DEF KeyRange, n
    <2>3. CASE i <= n
      <3>1. i - 1 \in 0 .. n - 1
        BY <1>3, <2>1, <2>3
      <3>2. <<t, i - 1>> \in KeyRange(t, 0, Len(texts))
        BY <2>2, <3>1
      <3>3. Decode(frames', <<t, i - 1>>) = texts[(i - 1) - 0 + 1]
        BY <1>1, <2>1, <3>2 DEF Changes, Text
      <3>4. (i - 1) - 0 + 1 = i /\ i \in 1 .. n
        BY <1>3, <2>1, <2>3
      <3>5. texts[i] = Rescaled(j.parsed[i], j.units) /\ j.parsed[i] = Content[t][i]
        BY <1>0, <1>2, <2>1, <3>4 DEF n
      <3> QED BY <2>3, <3>3, <3>4, <3>5 DEF Rescaled, Store!Converted, units
    <2>4. CASE ~ i <= n
      <3>1. i - 1 \notin 0 .. n - 1
        BY <1>3, <2>1, <2>4
      <3>2. <<t, i - 1>> \notin KeyRange(t, 0, Len(texts))
        BY <2>2, <3>1
      <3> QED BY <1>1, <2>1, <2>4, <3>2 DEF Changes, Text
    <2> QED BY <2>3, <2>4
  <1> DEFINE new == [i \in DOMAIN Content[t] |->
                        IF i <= n THEN Store!Converted(Content[t][i], units) ELSE Content[t][i]]
  <1>8. Content'[t] = new
    BY <1>5, <1>6, <1>7
  <1>9. Content' = [Content EXCEPT ![t] = new]
    BY <1>0, <1>4, <1>8, ContentExcept
  <1>10. Store!ConvertUnits(t, n, units)
    BY <1>0, <1>5, <1>9 DEF Store!ConvertUnits
  <1> QED BY <1>0, <1>10 DEF Store!Next, n, units

LEMMA NextRefines ==
    ASSUME ContentInv, ContentInv', [Next]_vars
    PROVE  [Store!Next]_Content
  <1>0. /\ CountInv /\ CountInv' /\ EveryFrameDecodes /\ EveryFrameDecodes'
        /\ \A c \in Clients : FreshIn(frames, job[c]) /\ SplitAt(frames, job[c])
    BY DEF ContentInv, JobsFresh
  <1>1. ASSUME traj_meta' = traj_meta, \A k \in Keys : Text(k)' = Text(k)
        PROVE  Content' = Content
    <2>1. \A t \in Trajs : Content'[t] = Content[t]
      BY <1>0, <1>1, SameContent
    <2>2. Content = [s \in Trajs |-> Content[s]] /\ Content' = [s \in Trajs |-> Content'[s]]
      BY DEF Content, Text
    <2> QED BY <2>1, <2>2
  <1>2. ASSUME traj_meta' = traj_meta, frames' = frames
        PROVE  Content' = Content
    <2>1. \A k \in Keys : Text(k)' = Text(k)
      BY <1>2 DEF Text
    <2> QED BY <1>1, <1>2, <2>1
  <1>3. CASE Transaction
    <2>1. CASE \E t \in Trajs, input \in Inputs, format \in {"exact", "decimal"},
                  compress \in CompressModes : AppendTrajectory(t, input, format, compress)
      <3> PICK t \in Trajs, input \in Inputs, format \in {"exact", "decimal"},
               compress \in CompressModes : AppendTrajectory(t, input, format, compress)
        BY <2>1
      <3>1. PICK texts, values : Adds(t, 0, input, texts, values) /\ job' = job
        BY <1>0, AppendAdds
      <3> QED BY <1>0, <3>1, AddsRefines
    <2>2. CASE Reindex
      BY <1>2, <2>2 DEF Reindex
    <2>3. CASE \E key \in Keys : DeleteCooked(key)
      BY <1>2, <2>3 DEF DeleteCooked
    <2> QED BY <1>3, <2>1, <2>2, <2>3 DEF Transaction
  <1>4. CASE \E c \in Clients : Step(c)
    <2> PICK c \in Clients : Step(c)
      BY <1>4
    <2>1. CASE \E compress \in CompressModes : ExtendCommit(c, compress)
      <3>1. PICK texts, values : Adds(job[c].traj, job[c].start, job[c].input, texts, values)
        BY <1>0, <2>1, ExtendAdds
      <3> QED BY <1>0, <3>1, AddsRefines
    <2>2. CASE \E compress \in CompressModes : SetUnitsCommit(c, compress)
      <3>1. PICK texts, values : Converts(job[c].traj, job[c], texts, values)
        BY <1>0, <2>2, SetUnitsConverts
      <3>2. job[c].op = "set_units"
        BY <2>2 DEF SetUnitsCommit
      <3> QED BY <1>0, <3>1, <3>2, ConvertsRefines
    <2>3. CASE RepackCommit(c)
      <3>1. PICK values, part : Repacks(job[c].traj, job[c], values, part)
        BY <1>0, <2>3, RepackRepacks
      <3>2. job[c].op = "repack" /\ traj_meta' = traj_meta
        BY <2>3 DEF RepackCommit
      <3>3. \A k \in Keys : Text(k)' = Text(k)
        BY <1>0, <3>1, <3>2, RepacksChanges
      <3> QED BY <1>1, <3>2, <3>3
    <2>4. CASE ReadText(c) \/ ReadParsed(c) \/ ReadStored(c)
      <3>1. UNCHANGED tables
        BY <2>4 DEF ReadText, ReadParsed, ReadStored, Start
      <3> QED BY <1>2, <3>1 DEF tables
    <2>5. CASE \/ \E t \in Trajs, input \in Inputs : ExtendBegin(c, t, input)
               \/ \E t \in Trajs, units \in UnitSystems : SetUnitsBegin(c, t, units)
               \/ \E t \in Trajs : RepackBegin(c, t)
               \/ \E key \in Keys : CookBegin(c, key)
               \/ ExtendRace(c) \/ Abandon(c)
      <3>1. UNCHANGED tables
        BY <2>5 DEF ExtendBegin, SetUnitsBegin, RepackBegin, CookBegin, ExtendRace, Abandon, Start
      <3> QED BY <1>2, <3>1 DEF tables
    <2>6. CASE CookCommit(c)
      BY <1>2, <2>6 DEF CookCommit
    <2> QED BY <2>1, <2>2, <2>3, <2>4, <2>5, <2>6 DEF Step
  <1>5. CASE UNCHANGED vars
    BY <1>2, <1>5 DEF vars
  <1> QED BY <1>3, <1>4, <1>5 DEF Next

\* A corpus behaves as the abstract store while maintenance keeps to itself:
\* each step claims a trajectory, adds frames at its end, converts what it has
\* from the first frame on, or leaves what every frame decodes to as it was
\* (corpus.rs append_trajectory_prepared, set_trajectory_units, repack_traj).
THEOREM CorpusIsAStore ==
    ASSUME MaintainsAlone
    PROVE  Spec => ImplementsFrameStore
  <1>1. Init => Store!Init
    BY DEF Init, Store!Init, Content, Text
  <1>2. ContentInv /\ ContentInv' /\ [Next]_vars => [Store!Next]_Content
    BY NextRefines
  <1> QED BY <1>1, <1>2, ContentInvariant, PTL DEF Spec, ImplementsFrameStore, Store!Spec
=============================================================================
