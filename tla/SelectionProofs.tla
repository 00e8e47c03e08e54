--------------------------- MODULE SelectionProofs ---------------------------
(***************************************************************************)
(* A selection is what a scan of every frame would list. The keys of the   *)
(* scalar indexes order floats as the numbers they are, for every width,   *)
(* and the tables a selection reads are what CorpusProofs shows them to    *)
(* be, so each predicate's keys are those of the frames that satisfy it.   *)
(***************************************************************************)
EXTENDS Selection, CorpusProofs

-----------------------------------------------------------------------------
(* The keys of floats.                                                     *)

\* The key of a float is a word of the same width (keys.rs ordered_f64_bits
\* returns a u64).
LEMMA BitsAreWords ==
    ASSUME NEW x \in Floats
    PROVE  OrderedBits(x) \in 0 .. 2 * Half - 1
  BY FloatAssumption, SMT DEF Floats, OrderedBits, IsNegative

\* Keys are order-preserving (keys.rs:82): the smaller number has the smaller
\* key, whatever the signs.
THEOREM OrderKept ==
    ASSUME NEW x \in Floats, NEW y \in Floats, Number(x) < Number(y)
    PROVE  OrderedBits(x) < OrderedBits(y)
  BY FloatAssumption, SMT DEF Floats, OrderedBits, Number, Magnitude, IsNegative

\* No two floats share a key, so an index row is deleted by the key its value
\* gives and no other row goes with it.
THEOREM KeysTellApart ==
    ASSUME NEW x \in Floats, NEW y \in Floats, OrderedBits(x) = OrderedBits(y)
    PROVE  x = y
  BY FloatAssumption, SMT DEF Floats, OrderedBits, IsNegative

\* The order of the keys is the order of the numbers with -0 below 0.
LEMMA KeyOrder ==
    ASSUME NEW x \in Floats, NEW y \in Floats
    PROVE  OrderedBits(x) <= OrderedBits(y) <=> AtMost(x, y)
  BY FloatAssumption, SMT
  DEF Floats, OrderedBits, AtMost, Number, Magnitude, IsNegative

\* A scan between two finite bounds finds the values between them and no
\* others (corpus.rs select, scan_ord).
THEOREM RangeIsExact ==
    ASSUME NEW lo \in Floats, NEW hi \in Floats, NEW x \in Floats,
           IsFinite(lo), IsFinite(hi)
    PROVE  (LowBits(TRUE, lo) <= OrderedBits(x) /\ OrderedBits(x) <= HighBits(TRUE, hi))
              <=> (AtMost(lo, x) /\ AtMost(x, hi))
  <1>1. LowBits(TRUE, lo) = OrderedBits(lo) /\ HighBits(TRUE, hi) = OrderedBits(hi)
    BY DEF LowBits, HighBits
  <1> QED BY <1>1, KeyOrder

\* A bound that is absent, infinite or NaN keeps nothing out.
THEOREM NoBoundKeepsAll ==
    ASSUME NEW b \in Floats, NEW x \in Floats, NEW given \in BOOLEAN,
           ~(given /\ IsFinite(b))
    PROVE  LowBits(given, b) <= OrderedBits(x) /\ OrderedBits(x) <= HighBits(given, b)
  <1>1. LowBits(given, b) = 0 /\ HighBits(given, b) = 2 * Half - 1
    BY DEF LowBits, HighBits
  <1>2. OrderedBits(x) \in 0 .. 2 * Half - 1
    BY BitsAreWords
  <1> QED BY <1>1, <1>2, FloatAssumption, SMT
-----------------------------------------------------------------------------
(* The keys each predicate finds.                                          *)

\* What the tables hold when a selection reads them.
TablesTrue == TypeOK /\ EveryFrameDecodes /\ HashesMatchText /\ PostingsExact /\ RowsExact

StoredKeys == {k \in Keys : frames[k] # Nil}

LEMMA StoredTexts ==
    ASSUME TablesTrue
    PROVE  /\ \A k \in StoredKeys : Text(k) \in Texts /\ Scalar(Text(k)) \in Floats
           /\ \A k \in Keys : Text(k) # Nil => k \in StoredKeys
  <1>1. ASSUME NEW k \in StoredKeys
        PROVE  Text(k) \in Texts /\ Scalar(Text(k)) \in Floats
    <2>1. Text(k) \in Texts \cup {Nil}
      BY DecodeType DEF TablesTrue, TypeOK, StoredKeys, Text
    <2>2. Text(k) # Nil
      BY DEF TablesTrue, EveryFrameDecodes, StoredKeys
    <2> QED BY <2>1, <2>2, SelectionAssumption
  <1>2. ASSUME NEW k \in Keys, Text(k) # Nil
        PROVE  k \in StoredKeys
    BY <1>2, NilDecodes DEF StoredKeys, Text
  <1> QED BY <1>1, <1>2

\* A row of the indexes is a row of the frame stored under its key.
LEMMA RowsAre ==
    ASSUME TablesTrue, NEW row, NEW k
    PROVE  <<row, k>> \in idx
             <=> k \in StoredKeys /\ row \in {<<"species", Text(k).mol>>, <<"scalar", Text(k)>>}
  BY DEF TablesTrue, RowsExact, StoredKeys, Rows

LEMMA RowsArePairs ==
    ASSUME TablesTrue, NEW r \in idx
    PROVE  r = <<r[1], r[2]>>
  BY DEF TablesTrue, TypeOK

LEMMA SpeciesFinds ==
    ASSUME TablesTrue, NEW mol
    PROVE  SpeciesKeys(mol) = {k \in StoredKeys : Text(k).mol = mol}
  <1>1. ASSUME NEW k \in SpeciesKeys(mol)
        PROVE  k \in StoredKeys /\ Text(k).mol = mol
    <2>1. PICK r \in idx : r[1] = <<"species", mol>> /\ k = r[2]
      BY DEF SpeciesKeys
    <2>2. <<<<"species", mol>>, k>> \in idx
      BY <2>1, RowsArePairs
    <2> QED BY <2>2, RowsAre
  <1>2. ASSUME NEW k \in StoredKeys, Text(k).mol = mol
        PROVE  k \in SpeciesKeys(mol)
    <2> DEFINE r == <<<<"species", mol>>, k>>
    <2>1. r \in idx
      BY <1>2, RowsAre
    <2>2. r[1] = <<"species", mol>> /\ r[2] = k
      OBVIOUS
    <2> HIDE DEF r
    <2> QED BY <2>1, <2>2 DEF SpeciesKeys
  <1> QED BY <1>1, <1>2

\* The frames a range is about.
InRange(k, lo, hi) ==
    LET x == Scalar(Text(k))
    IN  /\ IsFinite(x)
        /\ Given(lo) /\ IsFinite(lo) => AtMost(lo, x)
        /\ Given(hi) /\ IsFinite(hi) => AtMost(x, hi)

LEMMA WordsAreRange ==
    ASSUME NEW x \in Floats, NEW lo \in Floats \cup {Nil}, NEW hi \in Floats \cup {Nil}
    PROVE  /\ LowBits(Given(lo), lo) <= OrderedBits(x)
               <=> (Given(lo) /\ IsFinite(lo) => AtMost(lo, x))
           /\ OrderedBits(x) <= HighBits(Given(hi), hi)
               <=> (Given(hi) /\ IsFinite(hi) => AtMost(x, hi))
  <1>1. OrderedBits(x) \in Int /\ 0 <= OrderedBits(x) /\ OrderedBits(x) <= 2 * Half - 1
    BY BitsAreWords, FloatAssumption
  <1>2. LowBits(Given(lo), lo) <= OrderedBits(x)
               <=> (Given(lo) /\ IsFinite(lo) => AtMost(lo, x))
    <2>1. CASE Given(lo) /\ IsFinite(lo)
      <3>1. lo \in Floats /\ LowBits(Given(lo), lo) = OrderedBits(lo)
        BY <2>1 DEF LowBits, Given
      <3> QED BY <2>1, <3>1, KeyOrder
    <2>2. CASE ~(Given(lo) /\ IsFinite(lo))
      <3>1. LowBits(Given(lo), lo) = 0
        BY <2>2 DEF LowBits
      <3> QED BY <1>1, <2>2, <3>1
    <2> QED BY <2>1, <2>2
  <1>3. OrderedBits(x) <= HighBits(Given(hi), hi)
               <=> (Given(hi) /\ IsFinite(hi) => AtMost(x, hi))
    <2>1. CASE Given(hi) /\ IsFinite(hi)
      <3>1. hi \in Floats /\ HighBits(Given(hi), hi) = OrderedBits(hi)
        BY <2>1 DEF HighBits, Given
      <3> QED BY <2>1, <3>1, KeyOrder
    <2>2. CASE ~(Given(hi) /\ IsFinite(hi))
      <3>1. HighBits(Given(hi), hi) = 2 * Half - 1
        BY <2>2 DEF HighBits
      <3> QED BY <1>1, <2>2, <3>1
    <2> QED BY <2>1, <2>2
  <1> QED BY <1>2, <1>3

LEMMA RangeFinds ==
    ASSUME TablesTrue, NEW lo \in Floats \cup {Nil}, NEW hi \in Floats \cup {Nil}
    PROVE  RangeKeys(lo, hi) = {k \in StoredKeys : InRange(k, lo, hi)}
  <1>1. ASSUME NEW k \in RangeKeys(lo, hi)
        PROVE  k \in StoredKeys /\ InRange(k, lo, hi)
    <2>1. PICK r \in ScalarRows : /\ k = r[2]
                                 /\ LowBits(Given(lo), lo) <= OrderedBits(Scalar(r[1][2]))
                                 /\ OrderedBits(Scalar(r[1][2])) <= HighBits(Given(hi), hi)
      BY DEF RangeKeys
    <2>2. r \in idx /\ r[1][1] = "scalar" /\ IsFinite(Scalar(r[1][2]))
      BY DEF ScalarRows
    <2>3. r = <<r[1], k>>
      BY <2>1, <2>2, RowsArePairs
    <2>4. k \in StoredKeys /\ r[1] \in {<<"species", Text(k).mol>>, <<"scalar", Text(k)>>}
      BY <2>2, <2>3, RowsAre
    <2>5. r[1][2] = Text(k)
      BY <2>2, <2>4
    <2>6. Scalar(Text(k)) \in Floats
      BY <2>4, StoredTexts
    <2> QED BY <2>1, <2>2, <2>4, <2>5, <2>6, WordsAreRange DEF InRange
  <1>2. ASSUME NEW k \in StoredKeys, InRange(k, lo, hi)
        PROVE  k \in RangeKeys(lo, hi)
    <2> DEFINE r == <<<<"scalar", Text(k)>>, k>>
    <2>1. r \in idx
      BY RowsAre
    <2>2. r[1] = <<"scalar", Text(k)>> /\ r[1][1] = "scalar" /\ r[1][2] = Text(k) /\ r[2] = k
      OBVIOUS
    <2>3. Scalar(Text(k)) \in Floats
      BY StoredTexts
    <2>4. r \in ScalarRows
      BY <1>2, <2>1, <2>2 DEF ScalarRows, InRange
    <2>5. /\ LowBits(Given(lo), lo) <= OrderedBits(Scalar(r[1][2]))
          /\ OrderedBits(Scalar(r[1][2])) <= HighBits(Given(hi), hi)
      BY <1>2, <2>2, <2>3, WordsAreRange DEF InRange
    <2> HIDE DEF r
    <2> QED BY <2>2, <2>4, <2>5 DEF RangeKeys
  <1> QED BY <1>1, <1>2

\* The digest of no stored frame finds nothing; any other finds one frame
\* that has it.
LEMMA HashFinds ==
    ASSUME TablesTrue, NEW h \in Texts
    PROVE  LET same == {k \in StoredKeys : Text(k) = h}
           IN  IF same = {} THEN HashKeys(h) = {}
               ELSE \E k \in same : HashKeys(h) = {k}
  <1> DEFINE same == {k \in StoredKeys : Text(k) = h}
             p    == frame_by_hash[h]
  <1>1. h # Nil /\ p \in Keys \cup {Nil}
    BY NilAssumption DEF TablesTrue, TypeOK
  <1>2. \A k \in Keys : hash_by_frame[k] = h <=> k \in same
    BY <1>1, StoredTexts DEF TablesTrue, HashesMatchText, StoredKeys
  <1>3. CASE same = {}
    <2>1. p = Nil
      BY <1>2, <1>3 DEF TablesTrue, PostingsExact
    <2> QED BY <1>3, <2>1 DEF HashKeys
  <1>4. CASE same # {}
    <2>1. \E k \in Keys : hash_by_frame[k] = h
      BY <1>2, <1>4 DEF StoredKeys
    <2>2. p # Nil /\ hash_by_frame[p] = h
      BY <2>1 DEF TablesTrue, PostingsExact
    <2>3. p \in same
      BY <1>1, <1>2, <2>2
    <2>4. HashKeys(h) = {p}
      BY <2>2 DEF HashKeys
    <2> QED BY <1>4, <2>3, <2>4
  <1> QED BY <1>3, <1>4

-----------------------------------------------------------------------------
(* A listing is sorted and cut.                                            *)

LEMMA KeysSort ==
    /\ \A a, b \in Keys : KeyLeq(a, b) \/ KeyLeq(b, a)
    /\ \A a, b \in Keys : KeyLeq(a, b) /\ KeyLeq(b, a) => a = b
    /\ \A a, b, c \in Keys : KeyLeq(a, b) /\ KeyLeq(b, c) => KeyLeq(a, c)
  <1>1. \A k \in Keys : k[1] \in Nat /\ k[2] \in Int /\ k = <<k[1], k[2]>>
    <2> SUFFICES ASSUME NEW k \in Keys
                 PROVE  k[1] \in Nat /\ k[2] \in Int /\ k = <<k[1], k[2]>>
      OBVIOUS
    <2>1. k[1] \in Trajs /\ k[2] \in FrameIdx /\ k = <<k[1], k[2]>>
      BY DEF Keys
    <2>2. k[1] \in Nat /\ k[2] \in Int
      BY <2>1, CodecAssumption DEF FrameIdx
    <2> QED BY <2>1, <2>2
  <1> QED BY <1>1 DEF KeyLeq

\* The places of the keys of S are 1, 2, ..., in the order of the keys.
LEMMA PlacesCount ==
    ASSUME NEW S \in SUBSET Keys, IsFiniteSet(S)
    PROVE  /\ Cardinality(S) \in Nat
           /\ \A k \in S : Place(S, k) \in 1 .. Cardinality(S)
           /\ \A j, k \in S : KeyLeq(j, k) /\ j # k => Place(S, j) < Place(S, k)
           /\ \A i \in 1 .. Cardinality(S) : \E k \in S : Place(S, k) = i
  <1> DEFINE upTo(k) == {j \in S : KeyLeq(j, k)}
             n == Cardinality(S)
             place == [k \in S |-> Place(S, k)]
  <1>1. n \in Nat
    BY FS_CardinalityType
  <1>2. ASSUME NEW k \in S
        PROVE  /\ IsFiniteSet(upTo(k)) /\ Cardinality(upTo(k)) = Place(S, k)
               /\ Place(S, k) \in 1 .. n /\ k \in upTo(k)
    <2>1. upTo(k) \in SUBSET S /\ k \in upTo(k)
      BY KeysSort
    <2>2. IsFiniteSet(upTo(k)) /\ Cardinality(upTo(k)) <= n /\ Cardinality(upTo(k)) \in Nat
      BY <2>1, FS_Subset, FS_CardinalityType
    <2>3. Cardinality(upTo(k)) # 0
      BY <2>1, <2>2, FS_EmptySet
    <2>4. Cardinality(upTo(k)) = Place(S, k)
      BY DEF Place
    <2> HIDE DEF upTo
    <2> QED BY <1>1, <2>1, <2>2, <2>3, <2>4
  <1>3. ASSUME NEW j \in S, NEW k \in S, KeyLeq(j, k), j # k
        PROVE  Place(S, j) < Place(S, k)
    <2>1. upTo(j) \in SUBSET upTo(k) /\ k \notin upTo(j)
      BY <1>3, KeysSort
    <2>2. Cardinality(upTo(j)) <= Cardinality(upTo(k)) /\ Cardinality(upTo(j)) # Cardinality(upTo(k))
      BY <1>2, <2>1, FS_Subset
    <2> HIDE DEF upTo
    <2> QED BY <1>1, <1>2, <2>2
  <1>4. place \in Injection(S, 1 .. n)
    <2>1. place \in [S -> 1 .. n]
      BY <1>2
    <2>2. ASSUME NEW j \in S, NEW k \in S, place[j] = place[k]
          PROVE  j = k
      <3>1. Place(S, j) = Place(S, k)
        BY <2>2
      <3>2. Place(S, j) \in Int
        <4>1. Place(S, j) \in 1 .. n
          BY <1>2, Zenon
        <4> HIDE DEF n
        <4> QED BY <1>1, <4>1
      <3>3. ~ (Place(S, j) < Place(S, k)) /\ ~ (Place(S, k) < Place(S, j))
        BY <3>1, <3>2
      <3>4. KeyLeq(j, k) \/ KeyLeq(k, j)
        BY KeysSort
      <3> QED BY <1>3, <3>3, <3>4
    <2> HIDE DEF place
    <2> QED BY <2>1, <2>2 DEF Injection, IsInjective
  <1>5. IsFiniteSet(1 .. n) /\ Cardinality(1 .. n) = n
    BY <1>1, FS_Interval
  <1>6. place \in Surjection(S, 1 .. n)
    <2> HIDE DEF place
    <2> QED BY <1>4, <1>5, FS_Injection
  <1>7. \A i \in 1 .. n : \E k \in S : Place(S, k) = i
    BY <1>6 DEF Surjection
  <1> QED BY <1>1, <1>2, <1>3, <1>7

\* A listing of the hits S is sorted, names no key twice, is as long as the
\* limit allows, and what it leaves out comes after all it lists (corpus.rs
\* select: sort_unstable, truncate).
THEOREM ListedInOrder ==
    ASSUME NEW S \in SUBSET Keys, IsFiniteSet(S), NEW limit \in Nat \cup {Nil}
    PROVE  LET out == Listed(S, limit)
               n   == IF Given(limit) /\ limit < Cardinality(S) THEN limit ELSE Cardinality(S)
           IN  /\ DOMAIN out = 1 .. n
               /\ \A i \in 1 .. n : out[i] \in S
               /\ \A i, j \in 1 .. n : i < j => KeyLeq(out[i], out[j]) /\ out[i] # out[j]
               /\ \A k \in S : \/ \E i \in 1 .. n : out[i] = k
                               \/ \A i \in 1 .. n : KeyLeq(out[i], k)
  <1> DEFINE out == Listed(S, limit)
             n   == IF Given(limit) /\ limit < Cardinality(S) THEN limit ELSE Cardinality(S)
  <1>1. n \in Nat /\ n <= Cardinality(S) /\ Cardinality(S) \in Nat
    BY PlacesCount, NilAssumption DEF Given
  <1>2. DOMAIN out = 1 .. n
    BY DEF Listed
  <1>3. ASSUME NEW i \in 1 .. n
        PROVE  out[i] \in S /\ Place(S, out[i]) = i
    <2>1. out[i] = CHOOSE k \in S : Place(S, k) = i
      BY DEF Listed
    <2>2. \E k \in S : Place(S, k) = i
      BY <1>1, PlacesCount
    <2> QED BY <2>1, <2>2
  <1> HIDE DEF out, n
  <1>4. ASSUME NEW i \in 1 .. n, NEW j \in 1 .. n, i < j
        PROVE  KeyLeq(out[i], out[j]) /\ out[i] # out[j]
    <2>1. out[i] \in Keys /\ out[j] \in Keys /\ out[i] # out[j]
      BY <1>3, <1>4
    <2>2. ~ KeyLeq(out[j], out[i])
      BY <1>1, <1>3, <1>4, <2>1, PlacesCount
    <2> QED BY <2>1, <2>2, KeysSort
  <1>5. ASSUME NEW k \in S, \A i \in 1 .. n : out[i] # k, NEW i \in 1 .. n
        PROVE  KeyLeq(out[i], k)
    <2>1. Place(S, k) \in 1 .. Cardinality(S)
      BY PlacesCount
    <2>2. Place(S, k) \notin 1 .. n
      <3> SUFFICES ASSUME Place(S, k) \in 1 .. n
                   PROVE  FALSE
        OBVIOUS
      <3> DEFINE m == Place(S, k)
      <3>1. out[m] \in S /\ Place(S, out[m]) = m /\ out[m] # k
        BY <1>3, <1>5
      <3>2. KeyLeq(out[m], k) \/ KeyLeq(k, out[m])
        BY <3>1, KeysSort
      <3>3. Place(S, out[m]) # Place(S, k)
        BY <2>1, <3>1, <3>2, PlacesCount
      <3> QED BY <3>1, <3>3
    <2>3. i < Place(S, k) /\ out[i] \in S /\ Place(S, out[i]) = i
      BY <1>1, <1>3, <2>1, <2>2
    <2>4. ~ (KeyLeq(k, out[i]) /\ k # out[i])
      BY <1>1, <2>1, <2>3, PlacesCount
    <2> QED BY <1>5, <2>3, <2>4, KeysSort
  <1> QED BY <1>2, <1>3, <1>4, <1>5 DEF out, n

-----------------------------------------------------------------------------
(* What select lists.                                                      *)

\* The frames that satisfy every predicate but the digest.
Hits(q) == {k \in StoredKeys : Matches(k, q)}

\* The stored keys the digest of q lets through.
HashLets(q) == IF Given(q.hash) THEN HashKeys(q.hash) ELSE StoredKeys

LEMMA SelectLists ==
    ASSUME TablesTrue, NEW q \in Queries
    PROVE  Select(q) = Listed(Hits(q) \cap HashLets(q), q.limit)
  <1> DEFINE sets == PredicateSets(q)
             hits == IF sets = {} THEN StoredKeys
                     ELSE {k \in UNION sets : \A S \in sets : k \in S}
             byHash == IF Given(q.hash) THEN {HashKeys(q.hash)} ELSE {}
             byMol == IF Given(q.mol) THEN {SpeciesKeys(q.mol)} ELSE {}
             byRange == IF Given(q.range) THEN {RangeKeys(q.range[1], q.range[2])} ELSE {}
             pass(k) == /\ Given(q.hash) => k \in HashKeys(q.hash)
                        /\ Given(q.mol) => k \in SpeciesKeys(q.mol)
                        /\ Given(q.range) => k \in RangeKeys(q.range[1], q.range[2])
  <1>1. sets = byHash \cup byMol \cup byRange
    BY DEF PredicateSets
  <1>2. \A k : (\A S \in sets : k \in S) <=> pass(k)
    BY <1>1
  <1>3. \A S \in sets : S \subseteq StoredKeys
    <2>1. Given(q.hash) => HashKeys(q.hash) \subseteq StoredKeys
      BY HashFinds, SelectionAssumption DEF Given
    <2>2. Given(q.mol) => SpeciesKeys(q.mol) \subseteq StoredKeys
      BY SpeciesFinds
    <2>3. Given(q.range) => RangeKeys(q.range[1], q.range[2]) \subseteq StoredKeys
      BY RangeFinds, SelectionAssumption DEF Given
    <2> QED BY <1>1, <2>1, <2>2, <2>3
  <1>4. hits = {k \in StoredKeys : pass(k)}
    <2>1. CASE sets = {}
      BY <1>2, <2>1
    <2>2. CASE sets # {}
      <3>1. \A k : k \in hits <=> k \in UNION sets /\ pass(k)
        BY <1>2, <2>2
      <3>2. \A k : k \in UNION sets => k \in StoredKeys
        BY <1>3
      <3>3. \A k : pass(k) => k \in UNION sets
        BY <1>2, <2>2
      <3> HIDE DEF hits, pass, sets
      <3> QED BY <3>1, <3>2, <3>3
    <2> QED BY <2>1, <2>2
  <1>5. ASSUME NEW k \in StoredKeys
        PROVE  pass(k) /\ (Given(q.traj) => k[1] = q.traj)
                  <=> Matches(k, q) /\ k \in HashLets(q)
    <2>1. Given(q.mol) => (k \in SpeciesKeys(q.mol) <=> Text(k).mol = q.mol)
      BY SpeciesFinds
    <2>2. Given(q.range) =>
            (k \in RangeKeys(q.range[1], q.range[2]) <=> InRange(k, q.range[1], q.range[2]))
      BY RangeFinds, SelectionAssumption DEF Given
    <2>3. k \in HashLets(q) <=> (Given(q.hash) => k \in HashKeys(q.hash))
      BY DEF HashLets
    <2>4. Matches(k, q) <=> /\ Given(q.traj) => k[1] = q.traj
                            /\ Given(q.mol) => Text(k).mol = q.mol
                            /\ Given(q.range) => InRange(k, q.range[1], q.range[2])
      BY DEF Matches, InRange
    <2> QED BY <2>1, <2>2, <2>3, <2>4
  <1>6. InTraj(q, hits) = Hits(q) \cap HashLets(q)
    <2>1. \A k : k \in InTraj(q, hits)
                    <=> k \in StoredKeys /\ pass(k) /\ (Given(q.traj) => k[1] = q.traj)
      <3> HIDE DEF hits, pass
      <3> QED BY <1>4 DEF InTraj
    <2>2. \A k : k \in Hits(q) \cap HashLets(q)
                    <=> k \in StoredKeys /\ Matches(k, q) /\ k \in HashLets(q)
      BY DEF Hits
    <2> HIDE DEF hits, pass
    <2> QED BY <1>5, <2>1, <2>2
  <1>7. Select(q) = Listed(InTraj(q, hits), q.limit)
    BY DEF Select, StoredKeys
  <1> QED BY <1>6, <1>7

LEMMA NothingListed ==
    ASSUME NEW limit \in Nat \cup {Nil}
    PROVE  Listed({}, limit) = <<>>
  <1>1. Cardinality({}) = 0
    BY FS_EmptySet
  <1>2. ~(limit < 0) \/ limit = Nil
    OBVIOUS
  <1>3. Listed({}, limit) = [i \in 1 .. 0 |-> CHOOSE k \in {} : Place({}, k) = i]
    BY <1>1, <1>2 DEF Listed, Given
  <1> QED BY <1>3

\* When the tables are what they should be, an indexed selection is the scan.
LEMMA TablesServe == TablesTrue => SelectAgreesWithScan
  <1> SUFFICES ASSUME TablesTrue, NEW q \in Queries
               PROVE  LET hits == {k \in Keys : frames[k] # Nil /\ Matches(k, q)}
                          same == {k \in Keys : frames[k] # Nil /\ Text(k) = q.hash}
                      IN  IF ~Given(q.hash) THEN Select(q) = Listed(hits, q.limit)
                          ELSE IF same = {} THEN Select(q) = <<>>
                          ELSE \E k \in same : Select(q) = Listed(hits \cap {k}, q.limit)
    BY DEF SelectAgreesWithScan
  <1> DEFINE hits == {k \in Keys : frames[k] # Nil /\ Matches(k, q)}
             same == {k \in Keys : frames[k] # Nil /\ Text(k) = q.hash}
  <1>1. hits = Hits(q) /\ same = {k \in StoredKeys : Text(k) = q.hash}
    BY DEF Hits, StoredKeys
  <1>2. Select(q) = Listed(Hits(q) \cap HashLets(q), q.limit)
    BY SelectLists
  <1>3. CASE ~Given(q.hash)
    <2>1. Hits(q) \cap HashLets(q) = Hits(q)
      BY <1>3 DEF HashLets, Hits
    <2> QED BY <1>1, <1>2, <1>3, <2>1
  <1>4. CASE Given(q.hash)
    <2>1. q.hash \in Texts /\ HashLets(q) = HashKeys(q.hash)
      BY <1>4, SelectionAssumption DEF HashLets, Given
    <2>2. CASE same = {}
      <3>1. HashLets(q) = {}
        BY <1>1, <2>1, <2>2, HashFinds
      <3>2. Hits(q) \cap HashLets(q) = {}
        BY <3>1
      <3>3. Select(q) = <<>>
        BY <1>2, <3>2, NothingListed, SelectionAssumption
      <3> QED BY <1>4, <2>2, <3>3
    <2>3. CASE same # {}
      <3>1. PICK k \in same : HashKeys(q.hash) = {k}
        BY <1>1, <2>1, <2>3, HashFinds
      <3>2. Select(q) = Listed(hits \cap {k}, q.limit)
        BY <1>1, <1>2, <2>1, <3>1
      <3> QED BY <1>4, <2>3, <3>1, <3>2
    <2> QED BY <2>2, <2>3
  <1> QED BY <1>3, <1>4

\* A selection lists what a scan that decodes every frame would, whatever was
\* appended, converted, migrated and reindexed before: for any number of
\* frames, clients and queries, where maintenance keeps to itself and the
\* inputs carry no digits the default writer drops (corpus.rs select).
THEOREM SelectionsAreScans ==
    ASSUME MaintainsAlone, PlainInputs
    PROVE  Spec => []SelectAgreesWithScan
  <1>1. TypeOK /\ EveryFrameDecodes /\ HashesMatchText /\ PostingsExact /\ RowsExact
            => SelectAgreesWithScan
    BY TablesServe DEF TablesTrue
  <1> QED BY <1>1, TypeCorrect, FramesDecode, HashesFollow, PostingsStayExact,
             RowsFollowFrames, PTL
=============================================================================
