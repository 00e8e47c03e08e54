------------------------------ MODULE FloatKeys ------------------------------
(***************************************************************************)
(* The keys of the ordered scalar indexes (keys.rs): a finite f64 is       *)
(* stored as an unsigned word whose byte order is the order of the         *)
(* numbers. A float is its IEEE bit pattern, a number below 2 * Half: the  *)
(* sign is the top bit and the rest, the magnitude, orders floats of one   *)
(* sign. Half is 2^63 in the code; MaxFinite is the largest finite         *)
(* magnitude, above it come infinity and the NaNs.                         *)
(***************************************************************************)
EXTENDS Integers

CONSTANTS Half, MaxFinite

ASSUME FloatAssumption ==
    /\ Half \in Nat /\ MaxFinite \in Nat
    /\ MaxFinite + 1 < Half

Floats == 0 .. 2 * Half - 1

IsNegative(x) == x >= Half

Magnitude(x) == IF IsNegative(x) THEN x - Half ELSE x

IsFinite(x) == Magnitude(x) <= MaxFinite

\* The number a finite float is, in steps of the magnitude: both zeros are 0.
Number(x) == IF IsNegative(x) THEN - Magnitude(x) ELSE Magnitude(x)

\* The order of the numbers, in which -0 counts as below 0.
AtMost(x, y) ==
    Number(x) < Number(y) \/ (Number(x) = Number(y) /\ (x = y \/ IsNegative(x)))

\* ordered_f64_bits: all bits of a negative float are flipped, of the others
\* the sign bit alone.
OrderedBits(x) == IF IsNegative(x) THEN 2 * Half - 1 - x ELSE x + Half

\* The words a range scan starts and stops at. A bound that is absent, or not
\* a finite number, is no bound at all.
LowBits(given, x) == IF given /\ IsFinite(x) THEN OrderedBits(x) ELSE 0

HighBits(given, x) == IF given /\ IsFinite(x) THEN OrderedBits(x) ELSE 2 * Half - 1
=============================================================================
