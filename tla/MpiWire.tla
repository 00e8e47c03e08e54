------------------------------- MODULE MpiWire -------------------------------
(***************************************************************************)
(* The arithmetic of the MPI ingest: which frames a rank parses, where a   *)
(* batch of frames ends, what a record weighs, and whether the counts of a *)
(* message fit the signed 32-bit counts of the collectives. Widths are     *)
(* constants: MaxWord is usize::MAX and CountMax is i32::MAX.              *)
(***************************************************************************)
EXTENDS Integers

CONSTANTS MaxWord, CountMax, HeaderBytes

ASSUME WireAssumption ==
    /\ MaxWord \in Nat \ {0}
    /\ CountMax \in Nat
    /\ HeaderBytes \in Nat

Least(a, b) == IF a <= b THEN a ELSE b

Greatest(a, b) == IF a >= b THEN a ELSE b

\* block_range: n items dealt to `size` ranks in contiguous blocks, the
\* remainder to the low ranks. The block is BlockStart .. BlockEnd - 1.
BlockStart(n, size, rank) == rank * (n \div size) + Least(rank, n % size)

BlockEnd(n, size, rank) ==
    BlockStart(n, size, rank) + (n \div size) + (IF rank < n % size THEN 1 ELSE 0)

\* usize::saturating_add.
SaturatingAdd(a, b) == Least(a + b, MaxWord)

\* Where the batch of at most `batch` frames that starts at b0 ends.
BatchEnd(b0, batch, n) ==
    IF b0 >= n THEN b0 ELSE Least(SaturatingAdd(b0, Greatest(batch, 1)), n)

\* Half a batch, for one whose messages are too long; b1 itself when fewer
\* than two frames remain and there is nothing to halve.
ShrinkBatchEnd(b0, b1) ==
    IF b1 - b0 <= 1 THEN b1 ELSE b0 + ((b1 - b0) \div 2)

\* Mutant: a duplicate is sent without its bytes whatever its batch.
SendStoredBytesOnce(winner, frame, b0) == winner = frame

\* A frame carries its bytes unless its winner, the first frame with equal
\* bytes, is in the same batch.
SendStoredBytes(winner, frame, b0) == winner = frame \/ winner < b0

RecordBytes(stored, carries) == HeaderBytes + (IF carries THEN stored ELSE 0)
=============================================================================
