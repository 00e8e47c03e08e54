------------------------------- MODULE Ledger -------------------------------
(***************************************************************************)
(* What an observation archive promises on disk: a ledger of rows that     *)
(* only grows, at its end, in the order the rows were accepted, whatever   *)
(* crashes and restarts happen.                                            *)
(***************************************************************************)
EXTENDS Naturals, Sequences

CONSTANT Rows       \* numbered in the order they are accepted

VARIABLE log

Init == log = <<>>

Record(row) ==
    /\ \A i \in DOMAIN log : log[i] < row
    /\ log' = Append(log, row)

Next == \E row \in Rows : Record(row)

Spec == Init /\ [][Next]_log
=============================================================================
