----------------------------- MODULE MCSelection -----------------------------
(* A small instance of Selection: 4-bit floats, of which -1 and 0 occur.   *)
EXTENDS MCCorpus, Selection

MCScalar(frame) == IF frame.units = nm THEN 9 ELSE 0

None == [traj |-> Nil, hash |-> Nil, mol |-> Nil, range |-> Nil, limit |-> Nil]

\* No predicate; a trajectory; the digest of one unit system's frame; a
\* species; ranges that hold -1, hold 0, end at -0, begin at -0, have no
\* bound that is a number; and several at once.
MCQueries ==
    LET In(q, t) == [q EXCEPT !.traj = t]
        Between(lo, hi) == [None EXCEPT !.range = <<lo, hi>>]
        Same(u) == [None EXCEPT !.hash = F(m1, u)]
        First(q) == [q EXCEPT !.limit = 1]
    IN  {None, In(None, 2), First(In(None, 2)), Same(nm), In(Same(ang), 2),
         [None EXCEPT !.mol = m1], First([None EXCEPT !.mol = m1]),
         Between(10, 9), Between(Nil, 8), Between(8, 3), Between(4, 12),
         In(Between(9, 9), 2), [Between(9, Nil) EXCEPT !.hash = F(m1, ang), !.mol = m1]}
=============================================================================
