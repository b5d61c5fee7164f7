---------------------------- MODULE MCLeaveCover ----------------------------
EXTENDS LeaveCover, TLC

CONSTANTS t1, t2, d1, d2

\* A leave is of one day or the other, and can be moved.
MCSpans == {{d1}, {d2}}

\* On the second day everybody has a class of their own.
MCTeaching == {<<t1, d2>>, <<t2, d2>>}

Symmetry ==
    Permutations(Requests) \cup Permutations(Leaves) \cup Permutations(Classes) \cup Permutations(Teachers)

=============================================================================
