-------------------------- MODULE MCTimetableOffice --------------------------
EXTENDS TimetableOffice, TLC

CONSTANTS d1, d2, p1, p2, k1, k2

\* Two days; a period with one class, and one with two sections together.
MCSlots == {s \in Slot : s.period = p1 => s.class = k1}

\* The days in their order, from the first; the slots of a day in any, but for the sections
\* of a period, which no definition tells apart.
InOrder(list) ==
    /\ list[1].date = d1
    /\ \A i, j \in DOMAIN list : i < j => ~(list[i].date = d2 /\ list[j].date = d1)
    /\ \A j \in DOMAIN list : list[j].class = k2 =>
          \E i \in 1..(j - 1) : list[i] = [list[j] EXCEPT !.class = k1]

MCVacated ==
    {list \in [1..3 -> MCSlots] :
        InOrder(list) /\ \A i, j \in 1..3 : i # j => list[i] # list[j]}

\* Two rows from 1, as the editor numbers, and one row at 0.
MCNumberings == {<<1, 2>>, <<0>>}

Symmetry == Permutations(Teachers) \cup Permutations(Entries) \cup Permutations(Requests)

=============================================================================
