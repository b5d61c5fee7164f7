---------------------------- MODULE MCExamOffice ----------------------------
EXTENDS ExamOffice, FiniteSets, TLC

CONSTANTS m1, m2, p1, p2, p3

\* An early paper for one key with a late one for the other, or a late one for the first key
\* alone, which dates it again.
MCSchedules ==
    LET first == CHOOSE k \in Keys : TRUE
    IN  {[k \in Keys |-> IF k = first THEN d ELSE IF d = 1 THEN 2 ELSE NoDate] : d \in {1, 2}}

\* The maximum of the second subject was lowered after marks had been entered.
MCEntryMax == [sub \in {m1, m2} |-> IF sub = m1 THEN 3 ELSE 1]

\* Three students and one subject, two of each, or nothing at all.
MCSections ==
    {[students |-> {p1, p2, p3}, subjects |-> {m}] : m \in {m1, m2}}
        \cup {[students |-> {p1, p2}, subjects |-> {m1, m2}], [students |-> {}, subjects |-> {}]}

\* Slots and ceilings are interchangeable: no definition singles one out.
Symmetry == Permutations(Requests) \cup Permutations(Ceilings)

=============================================================================
