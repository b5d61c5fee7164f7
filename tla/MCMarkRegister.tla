--------------------------- MODULE MCMarkRegister ---------------------------
EXTENDS MarkRegister, TLC

\* Slots, cells and scores are interchangeable: no definition singles one out.
Symmetry ==
    Permutations(Requests) \cup Permutations(Students) \cup Permutations(Scores)

=============================================================================
