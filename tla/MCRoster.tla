------------------------------ MODULE MCRoster ------------------------------
(***************************************************************************)
(* Roster for TLC: rows, sections, roll numbers and promotions are each    *)
(* interchangeable.                                                        *)
(***************************************************************************)
EXTENDS Roster, TLC

Symmetry ==
    Permutations(Students) \cup Permutations(Sections) \cup Permutations(Rolls) \cup Permutations(Requests)

=============================================================================
