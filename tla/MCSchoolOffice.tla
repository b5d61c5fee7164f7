--------------------------- MODULE MCSchoolOffice ---------------------------
(***************************************************************************)
(* SchoolOffice for TLC.  As one desk is open at a time, one permutation   *)
(* swaps accounts, pupils and subjects at once.  There are no rows for the *)
(* desk of promotions, which has an instance of its own (MCRoster).        *)
(***************************************************************************)
EXTENDS SchoolOffice, TLC

CONSTANTS u1, u2, p1, p2, i1, i2

Swaps == u1 :> u2 @@ u2 :> u1 @@ p1 :> p2 @@ p2 :> p1 @@ i1 :> i2 @@ i2 :> i1

Symmetry == {Swaps} \cup Permutations(Requests)

=============================================================================
