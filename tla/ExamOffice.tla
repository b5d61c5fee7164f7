----------------------------- MODULE ExamOffice -----------------------------
(***************************************************************************)
(* The desks of an exam (ExamDesks) and its consolidated mark lists        *)
(* (Consolidated; lib/consolidated.js).                                    *)
(*                                                                         *)
(* A handler of one desk writes no row that another desk's properties are  *)
(* about, but for the deletions and moves that each module has of its own, *)
(* so no property can tell the interleavings of the desks apart: the desk  *)
(* that is open is chosen once, and the others rest.                       *)
(***************************************************************************)
EXTENDS ExamDesks, FiniteSets

CONSTANTS Pupils, Core, Electives, Sections, Scores, EntryMax, Ceiling

VARIABLES
    desk,                      \* the desk that is open
    section, marks, enrolled   \* of Consolidated

Lists == INSTANCE Consolidated WITH Students <- Pupils

listVars == <<section, marks, enrolled>>

\* What marks are entered out of is at least one.
ASSUME ListAssumption ==
    /\ IsFiniteSet(Pupils) /\ IsFiniteSet(Core \cup Electives)
    /\ Scores \subseteq Nat
    /\ EntryMax \in [Core \cup Electives -> Nat \ {0}] /\ Ceiling \in Nat
    /\ Sections \subseteq [students : SUBSET Pupils, subjects : SUBSET (Core \cup Electives)]
    /\ NoMark \notin Lists!Mark

\* Where the desks at rest start makes no difference.
OfficeInit ==
    /\ desk \in {"setup", "releases", "revaluations", "lists"}
    /\ Init /\ Releases!Init /\ Revaluations!Init /\ Lists!Init
    /\ desk # "releases" => reachable = {}
    /\ desk # "lists" => section = [students |-> {}, subjects |-> {}]

SetupStep ==
    /\ desk = "setup"
    /\ Next
    /\ UNCHANGED <<desk, releaseVars, revaluationVars, listVars>>

ReleaseStep ==
    /\ desk = "releases"
    /\ Releases!Next
    /\ UNCHANGED <<desk, vars, revaluationVars, listVars>>

RevaluationStep ==
    /\ desk = "revaluations"
    /\ Revaluations!Next
    /\ UNCHANGED <<desk, vars, releaseVars, listVars>>

ListStep ==
    /\ desk = "lists"
    /\ Lists!Next
    /\ UNCHANGED <<desk, vars, releaseVars, revaluationVars>>

OfficeNext == SetupStep \/ ReleaseStep \/ RevaluationStep \/ ListStep

OfficeSpec ==
    OfficeInit /\ [][OfficeNext]_<<desk, vars, releaseVars, revaluationVars, listVars>>

-----------------------------------------------------------------------------
\* consolidated.test.js:30 by example: a student's rank is one more than the number of
\* students with a higher percent.
RanksAsDefined == Lists!RanksAsDefined

\* A better score in one paper never costs its student a percent, a grade or a rank.
RaiseNeverHurts == Lists!RaiseNeverHurts

\* README.md:207, "only when every subject register for that class is fully approved".
ReadyMeansApproved == Lists!ReadyMeansApproved

=============================================================================
