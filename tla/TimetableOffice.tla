-------------------------- MODULE TimetableOffice --------------------------
(***************************************************************************)
(* The two sides of a school's timetable: its bell schedule and classes as *)
(* they are edited (Timetable), and the planner that finds a substitute    *)
(* for each class of an absent teacher (CoverPlan).  The planner reads the *)
(* timetable once and writes nothing, so the side that moves is chosen     *)
(* once: the planner with whatever timetable it may find, or the editor    *)
(* with nothing to plan.                                                   *)
(***************************************************************************)
EXTENDS CoverPlan

CONSTANTS MaxPeriods, Length, Recess, Numberings, Sections, Entries, Requests, New, Same,
          Unused, Gone

VARIABLES
    side,                              \* the side that moves
    periods, entries, reqs, overtaken  \* of Timetable

Editor == INSTANCE Timetable WITH Classes <- Sections

editorVars == <<periods, entries, reqs, overtaken>>

\* The default schedule has periods, and so has every list, each in a place of its own;
\* an id is a number, which none of the markers is.
ASSUME EditorAssumption ==
    /\ MaxPeriods \in Nat /\ Length \in Nat /\ Length > 0
    /\ \A o \in Numberings :
          /\ o \in Seq(Nat) /\ o # <<>>
          /\ \A i, j \in DOMAIN o : i # j => o[i] # o[j]
    /\ {New, Same} \cap Editor!PeriodIds = {}
    /\ Same \notin Sections
    /\ Entries \cap Requests = {}
    /\ {Unused, Gone} \cap Editor!Cell = {}
    /\ Unused \notin Editor!Period /\ Gone \notin Editor!Period
    /\ Unused # Gone

OfficeInit ==
    /\ Editor!Init
    /\ \/ side = "plan" /\ Init
       \/ /\ side = "edit"
          /\ diary = [t \in Teachers |-> [d \in Dates |-> [p \in Periods |-> "free"]]]
          /\ slots = <<>> /\ next = 1 /\ plan = <<>> /\ uncovered = {}

PlanStep ==
    /\ side = "plan"
    /\ Next
    /\ UNCHANGED <<side, editorVars>>

EditStep ==
    /\ side = "edit"
    /\ Editor!Next
    /\ UNCHANGED <<side, vars>>

OfficeNext == PlanStep \/ EditStep

OfficeSpec == OfficeInit /\ [][OfficeNext]_<<side, vars, editorVars>>

-----------------------------------------------------------------------------
\* "Defaults are seeded only when the schedule is empty" (README.md:195), unless a save has
\* come between the read of a seed and its write, with other positions than the default ones.
SeededOnlyWhenEmpty == Editor!SeededOnlyWhenEmpty

\* A save of the bell schedule changes nothing, or makes the schedule what was sent and
\* takes only the classes of the periods that were left out.
SavedAsSent == Editor!SavedAsSent

\* "Cannot assign a class during a break period" (timetable.js:839): a class stands in a
\* break only when a save made a break of its period after the class was put there, or
\* after its handler had looked at the period.
BreakClassesExplained == Editor!BreakClassesExplained

=============================================================================
