----------------------------- MODULE CoverPlan -----------------------------
(***************************************************************************)
(* The cover planner: a substitute is picked for each slot that a leave    *)
(* vacates, one slot after another (planSubstitutesGreedy), from a context *)
(* that is built anew before each pick (planCoversForSlots).               *)
(*                                                                         *)
(* Hard filters say who can take the slot; of those, teachers without a    *)
(* cover that day go first.  Among these a score decides, which looks at   *)
(* free periods, week loads, subjects, classes and recent covers: here any *)
(* of them may win.  The planner reads the timetable, the leaves and the   *)
(* covers of the school once, and writes nothing.                          *)
(***************************************************************************)
EXTENDS Naturals, FiniteSets, Sequences

CONSTANTS
    Teachers,     \* the active teachers but the absent one, who is on leave at every slot
    Dates,        \* the working days of the leave, each its own weekday
    Periods,      \* teaching periods that somebody teaches in
    Classes,
    PeriodCount,  \* how many teaching periods a day has
    Vacated       \* the lists of slots that a plan can be asked for

Slot == [date : Dates, period : Periods, class : Classes]

ASSUME PlanAssumption ==
    /\ IsFiniteSet(Periods) /\ PeriodCount \in Nat
    /\ \A list \in Vacated : list \in Seq(Slot)

\* Of a teacher's day: all of it on leave, or what the teacher does in each period.
Days == [Periods -> {"leave"}] \cup [Periods -> {"free", "class", "cover"}]

Pick == [slot : Slot, sub : Teachers]

VARIABLES
    diary,     \* of each teacher and date: the timetable, the leaves, the covers saved
    slots,     \* the slots to be covered, by date
    next,      \* the slot at hand
    plan,      \* the picks, in the order in which they were made
    uncovered  \* the slots nobody was found for, by their place in the list

vars == <<diary, slots, next, plan, uncovered>>

TypeOK ==
    /\ diary \in [Teachers -> [Dates -> Days]]
    /\ slots \in Vacated
    /\ next \in 1..(Len(slots) + 1)
    /\ plan \in Seq(Pick)
    /\ uncovered \subseteq 1..(next - 1)

Init ==
    /\ diary \in [Teachers -> [Dates -> Days]]
    /\ slots \in Vacated
    /\ next = 1
    /\ plan = <<>>
    /\ uncovered = {}

-----------------------------------------------------------------------------
OnLeave(t, d) == \E p \in Periods : diary[t][d][p] = "leave"
Does(t, d, what) == {p \in Periods : diary[t][d][p] = what}

\* Mutant of Covers: the picks of this plan do not count, only what is saved.
CoversSaved(t, d, n) == Does(t, d, "cover")

\* The periods of a day in which a teacher covers: saved, or among the first n picks.
Covers(t, d, n) ==
    Does(t, d, "cover")
        \cup {plan[j].slot.period : j \in {i \in 1..n : plan[i].sub = t /\ plan[i].slot.date = d}}

\* maxPeriodsPerDay is not configured: all periods but one, and one at least.
MaxPerDay == IF PeriodCount > 1 THEN PeriodCount - 1 ELSE 1

\* The hard filters of scoreSubstituteCandidate, for a slot in period p, in the context of
\* a day and of the first n picks.
Eligible(t, p, d, n) ==
    /\ ~OnLeave(t, d)
    /\ p \notin Does(t, d, "class") \cup Covers(t, d, n)
    /\ Cardinality(Does(t, d, "class")) + Cardinality(Covers(t, d, n)) < MaxPerDay

\* Mutants of Pool: whoever can take the slot; and only teachers without a cover.
PoolOfAll(p, d, n) == {t \in Teachers : Eligible(t, p, d, n)}
PoolOfFresh(p, d, n) == {t \in Teachers : Eligible(t, p, d, n) /\ Covers(t, d, n) = {}}

\* The default policy: one cover a day, and another only when nobody else can.
Pool(p, d, n) ==
    LET ranked == {t \in Teachers : Eligible(t, p, d, n)}
        preferred == {t \in ranked : Covers(t, d, n) = {}}
    IN  IF preferred # {} THEN preferred ELSE ranked

\* buildContext counts the picks to tell which slot is at hand.
ContextDate == slots[Len(plan) + 1].date

PlanSlot ==
    LET slot == slots[next]
        pool == Pool(slot.period, ContextDate, Len(plan))
    IN  /\ next <= Len(slots)
        /\ next' = next + 1
        /\ IF pool = {} THEN uncovered' = uncovered \cup {next} /\ UNCHANGED plan
           ELSE /\ \E t \in pool : plan' = Append(plan, [slot |-> slot, sub |-> t])
                /\ UNCHANGED uncovered
        /\ UNCHANGED <<diary, slots>>

Next == PlanSlot

Spec == Init /\ [][Next]_vars

-----------------------------------------------------------------------------
(***************************************************************************)
(* Properties.  A pick is made in the context of the slot in its own place *)
(* of the list.  As long as every slot got a pick that is the slot at      *)
(* hand; after one that did not it is an earlier slot, maybe of another    *)
(* day.  A pick is misled then, and only then.                             *)
(***************************************************************************)
RightDay(j) == slots[j].date = plan[j].slot.date

Misled(j) == ~RightDay(j) /\ \E i \in uncovered : i <= j

Free(t, d, p) == diary[t][d][p] = "free"

\* docs/design/teacher-leave-substitutes.md:169, "Hard filters (must pass)": a pick is free
\* then, and in no other class of the plan before it, unless a slot that was left uncovered
\* made it look at another day.
PickedAreFree ==
    \A j \in DOMAIN plan :
        LET t == plan[j].sub
            s == plan[j].slot
        IN  \/ Misled(j)
            \/ /\ Free(t, s.date, s.period)
               /\ \A i \in 1..(j - 1) :
                    plan[i].sub = t /\ plan[i].slot.date = s.date => plan[i].slot.period # s.period

\* The design, line 205: "only reuse someone if no other eligible teacher is free" - again
\* unless a slot that was left uncovered made the pick look at another day.
ReusedOnlyOfNeed ==
    \A j \in DOMAIN plan :
        LET s == plan[j].slot
        IN  \/ Misled(j)
            \/ Covers(plan[j].sub, s.date, j - 1) # {} =>
                 \A t \in Teachers :
                    Eligible(t, s.period, s.date, j - 1) => Covers(t, s.date, j - 1) # {}

\* A slot is left uncovered because nobody can take it, now that the plan has grown as much
\* as then; or because another one before it was, and another day was looked at.
UncoveredOfNeed ==
    \A i \in uncovered :
        LET n == Cardinality((1..(i - 1)) \ uncovered)
        IN  \/ slots[n + 1].date # slots[i].date /\ \E k \in uncovered : k < i
            \/ \A t \in Teachers : ~Eligible(t, slots[i].period, slots[i].date, Len(plan))

\* docs/design/teacher-leave-substitutes.md:175, of every candidate: "T has no template
\* teaching in period P on weekday of D".
PickedTeachNothing ==
    \A j \in DOMAIN plan :
        LET s == plan[j].slot
        IN  diary[plan[j].sub][s.date][s.period] # "class"

=============================================================================
