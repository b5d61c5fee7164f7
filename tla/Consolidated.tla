---------------------------- MODULE Consolidated ----------------------------
(***************************************************************************)
(* The consolidated mark list of one exam and class section: totals,       *)
(* percents, grades and tied ranks of its students from whatever marks are *)
(* entered (lib/consolidatedRows.js), and whether the list is ready, that  *)
(* is, may be given out as official (lib/consolidatedStatus.js).           *)
(*                                                                         *)
(* Percents and marks on the ceiling have one decimal: they are counted in *)
(* tenths here, in exact arithmetic where the code has floating point.     *)
(***************************************************************************)
EXTENDS Integers, FiniteSets, FiniteSetsExt, Sequences, SequencesExt

CONSTANTS
    Students,
    Core,       \* subjects that everyone of a class takes
    Electives,  \* subjects with an enrolment list
    Sections,   \* bound: the students and subjects that a class section may have
    Scores,     \* marks obtained, theory and practical together
    EntryMax,   \* of each subject, what marks are entered out of
    Ceiling,    \* Exam.consolidationMaxMarks
    NoMark

Subjects == Core \cup Electives

NoScore == -1

\* A mark is of a score, or of an outcome without one: absent, exempt, withheld.
Mark == [score : Scores \cup {NoScore}, status : {"DRAFT", "SUBMITTED", "APPROVED"}]

VARIABLES
    section,  \* its students in the exam's year, and its subjects
    marks,    \* the Mark row of each student and subject, or NoMark
    enrolled  \* the StudentSubjectEnrollment rows

vars == <<section, marks, enrolled>>

TypeOK ==
    /\ section \in [students : SUBSET Students, subjects : SUBSET Subjects]
    /\ marks \in [Students -> [Subjects -> Mark \cup {NoMark}]]
    /\ enrolled \subseteq Students \X Electives

Init ==
    /\ marks = [s \in Students |-> [sub \in Subjects |-> NoMark]]
    /\ section \in Sections
    /\ enrolled = {}

-----------------------------------------------------------------------------
(***************************************************************************)
(* The marks and the enrolment, as the register and the records move them. *)
(***************************************************************************)
Has(s, sub) == marks[s][sub] # NoMark

WithStatus(S, sub, status) == {s \in S : Has(s, sub) /\ marks[s][sub].status = status}

\* A save or an upload, which does not look at the enrolment; what leadership uploads or
\* moderates is approved at once.
Enter(s, sub) ==
    /\ \E score \in Scores \cup {NoScore}, status \in {"DRAFT", "APPROVED"} :
          marks' = [marks EXCEPT ![s][sub] = [score |-> score, status |-> status]]
    /\ UNCHANGED <<section, enrolled>>

Erase(s, sub) ==
    /\ Has(s, sub) /\ marks[s][sub].status = "DRAFT"
    /\ marks' = [marks EXCEPT ![s][sub] = NoMark]
    /\ UNCHANGED <<section, enrolled>>

\* All marks of the subject that have the one status get the other.
Moves(sub, from, to) ==
    /\ WithStatus(Students, sub, from) # {}
    /\ marks' = [s \in Students |->
                   IF s \in WithStatus(Students, sub, from)
                   THEN [marks[s] EXCEPT ![sub].status = to] ELSE marks[s]]
    /\ UNCHANGED <<section, enrolled>>

\* PUT /subjects/:id/enrollments replaces the list of one elective.
Enrol(sub) ==
    /\ \E S \in SUBSET section.students :
          enrolled' = {e \in enrolled : e[2] # sub} \cup (S \X {sub})
    /\ UNCHANGED <<section, marks>>

Next ==
    \/ \E s \in section.students, sub \in section.subjects : Enter(s, sub) \/ Erase(s, sub)
    \/ \E sub \in section.subjects :
          \/ Moves(sub, "DRAFT", "SUBMITTED")
          \/ Moves(sub, "SUBMITTED", "APPROVED")
          \/ Moves(sub, "APPROVED", "DRAFT")
    \/ \E sub \in Electives \cap section.subjects : Enrol(sub)

Spec == Init /\ [][Next]_vars

-----------------------------------------------------------------------------
(***************************************************************************)
(* buildConsolidatedStudentRows.                                           *)
(***************************************************************************)
\* round1 of a / b, in tenths.
Tenths(a, b) == (20 * a + b) \div (2 * b)

AtMost(x, top) == IF x > top THEN top ELSE x

Takes(s, sub) == sub \in Core \/ <<s, sub>> \in enrolled

\* A mark on the consolidation ceiling.
Scaled(s, sub) == AtMost(Tenths(marks[s][sub].score * Ceiling, EntryMax[sub]), 10 * Ceiling)

\* Mutant of Counted: a score of zero is taken for no score.
CountedUnlessZero(s) ==
    {sub \in section.subjects : Takes(s, sub) /\ Has(s, sub) /\ marks[s][sub].score > 0}

\* The papers in a student's percent: entered and scored, approved or not.
Counted(s) ==
    {sub \in section.subjects : Takes(s, sub) /\ Has(s, sub) /\ marks[s][sub].score # NoScore}

Percent(s) ==
    LET obtained == MapThenSumSet(LAMBDA sub : Scaled(s, sub), Counted(s))
        max == Ceiling * Cardinality(Counted(s))
    IN  IF max = 0 THEN NoScore ELSE AtMost(Tenths(10 * obtained, max), 1000)

\* Least percents of the grades, the best one first.
GradeBands == <<900, 800, 700, 600, 500, 0>>

Grade(s) == SelectInSeq(GradeBands, LAMBDA min : Percent(s) >= min)

\* Mutant of RankedAt: the rank after a tie is the next one.
RankedAtDense(percents) ==
    LET rank[i \in 1..Len(percents)] ==
          IF percents[i] = NoScore THEN NoScore
          ELSE IF i = 1 THEN 1
          ELSE IF percents[i] = percents[i - 1] THEN rank[i - 1]
          ELSE rank[i - 1] + 1
    IN  rank

\* applyTiedRanks down the sorted percents: the place in the list, or the rank of the
\* place before when the percents are the same.
RankedAt(percents) ==
    LET rank[i \in 1..Len(percents)] ==
          IF percents[i] = NoScore THEN NoScore
          ELSE IF i > 1 /\ percents[i] = percents[i - 1] THEN rank[i - 1]
          ELSE i
    IN  rank

Ranks ==
    LET percent == [s \in section.students |-> Percent(s)]
        places == 1..Cardinality(section.students)
        sorted == CHOOSE row \in [places -> section.students] :
                    \A i, j \in places :
                       i < j => row[i] # row[j] /\ percent[row[i]] >= percent[row[j]]
        rank == RankedAt([i \in places |-> percent[sorted[i]]])
    IN  [s \in section.students |-> rank[CHOOSE i \in places : sorted[i] = s]]

-----------------------------------------------------------------------------
(***************************************************************************)
(* buildSubjectStatusCols and summarizeClassStatus.                        *)
(***************************************************************************)
Expected(sub) == {s \in section.students : Takes(s, sub)}

\* Mutant of Approved: of all students of the class, whether they take the subject or not.
ApprovedOfAnyone(sub) == Cardinality(WithStatus(section.students, sub, "APPROVED"))

Approved(sub) == Cardinality(WithStatus(Expected(sub), sub, "APPROVED"))

Complete(sub) == Expected(sub) # {} /\ Approved(sub) = Cardinality(Expected(sub))

\* Drafts count whether or not the student takes the subject.
Ready ==
    /\ section.subjects # {} /\ \A sub \in section.subjects : Complete(sub)
    /\ \A sub \in section.subjects : WithStatus(section.students, sub, "DRAFT") = {}

-----------------------------------------------------------------------------
(***************************************************************************)
(* Properties.                                                             *)
(***************************************************************************)
\* consolidated.test.js:30 by example: a student's rank is one more than the number of
\* students with a higher percent, and whoever has no percent has no rank.
RanksAsDefined ==
    LET ranks == Ranks
        percent == [s \in section.students |-> Percent(s)]
    IN  \A s \in section.students :
          ranks[s] = IF percent[s] = NoScore THEN NoScore
                     ELSE 1 + Cardinality({t \in section.students : percent[t] > percent[s]})

\* A better score in one paper never costs its student a percent, a grade or a rank,
\* however marks are scaled and rounded, and no percent is above 100 (README.md:205).
RaiseNeverHurts ==
    [][\A s \in section.students, sub \in section.subjects :
         /\ Has(s, sub) /\ marks[s][sub].score # NoScore
         /\ marks'[s][sub] # NoMark /\ marks'[s][sub].score > marks[s][sub].score
         /\ enrolled' = enrolled
         => /\ Percent(s)' \in Percent(s)..1000
            /\ Grade(s)' <= Grade(s)
            /\ Ranks'[s] <= Ranks[s]]_vars

\* README.md:207, "only when every subject register for that class is fully approved": a
\* list that is ready lacks no mark and has none that leadership has not approved, of the
\* students that take the subject.
ReadyMeansApproved ==
    Ready => \A s \in section.students, sub \in section.subjects :
               Takes(s, sub) => Has(s, sub) /\ marks[s][sub].status = "APPROVED"

=============================================================================
