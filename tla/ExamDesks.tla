----------------------------- MODULE ExamDesks ------------------------------
(***************************************************************************)
(* Three desks of an exam whose handlers take several steps: its setup     *)
(* (ExamSetup; routes/exams.js), its report card releases (Release) and    *)
(* the revaluations of its marks (Revaluation; both routes/board.js).      *)
(***************************************************************************)
EXTENDS ExamSetup

CONSTANTS
    Students, NoRelease, MaxMails,   \* of Release
    Values, NoMark, NoRequest, None  \* of Revaluation

VARIABLES
    release, reachable, mails, notices, late,  \* of Release
    mark, reval, reviews, outdated, shifted    \* of Revaluation

Releases == INSTANCE Release WITH reqs <- notices
Revaluations == INSTANCE Revaluation WITH reqs <- reviews

releaseVars == <<release, reachable, mails, notices, late>>
revaluationVars == <<mark, reval, reviews, outdated, shifted>>

ASSUME DeskMarkers ==
    /\ MaxMails \in Nat
    /\ NoRelease \notin Releases!Row
    /\ NoMark \notin Revaluations!Mark
    /\ NoRequest \notin Revaluations!Row
    /\ None \notin Values

-----------------------------------------------------------------------------
\* A release stamped as notified has a mail queued for every guardian, however publish,
\* sign-off and notify-parents overlap (board.js:301).
NotifiedMeansQueued == Releases!NotifiedMeansQueued

\* A completed revaluation stands in the register (board.js:446), unless the register has
\* moved the mark since, or a review was cut short or wrote what another one had replaced.
CompletedMarkStands == Revaluations!CompletedMarkStands

\* A mark that a revaluation writes goes through the life that MarkLifecycle promises.
LifecycleSpec == Revaluations!LifecycleSpec

=============================================================================
