---------------------------- MODULE SchoolOffice ----------------------------
(***************************************************************************)
(* What a school keeps of its people and subjects: the staff accounts      *)
(* (Staff), the pupils on the rolls of its classes (Roster), their photos  *)
(* (Photos) and the subjects of a class (ClassSubjects).                   *)
(*                                                                         *)
(* What the handlers of one do to the rows of another - a class section    *)
(* that is deleted, a pupil who is promoted or deleted, an assignment - is *)
(* an action of the module concerned.  No property relates rows of two, so *)
(* the desk that is open is chosen once, and the others rest.              *)
(***************************************************************************)
EXTENDS Roster

CONSTANTS
    Users, Papers, NoUser,                    \* of Staff
    Pupils, Files, NoPhoto, Hollow,           \* of Photos
    Ids, Takers                               \* of ClassSubjects

VARIABLES
    desk,                                     \* the desk that is open
    role, active, papers, duty, calls, behind,    \* of Staff
    photo, files, uploads,                        \* of Photos
    where, data, enrolled, named, takers, edits, missed, asked  \* of ClassSubjects

Accounts == INSTANCE Staff WITH reqs <- calls
Albums == INSTANCE Photos WITH Students <- Pupils, reqs <- uploads
Subjects == INSTANCE ClassSubjects WITH Pupils <- Takers, sections <- named, pupils <- takers,
                                        reqs <- edits

staffVars == <<role, active, papers, duty, calls, behind>>
albumVars == <<photo, files, uploads>>
subjectVars == <<where, data, enrolled, named, takers, edits, missed, asked>>

ASSUME OfficeMarkers ==
    /\ {NoUser, Gone, None} \cap Accounts!Roles = {}
    /\ None \notin Users
    /\ {NoPhoto, Hollow, Unused, Gone} \cap Files = {}
    /\ {NoPhoto, Hollow} \cap {Unused, Gone} = {}
    /\ NoPhoto # Hollow /\ Unused # Gone

\* Where the staff stand matters at their own desk alone.
OfficeInit ==
    /\ desk \in {"promotions", "staff", "photos", "subjects"}
    /\ Init /\ Accounts!Init /\ Albums!Init /\ Subjects!Init
    /\ desk # "staff" =>
          /\ \A u \in Users : role[u] = "PRINCIPAL" /\ papers[u] = {}
          /\ active = Users /\ duty = None

RosterStep ==
    /\ desk = "promotions"
    /\ Next
    /\ UNCHANGED <<desk, staffVars, albumVars, subjectVars>>

StaffStep ==
    /\ desk = "staff"
    /\ Accounts!Next
    /\ UNCHANGED <<desk, vars, albumVars, subjectVars>>

PhotoStep ==
    /\ desk = "photos"
    /\ Albums!Next
    /\ UNCHANGED <<desk, vars, staffVars, subjectVars>>

SubjectStep ==
    /\ desk = "subjects"
    /\ Subjects!Next
    /\ UNCHANGED <<desk, vars, staffVars, albumVars>>

OfficeNext == RosterStep \/ StaffStep \/ PhotoStep \/ SubjectStep

OfficeSpec ==
    OfficeInit /\ [][OfficeNext]_<<desk, vars, staffVars, albumVars, subjectVars>>

-----------------------------------------------------------------------------
\* The last active principal stays, unless the status of an account is changed or a handler
\* counted before somebody else changed who is principal (users.js:509, :519).
LastPrincipalStays == Accounts!LastPrincipalStays

\* A paper that has a teacher keeps one, unless assignments are replaced or cleared or a
\* handler looked before somebody else changed who teaches what (users.js:579, :681).
PapersHandedOver == Accounts!PapersHandedOver

\* A photo that a row names is there, or is about to be replaced: it is lost only when the
\* handler that replaces it fails (students.js:404).
PhotoLostOnlyByFailure == Albums!PhotoLostOnlyByFailure

\* What uses a subject, or the class that it is of, is lost with it only when it came after
\* the count (subjects.js:281, classes.js:150).
UnusedDropped == Subjects!UnusedDropped

\* Whoever is on the list that was saved last takes the subject (subjects.js:437), and
\* nobody else unless two lists were saved at once.
EnrolledAsSaved == Subjects!EnrolledAsSaved

=============================================================================
