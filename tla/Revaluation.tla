---------------------------- MODULE Revaluation ----------------------------
(***************************************************************************)
(* The revaluation of one mark: POST and PATCH of /board/revaluations, over *)
(* the mark as the register moves it.  A review updates the request first, *)
(* and only then, when the request as updated is completed and has revised *)
(* marks, reads the mark and writes it by id; nothing ties the writes      *)
(* together, and any later review of the request writes the mark again.    *)
(***************************************************************************)
CONSTANTS
    Values,     \* marks
    NoMark,     \* no row for the cell
    NoRequest,  \* no revaluation row for the cell
    None,       \* null, and a field that a review does not send
    Requests    \* slots for handlers in flight

Statuses == {"PENDING", "APPROVED", "REJECTED", "COMPLETED"}
Mark == [value : Values, status : {"DRAFT", "SUBMITTED", "APPROVED"}]
Row == [status : Statuses, original : Values \cup {None}, revised : Values \cup {None}]

(***************************************************************************)
(* A handler in flight: a POST finds no row, reads the mark and creates;   *)
(* a PATCH reads the row, updates it by id, and may read and write the     *)
(* mark.  lost says that a row it goes by the id of is gone.               *)
(***************************************************************************)
Handler == [step : {"readMark", "create", "update", "find", "apply"},
            status : Statuses \cup {None}, revised : Values \cup {None},
            original : Values \cup {None}, lost : BOOLEAN]

Idle == [step |-> "idle"]

VARIABLES
    mark,     \* the Mark row of the cell, or NoMark
    reval,    \* its RevaluationRequest row, or NoRequest
    reqs,     \* the handlers in flight
    outdated, \* reviews that carry revised marks another review has replaced since
    shifted   \* the mark was moved by the register, or by a review outdated or cut short

vars == <<mark, reval, reqs, outdated, shifted>>

TypeOK ==
    /\ mark \in Mark \cup {NoMark}
    /\ reval \in Row \cup {NoRequest}
    /\ reqs \in [Requests -> Handler \cup {Idle}]
    /\ outdated \subseteq Requests
    /\ shifted \in BOOLEAN

Init ==
    /\ mark = NoMark
    /\ reval = NoRequest
    /\ reqs = [r \in Requests |-> Idle]
    /\ outdated = {}
    /\ shifted = FALSE

-----------------------------------------------------------------------------
At(r, step) == reqs[r].step = step

\* The review has completed the request, and has the mark still to write.
Applying(q) == q.step \in {"find", "apply"}

Becomes(r, q) ==
    /\ reqs' = [reqs EXCEPT ![r] = q]
    /\ outdated' = outdated \ IF q = Idle THEN {r} ELSE {}

Opens(step, status, revised) ==
    [step |-> step, status |-> status, revised |-> revised, original |-> None, lost |-> FALSE]

\* The handlers at one of the steps lose the row that they know by its id.
Lose(steps) ==
    [r \in Requests |-> IF reqs[r].step \in steps THEN [reqs[r] EXCEPT !.lost = TRUE] ELSE reqs[r]]

\* Any awaited call may reject, and the process may stop: what was written stays.
RequestFails(r) ==
    /\ reqs[r] # Idle
    /\ Becomes(r, Idle)
    /\ shifted' = (shifted \/ Applying(reqs[r]))
    /\ UNCHANGED <<mark, reval>>

-----------------------------------------------------------------------------
(***************************************************************************)
(* POST /board/revaluations.                                               *)
(***************************************************************************)
AskFind(r) ==
    /\ reqs[r] = Idle
    /\ reval = NoRequest
    /\ Becomes(r, Opens("readMark", None, None))
    /\ UNCHANGED <<mark, reval, shifted>>

AskReadMark(r) ==
    /\ At(r, "readMark")
    /\ Becomes(r, [reqs[r] EXCEPT !.step = "create",
                                  !.original = IF mark = NoMark THEN None ELSE mark.value])
    /\ UNCHANGED <<mark, reval, shifted>>

\* The unique key of the cell is all that keeps a second request out.
AskCreate(r) ==
    /\ At(r, "create")
    /\ reval = NoRequest
    /\ reval' = [status |-> "PENDING", original |-> reqs[r].original, revised |-> None]
    /\ Becomes(r, Idle)
    /\ UNCHANGED <<mark, shifted>>

-----------------------------------------------------------------------------
(***************************************************************************)
(* PATCH /board/revaluations/:id.  Any status may follow any other.        *)
(***************************************************************************)
ReviewRead(r) ==
    /\ reqs[r] = Idle
    /\ reval # NoRequest
    /\ \E status \in Statuses \cup {None}, revised \in Values \cup {None} :
          Becomes(r, Opens("update", status, revised))
    /\ UNCHANGED <<mark, reval, shifted>>

\* Mutant of ReviewUpdate: marks are written when this review sends them.
ReviewUpdateIfSent(r) ==
    LET q == reqs[r]
        row == [reval EXCEPT !.status = IF q.status = None THEN @ ELSE q.status,
                             !.revised = IF q.revised = None THEN @ ELSE q.revised]
    IN  /\ At(r, "update") /\ ~q.lost
        /\ reval' = row
        /\ reqs' = [reqs EXCEPT ![r] = IF row.status = "COMPLETED" /\ q.revised # None
                                       THEN [q EXCEPT !.step = "find", !.revised = row.revised]
                                       ELSE Idle]
        /\ outdated' = {s \in Requests \ {r} : Applying(reqs[s])}
        /\ UNCHANGED <<mark, shifted>>

\* The fields that were sent, over the row as it is now; what comes back says whether the
\* mark is to be written, and with what.
ReviewUpdate(r) ==
    LET q == reqs[r]
        row == [reval EXCEPT !.status = IF q.status = None THEN @ ELSE q.status,
                             !.revised = IF q.revised = None THEN @ ELSE q.revised]
    IN  /\ At(r, "update") /\ ~q.lost
        /\ reval' = row
        /\ reqs' = [reqs EXCEPT ![r] = IF row.status = "COMPLETED" /\ row.revised # None
                                       THEN [q EXCEPT !.step = "find", !.revised = row.revised]
                                       ELSE Idle]
        /\ outdated' = {s \in Requests \ {r} : Applying(reqs[s])}
        /\ UNCHANGED <<mark, shifted>>

FindMark(r) ==
    /\ At(r, "find")
    /\ Becomes(r, IF mark = NoMark THEN Idle ELSE [reqs[r] EXCEPT !.step = "apply"])
    /\ UNCHANGED <<mark, reval, shifted>>

\* Mutant of ApplyMark: a revaluation leaves the mark to be approved.
ApplyMarkAsDraft(r) ==
    /\ At(r, "apply") /\ ~reqs[r].lost
    /\ mark' = [mark EXCEPT !.value = reqs[r].revised]
    /\ shifted' = (r \in outdated)
    /\ Becomes(r, Idle)
    /\ UNCHANGED reval

\* mark.update by the id that was found; it rejects when that row is gone.
ApplyMark(r) ==
    /\ At(r, "apply") /\ ~reqs[r].lost
    /\ mark' = [value |-> reqs[r].revised, status |-> "APPROVED"]
    /\ shifted' = (r \in outdated)
    /\ Becomes(r, Idle)
    /\ UNCHANGED reval

-----------------------------------------------------------------------------
(***************************************************************************)
(* The register and the administration around the request.                 *)
(***************************************************************************)
\* Marks entered, submitted, approved and reopened by the handlers of MarkRegister, a step
\* of MarkLifecycle each.
RegisterMoves ==
    /\ \/ mark' \in [value : Values, status : {"DRAFT"}]
       \/ mark # NoMark /\ \E s \in {"SUBMITTED", "DRAFT"} : mark' = [mark EXCEPT !.status = s]
       \/ /\ mark # NoMark /\ mark.status = "SUBMITTED"
          /\ mark' = [mark EXCEPT !.status = "APPROVED"]
    /\ shifted' = TRUE
    /\ UNCHANGED <<reval, reqs, outdated>>

\* A mark deleted by a save or by the school data tool.
MarkDeleted ==
    /\ mark # NoMark
    /\ mark' = NoMark
    /\ reqs' = Lose({"apply"})
    /\ shifted' = TRUE
    /\ UNCHANGED <<reval, outdated>>

\* The request deleted by the school data tool, which takes one table after the other.
RequestDeleted ==
    /\ reval # NoRequest
    /\ reval' = NoRequest
    /\ reqs' = Lose({"update"})
    /\ outdated' = outdated \cup {r \in Requests : Applying(reqs[r])}
    /\ UNCHANGED <<mark, shifted>>

Handle(r) ==
    \/ AskFind(r) \/ AskReadMark(r) \/ AskCreate(r)
    \/ ReviewRead(r) \/ ReviewUpdate(r) \/ FindMark(r) \/ ApplyMark(r)
    \/ RequestFails(r)

Next == (\E r \in Requests : Handle(r)) \/ RegisterMoves \/ MarkDeleted \/ RequestDeleted

Spec == Init /\ [][Next]_vars

-----------------------------------------------------------------------------
(***************************************************************************)
(* Properties.                                                             *)
(***************************************************************************)
\* A completed revaluation stands in the register: with no review on its way to write the
\* mark, the mark is the revised one, approved, unless the register has moved it since, or
\* a review was cut short or wrote what another one had replaced.
CompletedMarkStands ==
    /\ reval # NoRequest /\ mark # NoMark
    /\ reval.status = "COMPLETED" /\ reval.revised # None
    /\ \A r \in Requests : ~Applying(reqs[r])
    => shifted \/ mark = [value |-> reval.revised, status |-> "APPROVED"]

\* A review on its way that is not outdated carries what the request says.
CarriesTheRequest ==
    \A r \in Requests \ outdated :
        Applying(reqs[r]) =>
            /\ reval # NoRequest
            /\ reval.status = "COMPLETED" /\ reval.revised = reqs[r].revised

\* A mark that a review has found is there until the review has lost it.
FoundIsThere == \A r \in Requests : At(r, "apply") /\ ~reqs[r].lost => mark # NoMark

\* A request that a review has read is there until the review has lost it.
ReadIsThere == \A r \in Requests : At(r, "update") /\ ~reqs[r].lost => reval # NoRequest

AppliesValues == \A r \in Requests : Applying(reqs[r]) => reqs[r].revised \in Values

IInv ==
    /\ TypeOK
    /\ CarriesTheRequest
    /\ FoundIsThere
    /\ ReadIsThere
    /\ AppliesValues
    /\ CompletedMarkStands

\* Marks that a revaluation writes live as MarkLifecycle says: a handler of leadership puts
\* one mark down as approved, or leaves it alone.
Register == INSTANCE MarkLifecycle WITH
    Students <- {"student"},
    cell <- [s \in {"student"} |-> mark],
    leading <- \E r \in Requests : reqs[r] # Idle

LifecycleSpec == Register!Spec

=============================================================================
