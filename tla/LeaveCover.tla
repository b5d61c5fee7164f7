----------------------------- MODULE LeaveCover -----------------------------
(***************************************************************************)
(* Teacher leave and the substitute covers laid over the timetable.  A     *)
(* leave takes a set of slots (a slot is a period of a calendar day); a    *)
(* cover puts a substitute in a class for one slot of an active leave.     *)
(*                                                                         *)
(* No handler is transactional: what it has read (the overlapping leaves,  *)
(* the status of a leave, the active leaves of the day, the cover already  *)
(* there) may have changed when it writes.  The database alone enforces    *)
(* one cover per class and slot, and one per substitute and slot.          *)
(***************************************************************************)
EXTENDS Naturals

CONSTANTS
    Teachers,   \* users with the role TEACHER
    Leaves,     \* ids of TeacherLeave rows; bounds how many are ever created
    Slots,      \* (date, period) pairs
    Classes,    \* class sections
    Spans,      \* the sets of slots a leave can take
    Teaching,   \* <<teacher, slot>>: who has a class of their own when
    Requests,   \* slots for handlers in flight
    NoLeave, NoCover, Same

Cells == Slots \X Classes
Open == {"PENDING", "ACTIVE"}
Closed == {"REJECTED", "CANCELLED"}
Statuses == Open \cup Closed
Leave == [teacher : Teachers, span : Spans, status : Statuses]
Cover == [leave : Leaves, orig : Teachers, sub : Teachers]

ASSUME TimetableKnown == Spans \subseteq SUBSET Slots /\ Teaching \subseteq Teachers \X Slots
ASSUME Distinguished ==
    NoLeave \notin Leave /\ NoCover \notin Cover /\ Same \notin Statuses /\ Same \notin Spans

\* The handlers in flight: what each has read, and is about to write.
CreateRequest == [op : {"create"}, leave : Leave]
PatchRequest == [op : {"patch"}, step : {"check", "write", "drop"}, id : Leaves,
                 by : {"approver", "owner"}, read : Statuses,
                 span : Spans \cup {Same}, to : Statuses \cup {Same}, drops : 0..2]
AssignRequest == [op : {"assign"}, step : {"leave", "find", "write"}, id : Leaves,
                  cell : Cells, orig : Teachers, sub : Teachers,
                  row : {"none", "held", "gone"}]
Idle == [op |-> "none"]

VARIABLES
    leaves,   \* the TeacherLeave rows
    covers,   \* the TimetableSubstitution row of each cell
    reqs,     \* the handlers in flight
    behind    \* history: those who have looked at the leaves of a teacher, theirs to change or
              \* to send elsewhere, that another one has written since

vars == <<leaves, covers, reqs, behind>>

TypeOK ==
    /\ leaves \in [Leaves -> Leave \cup {NoLeave}]
    /\ covers \in [Cells -> Cover \cup {NoCover}]
    /\ reqs \in [Requests -> CreateRequest \cup PatchRequest \cup AssignRequest \cup {Idle}]
    /\ behind \subseteq Requests

Init ==
    /\ leaves = [l \in Leaves |-> NoLeave]
    /\ covers = [c \in Cells |-> NoCover]
    /\ reqs = [r \in Requests |-> Idle]
    /\ behind = {}

-----------------------------------------------------------------------------
Exists(l) == leaves[l] # NoLeave
Status(l) == leaves[l].status
Active(l) == Exists(l) /\ Status(l) = "ACTIVE"

\* Mutant of Conflicts: only active leaves count, not the pending requests.
ConflictsWithActive(t, span, ids) ==
    \E l \in ids : /\ Exists(l) /\ leaves[l].teacher = t /\ Status(l) = "ACTIVE"
                   /\ leaves[l].span \cap span # {}

\* leavesConflict against the PENDING and ACTIVE leaves of the teacher.
Conflicts(t, span, ids) ==
    \E l \in ids : /\ Exists(l) /\ leaves[l].teacher = t /\ Status(l) \in Open
                   /\ leaves[l].span \cap span # {}

\* leaveCoversDate and leaveAppliesToPeriod, which hold of an active leave only.
Absent(l, t, slot) ==
    Active(l) /\ leaves[l].teacher = t /\ slot \in leaves[l].span

OnLeave(t, slot) == \E l \in Leaves : Absent(l, t, slot)

At(r, op, step) == reqs[r].op = op /\ reqs[r].step = step
Becomes(r, q) ==
    /\ reqs' = [reqs EXCEPT ![r] = q]
    /\ behind' = IF q = Idle THEN behind \ {r} ELSE behind
Start(r, q) == reqs[r] = Idle /\ Becomes(r, q)
Ends(r) == Becomes(r, Idle)

\* Handlers that have looked at the leaves of t, or at one of them, and are to write one, or
\* to make t a substitute.
LooksAt(q, t) ==
    \/ q.op = "assign" /\ q.sub = t
    \/ q.op = "create" /\ q.leave.teacher = t
    \/ q.op = "patch" /\ q.step # "drop" /\ leaves[q.id].teacher = t

\* The handler has written a leave of t, and goes on; the others have missed it.
Writes(r, t, q) ==
    /\ reqs' = [reqs EXCEPT ![r] = q]
    /\ behind' = {x \in Requests \ {r} : x \in behind \/ LooksAt(reqs[x], t)}

\* Any awaited call may reject, and the process may stop.
RequestFails(r) ==
    /\ reqs[r] # Idle
    /\ Ends(r)
    /\ UNCHANGED <<leaves, covers>>

-----------------------------------------------------------------------------
(***************************************************************************)
(* POST /leaves: an approver's leave is active at once, a teacher's own    *)
(* request is pending.                                                     *)
(***************************************************************************)
CreateCheck(r, t, span, by) ==
    /\ ~Conflicts(t, span, Leaves)
    /\ Start(r, [op |-> "create",
                 leave |-> [teacher |-> t, span |-> span,
                            status |-> IF by = "approver" THEN "ACTIVE" ELSE "PENDING"]])
    /\ UNCHANGED <<leaves, covers>>

CreateWrite(r) ==
    /\ reqs[r].op = "create"
    /\ \E l \in Leaves : ~Exists(l) /\ leaves' = [leaves EXCEPT ![l] = reqs[r].leave]
    /\ Writes(r, reqs[r].leave.teacher, Idle)
    /\ UNCHANGED covers

(***************************************************************************)
(* PATCH and DELETE /leaves/:id: read the row, check the transition (and   *)
(* the new dates) against what was read, update by id, and drop the covers *)
(* if the row read was active and the update closes it.                    *)
(***************************************************************************)
MayBecome(from, to) ==
    \/ to \in {from, Same}
    \/ from = "PENDING" /\ to # "PENDING"
    \/ from = "ACTIVE" /\ to = "CANCELLED"

\* An owner who is no approver may cancel, and only what is still pending.
MayEdit(by, l, span, to) ==
    by = "owner" => span = Same /\ to = "CANCELLED" /\ Status(l) = "PENDING"

\* The handler drops the covers twice over when it cancels an active leave.
PatchRead(r, by, l, span, to) ==
    /\ Exists(l) /\ MayEdit(by, l, span, to) /\ MayBecome(Status(l), to)
    /\ span # Same \/ to # Same
    /\ Start(r, [op |-> "patch", step |-> IF span = Same THEN "write" ELSE "check",
                 id |-> l, by |-> by, read |-> Status(l), span |-> span, to |-> to,
                 drops |-> IF Status(l) = "ACTIVE" /\ to = "CANCELLED" THEN 2 ELSE 0])
    /\ UNCHANGED <<leaves, covers>>

\* Mutant of DeleteRead: DELETE cancels and leaves the covers to PATCH.
DeleteReadKeepsCovers(r, by, l) ==
    /\ Exists(l) /\ MayEdit(by, l, Same, "CANCELLED") /\ Status(l) \in Open
    /\ Start(r, [op |-> "patch", step |-> "write", id |-> l, by |-> by,
                 read |-> Status(l), span |-> Same, to |-> "CANCELLED", drops |-> 0])
    /\ UNCHANGED <<leaves, covers>>

DeleteRead(r, by, l) ==
    /\ Exists(l) /\ MayEdit(by, l, Same, "CANCELLED") /\ Status(l) \in Open
    /\ Start(r, [op |-> "patch", step |-> "write", id |-> l, by |-> by,
                 read |-> Status(l), span |-> Same, to |-> "CANCELLED",
                 drops |-> IF Status(l) = "ACTIVE" THEN 1 ELSE 0])
    /\ UNCHANGED <<leaves, covers>>

PatchCheck(r) ==
    LET q == reqs[r]
    IN  /\ At(r, "patch", "check")
        /\ Becomes(r, IF Conflicts(leaves[q.id].teacher, q.span, Leaves \ {q.id}) THEN Idle
                      ELSE [q EXCEPT !.step = "write"])
        /\ UNCHANGED <<leaves, covers>>

PatchWrite(r) ==
    LET q == reqs[r]
    IN  /\ At(r, "patch", "write")
        /\ leaves' = [leaves EXCEPT ![q.id].span = IF q.span = Same THEN @ ELSE q.span,
                                    ![q.id].status = IF q.to = Same THEN @ ELSE q.to]
        /\ Writes(r, leaves[q.id].teacher,
                  IF q.drops = 0 THEN Idle ELSE [q EXCEPT !.step = "drop"])
        /\ UNCHANGED covers

\* A deleted cover row is lost to the handlers that have found it.
Loses(q, cells) ==
    IF q.op = "assign" /\ q.cell \in cells /\ q.row = "held" THEN [q EXCEPT !.row = "gone"] ELSE q
Delete(cells) == covers' = [c \in Cells |-> IF c \in cells THEN NoCover ELSE covers[c]]

PatchDrop(r) ==
    LET q == reqs[r]
        mine == {c \in Cells : covers[c] # NoCover /\ covers[c].leave = q.id}
    IN  /\ At(r, "patch", "drop")
        /\ Delete(mine)
        /\ reqs' = [x \in Requests |-> IF x # r THEN Loses(reqs[x], mine)
                                       ELSE IF q.drops = 1 THEN Idle
                                       ELSE [q EXCEPT !.drops = @ - 1]]
        /\ UNCHANGED <<leaves, behind>>

-----------------------------------------------------------------------------
(***************************************************************************)
(* POST /substitutes, one item: the active leaves of the day are read      *)
(* first, then the leave the request names (if it names one), then the     *)
(* cover already in the cell, which is overwritten.                        *)
(***************************************************************************)
\* Mutant of Eligible: a substitute on leave is found out by the timetable alone.
EligibleByTimetable(orig, sub, slot) == sub # orig /\ <<sub, slot>> \notin Teaching

Eligible(orig, sub, slot) ==
    /\ sub # orig
    /\ ~OnLeave(sub, slot)
    /\ <<sub, slot>> \notin Teaching

AssignRead(r, orig, sub, cell, l) ==
    /\ Eligible(orig, sub, cell[1])
    /\ \E step \in {"leave", "find"} :
          /\ step = "find" => Absent(l, orig, cell[1])    \* no leaveId: taken from the list
          /\ Start(r, [op |-> "assign", step |-> step, id |-> l, cell |-> cell,
                       orig |-> orig, sub |-> sub, row |-> "none"])
    /\ UNCHANGED <<leaves, covers>>

AssignLeave(r) ==
    LET q == reqs[r]
    IN  /\ At(r, "assign", "leave")
        /\ Becomes(r, IF Absent(q.id, q.orig, q.cell[1]) THEN [q EXCEPT !.step = "find"] ELSE Idle)
        /\ UNCHANGED <<leaves, covers>>

AssignFind(r) ==
    LET q == reqs[r]
    IN  /\ At(r, "assign", "find")
        /\ Becomes(r, [q EXCEPT !.step = "write",
                                !.row = IF covers[q.cell] = NoCover THEN "none" ELSE "held"])
        /\ UNCHANGED <<leaves, covers>>

\* TimetableSub_teacher_key: one cover of a substitute per slot.
Booked(sub, cell) ==
    \E c \in Cells \ {cell} : c[1] = cell[1] /\ covers[c] # NoCover /\ covers[c].sub = sub

\* Update by id, or create: a row that is gone, the cell taken meanwhile or a
\* substitute booked elsewhere makes it fail.
AssignWrite(r) ==
    LET q == reqs[r]
        free == \/ q.row = "held"
                \/ q.row = "none" /\ covers[q.cell] = NoCover
    IN  /\ At(r, "assign", "write")
        /\ covers' = [covers EXCEPT ![q.cell] =
               IF free /\ ~Booked(q.sub, q.cell)
               THEN [leave |-> q.id, orig |-> q.orig, sub |-> q.sub] ELSE @]
        /\ Ends(r)
        /\ UNCHANGED leaves

\* DELETE /substitutes/:id.
Remove(cell) ==
    /\ covers[cell] # NoCover
    /\ Delete({cell})
    /\ reqs' = [x \in Requests |-> Loses(reqs[x], {cell})]
    /\ UNCHANGED <<leaves, behind>>

-----------------------------------------------------------------------------
Arrives(r) ==
    /\ reqs[r] = Idle
    /\ \/ \E t \in Teachers, span \in Spans, by \in {"approver", "owner"} : CreateCheck(r, t, span, by)
       \/ \E by \in {"approver", "owner"}, l \in Leaves :
             \/ DeleteRead(r, by, l)
             \/ \E span \in Spans \cup {Same}, to \in Statuses \cup {Same} : PatchRead(r, by, l, span, to)
       \/ \E orig, sub \in Teachers, cell \in Cells, l \in Leaves : AssignRead(r, orig, sub, cell, l)

Step(r) ==
    \/ CreateWrite(r) \/ PatchCheck(r) \/ PatchWrite(r) \/ PatchDrop(r)
    \/ AssignLeave(r) \/ AssignFind(r) \/ AssignWrite(r)

Next ==
    \/ \E r \in Requests : Arrives(r) \/ Step(r) \/ RequestFails(r)
    \/ \E cell \in Cells : Remove(cell)

Spec == Init /\ [][Next]_vars

-----------------------------------------------------------------------------
(***************************************************************************)
(* Properties.                                                             *)
(***************************************************************************)
\* Two open leaves of one teacher share a slot.
Overlap(l, m) ==
    /\ l # m /\ Exists(l) /\ Exists(m)
    /\ leaves[l].teacher = leaves[m].teacher
    /\ Status(l) \in Open /\ Status(m) \in Open
    /\ leaves[l].span \cap leaves[m].span # {}

\* docs/design/teacher-leave-substitutes.md:49, "one active leave per teacher may
\* overlap dates only if periods differ": whatever is created, moved, closed and
\* approved, open leaves come to overlap only by a handler that writes after another
\* one has written a leave of the same teacher, behind its back.
LeavesDisjoint ==
    [][\A l, m \in Leaves :
          ~Overlap(l, m) /\ Overlap(l, m)' =>
              \E r \in behind : CreateWrite(r) \/ PatchWrite(r)]_vars

\* A cover stands on an active leave, or its leave's handler is about to drop it.
Backed(cell) ==
    covers[cell] # NoCover =>
        \/ Active(covers[cell].leave)
        \/ \E r \in Requests : At(r, "patch", "drop") /\ reqs[r].id = covers[cell].leave

\* routes/teacherLeave.js:361, "Drop covers whenever leave leaves ACTIVE": a cover is left
\* without its leave only when the handler fails before it drops the covers, when the
\* cover is written for a leave that is active no more, or when a leave is updated by a
\* handler that read another status than the one it overwrites.
OrphansExplained ==
    [][\A cell \in Cells :
          (Backed(cell) /\ ~Backed(cell)') =>
              \E r \in Requests :
                  \/ RequestFails(r)
                  \/ AssignWrite(r) /\ ~Active(reqs[r].id)
                  \/ PatchWrite(r) /\ reqs[r].read # Status(reqs[r].id)]_vars

\* The substitute of a cover is on leave in that very slot.
Away(cell) == covers[cell] # NoCover /\ OnLeave(covers[cell].sub, cell[1])

\* docs/design/teacher-leave-substitutes.md:97, "Teachers on leave are not free for
\* substitute duty that day": a class comes to wait for a substitute who is on leave only
\* when a leave is written over covers that stand, or when the cover is written by a handler
\* that looked before the substitute's leaves changed.
SubstitutesPresent ==
    [][\A cell \in Cells :
          ~Away(cell) /\ Away(cell)' =>
              \/ covers'[cell] = covers[cell] /\ \E r \in Requests : CreateWrite(r) \/ PatchWrite(r)
              \/ \E r \in behind : AssignWrite(r) /\ reqs[r].cell = cell]_vars

\* A handler that found the leave active and closes it has covers to drop.
CancelsOweDrops ==
    \A r \in Requests : reqs[r].op = "patch" =>
        /\ reqs[r].step = "drop" => reqs[r].drops # 0
        /\ (reqs[r].read = "ACTIVE" /\ reqs[r].to \notin {"ACTIVE", Same}) => reqs[r].drops # 0

\* A leave row is never deleted, so the row a handler updates is there.
PatchedRowExists == \A r \in Requests : reqs[r].op = "patch" => Exists(reqs[r].id)

\* A handler that nobody went behind is right about the leaves it has looked at.
Knows(q) ==
    /\ q.op = "create" => q.leave.status \in Open /\ ~Conflicts(q.leave.teacher, q.leave.span, Leaves)
    /\ q.op = "assign" => ~OnLeave(q.sub, q.cell[1])
    /\ q.op = "patch" /\ q.step # "drop" => q.read = Status(q.id) /\ MayBecome(q.read, q.to)
    /\ q.op = "patch" /\ q.step = "write" /\ q.span # Same =>
          ~Conflicts(leaves[q.id].teacher, q.span, Leaves \ {q.id})

UpToDate == \A r \in Requests \ behind : Knows(reqs[r])

\* The inductive invariant of the proofs.
IInv == TypeOK /\ PatchedRowExists /\ CancelsOweDrops /\ UpToDate

=============================================================================
