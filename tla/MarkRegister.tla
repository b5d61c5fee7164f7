---------------------------- MODULE MarkRegister ----------------------------
(***************************************************************************)
(* One mark register: the marks of one exam, subject and class section,    *)
(* with the teachers' access requests for it and its entry deadline.       *)
(*                                                                         *)
(* Every route handler is an async function.  It reads rows, decides, and  *)
(* writes in later awaits that re-check nothing, so other handlers run in  *)
(* between.  A handler in flight is a slot of reqs; each action is one     *)
(* awaited database call, with the code that follows it up to the next.    *)
(***************************************************************************)
CONSTANTS
    Teachers,      \* TEACHER users assigned to this register
    Coordinators,  \* EXAM_COORDINATOR users
    Principals,    \* PRINCIPAL users
    Students,      \* students of the class section that sit the exam
    Scores,        \* what a mark can be: marks obtained, or an outcome without marks
    Practicals,    \* practical marks
    NoPractical,
    Kinds,         \* kinds of access request in play
    Requests,      \* slots for handlers in flight
    NoMark, Blank, Skip

Leaders == Coordinators \cup Principals      \* isLeadership
Writers == Teachers \cup Coordinators        \* principals get 403 on entry
Staff == Teachers \cup Leaders

ASSUME RolesDisjoint ==
    /\ Teachers \cap Leaders = {}
    /\ Coordinators \cap Principals = {}

ASSUME KindsKnown == Kinds \subseteq {"LATE_ENTRY", "EDIT"}

Statuses == {"DRAFT", "SUBMITTED", "APPROVED"}

\* What a cell can hold.
Values == [score : Scores, practical : Practicals \cup {NoPractical}]
Mark == [value : Values, status : Statuses, by : Staff]

ASSUME Distinguished ==
    /\ Blank # Skip
    /\ {Blank, Skip} \cap Values = {}
    /\ NoMark \notin Mark \cup [value : Values, status : Statuses]

Ops == {"save", "upload", "submit", "moderate", "ask", "review"}
Steps == {"plan", "delete", "create", "auditNew", "update", "auditOld",
          "check", "items", "read", "lock", "clear", "write", "audit", "reopen"}

(***************************************************************************)
(* What a handler holds across its awaits: the cells it was given (entry,  *)
(* Skip where it will write nothing), those whose row it has found, found  *)
(* locked, or found and since lost (gone: the row was deleted, and its id  *)
(* never names another), its progress (todo, ready, written, failed), the  *)
(* teacher and kind it is about, and what it knows of the access row.      *)
(***************************************************************************)
Request == [op : Ops, user : Staff, step : Steps, owner : Staff,
            kind : {"LATE_ENTRY", "EDIT"},
            entry : [Students -> Values \cup {Blank, Skip}],
            found : SUBSET Students, locked : SUBSET Students, gone : SUBSET Students,
            todo : SUBSET Students, ready : SUBSET Students, written : SUBSET Students,
            failed : BOOLEAN, row : {"none", "held", "gone"}]

Idle == [op |-> "none"]

VARIABLES
    marks,         \* the Mark row of each student, or NoMark
    trail,         \* the MarkAudit newValues of each student's current row: scores alone
    access,        \* the status of each teacher's MarkEntryAccessRequest by kind
    pastDeadline,  \* isPastDeadline(exam.marksEntryDeadline)
    reqs           \* the handlers in flight

vars == <<marks, trail, access, pastDeadline, reqs>>

TypeOK ==
    /\ marks \in [Students -> Mark \cup {NoMark}]
    /\ trail \in [Students -> SUBSET Scores]
    /\ access \in [Teachers -> [Kinds -> {"NONE", "PENDING", "APPROVED", "REJECTED"}]]
    /\ pastDeadline \in BOOLEAN
    /\ reqs \in [Requests -> Request \cup {Idle}]

Init ==
    /\ marks = [s \in Students |-> NoMark]
    /\ trail = [s \in Students |-> {}]
    /\ access = [t \in Teachers |-> [k \in Kinds |-> "NONE"]]
    /\ pastDeadline = FALSE
    /\ reqs = [r \in Requests |-> Idle]

-----------------------------------------------------------------------------
(***************************************************************************)
(* Reading the register.                                                   *)
(***************************************************************************)
Has(s) == marks[s] # NoMark
Locked(s) == Has(s) /\ marks[s].status \in {"SUBMITTED", "APPROVED"}
Granted(t, k) == k \in Kinds /\ access[t][k] = "APPROVED"

\* getMarkEntryAccessMap(...).bySubject[subject].canEnter: either grant admits.
CanEnter(t) == ~pastDeadline \/ Granted(t, "LATE_ENTRY") \/ Granted(t, "EDIT")

\* teacherHasMarkEntryAccess: only a late-entry grant counts here.
HasEntryAccess(t) == ~pastDeadline \/ Granted(t, "LATE_ENTRY")

\* Mutant of MutateBlocked: the lock is not looked at, only the deadline.
MutateBlockedByDeadlineOnly(u, isLocked) == u \in Teachers /\ ~CanEnter(u)

\* mutateBlockFromAccess, for leadership always null.
MutateBlocked(u, isLocked) ==
    /\ u \in Teachers
    /\ ~CanEnter(u) \/ (isLocked /\ ~Granted(u, "EDIT"))

-----------------------------------------------------------------------------
(***************************************************************************)
(* Handlers start, advance and end.                                        *)
(***************************************************************************)
NewRequest(op, u, step) ==
    [op |-> op, user |-> u, step |-> step, owner |-> u, kind |-> "EDIT",
     entry |-> [s \in Students |-> Skip],
     found |-> {}, locked |-> {}, gone |-> {}, todo |-> {}, ready |-> {}, written |-> {},
     failed |-> FALSE, row |-> "none"]

Start(r, q) == reqs[r] = Idle /\ reqs' = [reqs EXCEPT ![r] = q]
At(r, op, step) == reqs[r].op = op /\ reqs[r].step = step
Becomes(r, q) == reqs' = [reqs EXCEPT ![r] = q]
Ends(r) == Becomes(r, Idle)

\* mark.update({ where: { id } }) finds the row only if nobody deleted it.
StillThere(q, s) == s \in q.found \ q.gone
Loses(q, cells) == [q EXCEPT !.gone = @ \cup (cells \cap q.found)]

\* Any awaited call may reject, and the process may stop: the handler goes no
\* further, and what it has written stays.
RequestFails(r) ==
    /\ reqs[r] # Idle
    /\ Ends(r)
    /\ UNCHANGED <<marks, trail, access, pastDeadline>>

-----------------------------------------------------------------------------
(***************************************************************************)
(* PUT /marks: read the cells, read access and plan, then delete, create   *)
(* and update, each group followed by its audit rows.                      *)
(***************************************************************************)
\* What a request asks of the cells.  A cell left as it is (same score, or blank
\* with no row) comes out noop, unchanged or refused: no write in any case.
Entries ==
    {e \in [Students -> Values \cup {Blank, Skip}] :
        /\ \E s \in Students : e[s] # Skip
        /\ \A s \in Students : e[s] = Blank => Has(s)
        /\ \A s \in Students : Has(s) => e[s] # marks[s].value}

Reads(op, u, step, e) ==
    LET cells == {s \in Students : e[s] # Skip}
    IN  [NewRequest(op, u, step) EXCEPT !.entry = e,
            !.found = {s \in cells : Has(s)}, !.locked = {s \in cells : Locked(s)}]

SaveRead(r, u) ==
    /\ \E e \in Entries : Start(r, Reads("save", u, "plan", e))
    /\ UNCHANGED <<marks, trail, access, pastDeadline>>

Deletes(q) == {s \in Students : q.entry[s] = Blank}
Creates(q) == {s \in Students : q.entry[s] \in Values /\ s \notin q.found}
Updates(q) == {s \in Students : q.entry[s] \in Values /\ s \in q.found}

\* applyMarkPlans goes through the groups in this order and skips empty ones.
FromUpdate(q) ==
    IF Updates(q) = {} THEN Idle ELSE [q EXCEPT !.step = "update", !.todo = Updates(q)]
FromCreate(q) == IF Creates(q) = {} THEN FromUpdate(q) ELSE [q EXCEPT !.step = "create"]
FromDelete(q) == IF Deletes(q) = {} THEN FromCreate(q) ELSE [q EXCEPT !.step = "delete"]

\* planMarkMutations: a blocked cell becomes an error result, the others go on.
SavePlan(r) ==
    LET q == reqs[r]
        plan == [s \in Students |-> IF MutateBlocked(q.user, s \in q.locked) THEN Skip
                                    ELSE q.entry[s]]
    IN  /\ At(r, "save", "plan")
        /\ Becomes(r, FromDelete([q EXCEPT !.entry = plan, !.locked = {}]))
        /\ UNCHANGED <<marks, trail, access, pastDeadline>>

\* One transaction: an audit row of a mark that is gone breaks its foreign key and
\* rolls both statements back.  Deleting the marks deletes their audit rows.
SaveDelete(r) ==
    LET q == reqs[r]
        dels == Deletes(q)
        others(x) == IF reqs[x] = Idle THEN Idle ELSE Loses(reqs[x], dels)
    IN  /\ At(r, "save", "delete")
        /\ IF \A s \in dels : StillThere(q, s)
           THEN /\ marks' = [s \in Students |-> IF s \in dels THEN NoMark ELSE marks[s]]
                /\ trail' = [s \in Students |-> IF s \in dels THEN {} ELSE trail[s]]
                /\ reqs' = [x \in Requests |-> IF x = r THEN FromCreate(Loses(q, dels)) ELSE others(x)]
           ELSE Ends(r) /\ UNCHANGED <<marks, trail>>
        /\ UNCHANGED <<access, pastDeadline>>

\* One INSERT: a cell that got its mark meanwhile breaks the unique key for all.
SaveCreate(r) ==
    LET q == reqs[r]
        new(s) == [value |-> q.entry[s], status |-> "DRAFT", by |-> q.user]
    IN  /\ At(r, "save", "create")
        /\ IF \E s \in Creates(q) : Has(s)
           THEN Ends(r) /\ UNCHANGED marks
           ELSE /\ marks' = [s \in Students |-> IF s \in Creates(q) THEN new(s) ELSE marks[s]]
                /\ Becomes(r, [q EXCEPT !.step = "auditNew"])
        /\ UNCHANGED <<trail, access, pastDeadline>>

\* markAudit.createMany: all the rows or none.  auditValueFor leaves the practical marks out.
Audits(cells, entry) ==
    trail' = [s \in Students |-> IF s \in cells THEN trail[s] \cup {entry[s].score} ELSE trail[s]]

\* The created rows are found again by cell, whichever rows those are by now; a
\* missing one throws, and so does an audit of one deleted after the read.
SaveAuditCreated(r) ==
    LET q == reqs[r]
    IN  /\ At(r, "save", "auditNew")
        /\ IF \A s \in Creates(q) : Has(s)
           THEN Audits(Creates(q), q.entry) /\ Becomes(r, FromUpdate(q))
           ELSE Ends(r) /\ UNCHANGED trail
        /\ UNCHANGED <<marks, access, pastDeadline>>

\* Mutant of SaveUpdate: the update leaves the status of the row alone.
SaveUpdateKeepsStatus(r) ==
    LET q == reqs[r]
    IN  /\ At(r, "save", "update")
        /\ \E s \in q.todo :
            LET ok == StillThere(q, s)
                next == [q EXCEPT !.todo = @ \ {s}, !.failed = @ \/ ~ok]
            IN  /\ marks' = [marks EXCEPT ![s] =
                       IF ok THEN [@ EXCEPT !.value = q.entry[s], !.by = q.user] ELSE @]
                /\ Becomes(r, IF next.todo # {} THEN next
                              ELSE IF next.failed THEN Idle
                              ELSE [next EXCEPT !.step = "auditOld"])
        /\ UNCHANGED <<trail, access, pastDeadline>>

\* The updates run side by side (Promise.all), each by row id and with no look at
\* the status planned against; one that fails fails the request, not the others.
SaveUpdate(r) ==
    LET q == reqs[r]
    IN  /\ At(r, "save", "update")
        /\ \E s \in q.todo :
            LET ok == StillThere(q, s)
                next == [q EXCEPT !.todo = @ \ {s}, !.failed = @ \/ ~ok]
            IN  /\ marks' = [marks EXCEPT ![s] =
                       IF ok THEN [value |-> q.entry[s], status |-> "DRAFT", by |-> q.user] ELSE @]
                /\ Becomes(r, IF next.todo # {} THEN next
                              ELSE IF next.failed THEN Idle
                              ELSE [next EXCEPT !.step = "auditOld"])
        /\ UNCHANGED <<trail, access, pastDeadline>>

SaveAuditUpdated(r) ==
    LET q == reqs[r]
    IN  /\ At(r, "save", "auditOld")
        /\ IF \A s \in Updates(q) : StillThere(q, s) THEN Audits(Updates(q), q.entry)
                                                     ELSE UNCHANGED trail
        /\ Ends(r)
        /\ UNCHANGED <<marks, access, pastDeadline>>

-----------------------------------------------------------------------------
(***************************************************************************)
(* POST /marks/upload with commit: refuse the file if any cell is blocked, *)
(* then look up, write and audit every cell, the cells side by side.       *)
(***************************************************************************)
\* Files and moderations know no practical marks: those that a row has stay.
Plain == {v \in Values : v.practical = NoPractical}
Put(s, v, status, by) ==
    [value |-> [v EXCEPT !.practical = IF Has(s) THEN marks[s].value.practical ELSE @],
     status |-> status, by |-> by]

UploadRead(r, u) ==
    /\ \E e \in [Students -> Plain \cup {Skip}] :
          /\ \E s \in Students : e[s] # Skip
          /\ Start(r, Reads("upload", u, "check", e))
    /\ UNCHANGED <<marks, trail, access, pastDeadline>>

UploadCheck(r) ==
    LET q == reqs[r]
        cells == {s \in Students : q.entry[s] # Skip}
    IN  /\ At(r, "upload", "check")
        /\ Becomes(r, IF \E s \in cells : MutateBlocked(q.user, s \in q.locked) THEN Idle
                      ELSE [q EXCEPT !.step = "items", !.todo = cells,
                                     !.found = {}, !.locked = {}, !.gone = {}])
        /\ UNCHANGED <<marks, trail, access, pastDeadline>>

\* The tenant client's upsert is a findFirst, then an update or a create.
UploadFind(r) ==
    LET q == reqs[r]
    IN  /\ At(r, "upload", "items")
        /\ \E s \in q.todo :
              Becomes(r, [q EXCEPT !.todo = @ \ {s}, !.ready = @ \cup {s},
                                   !.found = IF Has(s) THEN @ \cup {s} ELSE @])
        /\ UNCHANGED <<marks, trail, access, pastDeadline>>

\* Mutant of UploadStatus: an uploaded file counts as final whoever sends it.
UploadStatusFinal(u) == IF u \in Staff THEN "APPROVED" ELSE "DRAFT"

UploadStatus(u) == IF u \in Leaders THEN "APPROVED" ELSE "DRAFT"

UploadRest(q) == IF q.todo \cup q.ready \cup q.written = {} THEN Idle ELSE q

\* Mutant of UploadWrite: the cell is written and never audited.
UploadWriteUnaudited(r) ==
    LET q == reqs[r]
    IN  /\ At(r, "upload", "items")
        /\ \E s \in q.ready :
            LET ok == IF s \in q.found THEN StillThere(q, s) ELSE ~Has(s)
                put == Put(s, q.entry[s], UploadStatus(q.user), q.user)
            IN  /\ marks' = [marks EXCEPT ![s] = IF ok THEN put ELSE @]
                /\ Becomes(r, UploadRest([q EXCEPT !.ready = @ \ {s}]))
        /\ UNCHANGED <<trail, access, pastDeadline>>

\* A cell whose row is gone, or was created meanwhile, fails; the others go on.
UploadWrite(r) ==
    LET q == reqs[r]
    IN  /\ At(r, "upload", "items")
        /\ \E s \in q.ready :
            LET ok == IF s \in q.found THEN StillThere(q, s) ELSE ~Has(s)
                put == Put(s, q.entry[s], UploadStatus(q.user), q.user)
            IN  /\ marks' = [marks EXCEPT ![s] = IF ok THEN put ELSE @]
                /\ Becomes(r, UploadRest(
                       [q EXCEPT !.ready = @ \ {s},
                                 !.written = IF ok THEN @ \cup {s} ELSE @,
                                 !.found = IF ok THEN @ \cup {s} ELSE @]))
        /\ UNCHANGED <<trail, access, pastDeadline>>

UploadAudit(r) ==
    LET q == reqs[r]
    IN  /\ At(r, "upload", "items")
        /\ \E s \in q.written :
              /\ IF StillThere(q, s) THEN Audits({s}, q.entry) ELSE UNCHANGED trail
              /\ Becomes(r, UploadRest([q EXCEPT !.written = @ \ {s}]))
        /\ UNCHANGED <<marks, access, pastDeadline>>

-----------------------------------------------------------------------------
(***************************************************************************)
(* POST /marks/submit: check access, read the owner's drafts, lock the     *)
(* rows read, clear the owner's edit grant.                                *)
(***************************************************************************)
SubmitAllowed(u) == u \in Teachers => HasEntryAccess(u)

SubmitCheck(r, u, owner) ==
    /\ SubmitAllowed(u)
    /\ u \in Teachers => owner = u       \* leadership names the teacher
    /\ Start(r, [NewRequest("submit", u, "read") EXCEPT !.owner = owner])
    /\ UNCHANGED <<marks, trail, access, pastDeadline>>

SubmitRead(r) ==
    LET q == reqs[r]
        drafts == {s \in Students : Has(s) /\ marks[s].status = "DRAFT" /\ marks[s].by = q.owner}
    IN  /\ At(r, "submit", "read")
        /\ Becomes(r, IF drafts = {} THEN Idle
                      ELSE [q EXCEPT !.step = "lock", !.found = drafts])
        /\ UNCHANGED <<marks, trail, access, pastDeadline>>

\* updateMany({ where: { id: { in: drafts } } }): by id alone.
SubmitLock(r) ==
    LET q == reqs[r]
    IN  /\ At(r, "submit", "lock")
        /\ marks' = [s \in Students |-> IF StillThere(q, s)
                                        THEN [marks[s] EXCEPT !.status = "SUBMITTED"]
                                        ELSE marks[s]]
        /\ Becomes(r, [q EXCEPT !.step = "clear", !.found = {}, !.gone = {}])
        /\ UNCHANGED <<trail, access, pastDeadline>>

\* Deleting the grant takes the row from under a request that has read it.
SubmitClearGrant(r) ==
    LET owner == reqs[r].owner
        loses(x) == /\ reqs[x].op = "ask" /\ reqs[x].owner = owner
                    /\ reqs[x].kind = "EDIT" /\ reqs[x].row = "held"
    IN  /\ At(r, "submit", "clear")
        /\ IF owner \in Teachers /\ Granted(owner, "EDIT")
           THEN /\ access' = [access EXCEPT ![owner]["EDIT"] = "NONE"]
                /\ reqs' = [x \in Requests |-> IF x = r THEN Idle
                                               ELSE IF loses(x) THEN [reqs[x] EXCEPT !.row = "gone"]
                                               ELSE reqs[x]]
           ELSE Ends(r) /\ UNCHANGED access
        /\ UNCHANGED <<marks, trail, pastDeadline>>

-----------------------------------------------------------------------------
(***************************************************************************)
(* POST /marks/approve and /unapprove: one UPDATE over a teacher's marks.  *)
(***************************************************************************)
MoveStatus(owner, from, to) ==
    LET moves(s) == Has(s) /\ marks[s].by = owner /\ marks[s].status = from
    IN  /\ \E s \in Students : moves(s)
        /\ marks' = [s \in Students |-> IF moves(s) THEN [marks[s] EXCEPT !.status = to]
                                        ELSE marks[s]]
        /\ UNCHANGED <<trail, access, pastDeadline, reqs>>

Approve(owner) == MoveStatus(owner, "SUBMITTED", "APPROVED")
Unapprove(owner) == MoveStatus(owner, "APPROVED", "SUBMITTED")

(***************************************************************************)
(* POST /marks/moderate: leadership sets one cell, which ends up APPROVED. *)
(***************************************************************************)
ModerateRead(r, l) ==
    /\ \E s \in Students, v \in Plain :
          Start(r, [NewRequest("moderate", l, "write") EXCEPT
                       !.entry[s] = v, !.todo = {s}, !.found = {x \in {s} : Has(x)},
                       !.owner = IF Has(s) THEN marks[s].by ELSE l])
    /\ UNCHANGED <<marks, trail, access, pastDeadline>>

ModerateWrite(r) ==
    LET q == reqs[r]
    IN  /\ At(r, "moderate", "write")
        /\ \E s \in q.todo :
            LET ok == IF s \in q.found THEN StillThere(q, s) ELSE ~Has(s)
                put == Put(s, q.entry[s], "APPROVED", q.owner)
            IN  /\ marks' = [marks EXCEPT ![s] = IF ok THEN put ELSE @]
                /\ Becomes(r, IF ok THEN [q EXCEPT !.step = "audit", !.found = {s}] ELSE Idle)
        /\ UNCHANGED <<trail, access, pastDeadline>>

ModerateAudit(r) ==
    LET q == reqs[r]
    IN  /\ At(r, "moderate", "audit")
        /\ Audits({s \in q.todo : StillThere(q, s)}, q.entry)
        /\ Ends(r)
        /\ UNCHANGED <<marks, access, pastDeadline>>

-----------------------------------------------------------------------------
(***************************************************************************)
(* POST /mark-access: a teacher asks for late entry or edit access.  The   *)
(* checks and the look at the existing row come before the write.          *)
(***************************************************************************)
HasLocked(t) == \E s \in Students : Locked(s) /\ marks[s].by = t

AskRead(r, t, k) ==
    /\ IF k = "LATE_ENTRY" THEN pastDeadline ELSE HasLocked(t)
    /\ access[t][k] \notin {"PENDING", "APPROVED"}     \* 409, and returned as it is
    /\ Start(r, [NewRequest("ask", t, "write") EXCEPT
                    !.kind = k, !.row = IF access[t][k] = "NONE" THEN "none" ELSE "held"])
    /\ UNCHANGED <<marks, trail, access, pastDeadline>>

\* Update the row read (404 when it is gone), or create one (unique per kind).
AskWrite(r) ==
    LET q == reqs[r]
        ok == \/ q.row = "held"
              \/ q.row = "none" /\ access[q.owner][q.kind] = "NONE"
    IN  /\ At(r, "ask", "write")
        /\ access' = [access EXCEPT ![q.owner][q.kind] = IF ok THEN "PENDING" ELSE @]
        /\ Ends(r)
        /\ UNCHANGED <<marks, trail, pastDeadline>>

(***************************************************************************)
(* PATCH /mark-access/:id: leadership decides, whatever the row's status   *)
(* is; approving an edit request then reopens the teacher's locked marks.  *)
(***************************************************************************)
ReviewWrite(r, l, t, k, verdict) ==
    /\ access[t][k] # "NONE"
    /\ access' = [access EXCEPT ![t][k] = verdict]
    /\ IF k = "EDIT" /\ verdict = "APPROVED"
       THEN Start(r, [NewRequest("review", l, "reopen") EXCEPT !.owner = t])
       ELSE reqs[r] = Idle /\ UNCHANGED reqs
    /\ UNCHANGED <<marks, trail, pastDeadline>>

ReviewReopen(r) ==
    LET owner == reqs[r].owner
        opens(s) == Locked(s) /\ marks[s].by = owner
    IN  /\ At(r, "review", "reopen")
        /\ marks' = [s \in Students |-> IF opens(s) THEN [marks[s] EXCEPT !.status = "DRAFT"]
                                        ELSE marks[s]]
        /\ Ends(r)
        /\ UNCHANGED <<trail, access, pastDeadline>>

\* The entry deadline passes, or PATCH /exams/:id moves it.
DeadlineMoves ==
    /\ pastDeadline' = ~pastDeadline
    /\ UNCHANGED <<marks, trail, access, reqs>>

-----------------------------------------------------------------------------
SaveStep(r) ==
    \/ SavePlan(r) \/ SaveDelete(r) \/ SaveCreate(r) \/ SaveAuditCreated(r)
    \/ SaveUpdate(r) \/ SaveAuditUpdated(r)
UploadStep(r) == UploadCheck(r) \/ UploadFind(r) \/ UploadWrite(r) \/ UploadAudit(r)
SubmitStep(r) == SubmitRead(r) \/ SubmitLock(r) \/ SubmitClearGrant(r)
ModerateStep(r) == ModerateWrite(r) \/ ModerateAudit(r)

\* The steps of a handler after its first.
Step(r) ==
    \/ SaveStep(r) \/ UploadStep(r) \/ SubmitStep(r) \/ ModerateStep(r)
    \/ AskWrite(r) \/ ReviewReopen(r)

Arrives(r) ==
    \/ \E u \in Writers : SaveRead(r, u) \/ UploadRead(r, u)
    \/ \E u \in Writers, owner \in Staff : SubmitCheck(r, u, owner)
    \/ \E l \in Leaders : ModerateRead(r, l)
    \/ \E t \in Teachers, k \in Kinds : AskRead(r, t, k)
    \/ \E l \in Leaders, t \in Teachers, k \in Kinds, verdict \in {"APPROVED", "REJECTED"} :
          ReviewWrite(r, l, t, k, verdict)

Next ==
    \/ \E r \in Requests : Arrives(r) \/ Step(r) \/ RequestFails(r)
    \/ \E owner \in Staff : Approve(owner) \/ Unapprove(owner)
    \/ DeadlineMoves

Spec == Init /\ [][Next]_vars

-----------------------------------------------------------------------------
(***************************************************************************)
(* Properties.                                                             *)
(***************************************************************************)
\* A row a handler has found and not lost is there (rows only go in SaveDelete).
HeldRowsExist ==
    \A r \in Requests : reqs[r] # Idle => \A s \in Students : StillThere(reqs[r], s) => Has(s)

\* Only leadership moderates; what a handler has yet to write or audit, cell by
\* cell, is a value; an upload erases nothing; a save goes cell by cell only through
\* its updates.
Pending(q) == q.todo \cup q.ready \cup q.written
WellFormed(q) ==
    /\ q.op = "moderate" => q.user \in Leaders
    /\ \A s \in Pending(q) : q.entry[s] \in Values
    /\ q.op = "upload" => \A s \in Students : q.entry[s] # Blank
    /\ q.op = "save" =>
          q.ready = {} /\ q.written = {} /\ (q.step # "update" => q.todo = {})

HandlersWellFormed == \A r \in Requests : reqs[r] # Idle => WellFormed(reqs[r])

\* The inductive invariant of the proofs.
IInv == TypeOK /\ HeldRowsExist /\ HandlersWellFormed

\* No audit row outlives its mark, and none is written for a cell without one.
NoOrphanAudits == \A s \in Students : ~Has(s) => trail[s] = {}

\* README.md:162, "marks stay draft until principal/coordinator clicks Approve":
\* a mark comes to stand as approved, or stands approved with another value, only
\* when leadership approves it or a leader's own handler writes it.  A teacher's
\* handlers never do that, however late after their reads their writes come.
ApprovedOnlyByLeadership ==
    [][\A s \in Students :
          (Has(s)' /\ marks'[s].status = "APPROVED" /\ marks'[s] # marks[s]) =>
              \/ \E owner \in Staff : Approve(owner)
              \/ \E r \in Requests :
                    reqs[r] # Idle /\ reqs[r].user \in Leaders /\ Step(r)]_vars

\* The register implements the life cycle of MarkLifecycle.
Cells == [s \in Students |-> IF Has(s) THEN [value |-> marks[s].value, status |-> marks[s].status]
                             ELSE NoMark]
Leading == \E r \in Requests : reqs[r] # Idle /\ reqs[r].user \in Leaders
Lifecycle == INSTANCE MarkLifecycle WITH cell <- Cells, leading <- Leading
LifecycleSpec == Lifecycle!Spec

\* A handler that has written a mark and not yet the audit row of its score.
Owes(q, s) ==
    /\ \/ q.op = "save" /\ q.step = "auditNew" /\ s \in Creates(q)
       \/ q.op = "save" /\ q.step \in {"update", "auditOld"}
                        /\ s \in Updates(q) \ q.todo /\ StillThere(q, s)
       \/ q.op = "upload" /\ s \in q.written /\ StillThere(q, s)
       \/ q.op = "moderate" /\ q.step = "audit" /\ StillThere(q, s)
    /\ q.entry[s].score = marks[s].value.score

Accounted(s) ==
    Has(s) => \/ marks[s].value.score \in trail[s]
              \/ \E r \in Requests : reqs[r] # Idle /\ Owes(reqs[r], s)

\* A save that stops because a row it planned to write or audit is gone.
SaveThrows(r) ==
    /\ reqs[r].op = "save" /\ reqs'[r] = Idle
    /\ \E s \in Students : reqs[r].entry[s] \in Values /\ (~Has(s) \/ s \in reqs[r].gone)

\* Every score a mark takes reaches the audit trail, which knows nothing of practical
\* marks: a mark whose score or outcome is in the trail, or about to be put there, stops
\* being so only when a handler fails half way (the audit is written after the mark, in no
\* transaction with it).
AuditLostOnlyByFailure ==
    [][\A s \in Students :
          (Accounted(s) /\ ~Accounted(s)') =>
              \E r \in Requests : RequestFails(r) \/ SaveThrows(r)]_vars

\* MarksEntry.jsx:679, "Draft marks will be locked until you request edit access":
\* a step of a teacher's handler changes no locked mark unless the teacher holds an
\* approved edit request.
LockHolds ==
    [][\A r \in Requests :
          (reqs[r] # Idle /\ Step(r) /\ reqs[r].user \in Teachers
              /\ ~Granted(reqs[r].user, "EDIT")) =>
          \A s \in Students : Locked(s) => marks'[s] = marks[s]]_vars

=============================================================================
