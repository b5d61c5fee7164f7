----------------------------- MODULE ExamSetup -----------------------------
(***************************************************************************)
(* One exam: its date, its paper schedule, its consolidation ceiling and   *)
(* the lock of the ceiling, with the handlers of routes/exams.js (and the  *)
(* paper calendar of routes/board.js, which calls the same functions).     *)
(*                                                                         *)
(* A schedule is saved row by row, with no transaction: rows that are no   *)
(* longer wanted are deleted, each paper is looked up and then written,    *)
(* the rows are listed, and the exam takes the date of the first of them.  *)
(* The lock is read at the start of a handler and not looked at again.     *)
(***************************************************************************)
EXTENDS Integers

CONSTANTS
    Keys,       \* what a paper is for: a subject of a class
    Dates,      \* paper and exam dates, numbers
    Ceilings,   \* values of Exam.consolidationMaxMarks
    Schedules,  \* the papers a request may bring, after scoping to its classes
    Requests,   \* slots for handlers in flight
    NoDate, Keep

Row == Dates \cup {NoDate}
Empty == [k \in Keys |-> NoDate]
KeysOf(p) == {k \in Keys : p[k] # NoDate}

ASSUME SchedulesAreSchedules == Schedules \subseteq [Keys -> Row]
ASSUME Distinguished == NoDate \notin Dates /\ Keep \notin Ceilings
ASSUME DatesHaveAFirst ==
    \A D \in SUBSET Dates : D # {} => \E d \in D : \A e \in D : d <= e

Ops == {"put", "remove", "patch", "create", "lock"}
Steps == {"write", "set", "prune", "pruneDrop", "scan", "drop", "find", "save",
          "list", "sync", "undo"}

(***************************************************************************)
(* A handler in flight.  asked is its schedule, todo the keys it has still *)
(* to save and at the one it is at; held are the keys whose rows it has    *)
(* found and gone those deleted since (an id never names another row).     *)
(***************************************************************************)
Request == [op : Ops, step : Steps, replace : BOOLEAN, papers : BOOLEAN,
            asked : [Keys -> Row], todo : SUBSET Keys, at : SUBSET Keys,
            kept : SUBSET Keys, held : SUBSET Keys, gone : SUBSET Keys,
            dated : Row, ceiling : Ceilings \cup {Keep}, first : Row]

Idle == [op |-> "none", step |-> "idle"]

VARIABLES
    life,     \* the exam is yet to be created, is there, or was deleted
    subjects, \* the keys whose subject is there
    papers,   \* the date of the ExamPaperSchedule row of each key, or NoDate
    date,     \* Exam.date
    ceiling,  \* Exam.consolidationMaxMarks
    locked,   \* Exam.consolidationLocked
    reqs,     \* the handlers in flight
    crossed,  \* handlers that save papers while another one changed some
    early,    \* handlers that were to write the exam row when the ceiling was locked
    parted    \* something has parted the exam date from the papers since it was last set

exam == <<life, subjects, date, ceiling, locked>>
vars == <<life, subjects, papers, date, ceiling, locked, reqs, crossed, early, parted>>

TypeOK ==
    /\ life \in {"none", "there", "deleted"}
    /\ subjects \subseteq Keys
    /\ papers \in [Keys -> Row]
    /\ date \in Row
    /\ ceiling \in Ceilings
    /\ locked \in BOOLEAN
    /\ reqs \in [Requests -> Request \cup {Idle}]
    /\ crossed \subseteq Requests
    /\ early \subseteq Requests
    /\ parted \in BOOLEAN

Init ==
    /\ life = "none"
    /\ subjects = Keys
    /\ papers = Empty
    /\ date = NoDate
    /\ ceiling \in Ceilings
    /\ locked = FALSE
    /\ reqs = [r \in Requests |-> Idle]
    /\ crossed = {} /\ early = {} /\ parted = FALSE

-----------------------------------------------------------------------------
(***************************************************************************)
(* Rows, and handlers that start, advance and end.                         *)
(***************************************************************************)
There == life = "there"

\* paperScheduleSummary(...).firstPaperDate.
Earliest(p) ==
    IF p = Empty THEN NoDate
    ELSE CHOOSE d \in {p[k] : k \in KeysOf(p)} : \A k \in KeysOf(p) : d <= p[k]

NewRequest(op, step) ==
    [op |-> op, step |-> step, replace |-> FALSE, papers |-> FALSE, asked |-> Empty,
     todo |-> {}, at |-> {}, kept |-> Keys, held |-> {}, gone |-> {},
     dated |-> NoDate, ceiling |-> Keep, first |-> NoDate]

At(r, step) == reqs[r].step = step

Start(r, q) ==
    /\ reqs[r] = Idle
    /\ reqs' = [reqs EXCEPT ![r] = q]
    /\ UNCHANGED <<crossed, early>>

Becomes(r, q) == reqs' = [reqs EXCEPT ![r] = q] /\ UNCHANGED <<crossed, early>>

Ends(r) ==
    /\ reqs' = [reqs EXCEPT ![r] = Idle]
    /\ crossed' = crossed \ {r} /\ early' = early \ {r}

\* The handler is on its way to list the papers and to set the exam date from them.
WillList(q) ==
    \/ q.step \in {"scan", "drop", "find", "save", "list", "sync", "undo"}
    \/ q.step \in {"prune", "pruneDrop"} /\ q.papers

Others(r) == {s \in Requests \ {r} : WillList(reqs[s])}

\* The rows of ks go: a handler that held one of them has lost it.
Loses(q, ks) == IF q = Idle THEN Idle ELSE [q EXCEPT !.gone = @ \cup (ks \cap q.held)]

\* r deletes the rows of ks and goes on as q.
Deletes(r, ks, q) ==
    /\ papers' = [k \in Keys |-> IF k \in ks THEN NoDate ELSE papers[k]]
    /\ reqs' = [s \in Requests |-> IF s = r THEN q ELSE Loses(reqs[s], ks)]
    /\ crossed' = (crossed \cup IF ks = {} THEN {} ELSE Others(r)) \ IF q = Idle THEN {r} ELSE {}
    /\ early' = early \ IF q = Idle THEN {r} ELSE {}

\* saveExamPapers: the papers one by one, then the list.
NextPaper(q) ==
    [q EXCEPT !.step = IF q.todo = {} THEN "list" ELSE "find",
              !.at = {}, !.held = {}, !.gone = {}]

ToPapers(q) == IF q.replace THEN [q EXCEPT !.step = "scan"] ELSE NextPaper(q)

Brings(q, p) == [q EXCEPT !.papers = TRUE, !.asked = p, !.todo = KeysOf(p)]

\* Any awaited call may reject, and the process may stop: what was written stays.
RequestFails(r) ==
    /\ reqs[r] # Idle
    /\ Ends(r)
    /\ parted' = (parted \/ WillList(reqs[r]))
    /\ UNCHANGED <<exam, papers>>

-----------------------------------------------------------------------------
(***************************************************************************)
(* The routes, up to their first write.                                    *)
(***************************************************************************)
\* PUT /exams/:id/papers, and PUT /board/exam-papers, which merges one paper.
PutPapers(r) ==
    /\ There
    /\ \E p \in Schedules, replace \in BOOLEAN :
          Start(r, ToPapers(Brings([NewRequest("put", "find") EXCEPT !.replace = replace], p)))
    /\ UNCHANGED <<exam, papers, parted>>

\* DELETE of one paper: it is looked up, then deleted by id.
RemovePaper(r) ==
    /\ \E k \in KeysOf(papers) : Start(r, [NewRequest("remove", "drop") EXCEPT !.held = {k}])
    /\ UNCHANGED <<exam, papers, parted>>

\* POST /exams: the exam has its date, given or the earliest of the papers sent.
CreateExam(r) ==
    /\ life = "none"
    /\ life' = "there"
    /\ date' \in Dates
    /\ \/ reqs[r] = Idle /\ UNCHANGED <<reqs, crossed, early>>
       \/ \E p \in Schedules :
             Start(r, Brings([NewRequest("create", "scan") EXCEPT !.replace = TRUE], p))
    /\ UNCHANGED <<subjects, papers, ceiling, locked, parted>>

\* PATCH /exams/:id: a new ceiling is refused when the exam, as read, is locked.
PatchRead(r) ==
    /\ There /\ reqs[r] = Idle
    /\ \E d \in Row, c \in Ceilings \cup {Keep}, ks \in SUBSET Keys \ {{}} :
          LET q == [NewRequest("patch", "write") EXCEPT !.dated = d, !.ceiling = c, !.kept = ks]
          IN  /\ c # Keep => ~locked
              /\ \/ Start(r, q)
                 \/ \E p \in Schedules : /\ KeysOf(p) \subseteq ks
                                         /\ Start(r, [Brings(q, p) EXCEPT !.replace = TRUE])
    /\ UNCHANGED <<exam, papers, parted>>

\* Mutant of LockRead: a new ceiling is taken however the exam is locked.
LockReadUnchecked(r) ==
    /\ There
    /\ \E c \in Ceilings : Start(r, [NewRequest("lock", "write") EXCEPT !.ceiling = c])
    /\ UNCHANGED <<exam, papers, parted>>

\* POST /exams/:id/consolidation/lock, with a ceiling or without.
LockRead(r) ==
    /\ There
    /\ \E c \in Ceilings \cup {Keep} :
          /\ c # Keep => ~locked
          /\ Start(r, [NewRequest("lock", IF c = Keep THEN "set" ELSE "write")
                          EXCEPT !.ceiling = c])
    /\ UNCHANGED <<exam, papers, parted>>

-----------------------------------------------------------------------------
(***************************************************************************)
(* The exam row.  An update by id rejects when the exam is gone.           *)
(***************************************************************************)
AfterWrite(q) ==
    LET p == [q EXCEPT !.ceiling = Keep]
    IN  CASE q.op = "lock" -> [p EXCEPT !.step = "set"]
          [] q.op # "lock" /\ q.kept # Keys -> [p EXCEPT !.step = "prune"]
          [] OTHER -> ToPapers(p)

\* exam.update of PATCH and of the lock: what was asked, whatever the row says now.
ExamWrite(r) ==
    LET q == reqs[r]
    IN  /\ At(r, "write") /\ There
        /\ date' = IF q.dated = NoDate THEN date ELSE q.dated
        /\ ceiling' = IF q.ceiling = Keep THEN ceiling ELSE q.ceiling
        /\ parted' = (parted \/ q.dated # NoDate)
        /\ IF q.op = "patch" /\ q.kept = Keys /\ ~q.papers THEN Ends(r)
           ELSE /\ reqs' = [reqs EXCEPT ![r] = AfterWrite(q)]
                /\ early' = early \ {r}
                /\ UNCHANGED crossed
        /\ UNCHANGED <<life, subjects, locked, papers>>

\* setExamConsolidationLock(true).  Whoever is at work now has read the exam unlocked
\* or does not touch the ceiling.
LockSet(r) ==
    /\ At(r, "set") /\ There
    /\ locked' = TRUE
    /\ reqs' = [reqs EXCEPT ![r] = Idle]
    /\ crossed' = crossed \ {r}
    /\ early' = {s \in Requests : At(s, "write")}
    /\ UNCHANGED <<life, subjects, date, ceiling, papers, parted>>

Unlock ==
    /\ There
    /\ locked' = FALSE
    /\ UNCHANGED <<life, subjects, date, ceiling, papers, reqs, crossed, early, parted>>

\* DELETE /exams/:id: the papers go with the exam.
DeleteExam ==
    /\ There
    /\ life' = "deleted"
    /\ papers' = Empty
    /\ reqs' = [s \in Requests |-> Loses(reqs[s], Keys)]
    /\ crossed' = crossed \cup {s \in Requests : WillList(reqs[s])}
    /\ date' = NoDate /\ locked' = FALSE
    /\ UNCHANGED <<subjects, ceiling, early, parted>>

\* DELETE of a subject: its papers go with it, whatever the exam's handlers are at, and
\* nobody looks at the date of the exam.
DeleteSubject(k) ==
    LET rows == {k} \cap KeysOf(papers)
    IN  /\ k \in subjects
        /\ subjects' = subjects \ {k}
        /\ papers' = [papers EXCEPT ![k] = NoDate]
        /\ reqs' = [s \in Requests |-> Loses(reqs[s], rows)]
        /\ crossed' = crossed \cup {s \in Requests : rows # {} /\ WillList(reqs[s])}
        /\ parted' = (parted \/ rows # {})
        /\ UNCHANGED <<life, date, ceiling, locked, early>>

-----------------------------------------------------------------------------
(***************************************************************************)
(* prunePapersOutsideClasses: the rows outside the classes, then deleteMany. *)
(***************************************************************************)
AfterPrune(q) == ToPapers([q EXCEPT !.kept = Keys, !.held = {}, !.gone = {}])

PruneRead(r) ==
    LET q == reqs[r]
        out == KeysOf(papers) \ q.kept
    IN  /\ At(r, "prune")
        /\ IF out # {} THEN Becomes(r, [q EXCEPT !.step = "pruneDrop", !.held = out])
           ELSE IF q.papers THEN Becomes(r, AfterPrune(q))
           ELSE Ends(r)
        /\ UNCHANGED <<exam, papers, parted>>

PruneDrop(r) ==
    LET q == reqs[r]
    IN  /\ At(r, "pruneDrop")
        /\ Deletes(r, q.held \ q.gone, IF q.papers THEN AfterPrune(q) ELSE Idle)
        /\ parted' = (parted \/ ~q.papers)
        /\ UNCHANGED exam

-----------------------------------------------------------------------------
(***************************************************************************)
(* saveExamPapers, listExamPapers and syncExamDateFromPapers.              *)
(***************************************************************************)
\* Mutant of Scan: a replace deletes nothing.
ScanKeepsRest(r) ==
    /\ At(r, "scan")
    /\ Becomes(r, NextPaper(reqs[r]))
    /\ UNCHANGED <<exam, papers, parted>>

\* mode "replace": the rows whose keys were not sent.
Scan(r) ==
    LET q == reqs[r]
        out == KeysOf(papers) \ KeysOf(q.asked)
    IN  /\ At(r, "scan")
        /\ Becomes(r, IF out = {} THEN NextPaper(q) ELSE [q EXCEPT !.step = "drop", !.held = out])
        /\ UNCHANGED <<exam, papers, parted>>

\* deleteMany passes over rows that are gone; the delete of one paper rejects.
Drop(r) ==
    LET q == reqs[r]
    IN  /\ At(r, "drop")
        /\ q.op = "remove" => q.gone = {}
        /\ Deletes(r, q.held \ q.gone, NextPaper(q))
        /\ UNCHANGED <<exam, parted>>

\* The subject of the next paper is there, and its row is looked up.
FindPaper(r) ==
    LET q == reqs[r]
    IN  /\ At(r, "find")
        /\ \E k \in q.todo \cap subjects :
              Becomes(r, [q EXCEPT !.step = "save", !.at = {k}, !.held = {k} \cap KeysOf(papers)])
        /\ UNCHANGED <<exam, papers, parted>>

\* The subject of the next paper is not there or not one of its class: the handler answers
\* 400 and keeps what it has done, or goes on to take back the exam that it created.
Refuse(r) ==
    /\ At(r, "find")
    /\ IF reqs[r].op = "create"
       THEN Becomes(r, [reqs[r] EXCEPT !.step = "undo"]) /\ UNCHANGED parted
       ELSE Ends(r) /\ parted' = TRUE
    /\ UNCHANGED <<exam, papers>>

\* An update finds its row or rejects; a create meets the unique key of the paper and
\* the foreign keys of the exam and the subject.
SavePaper(r) ==
    LET q == reqs[r]
        next == NextPaper([q EXCEPT !.todo = @ \ q.at])
    IN  /\ At(r, "save") /\ There /\ q.at \subseteq subjects
        /\ \A k \in q.at : IF k \in q.held THEN k \notin q.gone ELSE papers[k] = NoDate
        /\ papers' = [k \in Keys |-> IF k \in q.at THEN q.asked[k] ELSE papers[k]]
        /\ reqs' = [reqs EXCEPT ![r] = next]
        /\ crossed' = crossed \cup Others(r)
        /\ UNCHANGED <<exam, early, parted>>

\* Mutant of ListPapers: the delete of one paper leaves the date alone.
ListPapersAfterRemove(r) ==
    /\ At(r, "list")
    /\ IF papers = Empty \/ reqs[r].op \in {"patch", "remove"} THEN Ends(r)
       ELSE Becomes(r, [reqs[r] EXCEPT !.step = "sync", !.first = Earliest(papers)])
    /\ UNCHANGED <<exam, papers, parted>>

\* A schedule with no papers sets no date, and neither does a PATCH that gave one.
ListPapers(r) ==
    LET q == reqs[r]
    IN  /\ At(r, "list")
        /\ IF papers = Empty \/ (q.op = "patch" /\ q.dated # NoDate)
           THEN Ends(r)
           ELSE Becomes(r, [q EXCEPT !.step = "sync", !.first = Earliest(papers)])
        /\ parted' = (parted \/ (q.op = "patch" /\ q.dated # NoDate))
        /\ UNCHANGED <<exam, papers>>

SyncDate(r) ==
    /\ At(r, "sync") /\ There
    /\ date' = reqs[r].first
    /\ parted' = (r \in crossed)
    /\ Ends(r)
    /\ UNCHANGED <<life, subjects, ceiling, locked, papers>>

\* POST /exams after a refused paper: exam.delete.
UndoCreate(r) ==
    /\ At(r, "undo") /\ There
    /\ life' = "deleted"
    /\ Deletes(r, Keys, Idle)
    /\ date' = NoDate /\ locked' = FALSE
    /\ UNCHANGED <<subjects, ceiling, parted>>

Handle(r) ==
    \/ PutPapers(r) \/ RemovePaper(r) \/ CreateExam(r) \/ PatchRead(r) \/ LockRead(r)
    \/ ExamWrite(r) \/ LockSet(r) \/ PruneRead(r) \/ PruneDrop(r)
    \/ Scan(r) \/ Drop(r) \/ FindPaper(r) \/ Refuse(r) \/ SavePaper(r)
    \/ ListPapers(r) \/ SyncDate(r) \/ UndoCreate(r) \/ RequestFails(r)

Next ==
    \/ \E r \in Requests : Handle(r)
    \/ \E k \in Keys : DeleteSubject(k)
    \/ Unlock \/ DeleteExam

Spec == Init /\ [][Next]_vars

-----------------------------------------------------------------------------
(***************************************************************************)
(* Properties.                                                             *)
(***************************************************************************)
\* examPapers.js:185, "Keep exam.date aligned with the earliest scheduled paper": with no
\* handler on its way to set it, the date is that of the first paper, unless a handler
\* failed or was refused half way, a PATCH gave a date of its own, classes were dropped
\* without papers, a subject was deleted with its papers, or a handler listed the papers
\* while another one, or the deletion of a subject, changed them.
DateFollowsPapers ==
    /\ There /\ papers # Empty /\ date # Earliest(papers)
    /\ \A r \in Requests : ~WillList(reqs[r])
    => parted

\* A replaced schedule of which nobody else touched a row is, when it is listed, the one that was
\* asked for, no row more and no row less; a merged one has what was asked for.
SavedAsAsked ==
    \A r \in Requests \ crossed :
        reqs[r].step \in {"list", "sync"} =>
            /\ \A k \in KeysOf(reqs[r].asked) : papers[k] = reqs[r].asked[k]
            /\ reqs[r].replace => papers = reqs[r].asked

\* The ceiling of a locked exam is moved by nobody but a handler that was already at work,
\* having read it unlocked, when it was locked.
LockedCeilingMovesEarlyOnly ==
    [][locked /\ ceiling' # ceiling =>
          \E r \in early : At(r, "write") /\ reqs[r].ceiling # Keep]_vars

-----------------------------------------------------------------------------
(***************************************************************************)
(* What is known of a handler at work, for the proofs.                     *)
(***************************************************************************)
\* A new ceiling still to be written to a locked exam is held by an early handler.
PendingCeilingIsEarly ==
    \A r \in Requests :
        locked /\ At(r, "write") /\ reqs[r].ceiling # Keep => r \in early

\* The papers are those of an exam that is there.
PapersNeedExam == ~There => papers = Empty

\* How far a handler that nobody crossed has come with its schedule.
Progress(q) ==
    q.step \in {"find", "save", "list", "sync"} =>
        /\ \A k \in KeysOf(q.asked) \ q.todo : papers[k] = q.asked[k]
        /\ q.replace => KeysOf(papers) \subseteq KeysOf(q.asked)

\* What it has found is what there is, and so is what it has listed.
Current(q) ==
    /\ WillList(q) => q.gone = {}
    /\ q.step = "drop" /\ q.op # "remove" => q.held = KeysOf(papers) \ KeysOf(q.asked)
    /\ q.step = "sync" => q.first = Earliest(papers)

UncrossedKnows == \A r \in Requests \ crossed : Progress(reqs[r]) /\ Current(reqs[r])

\* What a handler at work holds, crossed or not.
Shape(q) ==
    /\ q.step \in {"list", "sync"} => q.todo = {}
    /\ q.step = "save" => q.at \subseteq q.todo
    /\ q.op = "remove" => ~q.replace /\ KeysOf(q.asked) = {} /\ q.todo = {}
    /\ q.step \in {"scan", "drop"} /\ q.op # "remove" => q.replace
    /\ WillList(q) => q.todo \subseteq KeysOf(q.asked)
    /\ q.step \in {"write", "prune", "pruneDrop", "scan", "drop"} => q.todo = KeysOf(q.asked)
    /\ q.step \in {"write", "prune", "scan"} => q.held = {} /\ q.gone = {}

RequestShape == \A r \in Requests : Shape(reqs[r])

IInv ==
    /\ TypeOK
    /\ PapersNeedExam
    /\ RequestShape
    /\ UncrossedKnows
    /\ DateFollowsPapers
    /\ PendingCeilingIsEarly

=============================================================================
