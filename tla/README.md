# MarkAnalysis: a verification development

MarkAnalysis is a multi-tenant school application: teachers enter marks in
registers, leadership approves them, results are consolidated and published;
beside it run staff leave with substitute covers, exams, hall tickets, a
parent portal and analytics. The server is Express over PostgreSQL
(`src/server/src`), the client a React application (`src/client/src`).

This directory models the parts of the server where several requests, failures
and caches meet, checks them with TLC on small instances and proves the main
results with TLAPS for every instance.

## 1. The system and its parts

Every route handler is an `async` function on one event loop; there may be
several processes (or serverless instances) over one database. A handler runs
without interruption from one `await` to the next, and any other handler may run
in between. The tenant client (`lib/tenant.js`) adds the school to each query and
turns `upsert` into a read and a write. Almost no handler uses a transaction, and
almost none looks again, when it writes, at what it read: the hard behaviour of
this system is in those gaps.

| Part | State it keeps | Operations | What is hard | What makes it correct |
|---|---|---|---|---|
| Mark register (`routes/marks.js`, `lib/markSave.js`, `lib/markAccess.js`, `routes/markAccess.js`, `lib/approvalsInbox.js`) | marks with a status, audit rows, access requests, the entry deadline | save, upload, submit, approve, unapprove, moderate, ask for access, review | plans made from earlier reads, many statements without a transaction, rows deleted under handlers | marks are locked once submitted; only leadership approves; every score is audited |
| Teacher leave and covers (`routes/teacherLeave.js`, `lib/teacherLeave.js`, `lib/substituteScore.js`) | leaves, substitutions | create, change, cancel, assign, remove | overlap checks and cover writes that act on stale reads | leaves of a teacher are disjoint; covers live and die with their leave; no substitute is on leave |
| Tenant cache (`lib/tenantCache.js`, `lib/insightsCache.js`) | a store per process, a memo per request | load, invalidate, expire | loads in flight across an invalidation, failures shared by requests, processes that are told nothing | no failure served twice, fresh after a mutation, drift ends |
| Sessions and staff identity (`lib/authCookies.js`, `routes/auth.js`, `middleware/auth.js`) | refresh tokens, cached live users | log in, refresh, log out, change password | two tabs refreshing at once, a lost answer, stale identity | a session is rotated once; a demotion takes effect |
| Exams, papers, consolidation lock (`routes/exams.js`, `lib/examPapers.js`, `lib/consolidationMaxMarks.js`) | exam rows, paper schedules, the lock | create, change, replace papers, lock | a lock between its check and the write; a replace that stops half way | a locked ceiling does not move; the exam date is that of the first paper |
| Report cards, revaluation (`routes/board.js`) | releases, revaluation requests | publish, sign off, notify, review | statuses that go back; a writer of marks beside the register | a sign-off stands; a revised mark is audited |
| Mail outbox, digests, jobs (`lib/mailer.js`, `lib/digests.js`, `lib/backgroundJobs.js`) | outbox rows, a flag per process | queue, flush, tick, digest | a stop between send and mark, several flushes | `SENT` is true; a mail is sent twice only by overlap or failure; every row is settled |
| Staff (`routes/users.js`, `lib/staffRoles.js`) | users, assignments, duties | create, change, delete, clear, transfer | checks before writes, replace without a transaction | a school keeps a principal; papers keep a teacher |
| Results (`lib/consolidated*.js`, `lib/grades.js`, `lib/stats.js`, `lib/markAggregates.js`, `lib/assessmentPolicy.js`) | none | pure computation | ties, absences, zero denominators, rounding, electives | ranks as defined; more marks never hurt; "ready" means approved |
| Timetable (`routes/timetable.js`, `lib/periods.js`) | periods, entries | seed, save the schedule, add, move, remove classes | rows updated one by one under a unique position; checks before writes | a save is all or nothing; no class in a break |
| Cover planner (`lib/teacherLeave.js`, `lib/substituteScore.js`) | none | plan the covers of a leave | a context rebuilt for each pick | picks are free; nobody is reused or a slot left uncovered without need |
| Students (`routes/students.js`, `routes/classes.js`, `lib/studentPhotos.js`, `lib/blobStore.js`) | rows on the roll, photo columns and files | enrol, change, delete, promote; upload and remove photos | a promotion of many awaited calls; a photo replaced file first and row later | a pupil is promoted once and is on one roll; a row names a file that is there |
| Classes and subjects (`routes/classes.js`, `routes/subjects.js`, `lib/schoolSections.js`, `lib/electiveEnrollment.js`) | class sections, subject rows, enrolments | add, select, clean up, delete, enrol | what uses a subject is counted before the subject is deleted | nothing in use is deleted; the enrolment is the list that was saved |
| Hall tickets, portal, CPD, platform, notifications, analytics, start-up, client | single rows, or none | reads and single writes | little that is concurrent | listed in `PROJECT.json` |

How they interact: the register, the exam routes and the settings routes
invalidate the tenant cache of their own process after they have written; the
analytics read through it. Revaluation and the transfer of a teacher write marks
past the register. The cover assignment and the planner read leaves and the
timetable. Exam setup fixes the ceiling and the classes that the consolidated lists
are computed with. Staff handlers that change a user drop the middleware's cached
row of that user, in their own process. Deleting a class section takes its pupils along
and, with the last section of its name, the subjects that nothing uses. A promotion
copies the columns of a photo, and so meets the uploads.
Submitting, granting and leave decisions append notifications and activity rows.

## 2. Modules

| Module | What it is |
|---|---|
| `MarkRegister` | one register: the handlers of `marks.js` and `markAccess.js`, one action per awaited call |
| `MarkLifecycle` | what a register promises: the abstract life of a mark |
| `MCMarkRegister` | its instances: symmetry |
| `MarkRegisterProofs` | theorems about it, the refinement of `MarkLifecycle` included |
| `LeaveCover` | leaves, covers and the handlers of `teacherLeave.js` |
| `MCLeaveCover`, `LeaveCoverProofs` | its instances and theorems |
| `TenantCache` | one cached resource in several processes |
| `TenantCacheProofs` | theorems about it |
| `Outbox` | the mail outbox: rows, flushes, ticks, digests |
| `OutboxProofs` | theorems about it |
| `ExamSetup` | one exam: date, paper schedule, ceiling, lock (`exams.js`, `examPapers.js`) |
| `Release` | report cards of one exam and section: publish, sign off, notify |
| `Revaluation` | one mark's revaluation, over the mark as the register moves it; refines `MarkLifecycle` |
| `ExamDesks` | these three side by side |
| `Consolidated` | the consolidated list of a class section: percents, grades, ranks, readiness |
| `ExamOffice`, `MCExamOffice` | the desks and the lists together, and their instance |
| `ExamDesksProofs` | theorems about the desks, the lists and the office |
| `Staff` | accounts, roles, papers, duties (`users.js`) |
| `Roster`, `MCRoster` | pupils on the rolls and promotions (`students.js`, `classes.js`); its instance |
| `Photos` | the photos of pupils and their files |
| `ClassSubjects` | the subjects of a class, their clean-up and enrolments (`subjects.js`, `classes.js`) |
| `SchoolOffice`, `MCSchoolOffice` | these four side by side, and their instance |
| `SchoolOfficeProofs` | theorems about promotions, staff, photos and subjects |
| `Session` | refresh sessions of one user, in browsers with tabs |
| `LiveStaff` | the cached live user of the middleware, in several processes |
| `SignIn`, `SignInProofs` | the two together, and theorems about them |
| `CoverPlan`, `MCCoverPlan` | the planner of covers, and its instance |
| `Timetable` | the bell schedule and the classes placed in it |
| `TimetableOffice`, `MCTimetableOffice` | planner and schedule together, and their instance |
| `CoverPlanProofs` | theorems about both and about the office |

`ExamOffice`, `SchoolOffice`, `SignIn` and `TimetableOffice` compose components that share no row
their properties are about (what one does to another, such as a mark that the
register moves or an exam that is deleted, is an action of the module concerned).
Interleaving them would multiply states and show nothing, so a variable (`desk`,
`half`, `side`) says from the start which of them moves.

### Mark register

`marks`, `trail` and `access` are the rows of `Mark`, `MarkAudit` and
`MarkEntryAccessRequest` of one exam, subject and section; `pastDeadline` is what
`isPastDeadline` answers. `reqs` holds the handlers in flight. A handler starts
with its first read (`SaveRead`, `UploadRead`, `SubmitCheck`, `ModerateRead`,
`AskRead`, `ReviewWrite`) and each later action is one awaited statement with the
synchronous code after it. What it read stays in its record (`entry`, `found`,
`locked`), and a row that is deleted afterwards is in `gone`, because ids are never
used again: that is what `mark.update({ where: { id } })` depends on.

- Data: a cell holds a member of `Values`: a score (`marksObtained`, or an outcome in
  its place) and practical marks or none. The parsing of marks is left out; an entry is
  a value, `Blank` (erase) or `Skip`. An audit row has the score alone (`Audits`, after
  `auditValueFor`); uploads and moderations bring scores and leave the practical marks
  of a row alone (`Put`). So `AuditLostOnlyByFailure` is about scores: a save that changes
  the practical marks alone leaves a row that says nothing (findings).
- The groups of `applyMarkPlans` run in its order: delete (one transaction with
  its audit rows, which the cascade removes again), create, audit, update,
  audit. The updates run side by side, one action per row.
- Upload cells run side by side as well, each a find, a write and an audit row.
- `RequestFails` may end a handler at any point: a rejected query or a stopped
  process. What was written stays.
- `CanEnter` and `HasEntryAccess` differ as the code's do: the first takes either
  grant, the second late entry alone.

`MarkLifecycle` says what all that amounts to: a mark that is written is a draft
again unless leadership publishes it; submitting, approving and reopening change
no value; only a submitted mark is approved as it stands. `MarkRegister` implements
it with `cell <- Cells` (value and status, no author) and `leading <- Leading`.

Not in the register model: the write of a completed revaluation, which is in
`Revaluation`, the change of `enteredBy` when an account is deleted
(`routes/users.js:694`), chunks of 40 updates, students who leave, students who are
deleted.

### Leave and covers

A slot is a period of a calendar day; a leave has the set of slots its dates and
periods come to (`Spans` names the sets in play), so `leavesConflict` is
intersection. `covers` has one entry per slot and class, which is the unique key of
the table; `Booked` is the other unique key, one cover per substitute and slot. That a
substitute is on leave is looked at once, before the rest (`Eligible`), and no leave looks
at the covers its teacher has taken: `SubstitutesPresent` says that a class comes to wait
for somebody who is away in these two ways only.
`PATCH` and `DELETE` share a record: what status they read, what they write, how
often they will drop the covers (`PATCH` does it twice when it cancels an active
leave). The timetable is the constant `Teaching`. `behind` is a history variable: the
handlers in flight since whose first read another one has written a leave of the same
teacher (the one whose leave it is, or the substitute). What they found may not be so any
more, which is what `LeavesDisjoint` and `SubstitutesPresent` excuse.

The batch plan (`planCoversForSlots`) is `CoverPlan`, the edits of the timetable
`Timetable`.

### Tenant cache

`store` has the entry of the resource in each process: nothing, the promise of a
load, or a value. A request has a memo. A load reads the database (`LoadReads`)
and returns later (`LoadReturns`); `version` counts mutations. Time is abstracted:
`Expire` may come at any moment. `floor` and `since` are history variables: the
version at the last invalidation of a process, and what it was when a load began.
The handlers of the register appear as writers of two sorts, those that invalidate
and `PUT /marks`, whose condition for it never holds.

### Mail outbox

`rows` has the status of each `EmailOutbox` row, `jobs` what the timer of each
process and each platform request is doing, `running` the flag of
`backgroundJobs.js`. A job reads the pending rows (`ReadPending`: the oldest
`Limit`), then works them off from the oldest: `Send` and `MarkSent` or
`MarkFailed`, or `Skip` in a process without SMTP. The update to `SENT` stands in the
`try`, so a rejection of it leads to `FAILED`, and so does an answer that is lost after the
row was written, in which case the flush writes `FAILED` over its own `SENT`
(`MarkSentFails`); a rejection outside the `try` ends the flush (`FlushFails`). A tick goes on to its digests all the same, and clears
the flag in the end. `Send` has three outcomes, since an accepted mail can come back as
an error. `sends` counts, up to "again", what the SMTP server took; `excused` is a
history variable: the mails whose second sending has an explanation.

Not modelled: whom a digest is for (its rows are rows like others) and that two
processes write the same digest; equal `createdAt`; the two values of the limit
(40 and 50) are one constant.

### Exam setup, report cards, revaluation

`ExamSetup`: `papers` has the date of the schedule row of each key (a subject of a
class), `date`, `ceiling` and `locked` are columns of the exam. A handler carries
the schedule it was sent (`asked`), the keys still to save (`todo`), the rows it holds
by id (`held`) and those of them deleted since (`gone`). The steps are those of
`saveExamPapers`: rows not sent are listed (`Scan`) and deleted (`Drop`), each paper is
looked up (`FindPaper`; an unknown subject is `Refuse`) and written (`SavePaper`), the
rows are listed and the exam takes the earliest date (`ListPapers`, `SyncDate`). The
deletion of a subject takes its row along, under any handler, and sets no date
(`DeleteSubject`; `subjects` are those that are left).
Creation undoes itself when it is refused (`UndoCreate`); nothing else does. The
history variables say what can excuse a wrong date (`parted`, `crossed`: among other
things a subject deleted with its row) and who had
read the lock before it was set (`early`).

`Release`: `mails` counts the rows queued for each student under the release that is
there; `reachable` are the students with a guardian's address, who come and go while
a class is being notified. `late` are those who came after the class had been listed.

`Revaluation`: a review updates the request with the fields it was sent, over what the
row says then; if the row that comes back is completed and has revised marks, the
mark is looked up and written by id. The register's own handlers appear as steps of
`MarkLifecycle` (`RegisterMoves`). `outdated` and `shifted` name what can part the mark
from the request: a review that carries marks another one has replaced, a review cut
short, the register.

### Consolidated lists

The algorithms of `consolidatedRows.js`, `grades.js`, `stats.js` and
`consolidatedStatus.js` as operators over marks and enrolments, which move as the
register and the records move them. Percents and scaled marks have one decimal and
are counted in tenths; `round1` is `Tenths`, in exact arithmetic, where the code has
floating point (a tie at a half of a tenth may fall otherwise there). A mark is a
score, theory and practical together, or an outcome without one. `Ranks` takes any order
that a sort by percent may leave, since the rank of a tie does not depend on it.

### Staff

`role`, `active`, `papers` (the `TeacherAssignment` rows) and `duty`, which stands for
timetable slots and the post of class teacher. Each awaited call is a step; the
transactions of delete and clear-classes are one step, that of transfer two, since it
reads the replacement's papers first. `behind` says for each handler what has changed
since it looked. The role checks of the routes are `MayActOn`.

### Students, photos, subjects

`Roster`: `rows` has the `Student` row of each id (section, roll number, whether it is on
the active roll, and the row it was promoted from). `NewRow` is what the database takes:
a free place in a section that is there. A promotion reads its pupils once (`PromoteRead`)
and then takes three steps for each (`PromoteFind`, `PromoteCreate`, `PromoteMark`); it
may be cut short after any of them. `excused` are the pupils two promotions held at once,
or whom one left between its last two steps, or whom an edit put back on the roll.

`Photos`: the columns of a row (a file, none, or a type with nothing behind it: `Hollow`)
and the files. An upload reads, removes the old file, stores a new one and names it in the
row, each a step; a bulk upload does so pupil by pupil. Bytes kept in the database have no
file to lose and are left out.

`ClassSubjects`: the subject rows of one class name, what uses them (`data`, `enrolled`), the
sections of the name, and the handlers that count before they delete: `missed` says what
came after a handler had counted. The enrolment of an elective is a transaction that
deletes and inserts; `asked` has the list that was saved last.

### Sessions and the live user

`Session`: `jar` is the refresh cookie of a browser, which its tabs share; `tokens` are
the rows with what `rotateRefreshSession` makes of them (live, revoked within the
grace of 15 s, revoked before, expired). A tab has one call under way, as
`tryRefreshSession` in `client/src/api.js` sees to. A call reads the cookie when it is
sent and sets it when the answer comes; `CallFails` is a rejected call or an answer
that is lost after the rows were written. `ended`, `stranded` and `crossed` are what
can go wrong with a token for a reason.

`LiveStaff`: the user row is a version; `entry` is what each process has cached. A
load reads, and stores later, unconditionally (`Load`, `Fill`); a change announces
itself to its own process after its write (`Announce`, `Drop`) or not at all
(`ChangeQuietly`).

### Planner and timetable

`CoverPlan`: `diary` has the day of each teacher in any state the timetable, the leaves
and the saved covers may give it; every diary is an initial state. `PlanSlot` is one
round of `planSubstitutesGreedy`: the context is that of the slot whose place is the
number of picks made (`ContextDate`, as the code has it), the hard filters are
`Eligible`, and of the pool any teacher may win, since the score is left out. The
model has the default policy (one cover a day, all periods but one).

A pick is `Misled` when that is another day than its own, which needs a slot left
uncovered at its place or before: the three properties of the planner are about every
other pick, and `plan_gap` shows a misled one.

`Timetable`: a save is read with the schedule (`PutRead`) and runs as one transaction
(`PutWrite`), whose rows bring positions of their own (`orders`, out of `Numberings`) and
meet the unique key on them in their order (`Accepted`); what a seed and the entry
handlers read may have changed when they write. The default schedule has the positions
from 1. `overtaken` is a history variable: the classes, and the handlers about to place
one, that were in or bound for a period for classes when a save made a break of it, and
the seeds a save came upon. Entries are those of one weekday and one teacher; `Classes`
are the sections.

## 3. Runs

| Run | Instance | What it shows |
|---|---|---|
| `marks_racing` | 2 handlers, 1 teacher, 1 coordinator, 1 student, 2 scores, practical marks or none, edit requests | what must hold however handlers overlap, and the refinement |
| `marks_serial` | 1 handler, 1 teacher, 1 principal, 2 students, 2 scores, both kinds of request | the lock, when handlers do not overlap |
| `leaves` | 2 handlers, 2 teachers, 2 leaves, 2 slots, 2 classes | overlap, substitutes who are away, and every way a cover is orphaned |
| `outbox_racing` | 2 processes, one without SMTP, 1 platform request, 2 rows, 2 to a flush | what is true of rows and mails under overlap, failure and stops |
| `outbox_delivers` | 1 process, 1 platform request, 2 rows, 1 to a flush | every pending row is settled |
| `cache` | 2 processes, 2 readers, 1 writer, 2 loads, `MaxVersion` 2 | safety of the cache under overlap and failure; drift ends |
| `exam_office` | 2 handlers; 2 papers, 2 dates, 2 ceilings; 2 students, 2 mails each; 2 values; lists of 3 students and 1 subject, or 2 and 2 | setup, releases, revaluation and lists |
| `promotions` | 2 handlers, 3 rows, 2 sections, 2 roll numbers | promoted once, on one roll |
| `school_office` | 2 handlers; 2 accounts, 1 paper, 1 duty; 2 pupils, 3 files; 2 subjects, 1 section, 1 pupil who takes them | the last principal and teacher, photos, subjects in use, enrolments |
| `sign_in` | 2 tabs in 1 or 2 browsers, 3 tokens; 2 processes, 2 requests, 3 changes | refresh, reuse alarm, stale identity |
| `timetables` | 2 handlers, 3 periods ever, 2 default periods, saves of two rows at 1 and 2 or of one at 0, 2 entries; 2 teachers, 2 days, 2 periods, lists of 3 slots | the bell schedule; the planner |
| `plan_gap` | as the planner of `timetables` | the planner looks at the wrong day after a gap (finding) |

The exact constants are in the `.cfg` files and the `MC` modules. Bounds: `Requests` is the
number of handlers in flight (two are enough for every pairwise overlap of reads and
writes, which is what the code's hazards are; three would add handlers that do not
meet), `Leaves`, `MaxVersion`, `MaxTokens`, `MaxPeriods`, `Entries`, `Users`, `Students`,
`Pupils`, `Files`, `Ids` and `Mails` bound how many rows or files are ever made, `Loads`, `Readers`, `Writers`, `Routes` and `Tabs` are slots,
`MaxMails` how often a guardian is mailed. Three tokens are what two tabs need to
rotate one token twice and cross; three slots and two days are what the planner
needs to leave one uncovered and then look at the wrong day (the lists
begin on the first day, and name the sections of a period in one order, since nothing
tells days or sections apart); three rows are one pupil
and two successors, and three files are what two uploads of one pupil need beside the file
they replace; `MCSections` has three
students for a tie above a third, and two subjects for a percent over several papers,
one of which was entered out of a maximum that is lower now. The schedules a handler of the exam brings (`MCSchedules`) date one key early or late, so
that a paper is dated again by a second save, and the other one late or not at all. Of
the positions a save may bring (`MCNumberings`), 1 and 2 are what the editor sends and
collide with the defaults; 0 is none of theirs, so that a seed can come late and
fill a schedule. Nothing else is bounded.
Symmetry is used on ids no action tells apart, and in no run with a liveness
property.

Deadlock is checked but in four runs, where the model (or the system) comes to rest:
in `school_office` and `promotions` every row may be gone and no new id is left; in `exam_office` the one exam
may be deleted, which ends its desk; in `timetables` a plan is finished and ids run out.

`LockHolds` is stated for one handler at a time, which is the intent of the code; with two
it fails (findings). Elsewhere the claim the code intends fails under overlap, and the
property names the only steps or histories that break it: `LeavesDisjoint`,
`SubstitutesPresent`, `OrphansExplained`, `PickedAreFree`, `ReusedOnlyOfNeed`,
`UncoveredOfNeed`, `SeededOnlyWhenEmpty`, `BreakClassesExplained`, `StaleOnlyByCrossing`, `DateFollowsPapers`, `CompletedMarkStands`,
`LastPrincipalStays`, `PapersHandedOver`, `PromotedOnce`, `PhotoLostOnlyByFailure`,
`UnusedDropped`, `EnrolledAsSaved`, `CookieSignsIn`, `NoFalseAlarm` and `StaleExplained`: each
lists the causes of an exception, and says that there is no other.

Fairness is assumed in `TenantCache` and `Outbox` only. In the first (`FairSpec`) the
database answers or the query fails, and time passes, so that entries expire:
`readFresh` compares with an expiry set when the entry was stored and a hit does
not renew it, which is what the fairness of `Expire` says. In `Outbox` the timer
ticks (`setInterval`), every call of a tick is answered, well or not (queries and
SMTP connections have timeouts), and a call that is made again and again succeeds
some time (strong fairness): a database that rejects one update for ever, or a
process that stops at one place for ever, would keep a row pending. Nothing is
assumed of the platform requests or of what the SMTP server answers. Where the
jobs are off (Vercel) there is no tick and the claim is not made. No handler of the
other modules is assumed to finish.

## 4. Theorems

All theorems hold for any number of users, students, leaves, slots, papers, tokens,
processes and handlers in flight; they assume the named assumptions of the modules
(roles are disjoint, markers are not values or rows, a set of dates has a first, maxima
are positive) and, but for `LockHolds`, nothing else. `Invariance` is in each module the inductive invariant `IInv`, with the
types; the runs need not check it again.

- `MarkRegisterProofs`. `IInv` is the type invariant with `HeldRowsExist` (a row a
  handler has found and not lost is there) and `HandlersWellFormed` (only
  leadership moderates; what is to be written is a value). The type invariant
  alone is not inductive: `[marks[s] EXCEPT !.status = ...]` is a mark only if the
  handler's row still exists, and that is what `gone` keeps track of.
  `Invariance` proves it, one lemma per action; `NoOrphans`, `ApprovalIsLeaderships` and
  `Refinement` follow from it. `AuditsFollow` needs more (`CInv`): a handler whose update
  found no row is a save at its updates and knows the row is gone, and a handler has
  written no more than it was to write; so whoever has written a score still owes its audit
  row, and pays unless it fails. `LockHoldsOneByOne` has a hypothesis, one slot for
  handlers (`OneByOne`), without which it is false (findings). Its invariant (`LInv`) says
  that what the handler under way has read of locks and drafts is still true.
- `LeaveCoverProofs`. `IInv` adds to the types that the leave a handler updates
  exists, that a handler which found its leave active and closes it has covers to drop
  (`CancelsOweDrops`), and that a handler nobody went behind is right about what it read
  (`UpToDate`). The second is what `OrphansAreExplained` needs: an update that knows the status it overwrites
  leaves the covers backed, by the leave or by the drop to come. The third is what
  `LeavesOverlapUnseenOnly` and `SubstitutesAway` need: a check for overlap, or that the
  substitute is not on leave, then holds when the handler writes.
- `TenantCacheProofs`. `IInv` adds that promises are of loads in flight, that a load
  reads no version older than the invalidation it began after, and that what a
  request has seen is what its memo holds. `LivePromises`, `OneVersionPerRequest` and
  `InvalidationHolds` follow.

- `OutboxProofs`. `IInv` is the shape of the jobs and four facts about mails: a job that
  has `SENT` to write is at a mail that was taken; a mail without an excuse is held by
  one job, unsent or owed (`HeldByOne`); one that is out and still pending is owed by
  some job (`OutIsKnown`). The last two are what makes `DuplicatesExplained`
  inductive: a row that is read as pending and held by nobody was never sent. `Fits` has
  the one case in which the row a job is at says `SENT` already: its answer was lost.
  `SentIsSent`, `DuplicatesAreExplained` and `RowsSettleOnce` follow.

- `ExamDesksProofs`. For the setup, `IInv` says how far a handler nobody crossed has come
  (`UncrossedKnows`: what it has saved is in the rows and its subject is there, what it
  holds is what there is, what it listed is the earliest date; `KnowsStill` and
  `DeleteSubjectPreserves` say that the deletion of a subject without a row disturbs none
  of it), and that a new ceiling still to be written to a
  locked exam is held by an early handler (`PendingCeilingIsEarly`). The first is what
  makes `DateFollowsPapers` inductive: the date is set from a list that is still true. For
  releases, `ListedOrQueued` carries `NotifiedMeansQueued`; for revaluations,
  `CarriesTheRequest` carries `CompletedMarkStands`. `LivesByTheRegister` is the refinement:
  every step of `Revaluation` is a step of `MarkLifecycle` or a stutter.
  For the lists, the types are invariant (`ListInvariance`) and the rest is about the
  algorithms. Sums, sorting and ranks are what an induction over numbers says; here it is
  an induction over a *set* of numbers (`Induction`), which follows from every such set
  having a least one (`LeastNumber`). `SumExists` and `SumGrows` are about the sum over the
  papers, `SortExists` about the sorted list, `RanksDown` about the ranks along it. `RanksDefined`
  counts the rows above by a bijection; `RaiseHurtsNobody` goes from a score to its scaled
  mark, the sum, the percent (`PercentGrows`), the grade, and the set of better students;
  `ReadyIsApproved` is that a part of a finite set that has as many members is all of it.
  They assume `ListAssumption`: finitely many pupils and subjects, scores and the ceiling are
  natural numbers, the maximum of a paper is at least 1. `ExamOfficeKeeps` carries all
  nine properties to the composed office.
- `SchoolOfficeProofs`. For the promotions, `IInv` says what they hold: a pupil that is not
  excused is held by one of them, and has no successor unless its old row is to be marked
  next (`HeldByOne`); and nobody comes from an id that was not given (`FromGiven`). So the
  row a promotion creates is the pupil's first. For the staff: a handler that is not
  behind is right about what it has read, from which `PrincipalStays` and `HandedOver`
  follow by cases over the steps. For the photos: a name was given before a row or a
  handler has it, one that is still to be written is nobody else's (`PendingIsOwn`), and one
  that was written belongs to one pupil (`OnePupilEach`); so who removes a file is at work
  on the row that names it (`LostOnlyByFailure`). For the subjects, `HandlersKnow` says what
  a count is worth once it was made: a subject in use was not when it was counted, unless
  the use is in `missed`; the sections of the class likewise; and the enrolments a list is
  about to replace are all among those it has deleted, unless the list is `late`.
  `OnlyUnusedDropped` and `EnrolledAsTheListSays` follow. `OfficeKeeps` carries the six to
  the composed office.
- `SignInProofs`. The invariant follows a token from the cookie through the calls that
  were sent with it; `CookieIsGood`, `AlarmIsTrue` and `SignedOutJustly` follow.
  `StaleIsExplained` needs the same of the loads under way (`LoadsExplained`).
- `CoverPlanProofs`. `IInv` counts the picks: they are the slots gone through and not
  left uncovered, so that the slot a context is built for is the one at hand until
  the first gap (`DaysFollow`; `Misled` has no other cause). The picks never lose a fact that
  was true when they were made: the plan only grows, and covers with it (`PicksFree`,
  `ReuseOfNeed`, `UncoveredSlots`).
  For the timetable (`EditorInvariance`): ids of periods are given out in order, without
  which two rows of one save could come to be one period (`SavesAsSent`); a schedule that is
  not empty has a first position for a seed that no save came upon, so that its first row
  is refused (`SeedsMeet`, `DefaultsWhenEmpty`); and a period that a class stands in, or that
  a handler has found free for one, is a break later only if a save has come upon it
  (`BreaksExplained`). They assume `EditorAssumption`: the default schedule has periods,
  positions are natural numbers that differ, and the markers are no ids.
  `TimetableKeeps` carries all six to the composed module: the side that is at rest
  has planned nothing, or is edited by nobody.

So every safety property that a passing run checks is also proved, with one hypothesis
for `LockHolds`. Only model-checked are `DriftEnds` and `EveryMailSettled`: they rest on
fairness, and the provers have no rule for what is enabled. The `violation` run has a
counterexample and no theorem.

## 5. Findings

`PROJECT.json` quotes the lines. In short:

- marks: submit asks for another grant than the message of an edit approval promises;
  a save planned before a submit writes over the lock; `PUT /marks` never invalidates;
  an upload takes marks for electives the student does not take, and they keep the
  list from being ready; the audit row of a deleted mark is deleted with it; practical
  marks are in no audit row;
- leave: a late cover outlives its leave; the overlap check is not atomic; a leave leaves
  the covers its teacher has taken as they are; the batch
  plan looks at the day of the wrong slot after one it leaves uncovered (`plan_gap`);
- exams: a ceiling can be written past its lock; a PATCH that drops classes, and the
  deletion of a subject, leave the exam date behind;
- report cards: publishing again takes back a sign-off but keeps its date; a
  revaluation changes a mark with no audit row;
- lists: drafts count in consolidated lists; an elective that nobody takes keeps a
  section from being ready;
- staff: the only active principal can be put out of action by a change of status;
- sessions: the cached identity outlives most changes by up to ten seconds;
- timetable: rows of the bell schedule cannot be exchanged; a late seed fills a schedule
  whose positions are not the default ones;
- students: a promotion copies the type of a photo kept as a file and not its name;
- classes and subjects: renaming the last section of a class clears no subjects; two saves
  of one elective's list at once leave both;
- jobs: the daily digest is hourly.

## 6. Not modelled, and what is next

Left out because nothing of it is concurrent or stateful beyond single rows: hall
tickets, the portal, professional development, board
packs, platform administration, notifications. Left out because they only read:
analytics, monitoring, exports, dashboards (they read through the tenant cache). Left
out as plumbing: schema set-up, the database adapter, rate limiting, caches no route
uses. The browser client is in the models as the sender of requests, and with its one
refresh at a time. `PROJECT.json` lists the parts that are missing of each modelled
component.

Next, in this order:

1. Digests by recipient: what two processes, or a run that stops half way, write
   twice.
2. The access requests that follow a transfer, and the marks that change hands when an
   account is deleted, as writers of the register.
3. Weighted assessment policies and configured grade bands in `Consolidated`.
4. The steps that the two liveness properties are made of: that a tick, once it has
   read a row, leaves it with fewer rows to settle; that drift shrinks with each load.
