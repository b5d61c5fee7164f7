------------------------------- MODULE Outbox -------------------------------
(***************************************************************************)
(* The mail outbox: rows of EmailOutbox, and the flushes that send them.   *)
(*                                                                         *)
(* A flush (lib/mailer.js) reads the pending rows and works them off one   *)
(* by one: send, then write down what came of it. It does not claim the    *)
(* rows it has read. It is started by the timer of a server process        *)
(* (lib/backgroundJobs.js), by the two routes of the platform desk, and at *)
(* the end of a digest run (lib/digests.js). The flag `running' keeps one  *)
(* process from ticking twice at once; the routes and the other processes  *)
(* do not look at it.                                                      *)
(*                                                                         *)
(* Every action is one awaited call with the code up to the next one.      *)
(***************************************************************************)
EXTENDS Naturals, FiniteSets

CONSTANTS
    Processes,      \* server processes, each with its timer
    Routes,         \* slots for requests of the platform desk
    Mails,          \* ids of the rows, in the order of createdAt
    Limit,          \* how many rows one flush takes
    Configured      \* the processes that have an SMTP server

ASSUME OutboxAssumption ==
    /\ Processes \cap Routes = {}
    /\ Configured \subseteq Processes
    /\ Mails \subseteq Nat
    /\ Limit \in Nat \ {0}

VARIABLES
    rows,       \* the status of each row
    jobs,       \* what the timer of each process, and each route, is doing
    running,    \* the flag of each process
    sends,      \* how often the SMTP server has taken a mail
    excused     \* history: mails two flushes held at once, or whose outcome was never written
vars == <<rows, jobs, running, sends, excused>>

Jobs == Processes \cup Routes
Settled == {"SENT", "FAILED", "SKIPPED"}
Statuses == {"none", "PENDING", "deleted"} \cup Settled

\* A job without a batch is idle, about to read the pending rows, or writing digests. With
\* a batch it is at its oldest row: before the attempt, with SENT or FAILED to write, or
\* with FAILED to write over a SENT of its own whose answer was lost.
Idle == [stage |-> "idle", batch |-> {}]
Busy == [stage : {"read", "digest", "row", "sent", "failed", "lost"}, on : Processes,
         next : {"flush", "digest", "end"}, batch : SUBSET Mails]

TypeOK ==
    /\ rows \in [Mails -> Statuses]
    /\ jobs \in [Jobs -> {Idle} \cup Busy]
    /\ running \in [Processes -> BOOLEAN]
    /\ sends \in [Mails -> {"never", "once", "again"}]
    /\ excused \subseteq Mails

Init ==
    /\ rows = [m \in Mails |-> "none"]
    /\ jobs = [j \in Jobs |-> Idle]
    /\ running = [p \in Processes |-> FALSE]
    /\ sends = [m \in Mails |-> "never"]
    /\ excused = {}

-----------------------------------------------------------------------------
\* Mutant of Pending: rows that failed are tried again.
PendingOrFailed == {m \in Mails : rows[m] \in {"PENDING", "FAILED"}}

\* The oldest Limit of the pending rows.
Pending == {m \in Mails : rows[m] = "PENDING"}
Taken(P) == {m \in P : Cardinality({n \in P : n < m}) < Limit}

Holds(j, m) == m \in jobs[j].batch
At(j, m) == Holds(j, m) /\ \A n \in jobs[j].batch : m <= n

\* The job has tried the mail and has yet to write what came of it.
Owes(j, m) == jobs[j].stage \in {"sent", "failed"} /\ At(j, m)

Becomes(j, job) == jobs' = [jobs EXCEPT ![j] = job]
Goes(j, stage) == Becomes(j, [jobs[j] EXCEPT !.stage = stage])

\* Mutant of Finish: the flag is left up.
FinishKeepsFlag(j) == Becomes(j, Idle) /\ UNCHANGED running

\* The job is over; a tick clears the flag of its process, whatever happened.
Finish(j) ==
    /\ Becomes(j, Idle)
    /\ running' = [p \in Processes |-> running[p] /\ p # j]

\* After the flush of a tick come the digests, if it is their turn, even if the flush threw.
FlushOver(j) ==
    \/ /\ jobs[j].next = "digest"
       /\ Becomes(j, [jobs[j] EXCEPT !.stage = "digest", !.next = "flush", !.batch = {}])
       /\ UNCHANGED running
    \/ jobs[j].next # "digest" /\ Finish(j)

\* On to the next row of the batch.
Advance(j, m) ==
    \/ /\ jobs[j].batch # {m}
       /\ Becomes(j, [jobs[j] EXCEPT !.stage = "row", !.batch = @ \ {m}])
       /\ UNCHANGED running
    \/ jobs[j].batch = {m} /\ FlushOver(j)

-----------------------------------------------------------------------------
\* queueEmail: rows come in the order of their ids.
NewRow ==
    /\ \E m \in Mails :
          /\ rows[m] = "none"
          /\ \A n \in Mails : n < m => rows[n] # "none"
          /\ rows' = [rows EXCEPT ![m] = "PENDING"]
    /\ UNCHANGED <<jobs, running, sends, excused>>

\* A notice to parents, or of a pilot request.
Queue == NewRow

\* The rows of a school are deleted, with the school or by the category.
DeleteRow(m) ==
    /\ rows[m] \notin {"none", "deleted"}
    /\ rows' = [rows EXCEPT ![m] = "deleted"]
    /\ UNCHANGED <<jobs, running, sends, excused>>

Starts(j, p, stage, next) ==
    Becomes(j, [stage |-> stage, on |-> p, next |-> next, batch |-> {}])

\* A tick of the timer: nothing if one of this process is still running; every so many
\* of them write digests after the flush.
Tick(p) ==
    /\ ~running[p]
    /\ running' = [running EXCEPT ![p] = TRUE]
    /\ \E next \in {"digest", "end"} : Starts(p, p, "read", next)
    /\ UNCHANGED <<rows, sends, excused>>

\* POST /mail/flush
RouteFlush(r, p) ==
    /\ jobs[r] = Idle
    /\ Starts(r, p, "read", "end")
    /\ UNCHANGED <<rows, running, sends, excused>>

\* POST /digests/run, with or without the flush at its end.
RouteDigests(r, p) ==
    /\ jobs[r] = Idle
    /\ \E next \in {"flush", "end"} : Starts(r, p, "digest", next)
    /\ UNCHANGED <<rows, running, sends, excused>>

\* One more leader gets a digest.
DigestQueues(j) == jobs[j].stage = "digest" /\ NewRow

DigestEnds(j) ==
    /\ jobs[j].stage = "digest"
    /\ \/ /\ jobs[j].next = "flush"
          /\ Becomes(j, [jobs[j] EXCEPT !.stage = "read", !.next = "end"])
          /\ UNCHANGED running
       \/ jobs[j].next = "end" /\ Finish(j)
    /\ UNCHANGED <<rows, sends, excused>>

\* A query of the digests is rejected: what is queued stays, the flush at the end is not reached.
DigestFails(j) ==
    /\ jobs[j].stage = "digest"
    /\ Finish(j)
    /\ UNCHANGED <<rows, sends, excused>>

-----------------------------------------------------------------------------
\* The pending rows are read, and nothing marks them as taken.
ReadPending(j) ==
    /\ jobs[j].stage = "read"
    /\ \/ Pending = {} /\ FlushOver(j) /\ UNCHANGED excused
       \/ /\ Pending # {}
          /\ Becomes(j, [jobs[j] EXCEPT !.stage = "row", !.batch = Taken(Pending)])
          /\ excused' = excused \cup {m \in Taken(Pending) : \E k \in Jobs : Holds(k, m)}
          /\ UNCHANGED running
    /\ UNCHANGED <<rows, sends>>

Once(n) == IF n = "never" THEN "once" ELSE "again"

\* Mutant of Send: sendMail is not awaited.
SendUnawaited(j, m) ==
    /\ jobs[j].stage = "row" /\ At(j, m) /\ jobs[j].on \in Configured
    /\ Goes(j, "sent")
    /\ \E n \in {sends[m], Once(sends[m])} : sends' = [sends EXCEPT ![m] = n]
    /\ UNCHANGED <<rows, running, excused>>

\* The SMTP server takes the mail or not, and sendMail is resolved or rejected; a mail that
\* was taken can come back as rejected, when the answer is lost.
Send(j, m) ==
    /\ jobs[j].stage = "row" /\ At(j, m) /\ jobs[j].on \in Configured
    /\ \/ Goes(j, "sent") /\ sends' = [sends EXCEPT ![m] = Once(@)]
       \/ Goes(j, "failed") /\ sends' = [sends EXCEPT ![m] = Once(@)]
       \/ Goes(j, "failed") /\ UNCHANGED sends
    /\ UNCHANGED <<rows, running, excused>>

\* The row is updated by id, whatever its status is by now; a row that is gone rejects.
Writes(j, m, status) ==
    /\ rows[m] # "deleted"
    /\ rows' = [rows EXCEPT ![m] = status]
    /\ Advance(j, m)
    /\ UNCHANGED <<sends, excused>>

\* No SMTP server: the row is put aside.
Skip(j, m) ==
    jobs[j].stage = "row" /\ At(j, m) /\ jobs[j].on \notin Configured /\ Writes(j, m, "SKIPPED")
MarkSent(j, m) == jobs[j].stage = "sent" /\ At(j, m) /\ Writes(j, m, "SENT")

\* Mutant of MarkFailed: a failed row is left for the next flush.
MarkFailedRetries(j, m) ==
    jobs[j].stage \in {"failed", "lost"} /\ At(j, m) /\ Writes(j, m, "PENDING")

MarkFailed(j, m) ==
    jobs[j].stage \in {"failed", "lost"} /\ At(j, m) /\ Writes(j, m, "FAILED")

\* The update to SENT is rejected, done or not (its answer may be lost): it is in the try as
\* well, so that FAILED is written next.
MarkSentFails(j) ==
    /\ jobs[j].stage = "sent"
    /\ \/ Goes(j, "failed") /\ UNCHANGED rows
       \/ /\ Goes(j, "lost")
          /\ \E m \in Mails : At(j, m) /\ rows[m] # "deleted" /\ rows' = [rows EXCEPT ![m] = "SENT"]
    /\ UNCHANGED <<running, sends, excused>>

\* A query outside the try is rejected: the flush throws and drops the rest of its batch.
FlushFails(j) ==
    /\ \/ jobs[j].stage \in {"read", "failed", "lost"}
       \/ jobs[j].stage = "row" /\ jobs[j].on \notin Configured
    /\ FlushOver(j)
    /\ excused' = excused \cup {m \in Mails : Owes(j, m)}
    /\ UNCHANGED <<rows, sends>>

\* A process stops and comes back: its timer and its requests are gone.
Stop(p) ==
    LET lost == {j \in Jobs : jobs[j] # Idle /\ jobs[j].on = p}
    IN  /\ jobs' = [j \in Jobs |-> IF j \in lost THEN Idle ELSE jobs[j]]
        /\ running' = [running EXCEPT ![p] = FALSE]
        /\ excused' = excused \cup {m \in Mails : \E j \in lost : Owes(j, m)}
        /\ UNCHANGED <<rows, sends>>

-----------------------------------------------------------------------------
\* What a job is waiting for is answered, well or not.
JobStep(j) ==
    \/ ReadPending(j) \/ MarkSentFails(j) \/ FlushFails(j)
    \/ DigestQueues(j) \/ DigestEnds(j) \/ DigestFails(j)
    \/ \E m \in Mails : Send(j, m) \/ Skip(j, m) \/ MarkSent(j, m) \/ MarkFailed(j, m)

Next ==
    \/ Queue
    \/ \E m \in Mails : DeleteRow(m)
    \/ \E p \in Processes : Tick(p) \/ Stop(p)
    \/ \E r \in Routes, p \in Processes : RouteFlush(r, p) \/ RouteDigests(r, p)
    \/ \E j \in Jobs : JobStep(j)

Spec == Init /\ [][Next]_vars

\* The timer goes on, and every call of a tick is answered (queries and SMTP have timeouts).
\* A call that is made again and again succeeds some time: the database does not reject the
\* same query for ever, nor does the process stop at the same place for ever. Nothing is
\* assumed of the routes, nor of what the SMTP server answers.
FairSpec ==
    /\ Spec
    /\ \A p \in Processes :
          /\ WF_vars(Tick(p))
          /\ WF_vars(JobStep(p))
          /\ SF_vars(ReadPending(p))
          /\ SF_vars(\E m \in Mails : Send(p, m))
          /\ SF_vars(\E m \in Mails : Skip(p, m) \/ MarkSent(p, m) \/ MarkFailed(p, m))

-----------------------------------------------------------------------------
(***************************************************************************)
(* Properties.                                                             *)
(***************************************************************************)
\* The flag of backgroundJobs.js says what it is for: it is up exactly while the timer of
\* the process has a tick under way. A flag left up would end the sending of mail.
FlagIsTick == \A p \in Processes : running[p] <=> jobs[p].stage # "idle"

\* A row that says SENT is of a mail the SMTP server has taken: the mark of mailer.js is
\* written after the answer, by whichever flush, however many are at work.
SentIsTrue == \A m \in Mails : rows[m] = "SENT" => sends[m] # "never"

\* A mail goes out twice for one of two reasons only: two flushes held it at once, or the
\* flush that sent it was ended before it had written that down.
DuplicatesExplained == \A m \in Mails : sends[m] = "again" => m \in excused

\* A row is settled once: what a flush has written of a mail is rewritten only by a second
\* flush that has it too, or by the flush itself when the answer to its SENT was lost.
LostAnswer(j, m) == jobs[j].stage = "lost" /\ At(j, m)

SettledOnce ==
    [][\A m \in Mails : rows[m] \in Settled /\ rows'[m] # rows[m]
          => \/ rows'[m] = "deleted" \/ m \in excused
             \/ \E j \in Jobs : LostAnswer(j, m) /\ MarkFailed(j, m)]_vars

\* The outbox delivers: a pending row does not stay pending, though flushes overlap,
\* throw half way and are cut off. An older row goes first and no failure keeps the flag up.
EveryMailSettled == \A m \in Mails : rows[m] = "PENDING" ~> rows[m] # "PENDING"

-----------------------------------------------------------------------------
(***************************************************************************)
(* The inductive invariant: what is true of the rows a flush holds.        *)
(***************************************************************************)
BatchesWellFormed ==
    /\ \A j \in Jobs : jobs[j].stage \in {"idle", "read", "digest"} => jobs[j].batch = {}
    /\ \A p \in Processes : jobs[p] # Idle => jobs[p].on = p
    /\ \A j \in Jobs, m \in Mails : Holds(j, m) => rows[m] # "none"
    /\ \A m \in Mails : rows[m] = "none" => sends[m] = "never"

SentWasTaken ==
    \A j \in Jobs, m \in Mails : jobs[j].stage = "sent" /\ At(j, m) => sends[m] # "never"

\* A mail without an excuse is held by one flush at most, which finds it pending (or
\* deleted) but for its own SENT, and once it is out it is settled, deleted, or still to be
\* written down.
Fits(j, m) == rows[m] \in {"deleted", IF LostAnswer(j, m) THEN "SENT" ELSE "PENDING"}
Tried(j, m) == Owes(j, m) \/ LostAnswer(j, m)

HeldByOne ==
    \A m \in Mails \ excused, j \in Jobs :
        Holds(j, m) => /\ Fits(j, m)
                       /\ \A k \in Jobs : Holds(k, m) => k = j
                       /\ sends[m] # "never" => Tried(j, m)
OutIsKnown ==
    \A m \in Mails \ excused :
        sends[m] # "never" /\ rows[m] = "PENDING" => \E j \in Jobs : Owes(j, m)

IInv ==
    /\ TypeOK /\ FlagIsTick /\ BatchesWellFormed /\ SentWasTaken /\ SentIsTrue
    /\ HeldByOne /\ OutIsKnown /\ DuplicatesExplained

=============================================================================
