---------------------------- MODULE OutboxProofs ----------------------------
(***************************************************************************)
(* What holds of the outbox for any number of processes, routes and rows:  *)
(* the inductive invariant, that a row which says SENT was taken by the    *)
(* SMTP server, when a mail goes out twice, and when a row is rewritten.   *)
(*                                                                         *)
(* The invariant is in two parts: the shape of the jobs (Shape), and what  *)
(* is known of the mails they hold (Outcomes).                             *)
(***************************************************************************)
EXTENDS Outbox, TLAPS

Shape == TypeOK /\ FlagIsTick /\ BatchesWellFormed
Outcomes == SentWasTaken /\ SentIsTrue /\ HeldByOne /\ OutIsKnown /\ DuplicatesExplained

\* Only j changes its job.
OnlyJob(j) == \A k \in Jobs : k # j => jobs'[k] = jobs[k]

\* The idle job is told apart from the busy ones.
LEMMA IdleOrBusy ==
    /\ Idle.stage = "idle" /\ Idle.batch = {}
    /\ \A b \in Busy : b # Idle /\ b.stage # "idle"
BY DEF Idle, Busy

LEMMA InitInv == Init => IInv
<1> SUFFICES ASSUME Init PROVE IInv
  OBVIOUS
<1>1. \A j \in Jobs : jobs[j] = Idle /\ jobs[j].stage = "idle" /\ jobs[j].batch = {}
  BY IdleOrBusy DEF Init
<1>2. TypeOK
  BY DEF Init, TypeOK, Statuses
<1>3. FlagIsTick
  BY <1>1 DEF Init, FlagIsTick, Jobs
<1>4. BatchesWellFormed
  BY <1>1 DEF Init, BatchesWellFormed, Holds, Jobs
<1>5. \A j \in Jobs, m \in Mails : ~Holds(j, m) /\ ~At(j, m) /\ ~Owes(j, m)
  BY <1>1 DEF Holds, At, Owes
<1>6. SentWasTaken /\ HeldByOne
  BY <1>5 DEF SentWasTaken, HeldByOne
<1>7. SentIsTrue /\ OutIsKnown /\ DuplicatesExplained
  BY DEF Init, SentIsTrue, OutIsKnown, DuplicatesExplained
<1> QED BY <1>2, <1>3, <1>4, <1>6, <1>7 DEF IInv

-----------------------------------------------------------------------------
(***************************************************************************)
(* How a job ends a flush or goes on.                                      *)
(***************************************************************************)
LEMMA FinishShape ==
    ASSUME TypeOK, FlagIsTick, NEW j \in Jobs, Finish(j)
    PROVE  /\ OnlyJob(j) /\ jobs'[j] = Idle
           /\ jobs' \in [Jobs -> {Idle} \cup Busy] /\ running' \in [Processes -> BOOLEAN]
           /\ FlagIsTick'
<1>1. OnlyJob(j) /\ jobs'[j] = Idle /\ jobs' \in [Jobs -> {Idle} \cup Busy]
  BY DEF Finish, OnlyJob, TypeOK, Becomes
<1>2. \A p \in Processes : running'[p] = (running[p] /\ p # j)
  BY DEF Finish
<1>3. running' \in [Processes -> BOOLEAN]
  BY DEF Finish, TypeOK
<1>4. ASSUME NEW p \in Processes PROVE running'[p] <=> jobs'[p].stage # "idle"
  <2>1. p \in Jobs
    BY DEF Jobs
  <2>2. CASE p = j
    BY <1>1, <1>2, <2>2, IdleOrBusy
  <2>3. CASE p # j
    BY <1>1, <1>2, <2>1, <2>3 DEF FlagIsTick, OnlyJob
  <2> QED BY <2>2, <2>3
<1> QED BY <1>1, <1>3, <1>4 DEF FlagIsTick

\* A busy job that stays busy, with the flags left alone.
LEMMA GoOnShape ==
    ASSUME TypeOK, FlagIsTick, NEW j \in Jobs, jobs[j].stage # "idle",
           NEW c \in Busy, Becomes(j, c), UNCHANGED running
    PROVE  /\ OnlyJob(j) /\ jobs'[j] = c
           /\ jobs' \in [Jobs -> {Idle} \cup Busy] /\ running' \in [Processes -> BOOLEAN]
           /\ FlagIsTick'
<1>1. OnlyJob(j) /\ jobs'[j] = c /\ jobs' \in [Jobs -> {Idle} \cup Busy]
  BY DEF OnlyJob, TypeOK, Becomes
<1>2. running' \in [Processes -> BOOLEAN]
  BY DEF TypeOK
<1>3. ASSUME NEW p \in Processes PROVE running'[p] <=> jobs'[p].stage # "idle"
  <2>1. p \in Jobs
    BY DEF Jobs
  <2>2. CASE p = j
    BY <1>1, <2>2, IdleOrBusy DEF FlagIsTick
  <2>3. CASE p # j
    BY <1>1, <2>1, <2>3 DEF FlagIsTick, OnlyJob
  <2> QED BY <2>2, <2>3
<1> QED BY <1>1, <1>2, <1>3 DEF FlagIsTick

LEMMA FlushOverShape ==
    ASSUME TypeOK, FlagIsTick, NEW j \in Jobs, jobs[j].stage # "idle", FlushOver(j)
    PROVE  /\ OnlyJob(j)
           /\ jobs' \in [Jobs -> {Idle} \cup Busy] /\ running' \in [Processes -> BOOLEAN]
           /\ jobs'[j].stage \in {"idle", "digest"} /\ jobs'[j].batch = {}
           /\ jobs'[j] # Idle => jobs'[j].on = jobs[j].on
           /\ FlagIsTick'
<1>1. jobs[j] \in Busy
  BY IdleOrBusy DEF TypeOK
<1>2. CASE jobs[j].next # "digest" /\ Finish(j)
  BY <1>2, FinishShape, IdleOrBusy
<1>3. CASE /\ jobs[j].next = "digest"
           /\ Becomes(j, [jobs[j] EXCEPT !.stage = "digest", !.next = "flush", !.batch = {}])
           /\ UNCHANGED running
  <2> DEFINE c == [jobs[j] EXCEPT !.stage = "digest", !.next = "flush", !.batch = {}]
  <2>1. c \in Busy /\ c.stage = "digest" /\ c.batch = {} /\ c.on = jobs[j].on
    BY <1>1 DEF Busy
  <2>2. Becomes(j, c)
    BY <1>3
  <2> HIDE DEF c
  <2> QED BY <1>3, <2>1, <2>2, GoOnShape
<1> QED BY <1>2, <1>3 DEF FlushOver

LEMMA AdvanceShape ==
    ASSUME TypeOK, FlagIsTick, NEW j \in Jobs, NEW m \in Mails, Holds(j, m),
           jobs[j].stage # "idle", Advance(j, m)
    PROVE  /\ OnlyJob(j)
           /\ jobs' \in [Jobs -> {Idle} \cup Busy] /\ running' \in [Processes -> BOOLEAN]
           /\ jobs'[j].batch = jobs[j].batch \ {m}
           /\ \/ jobs'[j].stage = "row" /\ jobs'[j].batch # {}
              \/ jobs'[j].stage \in {"idle", "digest"} /\ jobs'[j].batch = {}
           /\ jobs'[j] # Idle => jobs'[j].on = jobs[j].on
           /\ FlagIsTick'
<1>1. jobs[j] \in Busy
  BY IdleOrBusy DEF TypeOK
<1>2. CASE jobs[j].batch = {m} /\ FlushOver(j)
  BY <1>2, FlushOverShape
<1>3. CASE /\ jobs[j].batch # {m}
           /\ Becomes(j, [jobs[j] EXCEPT !.stage = "row", !.batch = @ \ {m}])
           /\ UNCHANGED running
  <2> DEFINE c == [jobs[j] EXCEPT !.stage = "row", !.batch = @ \ {m}]
  <2>1. c \in Busy /\ c.stage = "row" /\ c.batch = jobs[j].batch \ {m} /\ c.on = jobs[j].on
    BY <1>1 DEF Busy
  <2>2. Becomes(j, c)
    BY <1>3
  <2>3. c.batch # {}
    BY <1>3, <2>1 DEF Holds
  <2> HIDE DEF c
  <2> QED BY <1>3, <2>1, <2>2, <2>3, GoOnShape
<1> QED BY <1>2, <1>3 DEF Advance

-----------------------------------------------------------------------------
(***************************************************************************)
(* The parts of the invariant over a step of one job.                      *)
(***************************************************************************)
LEMMA SameJob ==
    ASSUME NEW k, jobs'[k] = jobs[k]
    PROVE  \A m : /\ Holds(k, m)' <=> Holds(k, m)
                  /\ At(k, m)' <=> At(k, m)
                  /\ Owes(k, m)' <=> Owes(k, m)
                  /\ LostAnswer(k, m)' <=> LostAnswer(k, m)
BY DEF Holds, At, Owes, LostAnswer

\* What a job that stays as it is knows of a mail stays true as long as the row does.
LEMMA SameFit ==
    ASSUME NEW k, jobs'[k] = jobs[k], NEW m, rows'[m] = rows[m]
    PROVE  (Fits(k, m)' <=> Fits(k, m)) /\ (Tried(k, m)' <=> Tried(k, m))
BY SameJob DEF Fits, Tried

\* A job is at one row only.
LEMMA OneOldest ==
    ASSUME NEW j, NEW m \in Mails, NEW n \in Mails, At(j, m), At(j, n)
    PROVE  m = n
BY OutboxAssumption DEF At, Holds

LEMMA ShapeStep ==
    ASSUME Shape, NEW j \in Jobs, OnlyJob(j), FlagIsTick',
           jobs' \in [Jobs -> {Idle} \cup Busy], running' \in [Processes -> BOOLEAN],
           rows' \in [Mails -> Statuses], excused' \subseteq Mails,
           sends' \in [Mails -> {"never", "once", "again"}],
           jobs'[j].stage \in {"idle", "read", "digest"} => jobs'[j].batch = {},
           j \in Processes /\ jobs'[j] # Idle => jobs'[j].on = j,
           \A m \in Mails : rows[m] # "none" => rows'[m] # "none",
           \A m \in Mails : m \in jobs'[j].batch => rows'[m] # "none",
           \A m \in Mails : rows'[m] = "none" => sends'[m] = "never"
    PROVE  Shape'
<1>1. TypeOK'
  BY DEF TypeOK
<1>2. \A k \in Jobs : jobs'[k].stage \in {"idle", "read", "digest"} => jobs'[k].batch = {}
  BY DEF OnlyJob, Shape, BatchesWellFormed
<1>3. \A p \in Processes : jobs'[p] # Idle => jobs'[p].on = p
  BY DEF OnlyJob, Shape, BatchesWellFormed, Jobs
<1>4. \A k \in Jobs, m \in Mails : Holds(k, m)' => rows'[m] # "none"
  BY DEF OnlyJob, Shape, BatchesWellFormed, Holds
<1> QED BY <1>1, <1>2, <1>3, <1>4 DEF Shape, BatchesWellFormed

\* A job lets go of its batch; what it owed is excused.
LEMMA LetsGo ==
    ASSUME Shape, Outcomes, NEW j \in Jobs, OnlyJob(j), jobs'[j].batch = {},
           UNCHANGED <<rows, sends>>, excused \subseteq excused',
           \A m \in Mails : Owes(j, m) => m \in excused'
    PROVE  Outcomes'
<1>1. \A m : ~Holds(j, m)' /\ ~At(j, m)' /\ ~Owes(j, m)'
  BY DEF Holds, At, Owes
<1>2. \A k \in Jobs : k # j => jobs'[k] = jobs[k]
  BY DEF OnlyJob
<1>3. SentWasTaken'
  BY <1>1, <1>2, SameJob DEF Outcomes, SentWasTaken
<1>4. SentIsTrue' /\ DuplicatesExplained'
  BY DEF Outcomes, SentIsTrue, DuplicatesExplained
<1>5. HeldByOne'
  <2> SUFFICES ASSUME NEW m \in Mails \ excused', NEW k \in Jobs, Holds(k, m)'
               PROVE  /\ Fits(k, m)'
                      /\ \A l \in Jobs : Holds(l, m)' => l = k
                      /\ sends'[m] # "never" => Tried(k, m)'
    BY DEF HeldByOne
  <2>1. /\ k # j /\ Holds(k, m)
        /\ Fits(k, m)' <=> Fits(k, m)
        /\ Tried(k, m)' <=> Tried(k, m)
    BY <1>1, <1>2, SameJob, SameFit
  <2>2. \A l \in Jobs : Holds(l, m)' => Holds(l, m)
    BY <1>1, <1>2, SameJob
  <2> QED BY <2>1, <2>2 DEF Outcomes, HeldByOne
<1>6. OutIsKnown'
  <2> SUFFICES ASSUME NEW m \in Mails \ excused', sends'[m] # "never", rows'[m] = "PENDING"
               PROVE  \E k \in Jobs : Owes(k, m)'
    BY DEF OutIsKnown
  <2>1. PICK k \in Jobs : Owes(k, m)
    BY DEF Outcomes, OutIsKnown
  <2>2. k # j
    BY <2>1
  <2> QED BY <1>2, <2>1, <2>2, SameJob
<1> QED BY <1>3, <1>4, <1>5, <1>6 DEF Outcomes

-----------------------------------------------------------------------------
(***************************************************************************)
(* One lemma per action, or per group of actions of one kind.              *)
(***************************************************************************)
LEMMA NewRowInv == ASSUME Shape, Outcomes, NewRow PROVE Shape' /\ Outcomes'
<1>1. PICK m \in Mails : rows[m] = "none" /\ rows' = [rows EXCEPT ![m] = "PENDING"]
  BY DEF NewRow
<1>2. UNCHANGED <<jobs, running, sends, excused>>
  BY DEF NewRow
<1>3. sends[m] = "never" /\ \A k \in Jobs : ~Holds(k, m)
  BY <1>1 DEF Shape, BatchesWellFormed
<1>4. \A n \in Mails : n # m => rows'[n] = rows[n]
  BY <1>1 DEF Shape, TypeOK
<1>5. rows'[m] = "PENDING" /\ rows' \in [Mails -> Statuses]
  BY <1>1 DEF Shape, TypeOK, Statuses
<1>6. Shape'
  <2>1. TypeOK'
    BY <1>2, <1>5 DEF Shape, TypeOK
  <2>2. FlagIsTick'
    BY <1>2 DEF Shape, FlagIsTick
  <2>3. BatchesWellFormed'
    BY <1>2, <1>4, <1>5 DEF Shape, BatchesWellFormed, Holds
  <2> QED BY <2>1, <2>2, <2>3 DEF Shape
<1>7. \A k \in Jobs, n \in Mails : /\ Holds(k, n)' <=> Holds(k, n)
                                   /\ At(k, n)' <=> At(k, n)
                                   /\ Owes(k, n)' <=> Owes(k, n)
                                   /\ LostAnswer(k, n)' <=> LostAnswer(k, n)
  BY <1>2, SameJob
<1>8. SentWasTaken'
  BY <1>2, <1>7 DEF Outcomes, SentWasTaken
<1>9. SentIsTrue' /\ DuplicatesExplained'
  BY <1>2, <1>4, <1>5 DEF Outcomes, SentIsTrue, DuplicatesExplained
<1>10. HeldByOne'
  BY <1>2, <1>3, <1>4, <1>7 DEF Outcomes, HeldByOne, Fits, Tried
<1>11. OutIsKnown'
  BY <1>2, <1>3, <1>4, <1>7 DEF Outcomes, OutIsKnown
<1> QED BY <1>6, <1>8, <1>9, <1>10, <1>11 DEF Outcomes

LEMMA DeleteRowInv ==
    ASSUME Shape, Outcomes, NEW m \in Mails, DeleteRow(m) PROVE Shape' /\ Outcomes'
<1>1. UNCHANGED <<jobs, running, sends, excused>>
  BY DEF DeleteRow
<1>2. \A n \in Mails : n # m => rows'[n] = rows[n]
  BY DEF DeleteRow, Shape, TypeOK
<1>3. rows'[m] = "deleted" /\ rows' \in [Mails -> Statuses]
  BY DEF DeleteRow, Shape, TypeOK, Statuses
<1>4. Shape'
  <2>1. TypeOK'
    BY <1>1, <1>3 DEF Shape, TypeOK
  <2>2. FlagIsTick'
    BY <1>1 DEF Shape, FlagIsTick
  <2>3. BatchesWellFormed'
    BY <1>1, <1>2, <1>3 DEF Shape, BatchesWellFormed, Holds
  <2> QED BY <2>1, <2>2, <2>3 DEF Shape
<1>5. \A k \in Jobs, n \in Mails : /\ Holds(k, n)' <=> Holds(k, n)
                                   /\ At(k, n)' <=> At(k, n)
                                   /\ Owes(k, n)' <=> Owes(k, n)
                                   /\ LostAnswer(k, n)' <=> LostAnswer(k, n)
  BY <1>1, SameJob
<1>6. SentWasTaken'
  BY <1>1, <1>5 DEF Outcomes, SentWasTaken
<1>7. SentIsTrue' /\ DuplicatesExplained'
  BY <1>1, <1>2, <1>3 DEF Outcomes, SentIsTrue, DuplicatesExplained
<1>8. HeldByOne'
  BY <1>1, <1>2, <1>3, <1>5 DEF Outcomes, HeldByOne, Fits, Tried
<1>9. OutIsKnown'
  BY <1>1, <1>2, <1>3, <1>5 DEF Outcomes, OutIsKnown
<1> QED BY <1>4, <1>6, <1>7, <1>8, <1>9 DEF Outcomes

\* A job without a batch goes to another stage without one.
LEMMA QuietInv ==
    ASSUME Shape, Outcomes, NEW j \in Jobs, OnlyJob(j), FlagIsTick',
           jobs' \in [Jobs -> {Idle} \cup Busy], running' \in [Processes -> BOOLEAN],
           jobs[j].batch = {}, jobs'[j].batch = {},
           j \in Processes /\ jobs'[j] # Idle => jobs'[j].on = j,
           UNCHANGED <<rows, sends, excused>>
    PROVE  Shape' /\ Outcomes'
<1>1. \A m \in Mails : ~Owes(j, m)
  BY DEF Owes, At, Holds
<1>2. Outcomes'
  BY <1>1, LetsGo
<1>3. Shape'
  <2>1. \A m \in Mails : rows'[m] = "none" => sends'[m] = "never"
    BY DEF Shape, BatchesWellFormed
  <2>2. /\ rows' \in [Mails -> Statuses] /\ excused' \subseteq Mails
        /\ sends' \in [Mails -> {"never", "once", "again"}]
    BY DEF Shape, TypeOK
  <2> QED BY <2>1, <2>2, ShapeStep
<1> QED BY <1>2, <1>3

\* Starting a job.
LEMMA StartsShape ==
    ASSUME Shape, NEW j \in Jobs, NEW p \in Processes, jobs[j] = Idle,
           NEW stage \in {"read", "digest"}, NEW next \in {"flush", "digest", "end"},
           Starts(j, p, stage, next)
    PROVE  /\ OnlyJob(j) /\ jobs' \in [Jobs -> {Idle} \cup Busy]
           /\ jobs'[j].stage # "idle" /\ jobs'[j].batch = {} /\ jobs'[j].on = p
<1> DEFINE c == [stage |-> stage, on |-> p, next |-> next, batch |-> {}]
<1>1. c \in Busy /\ c.stage # "idle" /\ c.batch = {} /\ c.on = p
  BY DEF Busy
<1>2. Becomes(j, c)
  BY DEF Starts
<1> HIDE DEF c
<1> QED BY <1>1, <1>2 DEF Becomes, OnlyJob, Shape, TypeOK

LEMMA TickInv ==
    ASSUME Shape, Outcomes, NEW p \in Processes, Tick(p) PROVE Shape' /\ Outcomes'
<1>1. p \in Jobs
  BY DEF Jobs
<1>2. jobs[p] = Idle
  BY <1>1, IdleOrBusy DEF Tick, Shape, FlagIsTick, TypeOK
<1>3. PICK next \in {"digest", "end"} : Starts(p, p, "read", next)
  BY DEF Tick
<1>4. /\ OnlyJob(p) /\ jobs' \in [Jobs -> {Idle} \cup Busy]
      /\ jobs'[p].stage # "idle" /\ jobs'[p].batch = {} /\ jobs'[p].on = p
  BY <1>1, <1>2, <1>3, StartsShape
<1>5. running' \in [Processes -> BOOLEAN]
  BY DEF Tick, Shape, TypeOK
<1>6. FlagIsTick'
  <2> SUFFICES ASSUME NEW q \in Processes PROVE running'[q] <=> jobs'[q].stage # "idle"
    BY DEF FlagIsTick
  <2>1. CASE q = p
    BY <1>4, <2>1 DEF Tick, Shape, TypeOK
  <2>2. CASE q # p
    <3>1. jobs'[q] = jobs[q]
      BY <1>4, <2>2 DEF OnlyJob, Jobs
    <3>2. running'[q] = running[q]
      BY <2>2 DEF Tick, Shape, TypeOK
    <3> QED BY <3>1, <3>2 DEF Shape, FlagIsTick
  <2> QED BY <2>1, <2>2
<1>7. UNCHANGED <<rows, sends, excused>> /\ jobs[p].batch = {}
  BY <1>2, IdleOrBusy DEF Tick
<1> QED BY <1>1, <1>4, <1>5, <1>6, <1>7, QuietInv

LEMMA RouteInv ==
    ASSUME Shape, Outcomes, NEW r \in Routes, NEW p \in Processes,
           RouteFlush(r, p) \/ RouteDigests(r, p)
    PROVE  Shape' /\ Outcomes'
<1>1. r \in Jobs /\ r \notin Processes
  BY OutboxAssumption DEF Jobs
<1>2. jobs[r] = Idle /\ UNCHANGED <<rows, running, sends, excused>>
  BY DEF RouteFlush, RouteDigests
<1>3. PICK stage \in {"read", "digest"}, next \in {"flush", "digest", "end"} :
          Starts(r, p, stage, next)
  BY DEF RouteFlush, RouteDigests
<1>4. /\ OnlyJob(r) /\ jobs' \in [Jobs -> {Idle} \cup Busy] /\ jobs'[r].batch = {}
  BY <1>1, <1>2, <1>3, StartsShape
<1>5. running' \in [Processes -> BOOLEAN] /\ jobs[r].batch = {}
  BY <1>2, IdleOrBusy DEF Shape, TypeOK
<1>6. FlagIsTick'
  BY <1>1, <1>2, <1>4 DEF Shape, FlagIsTick, OnlyJob, Jobs
<1> QED BY <1>1, <1>2, <1>4, <1>5, <1>6, QuietInv

\* The end of the digests.
LEMMA DigestInv ==
    ASSUME Shape, Outcomes, NEW j \in Jobs, DigestEnds(j) \/ DigestFails(j)
    PROVE  Shape' /\ Outcomes'
<1>1. /\ jobs[j].stage = "digest" /\ jobs[j].batch = {} /\ jobs[j] \in Busy
      /\ UNCHANGED <<rows, sends, excused>>
  BY IdleOrBusy DEF DigestEnds, DigestFails, Shape, BatchesWellFormed, TypeOK
<1>2. CASE Finish(j)
  BY <1>1, <1>2, FinishShape, IdleOrBusy, QuietInv DEF Shape
<1>3. CASE /\ Becomes(j, [jobs[j] EXCEPT !.stage = "read", !.next = "end"])
           /\ UNCHANGED running
  <2> DEFINE c == [jobs[j] EXCEPT !.stage = "read", !.next = "end"]
  <2>1. c \in Busy /\ c.stage = "read" /\ c.batch = {} /\ c.on = jobs[j].on
    BY <1>1 DEF Busy
  <2>2. Becomes(j, c)
    BY <1>3
  <2>3. j \in Processes => c.on = j
    BY <1>1, <2>1, IdleOrBusy DEF Shape, BatchesWellFormed
  <2> HIDE DEF c
  <2>4. /\ OnlyJob(j) /\ jobs'[j] = c /\ jobs' \in [Jobs -> {Idle} \cup Busy]
        /\ running' \in [Processes -> BOOLEAN] /\ FlagIsTick'
    BY <1>1, <1>3, <2>1, <2>2, GoOnShape DEF Shape
  <2> QED BY <1>1, <2>1, <2>3, <2>4, QuietInv
<1> QED BY <1>2, <1>3 DEF DigestEnds, DigestFails

\* A flush is over with the rows as they are.
LEMMA FlushOverInv ==
    ASSUME Shape, Outcomes, NEW j \in Jobs, jobs[j].stage # "idle", FlushOver(j),
           UNCHANGED <<rows, sends>>, excused' = excused \cup {m \in Mails : Owes(j, m)}
    PROVE  Shape' /\ Outcomes'
<1>1. /\ OnlyJob(j)
      /\ jobs' \in [Jobs -> {Idle} \cup Busy] /\ running' \in [Processes -> BOOLEAN]
      /\ jobs'[j].batch = {}
      /\ jobs'[j] # Idle => jobs'[j].on = jobs[j].on
      /\ FlagIsTick'
  BY FlushOverShape DEF Shape
<1>2. j \in Processes => jobs[j].on = j
  BY IdleOrBusy DEF Shape, BatchesWellFormed
<1>3. Outcomes'
  <2>1. excused \subseteq excused' /\ \A m \in Mails : Owes(j, m) => m \in excused'
    OBVIOUS
  <2> QED BY <1>1, <2>1, LetsGo
<1>4. Shape'
  <2>0. rows' = rows /\ sends' = sends
    OBVIOUS
  <2>1. \A m \in Mails : rows'[m] = "none" => sends'[m] = "never"
    BY <2>0 DEF Shape, BatchesWellFormed
  <2>2. /\ rows' \in [Mails -> Statuses] /\ excused' \subseteq Mails
        /\ sends' \in [Mails -> {"never", "once", "again"}]
    BY <2>0 DEF Shape, TypeOK
  <2>3. j \in Processes /\ jobs'[j] # Idle => jobs'[j].on = j
    BY <1>1, <1>2
  <2>4. \A m \in Mails : m \in jobs'[j].batch => rows'[m] # "none"
    BY <1>1
  <2>5. \A m \in Mails : rows[m] # "none" => rows'[m] # "none"
    BY <2>0
  <2>6. jobs'[j].stage \in {"idle", "read", "digest"} => jobs'[j].batch = {}
    BY <1>1
  <2> QED BY <1>1, <2>1, <2>2, <2>3, <2>4, <2>5, <2>6, ShapeStep
<1> QED BY <1>3, <1>4

LEMMA FlushFailsInv ==
    ASSUME Shape, Outcomes, NEW j \in Jobs, FlushFails(j) PROVE Shape' /\ Outcomes'
<1>1. jobs[j].stage # "idle"
  BY DEF FlushFails
<1> QED BY <1>1, FlushOverInv DEF FlushFails

\* What is read is pending; what somebody holds already is excused from now on.
LEMMA ReadPendingInv ==
    ASSUME Shape, Outcomes, NEW j \in Jobs, ReadPending(j) PROVE Shape' /\ Outcomes'
<1>1. jobs[j].stage = "read" /\ jobs[j].batch = {} /\ jobs[j] \in Busy
  BY IdleOrBusy DEF ReadPending, Shape, BatchesWellFormed, TypeOK
<1>2. UNCHANGED <<rows, sends>>
  BY DEF ReadPending
<1>3. CASE FlushOver(j) /\ UNCHANGED excused
  <2>1. \A m \in Mails : ~Owes(j, m)
    BY <1>1 DEF Owes
  <2>2. excused' = excused \cup {m \in Mails : Owes(j, m)}
    BY <1>3, <2>1
  <2> QED BY <1>1, <1>2, <1>3, <2>2, FlushOverInv
<1>4. CASE /\ Becomes(j, [jobs[j] EXCEPT !.stage = "row", !.batch = Taken(Pending)])
           /\ excused' = excused \cup {m \in Taken(Pending) : \E k \in Jobs : Holds(k, m)}
           /\ UNCHANGED running
  <2> DEFINE T == Taken(Pending)
             c == [jobs[j] EXCEPT !.stage = "row", !.batch = T]
  <2>1. T \subseteq Mails /\ \A m \in T : rows[m] = "PENDING"
    BY DEF Taken, Pending
  <2>2. Becomes(j, c) /\ excused' = excused \cup {m \in T : \E k \in Jobs : Holds(k, m)}
    BY <1>4
  <2> HIDE DEF T
  <2>3. c \in Busy /\ c.stage = "row" /\ c.batch = T /\ c.on = jobs[j].on
    BY <1>1, <2>1 DEF Busy
  <2>4. j \in Processes => c.on = j
    BY <1>1, <2>3, IdleOrBusy DEF Shape, BatchesWellFormed
  <2> HIDE DEF c
  <2>5. /\ OnlyJob(j) /\ jobs'[j] = c /\ jobs' \in [Jobs -> {Idle} \cup Busy]
        /\ running' \in [Processes -> BOOLEAN] /\ FlagIsTick'
    BY <1>1, <1>4, <2>2, <2>3, GoOnShape DEF Shape
  <2>6. Shape'
    <3>1. \A m \in Mails : rows'[m] = "none" => sends'[m] = "never"
      BY <1>2 DEF Shape, BatchesWellFormed
    <3>2. /\ rows' \in [Mails -> Statuses] /\ excused' \subseteq Mails
          /\ sends' \in [Mails -> {"never", "once", "again"}]
      BY <1>2, <2>1, <2>2 DEF Shape, TypeOK
    <3>3. \A m \in Mails : m \in jobs'[j].batch => rows'[m] # "none"
      BY <1>2, <2>1, <2>3, <2>5
    <3> QED BY <1>2, <2>3, <2>4, <2>5, <3>1, <3>2, <3>3, ShapeStep
  <2>7. \A k \in Jobs : k # j => jobs'[k] = jobs[k]
    BY <2>5 DEF OnlyJob
  <2>8. /\ \A m : Holds(j, m)' <=> m \in T
        /\ \A m : ~Owes(j, m)' /\ ~Owes(j, m) /\ ~Holds(j, m)
    BY <1>1, <2>3, <2>5 DEF Holds, Owes
  <2>9. SentWasTaken'
    BY <1>2, <2>3, <2>5, <2>7, SameJob DEF Outcomes, SentWasTaken
  <2>10. SentIsTrue' /\ DuplicatesExplained'
    BY <1>2, <2>2 DEF Outcomes, SentIsTrue, DuplicatesExplained
  <2>11. HeldByOne'
    <3> SUFFICES ASSUME NEW m \in Mails \ excused', NEW k \in Jobs, Holds(k, m)'
                 PROVE  /\ Fits(k, m)'
                        /\ \A l \in Jobs : Holds(l, m)' => l = k
                        /\ sends'[m] # "never" => Tried(k, m)'
      BY DEF HeldByOne
    <3>1. m \notin excused
      BY <2>2
    <3>2. CASE m \in T
      <4>1. \A l \in Jobs : ~Holds(l, m)
        BY <2>2, <3>2
      <4>2. \A l \in Jobs : Holds(l, m)' => l = j
        BY <2>7, <4>1, SameJob
      <4>3. \A l \in Jobs : ~Owes(l, m)
        BY <4>1 DEF Owes, At
      <4>4. rows'[m] = "PENDING" /\ sends'[m] = "never"
        BY <1>2, <2>1, <3>1, <3>2, <4>3 DEF Outcomes, OutIsKnown
      <4>5. ~LostAnswer(k, m)'
        BY <2>3, <2>5, <4>2 DEF LostAnswer
      <4> QED BY <4>2, <4>4, <4>5 DEF Fits
    <3>3. CASE m \notin T
      <4>1. \A l \in Jobs : Holds(l, m)' => l # j /\ Holds(l, m)
        BY <2>7, <2>8, <3>3, SameJob
      <4>2. k # j /\ (Fits(k, m)' <=> Fits(k, m)) /\ (Tried(k, m)' <=> Tried(k, m))
        BY <1>2, <2>7, <4>1, SameFit
      <4> QED BY <1>2, <3>1, <4>1, <4>2 DEF Outcomes, HeldByOne
    <3> QED BY <3>2, <3>3
  <2>12. OutIsKnown'
    <3> SUFFICES ASSUME NEW m \in Mails \ excused', sends'[m] # "never", rows'[m] = "PENDING"
                 PROVE  \E k \in Jobs : Owes(k, m)'
      BY DEF OutIsKnown
    <3>1. PICK k \in Jobs : Owes(k, m)
      BY <1>2, <2>2 DEF Outcomes, OutIsKnown
    <3>2. k # j
      BY <2>8, <3>1
    <3> QED BY <2>7, <3>1, <3>2, SameJob
  <2> QED BY <2>6, <2>9, <2>10, <2>11, <2>12 DEF Outcomes
<1> QED BY <1>3, <1>4 DEF ReadPending

\* A row is written: whoever else had it is excused, and the rest of the batch was not tried.
LEMMA WritesInv ==
    ASSUME Shape, Outcomes, NEW j \in Jobs, NEW m \in Mails, At(j, m),
           jobs[j].stage # "idle", NEW status \in Settled, Writes(j, m, status),
           status = "SENT" => jobs[j].stage = "sent"
    PROVE  Shape' /\ Outcomes'
<1>1. Holds(j, m)
  BY DEF At
<1>2. UNCHANGED <<sends, excused>> /\ rows[m] # "deleted" /\ Advance(j, m)
  BY DEF Writes
<1>3. /\ rows' \in [Mails -> Statuses] /\ rows'[m] = status
      /\ \A n \in Mails : n # m => rows'[n] = rows[n]
  BY DEF Writes, Shape, TypeOK, Statuses
<1>4. status # "none" /\ status # "PENDING"
  BY DEF Settled
<1>5. /\ OnlyJob(j)
      /\ jobs' \in [Jobs -> {Idle} \cup Busy] /\ running' \in [Processes -> BOOLEAN]
      /\ jobs'[j].batch = jobs[j].batch \ {m}
      /\ \/ jobs'[j].stage = "row" /\ jobs'[j].batch # {}
         \/ jobs'[j].stage \in {"idle", "digest"} /\ jobs'[j].batch = {}
      /\ jobs'[j] # Idle => jobs'[j].on = jobs[j].on
      /\ FlagIsTick'
  BY <1>1, <1>2, AdvanceShape DEF Shape
<1>6. Shape'
  <2>1. \A n \in Mails : rows'[n] = "none" => sends'[n] = "never"
    BY <1>2, <1>3, <1>4 DEF Shape, BatchesWellFormed
  <2>2. /\ excused' \subseteq Mails
        /\ sends' \in [Mails -> {"never", "once", "again"}]
    BY <1>2 DEF Shape, TypeOK
  <2>3. j \in Processes /\ jobs'[j] # Idle => jobs'[j].on = j
    BY <1>5, IdleOrBusy DEF Shape, BatchesWellFormed
  <2>4. \A n \in Mails : rows[n] # "none" => rows'[n] # "none"
    BY <1>3, <1>4
  <2>5. \A n \in Mails : n \in jobs'[j].batch => rows'[n] # "none"
    BY <1>5, <2>4 DEF Shape, BatchesWellFormed, Holds
  <2>6. jobs'[j].stage \in {"idle", "read", "digest"} => jobs'[j].batch = {}
    BY <1>5
  <2> QED BY <1>3, <1>5, <2>1, <2>2, <2>3, <2>4, <2>5, <2>6, ShapeStep
<1>7. \A k \in Jobs : k # j => jobs'[k] = jobs[k]
  BY <1>5 DEF OnlyJob
<1>8. /\ \A n : Holds(j, n)' <=> Holds(j, n) /\ n # m
      /\ \A n : ~Owes(j, n)' /\ ~LostAnswer(j, n)'
  BY <1>5 DEF Holds, Owes, LostAnswer
<1>9. \A n \in Mails : n # m => ~Owes(j, n) /\ ~LostAnswer(j, n)
  BY OneOldest DEF Owes, LostAnswer
<1>10. SentWasTaken'
  BY <1>2, <1>5, <1>7, SameJob DEF Outcomes, SentWasTaken
<1>11. SentIsTrue'
  <2>1. status = "SENT" => sends'[m] # "never"
    BY <1>2 DEF Outcomes, SentWasTaken
  <2> QED BY <1>2, <1>3, <2>1 DEF Outcomes, SentIsTrue
<1>12. DuplicatesExplained'
  BY <1>2 DEF Outcomes, DuplicatesExplained
<1>13. HeldByOne'
  <2> SUFFICES ASSUME NEW n \in Mails \ excused', NEW k \in Jobs, Holds(k, n)'
               PROVE  /\ Fits(k, n)'
                      /\ \A l \in Jobs : Holds(l, n)' => l = k
                      /\ sends'[n] # "never" => Tried(k, n)'
    BY DEF HeldByOne
  <2>1. n \notin excused /\ \A l \in Jobs : Holds(l, n)' => Holds(l, n)
    BY <1>2, <1>7, <1>8, SameJob
  <2>2. /\ Fits(k, n)
        /\ \A l \in Jobs : Holds(l, n)' => l = k
        /\ sends[n] # "never" => Tried(k, n)
    BY <2>1 DEF Outcomes, HeldByOne
  <2>3. n # m
    <3> SUFFICES ASSUME n = m PROVE FALSE
      OBVIOUS
    <3>1. k # j
      BY <1>8
    <3>2. Holds(k, m) /\ m \notin excused
      BY <2>1
    <3> QED BY <1>1, <3>1, <3>2 DEF Outcomes, HeldByOne
  <2>4. sends'[n] # "never" => Tried(k, n)'
    BY <1>2, <1>3, <1>7, <1>9, <2>2, <2>3, SameFit DEF Tried
  <2>5. Fits(k, n)'
    BY <1>3, <1>7, <1>8, <1>9, <2>2, <2>3, SameFit DEF Fits
  <2> QED BY <2>2, <2>4, <2>5
<1>14. OutIsKnown'
  <2> SUFFICES ASSUME NEW n \in Mails \ excused', sends'[n] # "never", rows'[n] = "PENDING"
               PROVE  \E k \in Jobs : Owes(k, n)'
    BY DEF OutIsKnown
  <2>1. n # m /\ rows[n] = "PENDING"
    BY <1>3, <1>4
  <2>2. PICK k \in Jobs : Owes(k, n)
    BY <1>2, <2>1 DEF Outcomes, OutIsKnown
  <2>3. k # j
    BY <1>9, <2>1, <2>2
  <2> QED BY <1>7, <2>2, <2>3, SameJob
<1> QED BY <1>6, <1>10, <1>11, <1>12, <1>13, <1>14 DEF Outcomes

LEMMA RowWrittenInv ==
    ASSUME Shape, Outcomes, NEW j \in Jobs, NEW m \in Mails,
           Skip(j, m) \/ MarkSent(j, m) \/ MarkFailed(j, m)
    PROVE  Shape' /\ Outcomes'
<1>1. "SENT" \in Settled /\ "FAILED" \in Settled /\ "SKIPPED" \in Settled
  BY DEF Settled
<1>2. CASE Skip(j, m)
  BY <1>1, <1>2, WritesInv DEF Skip
<1>3. CASE MarkSent(j, m)
  BY <1>1, <1>3, WritesInv DEF MarkSent
<1>4. CASE MarkFailed(j, m)
  BY <1>1, <1>4, WritesInv DEF MarkFailed
<1> QED BY <1>2, <1>3, <1>4

\* A job at a row goes to another stage with the same batch.
LEMMA GoesShape ==
    ASSUME Shape, NEW j \in Jobs, jobs[j].stage \in {"row", "sent"},
           NEW stage \in {"sent", "failed", "lost"}, Goes(j, stage), UNCHANGED <<running, excused>>,
           rows' \in [Mails -> Statuses],
           \A m \in Mails : rows'[m] = "none" <=> rows[m] = "none",
           sends' \in [Mails -> {"never", "once", "again"}],
           \A m \in Mails : rows[m] = "none" => sends'[m] = sends[m]
    PROVE  /\ Shape' /\ OnlyJob(j)
           /\ jobs'[j].stage = stage /\ jobs'[j].batch = jobs[j].batch
<1>1. jobs[j] \in Busy
  BY IdleOrBusy DEF Shape, TypeOK
<1> DEFINE c == [jobs[j] EXCEPT !.stage = stage]
<1>2. c \in Busy /\ c.stage = stage /\ c.batch = jobs[j].batch /\ c.on = jobs[j].on
  BY <1>1 DEF Busy
<1>3. Becomes(j, c)
  BY DEF Goes
<1>4. j \in Processes => c.on = j
  BY <1>1, <1>2, IdleOrBusy DEF Shape, BatchesWellFormed
<1> HIDE DEF c
<1>5. /\ OnlyJob(j) /\ jobs'[j] = c /\ jobs' \in [Jobs -> {Idle} \cup Busy]
      /\ running' \in [Processes -> BOOLEAN] /\ FlagIsTick'
  BY <1>2, <1>3, GoOnShape DEF Shape
<1>6. /\ rows' \in [Mails -> Statuses] /\ excused' \subseteq Mails
      /\ \A m \in Mails : rows'[m] = "none" => sends'[m] = "never"
      /\ \A m \in Mails : rows[m] # "none" => rows'[m] # "none"
  BY DEF Shape, TypeOK, BatchesWellFormed
<1>7. \A m \in Mails : m \in jobs'[j].batch => rows'[m] # "none"
  BY <1>2, <1>5 DEF Shape, BatchesWellFormed, Holds
<1>8. /\ jobs'[j].stage \in {"idle", "read", "digest"} => jobs'[j].batch = {}
      /\ j \in Processes /\ jobs'[j] # Idle => jobs'[j].on = j
  BY <1>2, <1>4, <1>5
<1>9. Shape'
  BY <1>5, <1>6, <1>7, <1>8, ShapeStep
<1> QED BY <1>2, <1>5, <1>9

\* The answer of the SMTP server: a mail with no excuse had not been out before.
LEMMA SendInv ==
    ASSUME Shape, Outcomes, NEW j \in Jobs, NEW m \in Mails, Send(j, m)
    PROVE  Shape' /\ Outcomes'
<1>1. /\ jobs[j].stage = "row" /\ At(j, m) /\ Holds(j, m)
      /\ UNCHANGED <<rows, running, excused>>
  BY DEF Send, At
<1>2. PICK stage \in {"sent", "failed"} :
          /\ Goes(j, stage)
          /\ \/ sends' = [sends EXCEPT ![m] = Once(@)]
             \/ UNCHANGED sends /\ stage = "failed"
  BY DEF Send
<1>3. /\ sends' \in [Mails -> {"never", "once", "again"}]
      /\ \A n \in Mails : n # m => sends'[n] = sends[n]
      /\ sends'[m] = sends[m] \/ sends'[m] = Once(sends[m])
      /\ stage = "sent" => sends'[m] = Once(sends[m])
  BY <1>2 DEF Shape, TypeOK, Once
<1>4. rows[m] # "none" /\ rows' \in [Mails -> Statuses]
  BY <1>1 DEF Shape, TypeOK, BatchesWellFormed
<1>5. /\ Shape' /\ OnlyJob(j)
      /\ jobs'[j].stage = stage /\ jobs'[j].batch = jobs[j].batch
  BY <1>1, <1>2, <1>3, <1>4, GoesShape
<1>6. \A k \in Jobs : k # j => jobs'[k] = jobs[k]
  BY <1>5 DEF OnlyJob
<1>7. /\ \A n : Holds(j, n)' <=> Holds(j, n)
      /\ \A n : At(j, n)' <=> At(j, n)
      /\ \A n : Owes(j, n)' <=> At(j, n)
      /\ \A n : ~Owes(j, n)
      /\ \A n : ~LostAnswer(j, n) /\ ~LostAnswer(j, n)'
  BY <1>1, <1>5 DEF Holds, At, Owes, LostAnswer
<1>8. m \notin excused => sends[m] = "never"
  BY <1>1, <1>7 DEF Outcomes, HeldByOne, Tried
<1>9. \A n \in Mails : sends[n] # "never" => sends'[n] # "never"
  BY <1>3 DEF Once
<1>10. SentWasTaken'
  <2> SUFFICES ASSUME NEW k \in Jobs, NEW n \in Mails, jobs'[k].stage = "sent", At(k, n)'
               PROVE  sends'[n] # "never"
    BY DEF SentWasTaken
  <2>1. CASE k = j
    <3>1. n = m
      BY <1>1, <1>7, <2>1, OneOldest
    <3> QED BY <1>3, <1>5, <2>1, <3>1 DEF Once
  <2>2. CASE k # j
    BY <1>6, <1>9, <2>2, SameJob DEF Outcomes, SentWasTaken
  <2> QED BY <2>1, <2>2
<1>11. SentIsTrue'
  BY <1>1, <1>9 DEF Outcomes, SentIsTrue
<1>12. DuplicatesExplained'
  BY <1>1, <1>3, <1>8 DEF Outcomes, DuplicatesExplained, Once
<1>13. HeldByOne'
  <2> SUFFICES ASSUME NEW n \in Mails \ excused', NEW k \in Jobs, Holds(k, n)'
               PROVE  /\ Fits(k, n)'
                      /\ \A l \in Jobs : Holds(l, n)' => l = k
                      /\ sends'[n] # "never" => Tried(k, n)'
    BY DEF HeldByOne
  <2>1. n \notin excused /\ \A l \in Jobs : Holds(l, n)' <=> Holds(l, n)
    BY <1>1, <1>6, <1>7, SameJob
  <2>2. /\ Fits(k, n)
        /\ \A l \in Jobs : Holds(l, n) => l = k
        /\ sends[n] # "never" => Tried(k, n)
    BY <2>1 DEF Outcomes, HeldByOne
  <2>3. sends'[n] # "never" => Tried(k, n)'
    <3>1. CASE n = m
      BY <1>1, <1>7, <2>2, <3>1 DEF Tried
    <3>2. CASE n # m
      <4>1. CASE k = j
        BY <1>3, <1>7, <2>2, <3>2, <4>1 DEF Tried
      <4>2. CASE k # j
        BY <1>1, <1>3, <1>6, <2>2, <3>2, <4>2, SameFit
      <4> QED BY <4>1, <4>2
    <3> QED BY <3>1, <3>2
  <2>4. Fits(k, n)'
    <3>1. CASE k = j
      BY <1>1, <1>7, <2>2, <3>1 DEF Fits
    <3>2. CASE k # j
      BY <1>1, <1>6, <2>2, <3>2, SameFit
    <3> QED BY <3>1, <3>2
  <2> QED BY <2>1, <2>2, <2>3, <2>4
<1>14. OutIsKnown'
  <2> SUFFICES ASSUME NEW n \in Mails \ excused', sends'[n] # "never", rows'[n] = "PENDING"
               PROVE  \E k \in Jobs : Owes(k, n)'
    BY DEF OutIsKnown
  <2>1. CASE n = m
    BY <1>1, <1>7, <2>1
  <2>2. CASE n # m
    <3>1. PICK k \in Jobs : Owes(k, n)
      BY <1>1, <1>3, <2>2 DEF Outcomes, OutIsKnown
    <3>2. k # j
      BY <1>7, <3>1
    <3> QED BY <1>6, <3>1, <3>2, SameJob
  <2> QED BY <2>1, <2>2
<1> QED BY <1>5, <1>10, <1>11, <1>12, <1>13, <1>14 DEF Outcomes

\* The mark of the mail is written over, or its row says SENT and the job does not know.
LEMMA MarkSentFailsInv ==
    ASSUME Shape, Outcomes, NEW j \in Jobs, MarkSentFails(j) PROVE Shape' /\ Outcomes'
<1>1. /\ jobs[j].stage = "sent" /\ UNCHANGED <<running, sends, excused>>
      /\ sends' \in [Mails -> {"never", "once", "again"}]
  BY DEF MarkSentFails, Shape, TypeOK
<1>2. ASSUME NEW k \in Jobs, NEW n \in Mails, k # j, OnlyJob(j)
      PROVE  /\ Holds(k, n)' <=> Holds(k, n)
             /\ At(k, n)' <=> At(k, n)
             /\ Owes(k, n)' <=> Owes(k, n)
             /\ LostAnswer(k, n)' <=> LostAnswer(k, n)
  BY <1>2, SameJob DEF OnlyJob
<1>3. CASE Goes(j, "failed") /\ UNCHANGED rows
  <2>1. /\ Shape' /\ OnlyJob(j)
        /\ jobs'[j].stage = "failed" /\ jobs'[j].batch = jobs[j].batch
    <3>1. rows' \in [Mails -> Statuses]
      BY <1>3 DEF Shape, TypeOK
    <3> QED BY <1>1, <1>3, <3>1, GoesShape
  <2>2. \A n \in Mails : /\ Holds(j, n)' <=> Holds(j, n)
                         /\ At(j, n)' <=> At(j, n)
                         /\ Owes(j, n)' <=> Owes(j, n)
                         /\ LostAnswer(j, n)' <=> LostAnswer(j, n)
    BY <1>1, <2>1 DEF Holds, At, Owes, LostAnswer
  <2>3. \A k \in Jobs, n \in Mails : /\ Holds(k, n)' <=> Holds(k, n)
                                     /\ At(k, n)' <=> At(k, n)
                                     /\ Owes(k, n)' <=> Owes(k, n)
                                     /\ LostAnswer(k, n)' <=> LostAnswer(k, n)
    BY <1>2, <2>1, <2>2
  <2>4. \A k \in Jobs : jobs'[k].stage = "sent" => jobs[k].stage = "sent"
    BY <2>1 DEF OnlyJob
  <2>5. SentWasTaken'
    BY <1>1, <2>3, <2>4 DEF Outcomes, SentWasTaken
  <2>6. SentIsTrue' /\ DuplicatesExplained'
    BY <1>1, <1>3 DEF Outcomes, SentIsTrue, DuplicatesExplained
  <2>7. HeldByOne'
    BY <1>1, <1>3, <2>3 DEF Outcomes, HeldByOne, Fits, Tried
  <2>8. OutIsKnown'
    BY <1>1, <1>3, <2>3 DEF Outcomes, OutIsKnown
  <2> QED BY <2>1, <2>5, <2>6, <2>7, <2>8 DEF Outcomes
<1>4. ASSUME Goes(j, "lost"), NEW m \in Mails, At(j, m), rows[m] # "deleted",
             rows' = [rows EXCEPT ![m] = "SENT"]
      PROVE  Shape' /\ Outcomes'
  <2>1. /\ rows' \in [Mails -> Statuses] /\ rows'[m] = "SENT"
        /\ \A n \in Mails : n # m => rows'[n] = rows[n]
    BY <1>4 DEF Shape, TypeOK, Statuses, Settled
  <2>2. sends[m] # "never" /\ Holds(j, m)
    BY <1>1, <1>4 DEF Outcomes, SentWasTaken, At
  <2>3. /\ Shape' /\ OnlyJob(j)
        /\ jobs'[j].stage = "lost" /\ jobs'[j].batch = jobs[j].batch
    <3>1. rows[m] # "none"
      BY <2>2 DEF Shape, BatchesWellFormed
    <3> QED BY <1>1, <1>4, <2>1, <3>1, GoesShape
  <2>4. \A n \in Mails : /\ Holds(j, n)' <=> Holds(j, n)
                         /\ LostAnswer(j, n)' <=> n = m
                         /\ ~Owes(j, n)'
                         /\ Owes(j, n) <=> n = m
                         /\ ~LostAnswer(j, n)
    BY <1>1, <1>4, <2>3, OneOldest DEF Holds, At, Owes, LostAnswer
  <2>5. SentWasTaken'
    BY <1>1, <1>2, <2>3 DEF OnlyJob, Outcomes, SentWasTaken
  <2>6. SentIsTrue' /\ DuplicatesExplained'
    BY <1>1, <2>1, <2>2 DEF Outcomes, SentIsTrue, DuplicatesExplained
  <2>7. HeldByOne'
    <3> SUFFICES ASSUME NEW n \in Mails \ excused', NEW k \in Jobs, Holds(k, n)'
                 PROVE  /\ Fits(k, n)'
                        /\ \A l \in Jobs : Holds(l, n)' => l = k
                        /\ sends'[n] # "never" => Tried(k, n)'
      BY DEF HeldByOne
    <3>1. n \notin excused /\ Holds(k, n) /\ \A l \in Jobs : Holds(l, n)' => Holds(l, n)
      BY <1>1, <1>2, <2>3, <2>4
    <3>2. /\ Fits(k, n)
          /\ \A l \in Jobs : Holds(l, n) => l = k
          /\ sends[n] # "never" => Tried(k, n)
      BY <3>1 DEF Outcomes, HeldByOne
    <3>3. CASE n = m
      <4>1. k = j
        BY <2>2, <3>2, <3>3
      <4> QED BY <2>1, <2>4, <3>1, <3>2, <3>3, <4>1 DEF Fits, Tried
    <3>4. CASE n # m
      <4>1. rows'[n] = rows[n] /\ sends'[n] = sends[n]
        BY <1>1, <2>1, <3>4
      <4>2. /\ LostAnswer(k, n)' <=> LostAnswer(k, n)
            /\ Owes(k, n)' <=> Owes(k, n)
        BY <1>2, <2>3, <2>4, <3>4
      <4> QED BY <3>1, <3>2, <4>1, <4>2 DEF Fits, Tried
    <3> QED BY <3>3, <3>4
  <2>8. OutIsKnown'
    <3> SUFFICES ASSUME NEW n \in Mails \ excused', sends'[n] # "never", rows'[n] = "PENDING"
                 PROVE  \E k \in Jobs : Owes(k, n)'
      BY DEF OutIsKnown
    <3>1. n # m /\ rows[n] = "PENDING"
      BY <2>1
    <3>2. PICK k \in Jobs : Owes(k, n)
      BY <1>1, <3>1 DEF Outcomes, OutIsKnown
    <3> QED BY <1>2, <2>3, <2>4, <3>1, <3>2
  <2> QED BY <2>3, <2>5, <2>6, <2>7, <2>8 DEF Outcomes
<1> QED BY <1>3, <1>4 DEF MarkSentFails

\* All jobs of a process are lost at once; what any of them owed is excused.
LEMMA StopInv ==
    ASSUME Shape, Outcomes, NEW p \in Processes, Stop(p) PROVE Shape' /\ Outcomes'
<1> DEFINE lost == {j \in Jobs : jobs[j] # Idle /\ jobs[j].on = p}
<1>1. /\ jobs' = [j \in Jobs |-> IF j \in lost THEN Idle ELSE jobs[j]]
      /\ running' = [running EXCEPT ![p] = FALSE]
      /\ excused' = excused \cup {m \in Mails : \E j \in lost : Owes(j, m)}
      /\ UNCHANGED <<rows, sends>>
  BY DEF Stop
<1>2. lost \subseteq Jobs /\ \A j \in Jobs \ lost : jobs[j] = Idle \/ jobs[j].on # p
  OBVIOUS
<1>3. \A q \in Processes : q \in lost => q = p
  BY DEF Shape, BatchesWellFormed
<1> HIDE DEF lost
<1>4. /\ \A j \in Jobs : j \in lost => jobs'[j] = Idle
      /\ \A j \in Jobs : j \notin lost => jobs'[j] = jobs[j]
  BY <1>1
<1>5. TypeOK'
  BY <1>1, <1>2 DEF Shape, TypeOK
<1>6. FlagIsTick'
  <2> SUFFICES ASSUME NEW q \in Processes PROVE running'[q] <=> jobs'[q].stage # "idle"
    BY DEF FlagIsTick
  <2>1. q \in Jobs
    BY DEF Jobs
  <2>2. CASE q = p
    <3>1. jobs'[p] = Idle
      BY <1>2, <1>4, <2>1, <2>2 DEF Shape, BatchesWellFormed
    <3> QED BY <1>1, <2>2, <3>1, IdleOrBusy DEF Shape, TypeOK
  <2>3. CASE q # p
    <3>1. running'[q] = running[q] /\ jobs'[q] = jobs[q]
      BY <1>1, <1>3, <1>4, <2>1, <2>3 DEF Shape, TypeOK
    <3> QED BY <3>1 DEF Shape, FlagIsTick
  <2> QED BY <2>2, <2>3
<1>7. \A j \in lost, m \in Mails : ~Holds(j, m)' /\ ~At(j, m)' /\ ~Owes(j, m)'
  BY <1>2, <1>4, IdleOrBusy DEF Holds, At, Owes
<1>8. BatchesWellFormed'
  <2>1. \A j \in Jobs : jobs'[j].stage \in {"idle", "read", "digest"} => jobs'[j].batch = {}
    BY <1>4, IdleOrBusy DEF Shape, BatchesWellFormed
  <2>2. \A q \in Processes : jobs'[q] # Idle => jobs'[q].on = q
    BY <1>4 DEF Shape, BatchesWellFormed, Jobs
  <2>3. \A j \in Jobs, m \in Mails : Holds(j, m)' => rows'[m] # "none"
    BY <1>1, <1>4, <1>7, SameJob DEF Shape, BatchesWellFormed
  <2>4. \A m \in Mails : rows'[m] = "none" => sends'[m] = "never"
    BY <1>1 DEF Shape, BatchesWellFormed
  <2> QED BY <2>1, <2>2, <2>3, <2>4 DEF BatchesWellFormed
<1>9. excused \subseteq excused' /\ \A m \in Mails, j \in lost : Owes(j, m) => m \in excused'
  BY <1>1
<1>10. SentWasTaken'
  BY <1>1, <1>4, <1>7, SameJob DEF Outcomes, SentWasTaken
<1>11. SentIsTrue' /\ DuplicatesExplained'
  BY <1>1, <1>9 DEF Outcomes, SentIsTrue, DuplicatesExplained
<1>12. HeldByOne'
  <2> SUFFICES ASSUME NEW m \in Mails \ excused', NEW k \in Jobs, Holds(k, m)'
               PROVE  /\ Fits(k, m)'
                      /\ \A l \in Jobs : Holds(l, m)' => l = k
                      /\ sends'[m] # "never" => Tried(k, m)'
    BY DEF HeldByOne
  <2>1. m \notin excused /\ \A l \in Jobs : Holds(l, m)' => Holds(l, m)
    BY <1>4, <1>7, <1>9, SameJob
  <2>2. /\ Fits(k, m)' <=> Fits(k, m)
        /\ Tried(k, m)' <=> Tried(k, m)
    BY <1>1, <1>4, <1>7, SameFit
  <2> QED BY <1>1, <2>1, <2>2 DEF Outcomes, HeldByOne
<1>13. OutIsKnown'
  <2> SUFFICES ASSUME NEW m \in Mails \ excused', sends'[m] # "never", rows'[m] = "PENDING"
               PROVE  \E k \in Jobs : Owes(k, m)'
    BY DEF OutIsKnown
  <2>1. PICK k \in Jobs : Owes(k, m)
    BY <1>1, <1>9 DEF Outcomes, OutIsKnown
  <2>2. k \notin lost
    BY <1>9, <2>1
  <2> QED BY <1>4, <2>1, <2>2, SameJob
<1> QED BY <1>5, <1>6, <1>8, <1>10, <1>11, <1>12, <1>13 DEF Shape, Outcomes

-----------------------------------------------------------------------------
(***************************************************************************)
(* The invariant over every step, and what follows from it.                *)
(***************************************************************************)
LEMMA IInvParts == IInv <=> Shape /\ Outcomes
BY DEF IInv, Shape, Outcomes

LEMMA NextInv == IInv /\ [Next]_vars => IInv'
<1> SUFFICES ASSUME Shape, Outcomes, [Next]_vars PROVE Shape' /\ Outcomes'
  BY IInvParts DEF IInv, Shape, Outcomes
<1>1. CASE Queue
  BY <1>1, NewRowInv DEF Queue
<1>2. ASSUME NEW m \in Mails, DeleteRow(m) PROVE Shape' /\ Outcomes'
  BY <1>2, DeleteRowInv
<1>3. ASSUME NEW p \in Processes, Tick(p) \/ Stop(p) PROVE Shape' /\ Outcomes'
  BY <1>3, TickInv, StopInv
<1>4. ASSUME NEW r \in Routes, NEW p \in Processes, RouteFlush(r, p) \/ RouteDigests(r, p)
      PROVE  Shape' /\ Outcomes'
  BY <1>4, RouteInv
<1>5. ASSUME NEW j \in Jobs, JobStep(j) PROVE Shape' /\ Outcomes'
  <2>1. CASE ReadPending(j)
    BY <2>1, ReadPendingInv
  <2>2. CASE MarkSentFails(j)
    BY <2>2, MarkSentFailsInv
  <2>3. CASE FlushFails(j)
    BY <2>3, FlushFailsInv
  <2>4. CASE DigestQueues(j)
    BY <2>4, NewRowInv DEF DigestQueues
  <2>5. CASE DigestEnds(j) \/ DigestFails(j)
    BY <2>5, DigestInv
  <2>6. ASSUME NEW m \in Mails, Send(j, m) PROVE Shape' /\ Outcomes'
    BY <2>6, SendInv
  <2>7. ASSUME NEW m \in Mails, Skip(j, m) \/ MarkSent(j, m) \/ MarkFailed(j, m)
        PROVE  Shape' /\ Outcomes'
    BY <2>7, RowWrittenInv
  <2> QED BY <1>5, <2>1, <2>2, <2>3, <2>4, <2>5, <2>6, <2>7 DEF JobStep
<1>6. CASE UNCHANGED vars
  <2>1. UNCHANGED <<rows, jobs, running, sends, excused>>
    BY <1>6 DEF vars
  <2>2. \A k \in Jobs, n \in Mails : /\ Holds(k, n)' <=> Holds(k, n)
                                     /\ At(k, n)' <=> At(k, n)
                                     /\ Owes(k, n)' <=> Owes(k, n)
                                     /\ LostAnswer(k, n)' <=> LostAnswer(k, n)
    BY <2>1, SameJob
  <2>3. TypeOK' /\ FlagIsTick' /\ BatchesWellFormed'
    BY <2>1, <2>2 DEF Shape, TypeOK, FlagIsTick, BatchesWellFormed
  <2>4. SentWasTaken' /\ SentIsTrue' /\ DuplicatesExplained'
    BY <2>1, <2>2 DEF Outcomes, SentWasTaken, SentIsTrue, DuplicatesExplained
  <2>5. HeldByOne' /\ OutIsKnown'
    BY <2>1, <2>2 DEF Outcomes, HeldByOne, OutIsKnown, Fits, Tried
  <2> QED BY <2>3, <2>4, <2>5 DEF Shape, Outcomes
<1> QED BY <1>1, <1>2, <1>3, <1>4, <1>5, <1>6 DEF Next

\* The invariant of the flushes of mailer.js, for any number of processes, platform
\* requests and rows: a mail nobody has an excuse for is held by one flush, unsent or owed.
THEOREM Invariance == Spec => []IInv
<1>1. Init => IInv
  BY InitInv
<1>2. IInv /\ [Next]_vars => IInv'
  BY NextInv
<1> QED BY <1>1, <1>2, PTL DEF Spec

\* A row that flushEmailOutbox has marked SENT is of a mail the SMTP server has taken.
THEOREM SentIsSent == Spec => []SentIsTrue
<1>1. IInv => SentIsTrue
  BY DEF IInv
<1> QED BY <1>1, Invariance, PTL

\* A mail goes out twice only if two flushes held its row at once, or the flush that sent
\* it was ended before it had written that down.
THEOREM DuplicatesAreExplained == Spec => []DuplicatesExplained
<1>1. IInv => DuplicatesExplained
  BY DEF IInv
<1> QED BY <1>1, Invariance, PTL

\* A row that is written is written by a job that holds it.
LEMMA WriterHolds ==
    ASSUME IInv, Next, NEW m \in Mails, rows[m] \in Settled, rows'[m] # rows[m]
    PROVE  \/ rows'[m] = "deleted" \/ m \in excused
           \/ \E j \in Jobs : LostAnswer(j, m) /\ MarkFailed(j, m)
<1>0. rows \in [Mails -> Statuses] /\ rows[m] \notin {"none", "PENDING", "deleted"}
  BY DEF IInv, TypeOK, Settled
<1>1. ASSUME NewRow PROVE FALSE
  BY <1>0, <1>1 DEF NewRow
<1>2. ASSUME NEW n \in Mails, DeleteRow(n) PROVE rows'[m] = "deleted"
  BY <1>0, <1>2 DEF DeleteRow
<1>3. ASSUME NEW j \in Jobs, NEW n \in Mails, At(j, n), rows' = [rows EXCEPT ![n] = rows'[n]],
             m \notin excused
      PROVE  n = m /\ LostAnswer(j, m)
  <2>1. n = m
    BY <1>0, <1>3
  <2> QED BY <1>0, <1>3, <2>1 DEF IInv, HeldByOne, Fits, At
<1>4. ASSUME NEW j \in Jobs, JobStep(j), m \notin excused
      PROVE  LostAnswer(j, m) /\ MarkFailed(j, m)
  <2>1. ASSUME NEW n \in Mails, Skip(j, n) \/ MarkSent(j, n) \/ MarkFailed(j, n)
        PROVE  LostAnswer(j, m) /\ MarkFailed(j, m)
    <3>1. At(j, n) /\ \E status : rows' = [rows EXCEPT ![n] = status]
      BY <2>1 DEF Skip, MarkSent, MarkFailed, Writes
    <3>2. rows' = [rows EXCEPT ![n] = rows'[n]]
      BY <1>0, <3>1
    <3>3. n = m /\ LostAnswer(j, m)
      BY <1>3, <1>4, <3>1, <3>2
    <3> QED BY <2>1, <3>3 DEF LostAnswer, Skip, MarkSent
  <2>2. ASSUME MarkSentFails(j) PROVE FALSE
    <3>1. PICK n \in Mails : At(j, n) /\ rows' = [rows EXCEPT ![n] = "SENT"]
      BY <2>2 DEF MarkSentFails
    <3>2. rows' = [rows EXCEPT ![n] = rows'[n]]
      BY <1>0, <3>1
    <3>3. LostAnswer(j, m)
      BY <1>3, <1>4, <3>1, <3>2
    <3> QED BY <2>2, <3>3 DEF LostAnswer, MarkSentFails
  <2>3. ~UNCHANGED rows
    OBVIOUS
  <2> QED BY <1>1, <1>4, <2>1, <2>2, <2>3 DEF JobStep, ReadPending, FlushFails,
           DigestQueues, DigestEnds, DigestFails, Send
<1> QED BY <1>1, <1>2, <1>4 DEF Next, Queue, Tick, Stop, RouteFlush, RouteDigests

\* What a flush has written of a mail is rewritten only by another that held it as well, or
\* by itself when the answer to its SENT was lost.
THEOREM RowsSettleOnce == Spec => SettledOnce
<1>1. IInv /\ [Next]_vars =>
        [\A m \in Mails : rows[m] \in Settled /\ rows'[m] # rows[m]
             => \/ rows'[m] = "deleted" \/ m \in excused
                \/ \E j \in Jobs : LostAnswer(j, m) /\ MarkFailed(j, m)]_vars
  BY WriterHolds
<1> QED BY <1>1, Invariance, PTL DEF Spec, SettledOnce

=============================================================================
