----------------------------- MODULE Timetable -----------------------------
(***************************************************************************)
(* The bell schedule of a school and the classes put into its periods, on  *)
(* one weekday: routes/timetable.js and lib/periods.js.  A save sends the  *)
(* whole schedule as a list of rows, each with its position: the editor    *)
(* numbers them from 1, and any other numbers are taken that differ.  The  *)
(* periods are updated and created one by one, in the order of the list,   *)
(* in a transaction, under a unique key on the position.  Two edits of a   *)
(* transaction's rows wait for each other, so a transaction is its first   *)
(* read, and then the rest of it, which commits or is rolled back.         *)
(***************************************************************************)
EXTENDS Naturals, FiniteSets, Sequences

CONSTANTS
    MaxPeriods,  \* bound: periods ever created
    Length,      \* of the default schedule, which has the positions from 1 to it
    Recess,      \* the breaks of the default schedule
    Numberings,  \* the positions that a list may bring, in its order
    Classes,     \* class sections
    Entries,     \* bound: timetable entries ever created
    Requests,    \* slots for handlers in flight
    New, Same, Unused, Gone

PeriodIds == 1..MaxPeriods
Default == 1..Length

Period == [order : Nat, break : BOOLEAN]
Cell == [period : PeriodIds, class : Classes]

\* The rows of a list, in its order: of periods that are known, and new ones.
Rows(known, order) ==
    {list \in [DOMAIN order -> [id : known \cup {New}, break : BOOLEAN]] :
        \A i, j \in DOMAIN order : i # j => list[i].id # list[j].id \/ list[i].id = New}

Put == UNION {[step : {"put"}, rows : Rows(PeriodIds, o), orders : {o}, seen : SUBSET PeriodIds] :
                  o \in Numberings}
Add == [step : {"add"}, period : PeriodIds, class : Classes]
Move == [step : {"move"}, entry : Entries, period : PeriodIds \cup {Same}, class : Classes \cup {Same}]
Seed == [step |-> "seed"]
Idle == [step |-> "idle"]

VARIABLES
    periods,   \* the Period rows, or Unused where there is none yet, or Gone
    entries,   \* the TimetableEntry rows, in the same way
    reqs,      \* the handlers in flight
    overtaken  \* what a save has come upon: classes in a period, and handlers about to put
               \* one there, when it made a break of it, and seeds under way

vars == <<periods, entries, reqs, overtaken>>

TypeOK ==
    /\ periods \in [PeriodIds -> Period \cup {Unused, Gone}]
    /\ entries \in [Entries -> Cell \cup {Unused, Gone}]
    /\ reqs \in [Requests -> Put \cup Add \cup Move \cup {Seed, Idle}]
    /\ overtaken \subseteq Entries \cup Requests

Init ==
    /\ periods = [k \in PeriodIds |-> Unused]
    /\ entries = [e \in Entries |-> Unused]
    /\ reqs = [r \in Requests |-> Idle]
    /\ overtaken = {}

-----------------------------------------------------------------------------
At(r, step) == reqs[r].step = step

Becomes(r, q) == reqs' = [reqs EXCEPT ![r] = q]

Issued == {k \in PeriodIds : periods[k] # Unused}
Present == {k \in PeriodIds : periods[k] \in Period}
Placed == {e \in Entries : entries[e] \in Cell}

\* The position is of no period but those.
Vacant(n, but) == \A k \in Present \ but : periods[k].order # n

\* The classes of deleted periods go with them.
Within(ks) == {e \in Placed : entries[e].period \in ks}
Cascade(deleted) == entries' = [e \in Entries |-> IF e \in Within(deleted) THEN Gone ELSE entries[e]]

\* A handler ends, and with it what is known of it.
Ends(r) == Becomes(r, Idle) /\ overtaken' = overtaken \ {r}

\* r ends, and the class of e stands where r has put it.
EndsAt(r, e) ==
    /\ Becomes(r, Idle)
    /\ overtaken' = (overtaken \ {r, e}) \cup IF r \in overtaken THEN {e} ELSE {}

\* The n-th period to be created next.
Fresh(n) == Cardinality(Issued) + n

\* A query rejects - a unique key, a foreign key, a row that is gone - or the process
\* stops; what a transaction has done is undone.
RequestFails(r) ==
    /\ reqs[r] # Idle
    /\ Ends(r)
    /\ UNCHANGED <<periods, entries>>

-----------------------------------------------------------------------------
(***************************************************************************)
(* ensureDefaultPeriods: whoever asks for an empty schedule creates one.   *)
(***************************************************************************)
\* Mutant of SeedRead: it does not matter whether there is a schedule.
SeedReadAlways(r) ==
    /\ reqs[r] = Idle
    /\ Becomes(r, Seed)
    /\ UNCHANGED <<periods, entries, overtaken>>

SeedRead(r) ==
    /\ reqs[r] = Idle
    /\ Present = {}
    /\ Becomes(r, Seed)
    /\ UNCHANGED <<periods, entries, overtaken>>

\* The schedule with the default periods added.
Seeded ==
    [k \in PeriodIds |->
        IF k \in Fresh(1)..Fresh(Length)
        THEN LET i == k - Fresh(0) IN [order |-> i, break |-> i \in Recess]
        ELSE periods[k]]

\* One statement: all of the default schedule, or nothing.
SeedWrite(r) ==
    /\ At(r, "seed")
    /\ Fresh(Length) <= MaxPeriods
    /\ \A i \in Default : Vacant(i, {})
    /\ periods' = Seeded
    /\ Ends(r)
    /\ UNCHANGED entries

-----------------------------------------------------------------------------
(***************************************************************************)
(* PUT /timetable/periods.                                                 *)
(***************************************************************************)
\* An id the transaction does not find is that of a new row.
PutRead(r) ==
    /\ reqs[r] = Idle
    /\ \E o \in Numberings : \E rows \in Rows(Present, o) :
          Becomes(r, [step |-> "put", rows |-> rows, orders |-> o, seen |-> Present])
    /\ UNCHANGED <<periods, entries, overtaken>>

\* The rows that are updates: of periods that were there when the transaction began.
Updated(q) == {i \in DOMAIN q.rows : q.rows[i].id \in q.seen}
Created(q) == DOMAIN q.rows \ Updated(q)
IdsOf(q, I) == {q.rows[i].id : i \in I}
Dropped(q) == q.seen \ IdsOf(q, Updated(q))

\* At its turn a row finds its position vacant, but for what is deleted or moved by then.
Accepted(q) ==
    /\ IdsOf(q, Updated(q)) \subseteq Present
    /\ \A i \in DOMAIN q.rows :
          Vacant(q.orders[i], Dropped(q) \cup IdsOf(q, Updated(q) \cap 1..i))

NewId(q, i) == Fresh(Cardinality(Created(q) \cap 1..i))
IdOf(q, i) == IF i \in Updated(q) THEN q.rows[i].id ELSE NewId(q, i)

\* The schedule when the transaction has run.
Saved(q) ==
    [k \in PeriodIds |->
        IF \E i \in DOMAIN q.rows : IdOf(q, i) = k
        THEN LET i == CHOOSE i \in DOMAIN q.rows : IdOf(q, i) = k
             IN  [order |-> q.orders[i], break |-> q.rows[i].break]
        ELSE IF k \in Dropped(q) THEN Gone ELSE periods[k]]

\* The periods for classes of which a schedule makes breaks.
TurnedBy(schedule) ==
    {k \in Present : /\ ~periods[k].break
                     /\ schedule[k] \in Period /\ schedule[k].break}

\* Whoever puts a class into one of ks, or creates the default schedule.
Meets(q, ks) == q = Seed \/ (q.step \in {"add", "move"} /\ q.period \in ks)

\* The schedule of q is there: the classes of what it leaves out are gone.
Saves(r, q, schedule) ==
    /\ periods' = schedule
    /\ Cascade(Dropped(q))
    /\ Becomes(r, Idle)
    /\ overtaken' = ((overtaken \cup Within(TurnedBy(schedule))
                        \cup {s \in Requests : Meets(reqs[s], TurnedBy(schedule))})
                     \ Within(Dropped(q))) \ {r}

\* Mutant of PutWrite: no transaction, so that what is left out is deleted all the same.
PutWriteInPlace(r) ==
    LET q == reqs[r]
    IN  /\ At(r, "put")
        /\ \A i \in Created(q) : NewId(q, i) <= MaxPeriods
        /\ Saves(r, q, IF Accepted(q) THEN Saved(q)
                       ELSE [k \in PeriodIds |-> IF k \in Dropped(q) THEN Gone ELSE periods[k]])

PutWrite(r) ==
    LET q == reqs[r]
    IN  /\ At(r, "put")
        /\ \A i \in Created(q) : NewId(q, i) <= MaxPeriods
        /\ Accepted(q)
        /\ Saves(r, q, Saved(q))

-----------------------------------------------------------------------------
(***************************************************************************)
(* POST, PATCH and DELETE /timetable/entries, and the school data tool.    *)
(***************************************************************************)
\* A period for classes: there, and no break.
ForClasses == {k \in Present : ~periods[k].break}

AddCheck(r) ==
    /\ reqs[r] = Idle
    /\ \E k \in ForClasses, c \in Classes :
          Becomes(r, [step |-> "add", period |-> k, class |-> c])
    /\ UNCHANGED <<periods, entries, overtaken>>

\* The unique key of a class, and the foreign key of the period.
Takes(cell, e) ==
    /\ cell.period \in Present
    /\ \A f \in Placed \ {e} : entries[f] # cell

AddWrite(r) ==
    LET cell == [period |-> reqs[r].period, class |-> reqs[r].class]
    IN  /\ At(r, "add")
        /\ \E e \in Entries :
              /\ entries[e] = Unused
              /\ Takes(cell, e)
              /\ entries' = [entries EXCEPT ![e] = cell]
              /\ EndsAt(r, e)
        /\ UNCHANGED periods

\* Mutant of MoveCheck: the new period is not looked at.
MoveCheckless(r) ==
    /\ reqs[r] = Idle
    /\ \E e \in Placed, k \in Present \cup {Same}, c \in Classes \cup {Same} :
          Becomes(r, [step |-> "move", entry |-> e, period |-> k, class |-> c])
    /\ UNCHANGED <<periods, entries, overtaken>>

\* Two reads: the entry, and the period if there is to be a new one.
MoveCheck(r) ==
    /\ reqs[r] = Idle
    /\ \E e \in Placed, k \in ForClasses \cup {Same}, c \in Classes \cup {Same} :
          Becomes(r, [step |-> "move", entry |-> e, period |-> k, class |-> c])
    /\ UNCHANGED <<periods, entries, overtaken>>

MoveWrite(r) ==
    LET q == reqs[r]
        old == entries[q.entry]
        cell == [period |-> IF q.period = Same THEN old.period ELSE q.period,
                 class |-> IF q.class = Same THEN old.class ELSE q.class]
    IN  /\ At(r, "move")
        /\ q.entry \in Placed
        /\ Takes(cell, q.entry)
        /\ entries' = [entries EXCEPT ![q.entry] = cell]
        /\ IF q.period = Same THEN Ends(r) ELSE EndsAt(r, q.entry)
        /\ UNCHANGED periods

RemoveEntry(e) ==
    /\ e \in Placed
    /\ entries' = [entries EXCEPT ![e] = Gone]
    /\ overtaken' = overtaken \ {e}
    /\ UNCHANGED <<periods, reqs>>

\* lib/schoolDataDelete.js: the entries, and then the periods with what is new in them.
WipePeriods ==
    /\ Present # {}
    /\ periods' = [k \in PeriodIds |-> IF k \in Present THEN Gone ELSE periods[k]]
    /\ Cascade(Present)
    /\ overtaken' = overtaken \ Within(Present)
    /\ UNCHANGED reqs

Handle(r) ==
    \/ SeedRead(r) \/ SeedWrite(r) \/ PutRead(r) \/ PutWrite(r)
    \/ AddCheck(r) \/ AddWrite(r) \/ MoveCheck(r) \/ MoveWrite(r)
    \/ RequestFails(r)

Next ==
    \/ \E r \in Requests : Handle(r)
    \/ \E e \in Entries : RemoveEntry(e)
    \/ WipePeriods

Spec == Init /\ [][Next]_vars

-----------------------------------------------------------------------------
(***************************************************************************)
(* Properties.                                                             *)
(***************************************************************************)
\* "Defaults are seeded only when the schedule is empty" (README.md:195), though a seed
\* reads first and creates later: it fills a schedule that is there only when a save has
\* come between its read and its write, with other positions than the default ones.
SeededOnlyWhenEmpty ==
    [][\A r \in Requests :
         At(r, "seed") /\ reqs'[r] = Idle /\ periods' # periods => Present = {} \/ r \in overtaken]_vars

\* A save changes nothing, or the schedule to what was sent: each row in its place, what is
\* not on the list gone unless it was created meanwhile, and no class lost but those of the
\* periods that were left out.
SavedAsSent ==
    [][\A r \in Requests :
         At(r, "put") /\ reqs'[r] = Idle /\ <<periods, entries>>' # <<periods, entries>> =>
            LET q == reqs[r]
                there == {k \in PeriodIds : periods'[k] \in Period}
                held(i) == {k \in there : periods'[k].order = q.orders[i]}
            IN  /\ \A i \in DOMAIN q.rows :
                     \E k \in there :
                        /\ held(i) = {k}
                        /\ periods'[k].break = q.rows[i].break
                        /\ q.rows[i].id \in q.seen => k = q.rows[i].id
                /\ there \cap q.seen \subseteq IdsOf(q, DOMAIN q.rows)
                /\ \A e \in Placed :
                     entries'[e] = entries[e] \/ entries[e].period \notin there]_vars

\* "Cannot assign a class during a break period" (timetable.js:839): a class stands in a
\* break only when a save made a break of its period after the class was put there, or
\* after its handler had looked at the period.
BreakClassesExplained ==
    \A e \in Placed :
        LET k == entries[e].period
        IN  k \in Present /\ (periods[k].break => e \in overtaken)

\* Ids are given out in their order.
IdsInOrder == Issued \subseteq 1..Cardinality(Issued)

\* A seed that no save came upon finds the first position taken, unless there is nothing.
SeedsMeet ==
    \A r \in Requests \ overtaken :
        At(r, "seed") /\ Present # {} => \E k \in Present : periods[k].order = 1

\* A period that was for classes when r looked at it: a save has come upon r if it is none now.
Explained(k, r) == k \in Issued /\ (k \in Present /\ periods[k].break => r \in overtaken)

HandlersExplained ==
    \A r \in Requests :
        /\ At(r, "put") => reqs[r].seen \subseteq Issued
        /\ At(r, "add") => Explained(reqs[r].period, r)
        /\ At(r, "move") /\ reqs[r].period # Same => Explained(reqs[r].period, r)

\* The inductive invariant of the proofs.
IInv == TypeOK /\ IdsInOrder /\ SeedsMeet /\ HandlersExplained /\ BreakClassesExplained

=============================================================================
