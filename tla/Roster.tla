------------------------------- MODULE Roster -------------------------------
(***************************************************************************)
(* The pupils on the rolls of a school's class sections, and how a class   *)
(* is promoted (routes/students.js; DELETE of routes/classes.js).  A       *)
(* promotion gives each pupil a new row in the next section and takes the  *)
(* old one off the active roll, so that last year's marks stay where they  *)
(* are.  It looks at the class once, and then works it off pupil by pupil, *)
(* three awaited calls for each and no transaction around them.            *)
(***************************************************************************)
CONSTANTS
    Students,   \* ids of Student rows; an id is given once
    Sections,   \* ids of class sections
    Rolls,      \* roll numbers
    Requests,   \* slots for promotions in flight
    None,       \* no row to point at
    Unused,     \* an id not yet given to a row
    Gone        \* the id of a row that was deleted

\* Of the statuses only ACTIVE is told apart: PROMOTED, TRANSFERRED and LEFT are off the roll.
Row == [section : Sections, roll : Rolls, active : BOOLEAN, from : Students \cup {None}]

ASSUME RosterMarkers == {Unused, Gone} \cap Row = {} /\ None \notin Students \cup Rolls

VARIABLES
    rows,      \* the Student row of each id
    sections,  \* the class sections that are there
    reqs,      \* the promotions in flight
    excused    \* history: pupils two promotions held at once, or that one left half promoted

vars == <<rows, sections, reqs, excused>>

(***************************************************************************)
(* A promotion in flight: the pupils it has yet to promote, the one it is  *)
(* at, and the place it found free.                                        *)
(***************************************************************************)
Handler == [step : {"find", "create", "mark"}, todo : SUBSET Students,
            now : Students \cup {None}, to : Sections, roll : Rolls \cup {None}]

Idle == [step |-> "idle", todo |-> {}]

TypeOK ==
    /\ rows \in [Students -> Row \cup {Unused, Gone}]
    /\ sections \subseteq Sections
    /\ reqs \in [Requests -> Handler \cup {Idle}]
    /\ excused \subseteq Students

Present(s) == rows[s] \in Row
Active(s) == Present(s) /\ rows[s].active

\* The unique key of Student: one row for each roll number of a section.
Taken(c, k) == \E s \in Students : Present(s) /\ rows[s].section = c /\ rows[s].roll = k

\* promotedTo: the rows that a pupil was promoted to.
Successors(s) == {t \in Students : Present(t) /\ rows[t].from = s}

Init ==
    /\ rows = [s \in Students |-> Unused]
    /\ sections = Sections
    /\ reqs = [r \in Requests |-> Idle]
    /\ excused = {}

-----------------------------------------------------------------------------
At(r, step) == reqs[r].step = step
Holds(r, s) == s \in reqs[r].todo
Becomes(r, q) == reqs' = [reqs EXCEPT ![r] = q]

\* A new row, under an id not used before, in a section that is there and a place that is
\* free: the database rejects any other.
NewRow(c, k, from) ==
    /\ c \in sections
    /\ ~Taken(c, k)
    /\ \E t \in Students :
          /\ rows[t] = Unused
          /\ rows' = [rows EXCEPT ![t] = [section |-> c, roll |-> k, active |-> TRUE, from |-> from]]

\* The rows of D go; promotedFromId of the rows promoted from them is set to null.
Drop(D) ==
    rows' = [s \in Students |->
               IF s \in D THEN Gone
               ELSE IF Present(s) /\ rows[s].from \in D THEN [rows[s] EXCEPT !.from = None]
               ELSE rows[s]]

-----------------------------------------------------------------------------
\* POST /students, and a row of POST /students/upload that finds its place free: the upsert
\* is a find and a write of the tenant client, and a place that is taken between them
\* rejects.  A row that it finds keeps its place and its status, on the roll or not; only
\* what the model leaves out is updated.
Create(c, k) ==
    /\ NewRow(c, k, None)
    /\ UNCHANGED <<sections, reqs, excused>>

\* PATCH /students/:id: another place, on the roll or off it.  A pupil that was promoted can
\* be put on the roll again.
Edit(s) ==
    /\ Present(s)
    /\ \E c \in sections, k \in Rolls, active \in BOOLEAN :
          /\ <<c, k>> = <<rows[s].section, rows[s].roll>> \/ ~Taken(c, k)
          /\ rows' = [rows EXCEPT ![s] = [@ EXCEPT !.section = c, !.roll = k, !.active = active]]
          /\ excused' = IF active /\ ~rows[s].active /\ Successors(s) # {}
                        THEN excused \cup {s} ELSE excused
    /\ UNCHANGED <<sections, reqs>>

\* DELETE /students/:id
Delete(s) ==
    /\ Present(s)
    /\ Drop({s})
    /\ UNCHANGED <<sections, reqs, excused>>

\* DELETE /classes/:id: its pupils go with it.  (The subjects that the handler goes on to
\* clear away are no part of the roster.)
DeleteSection(c) ==
    /\ c \in sections
    /\ sections' = sections \ {c}
    /\ Drop({s \in Students : Present(s) /\ rows[s].section = c})
    /\ UNCHANGED <<reqs, excused>>

-----------------------------------------------------------------------------
(***************************************************************************)
(* POST /students/promote.                                                 *)
(***************************************************************************)
\* Mutant of Promotable: every row of the section.
PromotableAnyone(c) == {s \in Students : Present(s) /\ rows[s].section = c}

Promotable(c) == {s \in Students : Active(s) /\ rows[s].section = c}

\* Both sections are there, and every pupil of the list is on the roll of the first.
PromoteRead(r, c, d) ==
    /\ reqs[r] = Idle
    /\ {c, d} \subseteq sections /\ c # d
    /\ \E todo \in SUBSET Promotable(c) \ {{}} :
          /\ Becomes(r, [step |-> "find", todo |-> todo, now |-> None, to |-> d, roll |-> None])
          /\ excused' = excused \cup {s \in todo : \E q \in Requests : Holds(q, s)}
    /\ UNCHANGED <<rows, sections>>

\* The next pupil, with the roll number asked for: if it is taken the handler ends, and
\* those before it stay promoted.
PromoteFind(r) ==
    /\ At(r, "find")
    /\ \E s \in reqs[r].todo, k \in Rolls :
          Becomes(r, IF Taken(reqs[r].to, k) THEN Idle
                     ELSE [reqs[r] EXCEPT !.step = "create", !.now = s, !.roll = k])
    /\ UNCHANGED <<rows, sections, excused>>

\* The new row; one that points at a pupil who is gone is rejected.
PromoteCreate(r) ==
    /\ At(r, "create")
    /\ Present(reqs[r].now)
    /\ NewRow(reqs[r].to, reqs[r].roll, reqs[r].now)
    /\ Becomes(r, [reqs[r] EXCEPT !.step = "mark"])
    /\ UNCHANGED <<sections, excused>>

\* The old row is taken off the roll, by id.
PromoteMark(r) ==
    LET s == reqs[r].now
        rest == reqs[r].todo \ {s}
    IN  /\ At(r, "mark")
        /\ Present(s)
        /\ rows' = [rows EXCEPT ![s].active = FALSE]
        /\ Becomes(r, IF rest = {} THEN Idle
                      ELSE [reqs[r] EXCEPT !.step = "find",
                                           !.todo = rest, !.now = None, !.roll = None])
        /\ UNCHANGED <<sections, excused>>

\* Any awaited call may reject, and the process may stop: what was written stays.
RequestFails(r) ==
    /\ reqs[r] # Idle
    /\ Becomes(r, Idle)
    /\ excused' = excused \cup IF At(r, "mark") THEN {reqs[r].now} ELSE {}
    /\ UNCHANGED <<rows, sections>>

-----------------------------------------------------------------------------
Next ==
    \/ \E c \in Sections, k \in Rolls : Create(c, k)
    \/ \E c, d \in Sections, r \in Requests : PromoteRead(r, c, d)
    \/ \E s \in Students : Edit(s) \/ Delete(s)
    \/ \E c \in Sections : DeleteSection(c)
    \/ \E r \in Requests :
          PromoteFind(r) \/ PromoteCreate(r) \/ PromoteMark(r) \/ RequestFails(r)

Spec == Init /\ [][Next]_vars

-----------------------------------------------------------------------------
(***************************************************************************)
(* Properties.                                                             *)
(***************************************************************************)
\* A pupil is promoted once, and is not on the active roll of two classes but while the
\* promotion is about to take the old row off it - unless two promotions held the pupil at
\* once, one was cut short there, or a pupil who had been promoted was made active again.
PromotedOnce ==
    \A s \in Students \ excused :
        /\ \A t, u \in Successors(s) : t = u
        /\ Active(s) /\ Successors(s) # {} => \E r \in Requests : At(r, "mark") /\ reqs[r].now = s

\* What the promotions hold, for the proof: no two the same pupil, and no pupil who has been
\* promoted but the one whose old row is to be marked next.
HeldByOne ==
    \A s \in Students \ excused, r \in Requests :
        Holds(r, s) =>
            /\ \A q \in Requests : Holds(q, s) => q = r
            /\ Successors(s) # {} => At(r, "mark") /\ reqs[r].now = s

AtOneHeld ==
    \A r \in Requests :
        /\ At(r, "create") \/ At(r, "mark") => reqs[r].now \in reqs[r].todo
        /\ At(r, "create") => reqs[r].roll \in Rolls

\* Nobody was promoted from an id before it was given.
FromGiven == \A s \in Students : rows[s] \in {Unused, Gone} => Successors(s) = {}

IInv == TypeOK /\ PromotedOnce /\ HeldByOne /\ AtOneHeld /\ FromGiven

=============================================================================
