--------------------------- MODULE ClassSubjects ---------------------------
(***************************************************************************)
(* The subjects of one class name and who takes them (routes/subjects.js). *)
(* A subject is not tied to the class sections of its class name, so that  *)
(* two handlers clear away subjects that nothing uses: the selection of a  *)
(* class's subjects, in a transaction, and the deletion of the last class  *)
(* section of the name (routes/classes.js), a statement at a time.  Both   *)
(* count what uses a subject before they delete it, and the deletion takes *)
(* with it whatever uses the subject by then.  Names are left out: one     *)
(* that is taken is one more reason for a statement to be rejected.        *)
(***************************************************************************)
CONSTANTS
    Ids,        \* ids of Subject rows; an id is given once
    Sections,   \* class sections that may have the class name
    Pupils,     \* pupils of the class
    Requests    \* slots for handlers in flight

VARIABLES
    where,      \* of each id: "unused", "here", "elsewhere" (another class), "gone"
    data,       \* ids with marks, assignments, classes in the timetable or paper dates
    enrolled,   \* the pupils who take each subject
    sections,   \* the class sections that have the name
    pupils,     \* the pupils who are there
    reqs,       \* the handlers in flight
    missed,     \* history: what came after a handler had counted, "use" or "section"
    asked       \* history: the list of the last enrolment saved, and if it was crossed

vars == <<where, data, enrolled, sections, pupils, reqs, missed, asked>>

(***************************************************************************)
(* A handler in flight: the rows it has to look at, the one it is at, the  *)
(* rows its transaction has deleted so far and, for an enrolment, the list *)
(* it is to save, the enrolment rows it deletes, and whether another list  *)
(* was saved after it had chosen them.                                     *)
(***************************************************************************)
Handler == [kind : {"select", "clean", "enrol"}, todo : SUBSET Ids, at : SUBSET Ids,
            step : {"remaining", "list", "tally", "drop", "commit", "clear", "fill"},
            drops : SUBSET Ids, pupils : SUBSET Pupils, old : SUBSET Pupils, late : BOOLEAN]

Idle == [step |-> "idle", drops |-> {}]

Asks(kind, step) ==
    [kind |-> kind, step |-> step, todo |-> {}, at |-> {}, drops |-> {},
     pupils |-> {}, old |-> {}, late |-> FALSE]

TypeOK ==
    /\ where \in [Ids -> {"unused", "here", "elsewhere", "gone"}]
    /\ data \subseteq Ids
    /\ enrolled \in [Ids -> SUBSET Pupils]
    /\ sections \subseteq Sections
    /\ pupils \subseteq Pupils
    /\ reqs \in [Requests -> Handler \cup {Idle}]
    /\ missed \in [Requests -> SUBSET {"use", "section"}]
    /\ asked \in [Ids -> [pupils : SUBSET Pupils, crossed : BOOLEAN]]

Init ==
    /\ where = [i \in Ids |-> "unused"]
    /\ data = {}
    /\ enrolled = [i \in Ids |-> {}]
    /\ sections = {}
    /\ pupils = Pupils
    /\ reqs = [r \in Requests |-> Idle]
    /\ missed = [r \in Requests |-> {}]
    /\ asked = [i \in Ids |-> [pupils |-> {}, crossed |-> FALSE]]

There(i) == where[i] \in {"here", "elsewhere"}
Here == {i \in Ids : where[i] = "here"}
InUse(i) == i \in data \/ enrolled[i] # {}

\* Deleted in a transaction that has not committed: nobody else may touch the row.
Doomed(i) == \E r \in Requests : i \in reqs[r].drops

-----------------------------------------------------------------------------
At(r, step) == reqs[r].step = step

\* The handler goes on; one that ends has missed nothing.
Becomes(r, q) ==
    /\ reqs' = [reqs EXCEPT ![r] = q]
    /\ missed' = IF q = Idle THEN [missed EXCEPT ![r] = {}] ELSE missed

\* A use of i comes after some handler has found it unused.
UseComes(i) ==
    missed' = [r \in Requests |->
                 IF At(r, "drop") /\ i \in reqs[r].at THEN missed[r] \cup {"use"} ELSE missed[r]]

\* The class has a section (again), or a row is another class's, after a clean-up has
\* counted the sections and listed the rows.
SectionComes ==
    missed' = [r \in Requests |->
                 IF reqs[r] # Idle /\ ~At(r, "remaining") THEN missed[r] \cup {"section"}
                 ELSE missed[r]]

\* The rows of D are deleted, and all that points at them.
Remove(D) ==
    /\ where' = [i \in Ids |-> IF i \in D THEN "gone" ELSE where[i]]
    /\ data' = data \ D
    /\ enrolled' = [i \in Ids |-> IF i \in D THEN {} ELSE enrolled[i]]
    /\ asked' = [i \in Ids |-> IF i \in D THEN [pupils |-> {}, crossed |-> FALSE] ELSE asked[i]]

-----------------------------------------------------------------------------
\* POST /subjects
Create(i) ==
    /\ where[i] = "unused"
    /\ where' = [where EXCEPT ![i] = "here"]
    /\ UNCHANGED <<data, enrolled, sections, pupils, reqs, missed, asked>>

\* PATCH /subjects/:id with a class name: to another class, or from it.
Move(i) ==
    /\ There(i) /\ ~Doomed(i)
    /\ \/ where[i] = "here" /\ where' = [where EXCEPT ![i] = "elsewhere"] /\ SectionComes
       \/ where[i] = "elsewhere" /\ where' = [where EXCEPT ![i] = "here"] /\ UNCHANGED missed
    /\ UNCHANGED <<data, enrolled, sections, pupils, reqs, asked>>

\* DELETE /subjects/:id, which asks nothing.
Delete(i) ==
    /\ There(i) /\ ~Doomed(i)
    /\ Remove({i})
    /\ UNCHANGED <<sections, pupils, reqs, missed>>

\* The register, the timetable, the exams and the staff routes.
Use(i) ==
    /\ There(i) /\ ~Doomed(i)
    /\ data' = data \cup {i}
    /\ UseComes(i)
    /\ UNCHANGED <<where, enrolled, sections, pupils, reqs, asked>>

Disuse(i) ==
    /\ i \in data
    /\ data' = data \ {i}
    /\ UNCHANGED <<where, enrolled, sections, pupils, reqs, missed, asked>>

\* A pupil is deleted, and all that points at the row.
PupilLeaves(p) ==
    /\ p \in pupils
    /\ pupils' = pupils \ {p}
    /\ enrolled' = [i \in Ids |-> enrolled[i] \ {p}]
    /\ asked' = [i \in Ids |-> [asked[i] EXCEPT !.pupils = @ \ {p}]]
    /\ UNCHANGED <<where, data, sections, reqs, missed>>

-----------------------------------------------------------------------------
\* Class sections of the name: created, or renamed to it.
SectionOpens(c) ==
    /\ c \notin sections
    /\ sections' = sections \cup {c}
    /\ SectionComes
    /\ UNCHANGED <<where, data, enrolled, pupils, reqs, asked>>

\* PATCH /classes/:id with another class name clears nothing away.
SectionRenamed(c) ==
    /\ c \in sections
    /\ sections' = sections \ {c}
    /\ UNCHANGED <<where, data, enrolled, pupils, reqs, missed, asked>>

\* DELETE /classes/:id
SectionDeleted(r, c) ==
    /\ reqs[r] = Idle
    /\ c \in sections
    /\ sections' = sections \ {c}
    /\ Becomes(r, Asks("clean", "remaining"))
    /\ UNCHANGED <<where, data, enrolled, pupils, asked>>

CleanCount(r) ==
    /\ At(r, "remaining")
    /\ Becomes(r, IF sections = {} THEN [reqs[r] EXCEPT !.step = "list"] ELSE Idle)
    /\ UNCHANGED <<where, data, enrolled, sections, pupils, asked>>

CleanList(r) ==
    /\ At(r, "list")
    /\ Becomes(r, IF Here = {} THEN Idle ELSE [reqs[r] EXCEPT !.step = "tally", !.todo = Here])
    /\ UNCHANGED <<where, data, enrolled, sections, pupils, asked>>

\* PUT /subjects/for-class/:className: the rows of the class, to be gone through but for
\* those whose names are selected.
SelectRead(r) ==
    /\ reqs[r] = Idle
    /\ \E others \in SUBSET Here :
          Becomes(r, [Asks("select", IF others = {} THEN "commit" ELSE "tally") EXCEPT !.todo = others])
    /\ UNCHANGED <<where, data, enrolled, sections, pupils, asked>>

\* On to the next row; a clean-up that has none left ends, a selection commits.
Onward(q, todo) ==
    IF todo # {} THEN [q EXCEPT !.step = "tally", !.todo = todo, !.at = {}]
    ELSE IF q.kind = "clean" THEN Idle
    ELSE [q EXCEPT !.step = "commit", !.todo = {}, !.at = {}]

\* Mutant of Unneeded: the enrolments are not counted.
UnneededByData(i) == i \notin data

\* What the five counts of a row say.
Unneeded(i) == ~InUse(i)

Tally(r) ==
    /\ At(r, "tally")
    /\ \E i \in reqs[r].todo :
          Becomes(r, IF Unneeded(i) THEN [reqs[r] EXCEPT !.step = "drop", !.at = {i}]
                     ELSE Onward(reqs[r], reqs[r].todo \ {i}))
    /\ UNCHANGED <<where, data, enrolled, sections, pupils, asked>>

\* The row goes: one that is gone by now rejects.
CleanDrop(r) ==
    /\ At(r, "drop") /\ reqs[r].kind = "clean"
    /\ \A i \in reqs[r].at : There(i) /\ ~Doomed(i)
    /\ Remove(reqs[r].at)
    /\ Becomes(r, Onward(reqs[r], reqs[r].todo \ reqs[r].at))
    /\ UNCHANGED <<sections, pupils>>

\* In a transaction, nobody sees it go before the commit.
SelectDrop(r) ==
    LET q == Onward(reqs[r], reqs[r].todo \ reqs[r].at)
    IN  /\ At(r, "drop") /\ reqs[r].kind = "select"
        /\ \A i \in reqs[r].at : There(i) /\ ~Doomed(i)
        /\ Becomes(r, [q EXCEPT !.drops = @ \cup reqs[r].at])
        /\ UNCHANGED <<where, data, enrolled, sections, pupils, asked>>

\* The commit, with the rows for the names that the class had no row of.
SelectCommit(r) ==
    /\ At(r, "commit")
    /\ \E new \in SUBSET {i \in Ids : where[i] = "unused"} :
          where' = [i \in Ids |-> IF i \in reqs[r].drops THEN "gone"
                                  ELSE IF i \in new THEN "here" ELSE where[i]]
    /\ data' = data \ reqs[r].drops
    /\ enrolled' = [i \in Ids |-> IF i \in reqs[r].drops THEN {} ELSE enrolled[i]]
    /\ asked' = [i \in Ids |-> IF i \in reqs[r].drops THEN [pupils |-> {}, crossed |-> FALSE]
                               ELSE asked[i]]
    /\ Becomes(r, Idle)
    /\ UNCHANGED <<sections, pupils>>

-----------------------------------------------------------------------------
(***************************************************************************)
(* PUT /subjects/:id/enrollments: in a transaction the rows that are there *)
(* are deleted and those of the list created.  Two at once do not see each *)
(* other's rows (PostgreSQL, read committed).                              *)
(***************************************************************************)
\* The subject is elective, and every pupil of the list is there.
EnrolRead(r, i) ==
    /\ reqs[r] = Idle
    /\ There(i)
    /\ \E list \in SUBSET pupils :
          Becomes(r, [Asks("enrol", "clear") EXCEPT !.at = {i}, !.pupils = list])
    /\ UNCHANGED <<where, data, enrolled, sections, pupils, asked>>

\* Mutant of Cleared: the rows of pupils who are not on the new list stay.
ClearedOfListed(q, i) == enrolled[i] \cap q.pupils

\* The rows that deleteMany finds.
Cleared(q, i) == enrolled[i]

EnrolClear(r) ==
    /\ At(r, "clear")
    /\ \E i \in reqs[r].at :
          Becomes(r, [reqs[r] EXCEPT !.step = "fill", !.old = Cleared(reqs[r], i)])
    /\ UNCHANGED <<where, data, enrolled, sections, pupils, asked>>

\* The rows of the list, and the commit.  A pupil or a subject that is gone, or a pupil whom
\* another list has put there in between, rejects.  Rows that this one deleted cannot be
\* deleted by a transaction that waits for it: those of the list are new ones.
EnrolFill(r) ==
    LET q == reqs[r]
    IN  /\ At(r, "fill")
        /\ q.pupils \subseteq pupils
        /\ \E i \in q.at :
              /\ There(i) /\ ~Doomed(i)
              /\ q.pupils \cap (enrolled[i] \ q.old) = {}
              /\ enrolled' = [enrolled EXCEPT ![i] = (@ \ q.old) \cup q.pupils]
              /\ asked' = [asked EXCEPT ![i] = [pupils |-> q.pupils, crossed |-> q.late]]
              /\ reqs' = [s \in Requests |->
                            IF s = r THEN Idle
                            ELSE IF At(s, "fill") /\ reqs[s].at = q.at
                            THEN [reqs[s] EXCEPT !.old = @ \ q.old, !.late = TRUE]
                            ELSE reqs[s]]
              /\ missed' = [s \in Requests |->
                              IF s = r THEN {}
                              ELSE IF q.pupils # {} /\ At(s, "drop") /\ reqs[s].at = q.at
                              THEN missed[s] \cup {"use"} ELSE missed[s]]
        /\ UNCHANGED <<where, data, sections, pupils>>

\* Any awaited call may reject, and the process may stop: a transaction that has not
\* committed has written nothing.
RequestFails(r) ==
    /\ reqs[r] # Idle
    /\ Becomes(r, Idle)
    /\ UNCHANGED <<where, data, enrolled, sections, pupils, asked>>

-----------------------------------------------------------------------------
Next ==
    \/ \E i \in Ids :
          \/ Create(i) \/ Move(i) \/ Delete(i) \/ Use(i) \/ Disuse(i)
          \/ \E r \in Requests : EnrolRead(r, i)
    \/ \E p \in Pupils : PupilLeaves(p)
    \/ \E c \in Sections :
          SectionOpens(c) \/ SectionRenamed(c) \/ \E r \in Requests : SectionDeleted(r, c)
    \/ \E r \in Requests :
          \/ CleanCount(r) \/ CleanList(r) \/ CleanDrop(r)
          \/ SelectRead(r) \/ Tally(r) \/ SelectDrop(r) \/ SelectCommit(r)
          \/ EnrolClear(r) \/ EnrolFill(r)
          \/ RequestFails(r)

Spec == Init /\ [][Next]_vars

-----------------------------------------------------------------------------
(***************************************************************************)
(* Properties.                                                             *)
(***************************************************************************)
\* What a handler q knows, who has missed m: the one row it is at, the uses of the rows it
\* is to delete, the sections of the class and the rows another class took, and the
\* enrolments that its list replaces.
AtOne(q) ==
    /\ q.step = "drop" => \E i \in q.todo : q.at = {i}
    /\ q.step \in {"clear", "fill"} => \E i \in Ids : q.at = {i}

KnowsUses(q, m) ==
    \A i \in Ids : (q.step = "drop" /\ i \in q.at) \/ i \in q.drops => (InUse(i) => "use" \in m)

KnowsSections(q, m) ==
    q.kind = "clean" /\ q.step # "remaining" =>
        /\ sections # {} => "section" \in m
        /\ q.step # "list" => \A i \in q.todo : where[i] = "elsewhere" => "section" \in m

KnowsList(q) == q.step = "fill" /\ ~q.late => \A i \in q.at : enrolled[i] \subseteq q.old

Knows(q, m) == AtOne(q) /\ KnowsUses(q, m) /\ KnowsSections(q, m) /\ KnowsList(q)

HandlersKnow == \A r \in Requests : reqs[r] # Idle => Knows(reqs[r], missed[r])

\* A clean-up may take i: nothing uses it and the class has no section, unless that came
\* after it had counted.
CleanMayDrop(r, i) ==
    /\ At(r, "drop") /\ reqs[r].kind = "clean" /\ i \in reqs[r].at
    /\ InUse(i) => "use" \in missed[r]
    /\ sections # {} \/ where[i] # "here" => "section" \in missed[r]

\* Nothing that uses a subject goes with it, nor is the subject of a class that has sections
\* cleared away, but for the deletion that asks nothing, a use that came between the count
\* and the deletion, and a section that came after the clean-up had counted them.
UnusedDropped ==
    [][\A i \in Ids : There(i) /\ ~There(i)' =>
          \/ Delete(i)
          \/ \E r \in Requests :
                \/ CleanMayDrop(r, i)
                \/ At(r, "commit") /\ i \in reqs[r].drops
                     /\ (InUse(i) => "use" \in missed[r])]_vars

\* Whoever was on the list that was saved last takes the subject, and nobody else does unless
\* another list was saved while that one was (subjects.js:437).
EnrolledAsSaved ==
    \A i \in Ids :
        /\ asked[i].pupils \subseteq enrolled[i]
        /\ ~asked[i].crossed => enrolled[i] = asked[i].pupils

\* The inductive invariant of the proofs.
IInv == TypeOK /\ HandlersKnow /\ EnrolledAsSaved

=============================================================================
