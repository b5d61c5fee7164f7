------------------------- MODULE SchoolOfficeProofs -------------------------
(***************************************************************************)
(* The proofs about what a school keeps of its people: the staff accounts  *)
(* (Staff), the photos of the pupils (Photos) and the promotion of a class *)
(* (Roster), for any number of accounts, papers, pupils, files, sections   *)
(* and handlers.  The parts do not rest on each other.                     *)
(***************************************************************************)
EXTENDS SchoolOffice, TLAPS

(***************************************************************************)
(* The promotions.  As long as one promotion holds a pupil, the pupil has  *)
(* no successor but the one that this promotion has just created.          *)
(***************************************************************************)
AnyRow == Row \cup {Unused, Gone}
AnyHandler == Handler \cup {Idle}

LEMMA RosterIdle ==
    /\ Idle.step = "idle" /\ Idle.todo = {}
    /\ \A q \in Handler : q # Idle
BY DEF Idle, Handler

\* What the database does when a row is created: a row under a new id, and a successor
\* for the one it comes from.
LEMMA NewRowFacts ==
    ASSUME IInv, NEW c \in Sections, NEW k \in Rolls,
           NEW from \in Students \cup {None},
           from \in Students => Present(from), NewRow(c, k, from)
    PROVE  \E t \in Students :
             /\ ~Present(t) /\ t # from
             /\ rows' \in [Students -> AnyRow]
             /\ \A s \in Students \ {t} : rows'[s] = rows[s]
             /\ rows'[t] \in Row
             /\ Successors(t)' = {}
             /\ \A s \in Students \ {t} :
                  Successors(s)' = IF s = from THEN Successors(s) \cup {t} ELSE Successors(s)
<1>1. rows \in [Students -> AnyRow]
  BY DEF IInv, TypeOK, AnyRow
<1>2. PICK t \in Students :
        /\ rows[t] = Unused
        /\ rows' = [rows EXCEPT ![t] = [section |-> c, roll |-> k, active |-> TRUE, from |-> from]]
  BY DEF NewRow
<1>3. ~Present(t) /\ t # from
  BY <1>2, RosterMarkers DEF Present
<1>4. [section |-> c, roll |-> k, active |-> TRUE, from |-> from] \in Row
  BY DEF Row
<1>5. /\ rows' \in [Students -> AnyRow]
      /\ \A s \in Students \ {t} : rows'[s] = rows[s]
      /\ rows'[t] = [section |-> c, roll |-> k, active |-> TRUE, from |-> from]
  BY <1>1, <1>2, <1>4 DEF AnyRow
<1>6. rows'[t] \in Row /\ rows'[t].from = from
  BY <1>4, <1>5
<1>7. Successors(t) = {}
  BY <1>2 DEF IInv, FromGiven
<1>8. \A s \in Students : Successors(s)' = IF s = from THEN Successors(s) \cup {t} ELSE Successors(s)
  BY <1>3, <1>5, <1>6 DEF Successors, Present
<1> QED BY <1>3, <1>5, <1>6, <1>7, <1>8

\* What it does when rows are deleted: nobody has been promoted from a row that is gone.
LEMMA DropFacts ==
    ASSUME IInv, NEW D \in SUBSET Students, Drop(D)
    PROVE  /\ rows' \in [Students -> AnyRow]
           /\ \A s \in Students : Successors(s)' \subseteq Successors(s)
           /\ \A s \in Students : Active(s)' => Active(s)
           /\ \A s \in Students : rows'[s] \in {Unused, Gone} => Successors(s)' = {}
<1>1. rows \in [Students -> AnyRow]
  BY DEF IInv, TypeOK, AnyRow
<1>2. rows' = [s \in Students |->
                 IF s \in D THEN Gone
                 ELSE IF Present(s) /\ rows[s].from \in D THEN [rows[s] EXCEPT !.from = None]
                 ELSE rows[s]]
  BY DEF Drop
<1>3. ASSUME NEW s \in Students, Present(s), rows[s].from \in D
      PROVE  /\ [rows[s] EXCEPT !.from = None] \in Row
             /\ [rows[s] EXCEPT !.from = None].from = None
             /\ [rows[s] EXCEPT !.from = None].active = rows[s].active
  BY <1>3 DEF Present, Row
<1>4. ASSUME NEW s \in Students
      PROVE  /\ rows'[s] \in AnyRow
             /\ rows'[s] \in Row => /\ s \notin D /\ rows[s] \in Row
                                    /\ rows'[s].active = rows[s].active
                                    /\ \/ rows'[s].from = None
                                       \/ rows'[s].from = rows[s].from /\ rows[s].from \notin D
             /\ rows'[s] \in {Unused, Gone} => s \in D \/ rows[s] \in {Unused, Gone}
  <2>1. CASE s \in D
    BY <1>2, <2>1, RosterMarkers DEF AnyRow
  <2>2. CASE s \notin D /\ Present(s) /\ rows[s].from \in D
    <3>1. rows'[s] = [rows[s] EXCEPT !.from = None]
      BY <1>2, <2>2
    <3> QED BY <1>3, <2>2, <3>1, RosterMarkers DEF Present, AnyRow
  <2>3. CASE s \notin D /\ ~(Present(s) /\ rows[s].from \in D)
    <3>1. rows'[s] = rows[s]
      BY <1>2, <2>3
    <3> QED BY <1>1, <2>3, <3>1 DEF Present, AnyRow
  <2> QED BY <2>1, <2>2, <2>3
<1>5. rows' \in [Students -> AnyRow]
  BY <1>2, <1>4
<1>6. ASSUME NEW s \in Students, NEW t \in Successors(s)'
      PROVE  t \in Successors(s) /\ s \notin D
  BY <1>4, <1>6, RosterMarkers DEF Successors, Present
<1>7. \A s \in Students : Active(s)' => Active(s)
  BY <1>4 DEF Active, Present
<1>8. ASSUME NEW s \in Students, rows'[s] \in {Unused, Gone} PROVE Successors(s)' = {}
  <2>1. s \in D \/ Successors(s) = {}
    BY <1>4, <1>8 DEF IInv, FromGiven
  <2> QED BY <1>6, <2>1
<1> QED BY <1>5, <1>6, <1>7, <1>8

\* One handler goes on, and the others stay where they are.
LEMMA RosterBecomes ==
    ASSUME TypeOK, NEW r \in Requests, NEW q \in AnyHandler, Becomes(r, q)
    PROVE  /\ reqs' \in [Requests -> AnyHandler]
           /\ reqs'[r] = q
           /\ \A x \in Requests \ {r} : reqs'[x] = reqs[x]
BY DEF TypeOK, AnyHandler, Becomes

LEMMA RosterAt ==
    ASSUME TypeOK, NEW r \in Requests, NEW step \in {"find", "create", "mark"}, At(r, step)
    PROVE  reqs[r] \in Handler /\ reqs[r].step = step
<1>1. reqs[r] \in AnyHandler
  BY DEF TypeOK, AnyHandler
<1> QED BY <1>1, RosterIdle DEF At, AnyHandler

\* The steps that leave the promotions alone, and take nothing from the rolls but rows.
LEMMA RowsOnly ==
    ASSUME IInv, UNCHANGED reqs, excused' \in SUBSET Students, excused \subseteq excused',
           sections' \in SUBSET Sections, rows' \in [Students -> AnyRow],
           \A s \in Students : Successors(s)' \subseteq Successors(s),
           \A s \in Students \ excused' : Active(s)' => Active(s) \/ Successors(s)' = {},
           \A s \in Students : rows'[s] \in {Unused, Gone} => Successors(s)' = {}
    PROVE  IInv'
<1>1. TypeOK'
  BY DEF IInv, TypeOK, AnyRow
<1>2. PromotedOnce'
  BY DEF IInv, PromotedOnce, At
<1>3. HeldByOne' /\ AtOneHeld' /\ FromGiven'
  BY DEF IInv, HeldByOne, AtOneHeld, FromGiven, At, Holds
<1> QED BY <1>1, <1>2, <1>3 DEF IInv

-----------------------------------------------------------------------------
LEMMA CreateKeeps ==
    ASSUME IInv, NEW c \in Sections, NEW k \in Rolls, Create(c, k)
    PROVE  IInv'
<1>1. NewRow(c, k, None) /\ UNCHANGED <<sections, reqs, excused>>
  BY DEF Create
<1>2. None \notin Students
  BY RosterMarkers
<1>3. PICK t \in Students :
             /\ ~Present(t)
             /\ rows' \in [Students -> AnyRow]
             /\ \A s \in Students \ {t} : rows'[s] = rows[s]
             /\ rows'[t] \in Row
             /\ Successors(t)' = {}
             /\ \A s \in Students \ {t} :
                  Successors(s)' = IF s = None THEN Successors(s) \cup {t} ELSE Successors(s)
  BY <1>1, <1>2, NewRowFacts
<1>4. \A s \in Students : Successors(s)' \subseteq Successors(s)
  BY <1>2, <1>3
<1>5. \A s \in Students \ excused' : Active(s)' => Active(s) \/ Successors(s)' = {}
  BY <1>3 DEF Active, Present
<1>6. \A s \in Students : rows'[s] \in {Unused, Gone} => Successors(s)' = {}
  BY <1>2, <1>3 DEF IInv, FromGiven
<1> QED BY <1>1, <1>3, <1>4, <1>5, <1>6, RowsOnly DEF IInv, TypeOK

LEMMA EditKeeps ==
    ASSUME IInv, NEW s \in Students, Edit(s)
    PROVE  IInv'
<1>1. PICK c \in sections, k \in Rolls, on \in BOOLEAN :
          /\ rows' = [rows EXCEPT ![s] = [@ EXCEPT !.section = c, !.roll = k, !.active = on]]
          /\ excused' = IF on /\ ~rows[s].active /\ Successors(s) # {}
                        THEN excused \cup {s} ELSE excused
  BY DEF Edit
<1>2. Present(s) /\ UNCHANGED <<sections, reqs>>
  BY DEF Edit
<1>3. rows \in [Students -> AnyRow] /\ sections \subseteq Sections /\ excused \subseteq Students
  BY DEF IInv, TypeOK, AnyRow
<1> DEFINE new == [rows[s] EXCEPT !.section = c, !.roll = k, !.active = on]
<1>4. new \in Row /\ new.active = on /\ new.from = rows[s].from
  BY <1>2, <1>3 DEF Present, Row
<1>5. rows' = [rows EXCEPT ![s] = new]
  BY <1>1
<1> HIDE DEF new
<1>6. /\ rows' \in [Students -> AnyRow] /\ rows'[s] = new
      /\ \A t \in Students \ {s} : rows'[t] = rows[t]
  BY <1>3, <1>4, <1>5 DEF AnyRow
<1>7. \A t \in Students : Present(t)' = Present(t) /\ (Present(t) => rows'[t].from = rows[t].from)
  BY <1>2, <1>4, <1>6 DEF Present
<1>8. \A t \in Students : Successors(t)' = Successors(t)
  BY <1>7 DEF Successors
<1>9. \A t \in Students \ excused' : Active(t)' => Active(t) \/ Successors(t)' = {}
  BY <1>1, <1>2, <1>4, <1>6, <1>7, <1>8 DEF Active
<1>10. \A t \in Students : rows'[t] \in {Unused, Gone} => Successors(t)' = {}
  BY <1>4, <1>6, <1>8, RosterMarkers DEF IInv, FromGiven
<1>11. excused' \in SUBSET Students /\ excused \subseteq excused'
  BY <1>1, <1>3
<1> QED BY <1>2, <1>3, <1>6, <1>8, <1>9, <1>10, <1>11, RowsOnly

LEMMA DropKeeps ==
    ASSUME IInv, NEW D \in SUBSET Students, Drop(D),
           sections' \in SUBSET Sections, UNCHANGED <<reqs, excused>>
    PROVE  IInv'
BY DropFacts, RowsOnly DEF IInv, TypeOK

-----------------------------------------------------------------------------
LEMMA ReadKeeps ==
    ASSUME IInv, NEW r \in Requests, NEW c \in Sections, NEW d \in Sections,
           PromoteRead(r, c, d)
    PROVE  IInv'
<1>1. PICK todo \in SUBSET Promotable(c) \ {{}} :
          /\ Becomes(r, [step |-> "find", todo |-> todo, now |-> None, to |-> d, roll |-> None])
          /\ excused' = excused \cup {s \in todo : \E q \in Requests : Holds(q, s)}
  BY DEF PromoteRead
<1>2. reqs[r] = Idle /\ UNCHANGED <<rows, sections>>
  BY DEF PromoteRead
<1>3. todo \in SUBSET Students
  BY DEF Promotable
<1> DEFINE q == [step |-> "find", todo |-> todo, now |-> None, to |-> d, roll |-> None]
<1>4. q \in Handler /\ q.step = "find" /\ q.todo = todo /\ q.now = None
  BY <1>3 DEF Handler
<1> HIDE DEF q
<1>5. /\ reqs' \in [Requests -> AnyHandler] /\ reqs'[r] = q
      /\ \A x \in Requests \ {r} : reqs'[x] = reqs[x]
  BY <1>1, <1>4, RosterBecomes DEF q, IInv, AnyHandler
<1>6. \A s \in Students : Successors(s)' = Successors(s) /\ Active(s)' = Active(s)
  BY <1>2 DEF Successors, Active, Present
<1>7. \A x \in Requests, s \in Students : At(x, "mark") /\ reqs[x].now = s =>
        x # r /\ At(x, "mark")' /\ reqs'[x].now = s /\ Holds(x, s)
  BY <1>2, <1>5, RosterIdle DEF At, IInv, AtOneHeld, Holds
<1>8. TypeOK'
  BY <1>1, <1>2, <1>3, <1>5 DEF IInv, TypeOK, AnyHandler
<1>9. PromotedOnce'
  BY <1>1, <1>6, <1>7 DEF IInv, PromotedOnce
<1>10. ASSUME NEW s \in Students \ excused', s \in todo
       PROVE  Successors(s) = {} /\ \A x \in Requests : ~Holds(x, s)
  <2>1. \A x \in Requests : ~Holds(x, s)
    BY <1>1, <1>10
  <2>2. Active(s) /\ s \in Students \ excused
    BY <1>1, <1>10 DEF Promotable
  <2> QED BY <1>7, <2>1, <2>2 DEF IInv, PromotedOnce
<1>11. HeldByOne'
  <2> SUFFICES ASSUME NEW s \in (Students \ excused)', NEW x \in Requests, Holds(x, s)'
               PROVE  /\ \A y \in Requests : Holds(y, s)' => y = x
                      /\ Successors(s)' # {} => At(x, "mark")' /\ reqs'[x].now = s
    BY DEF HeldByOne
  <2>1. s \in Students \ excused' /\ s \in Students \ excused
    BY <1>1
  <2>2. CASE s \in todo
    BY <1>4, <1>5, <1>6, <1>10, <2>1, <2>2 DEF Holds
  <2>3. CASE s \notin todo
    <3>1. x # r /\ Holds(x, s)
      BY <1>4, <1>5, <2>3 DEF Holds
    <3>2. \A y \in Requests : Holds(y, s)' => Holds(y, s)
      BY <1>4, <1>5, <2>3 DEF Holds
    <3> QED BY <1>5, <1>6, <2>1, <3>1, <3>2 DEF IInv, HeldByOne, At
  <2> QED BY <2>2, <2>3
<1>12. AtOneHeld'
  BY <1>4, <1>5 DEF IInv, AtOneHeld, At
<1>13. FromGiven'
  BY <1>2, <1>6 DEF IInv, FromGiven
<1> QED BY <1>8, <1>9, <1>11, <1>12, <1>13 DEF IInv

LEMMA FindKeeps ==
    ASSUME IInv, NEW r \in Requests, PromoteFind(r)
    PROVE  IInv'
<1>1. At(r, "find") /\ UNCHANGED <<rows, sections, excused>>
  BY DEF PromoteFind
<1>2. PICK s0 \in reqs[r].todo, k \in Rolls :
          Becomes(r, IF Taken(reqs[r].to, k) THEN Idle
                     ELSE [reqs[r] EXCEPT !.step = "create", !.now = s0, !.roll = k])
  BY DEF PromoteFind
<1>3. reqs[r] \in Handler /\ reqs[r].step = "find"
  BY <1>1, RosterAt DEF IInv
<1> DEFINE q == IF Taken(reqs[r].to, k) THEN Idle
                ELSE [reqs[r] EXCEPT !.step = "create", !.now = s0, !.roll = k]
<1>4. /\ q \in AnyHandler /\ q.step \in {"idle", "create"} /\ q.todo \subseteq reqs[r].todo
      /\ q.step = "create" => q.now \in q.todo /\ q.roll \in Rolls
  <2>1. CASE Taken(reqs[r].to, k)
    BY <2>1, RosterIdle DEF AnyHandler
  <2>2. CASE ~Taken(reqs[r].to, k)
    BY <1>3, <2>2 DEF AnyHandler, Handler
  <2> QED BY <2>1, <2>2
<1>5. Becomes(r, q)
  BY <1>2
<1> HIDE DEF q
<1>6. /\ reqs' \in [Requests -> AnyHandler] /\ reqs'[r] = q
      /\ \A x \in Requests \ {r} : reqs'[x] = reqs[x]
  BY <1>4, <1>5, RosterBecomes DEF IInv
<1>7. \A s \in Students : Successors(s)' = Successors(s) /\ Active(s)' = Active(s)
  BY <1>1 DEF Successors, Active, Present
<1>8. TypeOK'
  BY <1>1, <1>6 DEF IInv, TypeOK, AnyHandler
<1>9. PromotedOnce'
  BY <1>1, <1>3, <1>6, <1>7 DEF IInv, PromotedOnce, At
<1>10. \A x \in Requests, s \in Students : Holds(x, s)' => Holds(x, s)
  BY <1>4, <1>6 DEF Holds
<1>11. HeldByOne'
  BY <1>1, <1>3, <1>6, <1>7, <1>10 DEF IInv, HeldByOne, At
<1>12. AtOneHeld'
  BY <1>4, <1>6 DEF IInv, AtOneHeld, At
<1>13. FromGiven'
  BY <1>1, <1>7 DEF IInv, FromGiven
<1> QED BY <1>8, <1>9, <1>11, <1>12, <1>13 DEF IInv

LEMMA PromoteCreateKeeps ==
    ASSUME IInv, NEW r \in Requests, PromoteCreate(r)
    PROVE  IInv'
<1>1. /\ At(r, "create") /\ Present(reqs[r].now)
      /\ NewRow(reqs[r].to, reqs[r].roll, reqs[r].now)
      /\ Becomes(r, [reqs[r] EXCEPT !.step = "mark"])
      /\ UNCHANGED <<sections, excused>>
  BY DEF PromoteCreate
<1>2. reqs[r] \in Handler /\ reqs[r].step = "create"
  BY <1>1, RosterAt DEF IInv
<1>3. PICK n \in Students : n = reqs[r].now /\ n \in reqs[r].todo
  BY <1>1, <1>2 DEF IInv, AtOneHeld, Handler
<1>4. reqs[r].to \in Sections /\ reqs[r].roll \in Rolls
  BY <1>1, <1>2 DEF IInv, AtOneHeld, Handler
<1>5. PICK t \in Students :
             /\ ~Present(t) /\ t # n
             /\ rows' \in [Students -> AnyRow]
             /\ \A s \in Students \ {t} : rows'[s] = rows[s]
             /\ rows'[t] \in Row
             /\ Successors(t)' = {}
             /\ \A s \in Students \ {t} :
                  Successors(s)' = IF s = n THEN Successors(s) \cup {t} ELSE Successors(s)
  BY <1>1, <1>3, <1>4, NewRowFacts
<1> DEFINE q == [reqs[r] EXCEPT !.step = "mark"]
<1>6. q \in Handler /\ q.step = "mark" /\ q.todo = reqs[r].todo /\ q.now = n
  BY <1>2, <1>3 DEF Handler
<1> HIDE DEF q
<1>7. /\ reqs' \in [Requests -> AnyHandler] /\ reqs'[r] = q
      /\ \A x \in Requests \ {r} : reqs'[x] = reqs[x]
  BY <1>1, <1>6, RosterBecomes DEF q, IInv, AnyHandler
<1>8. \A x \in Requests, s \in Students : Holds(x, s)' <=> Holds(x, s)
  BY <1>6, <1>7 DEF Holds
<1>9. \A s \in Students \ excused : Holds(r, s) => Successors(s) = {}
  BY <1>2 DEF IInv, HeldByOne, At
<1>10. n \in Students \ excused => Successors(n)' = {t}
  <2>1. Holds(r, n)
    BY <1>3 DEF Holds
  <2> QED BY <1>3, <1>5, <1>9, <2>1
<1>11. TypeOK'
  BY <1>1, <1>5, <1>7 DEF IInv, TypeOK, AnyHandler, AnyRow
<1>12. PromotedOnce'
  <2> SUFFICES ASSUME NEW s \in (Students \ excused)'
               PROVE  /\ \A a, b \in Successors(s)' : a = b
                      /\ Active(s)' /\ Successors(s)' # {} =>
                            \E x \in Requests : At(x, "mark")' /\ reqs'[x].now = s
    BY DEF PromotedOnce
  <2>1. s \in Students \ excused
    BY <1>1
  <2>2. CASE s = t
    BY <1>5, <2>2
  <2>3. CASE s = n
    BY <1>6, <1>7, <1>10, <2>1, <2>3 DEF At
  <2>4. CASE s # t /\ s # n
    <3>1. Successors(s)' = Successors(s) /\ Active(s)' = Active(s)
      BY <1>5, <2>1, <2>4 DEF Active, Present
    <3>2. \A x \in Requests : At(x, "mark") => x # r
      BY <1>2 DEF At
    <3> QED BY <1>7, <2>1, <3>1, <3>2 DEF IInv, PromotedOnce, At
  <2> QED BY <2>2, <2>3, <2>4
<1>13. HeldByOne'
  <2> SUFFICES ASSUME NEW s \in (Students \ excused)', NEW x \in Requests, Holds(x, s)'
               PROVE  /\ \A y \in Requests : Holds(y, s)' => y = x
                      /\ Successors(s)' # {} => At(x, "mark")' /\ reqs'[x].now = s
    BY DEF HeldByOne
  <2>1. s \in Students \ excused /\ Holds(x, s)
    BY <1>1, <1>8
  <2>2. \A y \in Requests : Holds(y, s)' => y = x
    BY <1>8, <2>1 DEF IInv, HeldByOne
  <2>3. CASE s = t
    BY <1>5, <2>2, <2>3
  <2>4. CASE s = n
    <3>1. Holds(r, s)
      BY <1>3, <2>4 DEF Holds
    <3>2. x = r
      BY <1>8, <2>2, <3>1
    <3> QED BY <1>6, <1>7, <2>2, <2>4, <3>2 DEF At
  <2>5. CASE s # t /\ s # n
    <3>1. Successors(s)' = Successors(s)
      BY <1>5, <2>1, <2>5
    <3>2. x = r => Successors(s) = {}
      BY <1>9, <2>1
    <3> QED BY <1>7, <2>1, <2>2, <3>1, <3>2 DEF IInv, HeldByOne, At
  <2> QED BY <2>3, <2>4, <2>5
<1>14. AtOneHeld'
  BY <1>3, <1>6, <1>7, <1>4 DEF IInv, AtOneHeld, At
<1>15. FromGiven'
  <2> SUFFICES ASSUME NEW s \in Students, rows'[s] \in {Unused, Gone} PROVE Successors(s)' = {}
    BY DEF FromGiven
  <2>1. s # t
    BY <1>5, RosterMarkers
  <2>2. s # n
    BY <1>1, <1>3, <1>5, <2>1, RosterMarkers DEF Present
  <2> QED BY <1>5, <2>1, <2>2 DEF IInv, FromGiven
<1> QED BY <1>11, <1>12, <1>13, <1>14, <1>15 DEF IInv

LEMMA MarkKeeps ==
    ASSUME IInv, NEW r \in Requests, PromoteMark(r)
    PROVE  IInv'
<1>0. reqs[r] \in Handler /\ reqs[r].step = "mark" /\ At(r, "mark")
  BY RosterAt DEF IInv, PromoteMark
<1>3. PICK n \in Students : n = reqs[r].now /\ n \in reqs[r].todo
  BY <1>0 DEF IInv, AtOneHeld, Handler
<1> DEFINE rest == reqs[r].todo \ {n}
           q == IF rest = {} THEN Idle
                ELSE [reqs[r] EXCEPT !.step = "find", !.todo = rest, !.now = None, !.roll = None]
<1>1. /\ At(r, "mark") /\ Present(n)
      /\ rows' = [rows EXCEPT ![n].active = FALSE]
      /\ Becomes(r, q)
      /\ UNCHANGED <<sections, excused>>
  BY <1>3 DEF PromoteMark
<1>4. /\ q \in AnyHandler /\ q.step \in {"idle", "find"} /\ q.todo = rest
  <2>1. CASE rest = {}
    BY <2>1, RosterIdle DEF AnyHandler
  <2>2. CASE rest # {}
    BY <1>0, <2>2 DEF AnyHandler, Handler
  <2> QED BY <2>1, <2>2
<1>5. rows \in [Students -> AnyRow] /\ rows[n] \in Row
  BY <1>1 DEF IInv, TypeOK, AnyRow, Present
<1>6. /\ [rows[n] EXCEPT !.active = FALSE] \in Row
      /\ [rows[n] EXCEPT !.active = FALSE].active = FALSE
      /\ [rows[n] EXCEPT !.active = FALSE].from = rows[n].from
  BY <1>5 DEF Row
<1>7. /\ rows' \in [Students -> AnyRow] /\ rows'[n] \in Row /\ rows'[n].active = FALSE
      /\ rows'[n].from = rows[n].from
      /\ \A s \in Students \ {n} : rows'[s] = rows[s]
  BY <1>1, <1>3, <1>5, <1>6 DEF AnyRow
<1> HIDE DEF q, rest
<1>8. /\ reqs' \in [Requests -> AnyHandler] /\ reqs'[r] = q
      /\ \A x \in Requests \ {r} : reqs'[x] = reqs[x]
  BY <1>1, <1>4, RosterBecomes DEF IInv
<1>9. \A s \in Students : Successors(s)' = Successors(s)
  BY <1>5, <1>7 DEF Successors, Present
<1>10. ~Active(n)' /\ \A s \in Students \ {n} : Active(s)' = Active(s)
  BY <1>7 DEF Active, Present
<1>11. \A x \in Requests, s \in Students : Holds(x, s)' => Holds(x, s) /\ (x = r => s # n)
  BY <1>4, <1>8 DEF Holds, rest
<1>12. TypeOK'
  BY <1>1, <1>7, <1>8 DEF IInv, TypeOK, AnyHandler, AnyRow
<1>13. PromotedOnce'
  <2> SUFFICES ASSUME NEW s \in (Students \ excused)'
               PROVE  /\ \A a, b \in Successors(s)' : a = b
                      /\ Active(s)' /\ Successors(s)' # {} =>
                            \E x \in Requests : At(x, "mark")' /\ reqs'[x].now = s
    BY DEF PromotedOnce
  <2>1. s \in Students \ excused
    BY <1>1
  <2>2. \A a, b \in Successors(s)' : a = b
    BY <1>9, <2>1 DEF IInv, PromotedOnce
  <2>3. ASSUME Active(s)', Successors(s)' # {}
        PROVE  \E x \in Requests : At(x, "mark")' /\ reqs'[x].now = s
    <3>1. s # n /\ Active(s) /\ Successors(s) # {}
      BY <1>9, <1>10, <2>1, <2>3
    <3>2. PICK x \in Requests : At(x, "mark") /\ reqs[x].now = s
      BY <2>1, <3>1 DEF IInv, PromotedOnce
    <3>3. x # r
      BY <1>3, <3>1, <3>2
    <3> QED BY <1>8, <3>2, <3>3 DEF At
  <2> QED BY <2>2, <2>3
<1>14. HeldByOne'
  <2> SUFFICES ASSUME NEW s \in (Students \ excused)', NEW x \in Requests, Holds(x, s)'
               PROVE  /\ \A y \in Requests : Holds(y, s)' => y = x
                      /\ Successors(s)' # {} => At(x, "mark")' /\ reqs'[x].now = s
    BY DEF HeldByOne
  <2>1. s \in Students \ excused /\ Holds(x, s) /\ (x = r => s # n)
    BY <1>1, <1>11
  <2>2. Successors(s) # {} => At(x, "mark") /\ reqs[x].now = s
    BY <2>1 DEF IInv, HeldByOne
  <2>3. x # r \/ Successors(s) = {}
    BY <1>3, <2>1, <2>2
  <2>4. \A y \in Requests : Holds(y, s)' => y = x
    BY <1>11, <2>1 DEF IInv, HeldByOne
  <2> QED BY <1>8, <1>9, <2>1, <2>2, <2>3, <2>4 DEF At
<1>15. AtOneHeld'
  BY <1>4, <1>8 DEF IInv, AtOneHeld, At
<1>16. FromGiven'
  BY <1>3, <1>7, <1>9, RosterMarkers DEF IInv, FromGiven
<1> QED BY <1>12, <1>13, <1>14, <1>15, <1>16 DEF IInv

LEMMA FailsKeeps ==
    ASSUME IInv, NEW r \in Requests, RequestFails(r)
    PROVE  IInv'
<1>1. /\ Becomes(r, Idle) /\ UNCHANGED <<rows, sections>>
      /\ excused' = excused \cup IF At(r, "mark") THEN {reqs[r].now} ELSE {}
  BY DEF RequestFails
<1>2. Idle \in AnyHandler
  BY DEF AnyHandler
<1>3. /\ reqs' \in [Requests -> AnyHandler] /\ reqs'[r] = Idle
      /\ \A x \in Requests \ {r} : reqs'[x] = reqs[x]
  BY <1>1, <1>2, RosterBecomes DEF IInv
<1>4. \A s \in Students : Successors(s)' = Successors(s) /\ Active(s)' = Active(s)
  BY <1>1 DEF Successors, Active, Present
<1>5. At(r, "mark") => reqs[r].now \in Students
  BY RosterAt DEF IInv, AtOneHeld, Handler
<1>6. TypeOK'
  BY <1>1, <1>3, <1>5 DEF IInv, TypeOK, AnyHandler
<1>7. PromotedOnce'
  <2> SUFFICES ASSUME NEW s \in (Students \ excused)'
               PROVE  /\ \A a, b \in Successors(s)' : a = b
                      /\ Active(s)' /\ Successors(s)' # {} =>
                            \E x \in Requests : At(x, "mark")' /\ reqs'[x].now = s
    BY DEF PromotedOnce
  <2>1. s \in Students \ excused /\ ~(At(r, "mark") /\ reqs[r].now = s)
    BY <1>1
  <2>2. Active(s) /\ Successors(s) # {} =>
           \E x \in Requests \ {r} : At(x, "mark") /\ reqs[x].now = s
    BY <2>1 DEF IInv, PromotedOnce
  <2> QED BY <1>3, <1>4, <2>1, <2>2 DEF IInv, PromotedOnce, At
<1>8. \A x \in Requests, s \in Students : Holds(x, s)' => x # r /\ Holds(x, s)
  BY <1>3, RosterIdle DEF Holds
<1>9. HeldByOne'
  <2> SUFFICES ASSUME NEW s \in (Students \ excused)', NEW x \in Requests, Holds(x, s)'
               PROVE  /\ \A y \in Requests : Holds(y, s)' => y = x
                      /\ Successors(s)' # {} => At(x, "mark")' /\ reqs'[x].now = s
    BY DEF HeldByOne
  <2>1. s \in Students \ excused /\ x # r /\ Holds(x, s)
    BY <1>1, <1>8
  <2>2. \A y \in Requests : Holds(y, s)' => y = x
    BY <1>8, <2>1 DEF IInv, HeldByOne
  <2> QED BY <1>3, <1>4, <2>1, <2>2 DEF IInv, HeldByOne, At
<1>10. AtOneHeld'
  BY <1>3, RosterIdle DEF IInv, AtOneHeld, At
<1>11. FromGiven'
  BY <1>1, <1>4 DEF IInv, FromGiven
<1> QED BY <1>6, <1>7, <1>9, <1>10, <1>11 DEF IInv

-----------------------------------------------------------------------------
\* At all times: no two promotions hold the same pupil, and of those they hold only the one
\* whose old row is to be marked next has a successor - but for the pupils set aside.
THEOREM RosterInvariance == Spec => []IInv
<1>1. ASSUME Init PROVE IInv
  <2>1. \A s \in Students : rows[s] = Unused /\ ~Present(s)
    BY <1>1, RosterMarkers DEF Init, Present
  <2>2. \A s \in Students : Successors(s) = {} /\ ~Active(s)
    BY <2>1 DEF Successors, Active
  <2>3. \A r \in Requests : reqs[r].step = "idle" /\ reqs[r].todo = {}
    BY <1>1, RosterIdle DEF Init
  <2>4. TypeOK
    BY <1>1 DEF Init, TypeOK
  <2> QED BY <2>1, <2>2, <2>3, <2>4
     DEF IInv, PromotedOnce, HeldByOne, AtOneHeld, FromGiven, At, Holds
<1>2. ASSUME IInv, [Next]_vars PROVE IInv'
  <2>1. CASE UNCHANGED vars
    <3>1. UNCHANGED reqs /\ UNCHANGED excused /\ UNCHANGED sections /\ UNCHANGED rows
      BY <2>1 DEF vars
    <3>2. \A s \in Students : Successors(s)' = Successors(s) /\ Active(s)' = Active(s)
      BY <3>1 DEF Successors, Active, Present
    <3>3. rows' \in [Students -> AnyRow] /\ excused' \in SUBSET Students /\ sections' \in SUBSET Sections
      BY <1>2, <3>1 DEF IInv, TypeOK, AnyRow
    <3>4. \A s \in Students : rows'[s] \in {Unused, Gone} => Successors(s)' = {}
      BY <1>2, <3>1, <3>2 DEF IInv, FromGiven
    <3> QED BY <1>2, <3>1, <3>2, <3>3, <3>4, RowsOnly
  <2>2. ASSUME NEW c \in Sections, NEW k \in Rolls, Create(c, k) PROVE IInv'
    BY <1>2, <2>2, CreateKeeps
  <2>3. ASSUME NEW c \in Sections, NEW d \in Sections, NEW r \in Requests, PromoteRead(r, c, d)
        PROVE  IInv'
    BY <1>2, <2>3, ReadKeeps
  <2>4. ASSUME NEW s \in Students, Edit(s) PROVE IInv'
    BY <1>2, <2>4, EditKeeps
  <2>5. ASSUME NEW s \in Students, Delete(s) PROVE IInv'
    <3>1. {s} \in SUBSET Students /\ sections \in SUBSET Sections
      BY <1>2 DEF IInv, TypeOK
    <3> QED BY <1>2, <2>5, <3>1, DropKeeps DEF Delete
  <2>6. ASSUME NEW c \in Sections, DeleteSection(c) PROVE IInv'
    <3>1. sections \ {c} \in SUBSET Sections
      BY <1>2 DEF IInv, TypeOK
    <3>2. {s \in Students : Present(s) /\ rows[s].section = c} \in SUBSET Students
      OBVIOUS
    <3> QED BY <1>2, <2>6, <3>1, <3>2, DropKeeps DEF DeleteSection
  <2>7. ASSUME NEW r \in Requests,
               PromoteFind(r) \/ PromoteCreate(r) \/ PromoteMark(r) \/ RequestFails(r)
        PROVE  IInv'
    BY <1>2, <2>7, FindKeeps, PromoteCreateKeeps, MarkKeeps, FailsKeeps
  <2> QED BY <1>2, <2>1, <2>2, <2>3, <2>4, <2>5, <2>6, <2>7 DEF Next
<1> QED BY <1>1, <1>2, PTL DEF Spec

\* A pupil that no two promotions held at once, whom no promotion left half way and who was
\* not put back on the roll is promoted once, and is active in one class (students.js:686).
THEOREM PromotedOnceOnly == Spec => []PromotedOnce
<1>1. IInv => PromotedOnce
  BY DEF IInv
<1> QED BY <1>1, RosterInvariance, PTL

-----------------------------------------------------------------------------
(***************************************************************************)
(* The staff.  The last principal and the last teacher of a paper are lost *)
(* only where Staff says.  A handler that works alone is right about what  *)
(* it has read; whatever another one writes in the meantime puts it        *)
(* behind.                                                                 *)
(***************************************************************************)
StaffHandler == Accounts!Handler \cup {Accounts!Idle}
Right(r) == Accounts!RightAboutPrincipals(r) /\ Accounts!RightAboutPapers(r) /\ Accounts!Shape(r)

LEMMA IdleFacts ==
    /\ Accounts!Idle.step = "idle"
    /\ \A q \in Accounts!Handler : q # Accounts!Idle /\ q.step \in Accounts!Steps
<1>1. Accounts!Idle.step = "idle"
  BY DEF Accounts!Idle
<1> QED BY <1>1 DEF Accounts!Handler, Accounts!Steps

\* What a handler is to do is left as it was but for the fields a step sets.
LEMMA AsksTyped ==
    ASSUME NEW step \in Accounts!Steps, NEW u \in Users
    PROVE  /\ Accounts!Asks(step, u) \in Accounts!Handler
           /\ \A as \in Accounts!Roles \cup {None} : [Accounts!Asks(step, u) EXCEPT !.role = as] \in Accounts!Handler
           /\ \A ps \in SUBSET Papers : [Accounts!Asks(step, u) EXCEPT !.set = ps] \in Accounts!Handler
           /\ \A v \in Users, ps \in SUBSET Papers, b \in BOOLEAN :
                [Accounts!Asks(step, u) EXCEPT !.to = v, !.set = ps, !.dutyToo = b] \in Accounts!Handler
BY DEF Accounts!Asks, Accounts!Handler

LEMMA HandlerTyped ==
    ASSUME Accounts!TypeOK, NEW r \in Requests, calls[r] # Accounts!Idle
    PROVE  calls[r] \in Accounts!Handler
BY DEF Accounts!TypeOK

LEMMA AtTyped ==
    ASSUME Accounts!TypeOK, NEW r \in Requests, NEW step \in Accounts!Steps, Accounts!At(r, step)
    PROVE  calls[r] # Accounts!Idle /\ calls[r] \in Accounts!Handler
BY IdleFacts, HandlerTyped DEF Accounts!At, Accounts!Steps

(***************************************************************************)
(* What Becomes does to the slots, whatever else the step does.            *)
(***************************************************************************)
LEMMA BecomesTyped ==
    ASSUME Accounts!TypeOK, NEW r \in Requests, NEW q \in StaffHandler, Accounts!Becomes(r, q)
    PROVE  /\ calls' \in [Requests -> StaffHandler]
           /\ behind' \in [Requests -> SUBSET {"principals", "papers"}]
           /\ calls'[r] = q
           /\ \A s \in Requests \ {r} : calls'[s] = calls[s]
           /\ behind'[r] = IF q = Accounts!Idle THEN {} ELSE behind[r]
           /\ \A s \in Requests \ {r} :
                behind'[s] = IF calls[s] = Accounts!Idle THEN {} ELSE behind[s] \cup Accounts!Changed
<1>1. calls \in [Requests -> StaffHandler] /\ behind \in [Requests -> SUBSET {"principals", "papers"}]
  BY DEF Accounts!TypeOK, StaffHandler
<1>2. Accounts!Changed \subseteq {"principals", "papers"}
  BY DEF Accounts!Changed
<1>3. calls' = [calls EXCEPT ![r] = q]
  BY DEF Accounts!Becomes
<1>4. calls' \in [Requests -> StaffHandler] /\ calls'[r] = q
      /\ \A s \in Requests \ {r} : calls'[s] = calls[s]
  BY <1>1, <1>3
<1>5. behind' = [s \in Requests |-> IF calls'[s] = Accounts!Idle THEN {}
                                    ELSE IF s = r THEN behind[s] ELSE behind[s] \cup Accounts!Changed]
  BY DEF Accounts!Becomes
<1>6. /\ behind'[r] = IF q = Accounts!Idle THEN {} ELSE behind[r]
      /\ \A s \in Requests \ {r} :
            behind'[s] = IF calls[s] = Accounts!Idle THEN {} ELSE behind[s] \cup Accounts!Changed
  BY <1>4, <1>5
<1>7. behind' \in [Requests -> SUBSET {"principals", "papers"}]
  BY <1>1, <1>2, <1>5
<1> QED BY <1>4, <1>6, <1>7

\* The other handlers stay right: what they missed has put them behind.
LEMMA OthersStayRight ==
    ASSUME Accounts!IInv, NEW r \in Requests, NEW q \in StaffHandler, Accounts!Becomes(r, q),
           NEW s \in Requests \ {r}
    PROVE  Right(s)'
<1>1. Accounts!TypeOK /\ Right(s)
  BY DEF Accounts!IInv, Right
<1>2. /\ calls'[s] = calls[s]
      /\ behind'[s] = IF calls[s] = Accounts!Idle THEN {} ELSE behind[s] \cup Accounts!Changed
  BY <1>1, BecomesTyped
<1>3. CASE calls[s] = Accounts!Idle
  BY <1>2, <1>3, IdleFacts
     DEF Right, Accounts!RightAboutPrincipals, Accounts!RightAboutPapers, Accounts!Shape,
         Accounts!Counted, Accounts!At
<1>4. CASE calls[s] # Accounts!Idle
  <2>1. "principals" \notin behind'[s] => "principals" \notin behind[s] /\ Accounts!Principals' = Accounts!Principals
    BY <1>2, <1>4 DEF Accounts!Changed
  <2>2. "papers" \notin behind'[s] => "papers" \notin behind[s] /\ papers' = papers
    BY <1>2, <1>4 DEF Accounts!Changed
  <2>3. Accounts!RightAboutPrincipals(s)'
    <3>1. Accounts!RightAboutPrincipals(s)
      BY <1>1 DEF Right
    <3>2. Accounts!Counted(s)' => Accounts!Counted(s)
      BY <1>2 DEF Accounts!Counted, Accounts!At
    <3>3. Accounts!Counted(s) /\ "principals" \notin behind[s] => Accounts!Principals # {calls[s].user}
      BY <3>1 DEF Accounts!RightAboutPrincipals
    <3>4. Accounts!Counted(s)' /\ "principals" \notin behind'[s] => Accounts!Principals' # {calls'[s].user}
      BY <3>2, <3>3, <2>1, <1>2
    <3> QED BY <3>4 DEF Accounts!RightAboutPrincipals
  <2>4. Accounts!RightAboutPapers(s)'
    BY <1>1, <1>2, <2>2 DEF Right, Accounts!RightAboutPapers, Accounts!At
  <2>5. Accounts!Shape(s)'
    BY <1>1, <1>2, <1>4 DEF Right, Accounts!Shape, Accounts!At
  <2> QED BY <2>3, <2>4, <2>5 DEF Right
<1> QED BY <1>3, <1>4

\* So a step is judged by its own handler alone, and not at all when that one ends.
LEMMA StepKeepsInv ==
    ASSUME Accounts!IInv, NEW r \in Requests, NEW q \in StaffHandler, Accounts!Becomes(r, q),
           role' \in [Users -> Accounts!Roles \cup {NoUser, Gone}],
           active' \subseteq Users,
           papers' \in [Users -> SUBSET Papers],
           duty' \in Users \cup {None},
           q = Accounts!Idle \/ Right(r)'
    PROVE  Accounts!IInv'
<1>1. Accounts!TypeOK
  BY DEF Accounts!IInv
<1>2. Accounts!TypeOK'
  BY <1>1, BecomesTyped DEF Accounts!TypeOK, StaffHandler
<1>3. Right(r)'
  <2>1. CASE q = Accounts!Idle
    <3>1. calls'[r] = Accounts!Idle /\ behind'[r] = {}
      BY <1>1, <2>1, BecomesTyped
    <3> QED BY <3>1, IdleFacts
            DEF Right, Accounts!RightAboutPrincipals, Accounts!RightAboutPapers, Accounts!Shape, Accounts!Counted, Accounts!At
  <2> QED BY <2>1
<1>4. \A s \in Requests : Right(s)'
  BY <1>3, OthersStayRight
<1> QED BY <1>2, <1>4 DEF Accounts!IInv, Right

-----------------------------------------------------------------------------
(***************************************************************************)
(* Each action keeps the invariant.                                        *)
(***************************************************************************)
LEMMA StaffFailsKeeps ==
    ASSUME Accounts!IInv, NEW r \in Requests, Accounts!RequestFails(r) PROVE Accounts!IInv'
<1>1. UNCHANGED <<role, active, papers, duty>> /\ Accounts!Becomes(r, Accounts!Idle)
  BY DEF Accounts!RequestFails
<1> QED BY <1>1, StepKeepsInv DEF Accounts!IInv, Accounts!TypeOK, StaffHandler

LEMMA StaffCreateKeeps ==
    ASSUME Accounts!IInv, NEW r \in Requests, NEW u \in Users, Accounts!Create(r, u) PROVE Accounts!IInv'
<1>1. Accounts!TypeOK
  BY DEF Accounts!IInv
<1>2. PICK q \in {Accounts!Idle} \cup {[Accounts!Asks("assign", u) EXCEPT !.set = ps] : ps \in SUBSET Papers \ {{}}} :
        Accounts!Opens(r, q)
  BY DEF Accounts!Create
<1>3. q \in StaffHandler
  <2>1. ASSUME NEW ps \in SUBSET Papers, q = [Accounts!Asks("assign", u) EXCEPT !.set = ps]
        PROVE  q \in Accounts!Handler
    BY <2>1, AsksTyped DEF Accounts!Steps
  <2> QED BY <1>2, <2>1 DEF StaffHandler
<1>4. /\ role' \in [Users -> Accounts!Roles \cup {NoUser, Gone}] /\ active' \subseteq Users
      /\ papers' = papers /\ duty' = duty
  BY <1>1 DEF Accounts!Create, Accounts!TypeOK, Accounts!Roles
<1>5. q = Accounts!Idle \/ Right(r)'
  <2>1. CASE q # Accounts!Idle
    <3>1. q.step = "assign"
      BY <1>2, <2>1 DEF Accounts!Asks
    <3>2. calls'[r] = q
      BY <1>1, <1>2, <1>3, BecomesTyped DEF Accounts!Opens
    <3> QED BY <3>1, <3>2, <2>1
            DEF Right, Accounts!RightAboutPrincipals, Accounts!RightAboutPapers, Accounts!Shape, Accounts!Counted, Accounts!At
  <2> QED BY <2>1
<1>6. Accounts!Becomes(r, q)
  BY <1>2 DEF Accounts!Opens
<1> QED BY <1>1, <1>3, <1>4, <1>5, <1>6, StepKeepsInv DEF Accounts!TypeOK

LEMMA AssignKeeps ==
    ASSUME Accounts!IInv, NEW r \in Requests, NEW step \in {"assign", "fill"}, Accounts!Assign(r, step) PROVE Accounts!IInv'
<1>1. Accounts!TypeOK
  BY DEF Accounts!IInv
<1>2. calls[r] \in Accounts!Handler
  BY <1>1, AtTyped DEF Accounts!Assign, Accounts!Steps
<1>3. papers' \in [Users -> SUBSET Papers]
  BY <1>1, <1>2 DEF Accounts!Assign, Accounts!TypeOK, Accounts!Handler
<1>4. UNCHANGED <<role, active, duty>> /\ Accounts!Becomes(r, Accounts!Idle)
  BY DEF Accounts!Assign
<1> QED BY <1>1, <1>3, <1>4, StepKeepsInv DEF Accounts!TypeOK, StaffHandler

LEMMA PatchReadKeeps ==
    ASSUME Accounts!IInv, NEW r \in Requests, NEW u \in Users, Accounts!PatchRead(r, u) PROVE Accounts!IInv'
<1>1. Accounts!TypeOK
  BY DEF Accounts!IInv
<1>2. PICK as \in Accounts!Roles \cup {None} :
        Accounts!Opens(r, [Accounts!Asks(IF role[u] = "PRINCIPAL" /\ as \notin {None, "PRINCIPAL"}
                       THEN "count" ELSE "update", u) EXCEPT !.role = as])
  BY DEF Accounts!PatchRead
<1>3. PICK step \in {"count", "update"} :
        /\ step = IF role[u] = "PRINCIPAL" /\ as \notin {None, "PRINCIPAL"} THEN "count" ELSE "update"
        /\ Accounts!Opens(r, [Accounts!Asks(step, u) EXCEPT !.role = as])
  BY <1>2
<1>4. PICK q \in Accounts!Handler : q = [Accounts!Asks(step, u) EXCEPT !.role = as]
  BY AsksTyped DEF Accounts!Steps
<1>5. Accounts!Becomes(r, q) /\ UNCHANGED <<role, active, papers, duty>>
  BY <1>3, <1>4 DEF Accounts!Opens, Accounts!PatchRead
<1>6. calls'[r] = q /\ q # Accounts!Idle
  BY <1>1, <1>4, <1>5, BecomesTyped, IdleFacts DEF StaffHandler
<1>7. q.step = step /\ q.user = u /\ q.role = as
  BY <1>4 DEF Accounts!Asks
<1>8. Accounts!Counted(r)' => role[u] # "PRINCIPAL"
  BY <1>3, <1>6, <1>7 DEF Accounts!Counted, Accounts!At
<1>9. Accounts!RightAboutPrincipals(r)'
  BY <1>5, <1>6, <1>7, <1>8 DEF Accounts!RightAboutPrincipals, Accounts!Principals
<1>10. Right(r)'
  BY <1>9, <1>6, <1>7, <1>3 DEF Right, Accounts!RightAboutPapers, Accounts!Shape, Accounts!At
<1> QED BY <1>1, <1>4, <1>5, <1>10, StepKeepsInv DEF Accounts!TypeOK, StaffHandler

\* The two checks for another principal.
LEMMA PrincipalCheckKeeps ==
    ASSUME Accounts!IInv, NEW r \in Requests, NEW from \in {"count", "others"}, Accounts!At(r, from),
           NEW step \in {"update", "load"}, Accounts!Principals \ {calls[r].user} # {},
           UNCHANGED <<role, active, papers, duty>>,
           Accounts!Becomes(r, [calls[r] EXCEPT !.step = step])
    PROVE  Accounts!IInv'
<1>1. Accounts!TypeOK
  BY DEF Accounts!IInv
<1>2. calls[r] \in Accounts!Handler
  BY <1>1, AtTyped DEF Accounts!Steps
<1>3. PICK q \in Accounts!Handler : q = [calls[r] EXCEPT !.step = step]
  BY <1>2 DEF Accounts!Handler, Accounts!Steps
<1>4. calls'[r] = q /\ q # Accounts!Idle
  BY <1>1, <1>3, BecomesTyped, IdleFacts DEF StaffHandler
<1>5. q.step = step /\ q.user = calls[r].user
  BY <1>2, <1>3 DEF Accounts!Handler
<1>6. Accounts!Principals' # {calls'[r].user}
  BY <1>4, <1>5 DEF Accounts!Principals
<1>7. Right(r)'
  BY <1>4, <1>5, <1>6
     DEF Right, Accounts!RightAboutPrincipals, Accounts!RightAboutPapers, Accounts!Shape,
         Accounts!At
<1> QED BY <1>1, <1>3, <1>7, StepKeepsInv DEF Accounts!TypeOK, StaffHandler

LEMMA PatchUpdateKeeps ==
    ASSUME Accounts!IInv, NEW r \in Requests, Accounts!PatchUpdate(r) PROVE Accounts!IInv'
<1>1. Accounts!TypeOK
  BY DEF Accounts!IInv
<1>2. calls[r] \in Accounts!Handler
  BY <1>1, AtTyped DEF Accounts!PatchUpdate, Accounts!Steps
<1>3. /\ role' \in [Users -> Accounts!Roles \cup {NoUser, Gone}] /\ active' \subseteq Users
      /\ papers' = papers /\ duty' = duty
  BY <1>1, <1>2 DEF Accounts!PatchUpdate, Accounts!TypeOK, Accounts!Handler
<1>4. CASE Accounts!Becomes(r, Accounts!Idle)
  BY <1>1, <1>3, <1>4, StepKeepsInv DEF Accounts!TypeOK, StaffHandler
<1>5. ASSUME NEW ps \in SUBSET Papers,
             Accounts!Becomes(r, [calls[r] EXCEPT !.step = "clear", !.set = ps])
      PROVE  Accounts!IInv'
  <2>1. PICK q \in Accounts!Handler : q = [calls[r] EXCEPT !.step = "clear", !.set = ps]
    BY <1>2 DEF Accounts!Handler, Accounts!Steps
  <2>2. calls'[r] = q /\ q # Accounts!Idle
    BY <1>1, <1>5, <2>1, BecomesTyped, IdleFacts DEF StaffHandler
  <2>3. q.step = "clear"
    BY <1>2, <2>1 DEF Accounts!Handler
  <2>4. Right(r)'
    BY <2>2, <2>3
       DEF Right, Accounts!RightAboutPrincipals, Accounts!RightAboutPapers, Accounts!Shape,
           Accounts!Counted, Accounts!At
  <2> QED BY <1>1, <1>3, <1>5, <2>1, <2>4, StepKeepsInv DEF Accounts!TypeOK, StaffHandler
<1> QED BY <1>4, <1>5 DEF Accounts!PatchUpdate

LEMMA PatchClearKeeps ==
    ASSUME Accounts!IInv, NEW r \in Requests, Accounts!PatchClear(r) PROVE Accounts!IInv'
<1>1. Accounts!TypeOK
  BY DEF Accounts!IInv
<1>2. calls[r] \in Accounts!Handler
  BY <1>1, AtTyped DEF Accounts!PatchClear, Accounts!Steps
<1>3. /\ papers' \in [Users -> SUBSET Papers]
      /\ role' = role /\ active' = active /\ duty' = duty
  BY <1>1, <1>2 DEF Accounts!PatchClear, Accounts!TypeOK
<1>4. PICK q \in StaffHandler : q = IF calls[r].set = {} THEN Accounts!Idle ELSE [calls[r] EXCEPT !.step = "fill"]
  BY <1>2 DEF StaffHandler, Accounts!Handler, Accounts!Steps
<1>5. Accounts!Becomes(r, q)
  BY <1>4 DEF Accounts!PatchClear
<1>6. q = Accounts!Idle \/ (q.step = "fill" /\ q # Accounts!Idle)
  <2>1. [calls[r] EXCEPT !.step = "fill"].step = "fill"
    BY <1>2 DEF Accounts!Handler
  <2> QED BY <1>4, <2>1, IdleFacts
<1>7. q = Accounts!Idle \/ Right(r)'
  BY <1>1, <1>5, <1>6, BecomesTyped
     DEF Right, Accounts!RightAboutPrincipals, Accounts!RightAboutPapers, Accounts!Shape, Accounts!Counted, Accounts!At
<1> QED BY <1>1, <1>3, <1>5, <1>7, StepKeepsInv DEF Accounts!TypeOK

LEMMA DeleteReadKeeps ==
    ASSUME Accounts!IInv, NEW r \in Requests, NEW u \in Users, Accounts!DeleteRead(r, u) PROVE Accounts!IInv'
<1>1. Accounts!TypeOK
  BY DEF Accounts!IInv
<1>2. PICK step \in {"others", "load"} :
        /\ step = IF role[u] = "PRINCIPAL" THEN "others" ELSE "load"
        /\ Accounts!Opens(r, Accounts!Asks(step, u))
  BY DEF Accounts!DeleteRead
<1>3. PICK q \in Accounts!Handler : q = Accounts!Asks(step, u)
  BY AsksTyped DEF Accounts!Steps
<1>4. Accounts!Becomes(r, q) /\ UNCHANGED <<role, active, papers, duty>>
  BY <1>2, <1>3 DEF Accounts!Opens, Accounts!DeleteRead
<1>5. calls'[r] = q /\ q # Accounts!Idle
  BY <1>1, <1>3, <1>4, BecomesTyped, IdleFacts DEF StaffHandler
<1>6. q.step = step /\ q.user = u
  BY <1>3 DEF Accounts!Asks
<1>7. Accounts!RightAboutPrincipals(r)'
  BY <1>2, <1>4, <1>5, <1>6
     DEF Accounts!RightAboutPrincipals, Accounts!Counted, Accounts!At, Accounts!Principals
<1>8. Right(r)'
  BY <1>5, <1>6, <1>7 DEF Right, Accounts!RightAboutPapers, Accounts!Shape, Accounts!At
<1> QED BY <1>1, <1>3, <1>4, <1>8, StepKeepsInv DEF Accounts!TypeOK, StaffHandler

LEMMA DeleteLoadKeeps ==
    ASSUME Accounts!IInv, NEW r \in Requests, Accounts!DeleteLoad(r) PROVE Accounts!IInv'
<1>1. Accounts!TypeOK /\ Accounts!RightAboutPrincipals(r)
  BY DEF Accounts!IInv
<1>2. calls[r] \in Accounts!Handler /\ calls[r] # Accounts!Idle
  BY <1>1, AtTyped DEF Accounts!DeleteLoad, Accounts!Steps
<1>3. PICK q \in Accounts!Handler : q = [calls[r] EXCEPT !.step = "erase"]
  BY <1>2 DEF Accounts!Handler, Accounts!Steps
<1>4. Accounts!Becomes(r, q) /\ UNCHANGED <<role, active, papers, duty>>
  BY <1>3 DEF Accounts!DeleteLoad
<1>5. calls'[r] = q /\ q # Accounts!Idle /\ behind'[r] = behind[r]
  BY <1>1, <1>3, <1>4, BecomesTyped, IdleFacts DEF StaffHandler
<1>6. q.step = "erase" /\ q.user = calls[r].user
  BY <1>2, <1>3 DEF Accounts!Handler
<1>7. Accounts!RightAboutPrincipals(r)'
  <2>1. Accounts!Counted(r)
    BY DEF Accounts!Counted, Accounts!DeleteLoad
  <2>2. "principals" \notin behind[r] => Accounts!Principals # {calls[r].user}
    BY <1>1, <2>1 DEF Accounts!RightAboutPrincipals
  <2>3. Accounts!Principals' = Accounts!Principals
    BY <1>4 DEF Accounts!Principals
  <2> QED BY <2>2, <2>3, <1>5, <1>6 DEF Accounts!RightAboutPrincipals
<1>8. Accounts!RightAboutPapers(r)'
  BY <1>4, <1>5, <1>6 DEF Accounts!RightAboutPapers, Accounts!At, Accounts!DeleteLoad
<1>9. Right(r)'
  BY <1>5, <1>6, <1>7, <1>8 DEF Right, Accounts!Shape, Accounts!At
<1> QED BY <1>1, <1>3, <1>4, <1>9, StepKeepsInv DEF Accounts!TypeOK, StaffHandler

LEMMA DeleteEraseKeeps ==
    ASSUME Accounts!IInv, NEW r \in Requests, Accounts!DeleteErase(r) PROVE Accounts!IInv'
<1>1. Accounts!TypeOK
  BY DEF Accounts!IInv
<1>2. calls[r] \in Accounts!Handler
  BY <1>1, AtTyped DEF Accounts!DeleteErase, Accounts!Steps
<1>3. /\ role' \in [Users -> Accounts!Roles \cup {NoUser, Gone}] /\ active' \subseteq Users
      /\ papers' \in [Users -> SUBSET Papers] /\ duty' \in Users \cup {None}
  BY <1>1, <1>2 DEF Accounts!DeleteErase, Accounts!TypeOK
<1>4. Accounts!Becomes(r, Accounts!Idle)
  BY DEF Accounts!DeleteErase
<1> QED BY <1>3, <1>4, StepKeepsInv DEF StaffHandler

LEMMA ClearReadKeeps ==
    ASSUME Accounts!IInv, NEW r \in Requests, NEW u \in Users, Accounts!ClearRead(r, u) PROVE Accounts!IInv'
<1>1. Accounts!TypeOK
  BY DEF Accounts!IInv
<1>2. PICK q \in Accounts!Handler : q = Accounts!Asks("wipe", u)
  BY AsksTyped DEF Accounts!Steps
<1>3. Accounts!Becomes(r, q) /\ UNCHANGED <<role, active, papers, duty>>
  BY <1>2 DEF Accounts!Opens, Accounts!ClearRead
<1>4. calls'[r] = q /\ q # Accounts!Idle /\ q.step = "wipe"
  BY <1>1, <1>2, <1>3, BecomesTyped, IdleFacts DEF StaffHandler, Accounts!Asks
<1>5. Right(r)'
  BY <1>4
     DEF Right, Accounts!RightAboutPrincipals, Accounts!RightAboutPapers, Accounts!Shape,
         Accounts!Counted, Accounts!At
<1> QED BY <1>1, <1>2, <1>3, <1>5, StepKeepsInv DEF Accounts!TypeOK, StaffHandler

LEMMA ClearWipeKeeps ==
    ASSUME Accounts!IInv, NEW r \in Requests, Accounts!ClearWipe(r) PROVE Accounts!IInv'
<1>1. Accounts!TypeOK
  BY DEF Accounts!IInv
<1>2. calls[r] \in Accounts!Handler
  BY <1>1, AtTyped DEF Accounts!ClearWipe, Accounts!Steps
<1>3. /\ role' = role /\ active' = active
      /\ papers' \in [Users -> SUBSET Papers] /\ duty' \in Users \cup {None}
  BY <1>1, <1>2 DEF Accounts!ClearWipe, Accounts!TypeOK
<1>4. Accounts!Becomes(r, Accounts!Idle)
  BY DEF Accounts!ClearWipe
<1> QED BY <1>1, <1>3, <1>4, StepKeepsInv DEF StaffHandler, Accounts!TypeOK

LEMMA TransferReadKeeps ==
    ASSUME Accounts!IInv, NEW r \in Requests, NEW u \in Users, Accounts!TransferRead(r, u) PROVE Accounts!IInv'
<1>1. Accounts!TypeOK
  BY DEF Accounts!IInv
<1>2. PICK v \in active \ {u}, include \in BOOLEAN :
        Accounts!Opens(r, [Accounts!Asks("list", u) EXCEPT !.to = v, !.set = papers[u],
                                         !.dutyToo = include /\ role[v] = "TEACHER"])
  BY DEF Accounts!TransferRead
<1>3. v \in Users \ {u} /\ papers[u] \in SUBSET Papers
  BY <1>1, <1>2 DEF Accounts!TypeOK
<1>4. PICK b \in BOOLEAN : b = (include /\ role[v] = "TEACHER")
  BY <1>2
<1>5. PICK q \in Accounts!Handler : q = [Accounts!Asks("list", u) EXCEPT !.to = v, !.set = papers[u], !.dutyToo = b]
  BY <1>3, <1>4, AsksTyped DEF Accounts!Steps
<1>6. Accounts!Becomes(r, q) /\ UNCHANGED <<role, active, papers, duty>>
  BY <1>2, <1>4, <1>5 DEF Accounts!Opens, Accounts!TransferRead
<1>7. calls'[r] = q /\ q # Accounts!Idle
  BY <1>1, <1>5, <1>6, BecomesTyped, IdleFacts DEF StaffHandler
<1>8. q.step = "list" /\ q.user = u /\ q.to = v /\ q.set = papers[u]
  BY <1>5 DEF Accounts!Asks
<1>9. Right(r)'
  BY <1>3, <1>6, <1>7, <1>8
     DEF Right, Accounts!RightAboutPrincipals, Accounts!RightAboutPapers, Accounts!Shape, Accounts!Counted, Accounts!At
<1> QED BY <1>1, <1>5, <1>6, <1>9, StepKeepsInv DEF Accounts!TypeOK, StaffHandler

LEMMA TransferListKeeps ==
    ASSUME Accounts!IInv, NEW r \in Requests, Accounts!TransferList(r) PROVE Accounts!IInv'
<1>1. Accounts!TypeOK /\ Accounts!RightAboutPapers(r) /\ Accounts!Shape(r)
  BY DEF Accounts!IInv
<1>2. calls[r] \in Accounts!Handler /\ calls[r] # Accounts!Idle
  BY <1>1, AtTyped DEF Accounts!TransferList, Accounts!Steps
<1>3. calls[r].to \in Users \ {calls[r].user}
  BY <1>1 DEF Accounts!Shape, Accounts!TransferList
<1>4. PICK q \in Accounts!Handler : q = [calls[r] EXCEPT !.step = "move", !.has = papers[calls[r].to]]
  BY <1>1, <1>2, <1>3 DEF Accounts!Handler, Accounts!Steps, Accounts!TypeOK
<1>5. Accounts!Becomes(r, q) /\ UNCHANGED <<role, active, papers, duty>>
  BY <1>4 DEF Accounts!TransferList
<1>6. calls'[r] = q /\ q # Accounts!Idle /\ behind'[r] = behind[r]
  BY <1>1, <1>4, <1>5, BecomesTyped, IdleFacts DEF StaffHandler
<1>7. /\ q.step = "move" /\ q.user = calls[r].user /\ q.to = calls[r].to
      /\ q.set = calls[r].set /\ q.has = papers[calls[r].to]
  BY <1>2, <1>4 DEF Accounts!Handler
<1>8. Accounts!RightAboutPapers(r)'
  BY <1>1, <1>5, <1>6, <1>7 DEF Accounts!RightAboutPapers, Accounts!At, Accounts!TransferList
<1>9. Right(r)'
  BY <1>3, <1>6, <1>7, <1>8
     DEF Right, Accounts!RightAboutPrincipals, Accounts!Shape, Accounts!Counted, Accounts!At
<1> QED BY <1>1, <1>4, <1>5, <1>9, StepKeepsInv DEF Accounts!TypeOK, StaffHandler

LEMMA TransferMoveKeeps ==
    ASSUME Accounts!IInv, NEW r \in Requests, Accounts!TransferMove(r) PROVE Accounts!IInv'
<1>1. Accounts!TypeOK /\ Accounts!Shape(r)
  BY DEF Accounts!IInv
<1>2. calls[r] \in Accounts!Handler
  BY <1>1, AtTyped DEF Accounts!TransferMove, Accounts!Steps
<1>3. calls[r].to \in Users
  BY <1>1 DEF Accounts!Shape, Accounts!TransferMove
<1>4. /\ role' = role /\ active' = active
      /\ papers' \in [Users -> SUBSET Papers] /\ duty' \in Users \cup {None}
  BY <1>1, <1>2, <1>3 DEF Accounts!TransferMove, Accounts!TypeOK, Accounts!Handler
<1>5. Accounts!Becomes(r, Accounts!Idle)
  BY DEF Accounts!TransferMove
<1> QED BY <1>1, <1>4, <1>5, StepKeepsInv DEF StaffHandler, Accounts!TypeOK

LEMMA NextKeeps ==
    ASSUME Accounts!IInv, Accounts!Next PROVE Accounts!IInv'
<1>1. PICK r \in Requests : Accounts!Handle(r)
  BY DEF Accounts!Next
<1>2. ASSUME NEW u \in Users,
             \/ Accounts!Create(r, u) \/ Accounts!PatchRead(r, u) \/ Accounts!DeleteRead(r, u)
             \/ Accounts!ClearRead(r, u) \/ Accounts!TransferRead(r, u)
      PROVE  Accounts!IInv'
  BY <1>2, StaffCreateKeeps, PatchReadKeeps, DeleteReadKeeps, ClearReadKeeps, TransferReadKeeps
<1>3. CASE Accounts!CreateAssign(r)
  BY <1>3, AssignKeeps DEF Accounts!CreateAssign
<1>4. CASE Accounts!PatchCount(r)
  BY <1>4, PrincipalCheckKeeps DEF Accounts!PatchCount
<1>5. CASE Accounts!PatchUpdate(r)
  BY <1>5, PatchUpdateKeeps
<1>6. CASE Accounts!PatchClear(r)
  BY <1>6, PatchClearKeeps
<1>7. CASE Accounts!PatchFill(r)
  BY <1>7, AssignKeeps DEF Accounts!PatchFill
<1>8. CASE Accounts!DeleteOthers(r)
  BY <1>8, PrincipalCheckKeeps DEF Accounts!DeleteOthers
<1>9. CASE Accounts!DeleteLoad(r)
  BY <1>9, DeleteLoadKeeps
<1>10. CASE Accounts!DeleteErase(r)
  BY <1>10, DeleteEraseKeeps
<1>11. CASE Accounts!ClearWipe(r)
  BY <1>11, ClearWipeKeeps
<1>12. CASE Accounts!TransferList(r)
  BY <1>12, TransferListKeeps
<1>13. CASE Accounts!TransferMove(r)
  BY <1>13, TransferMoveKeeps
<1>14. CASE Accounts!RequestFails(r)
  BY <1>14, StaffFailsKeeps
<1> QED BY <1>1, <1>2, <1>3, <1>4, <1>5, <1>6, <1>7, <1>8, <1>9, <1>10, <1>11, <1>12, <1>13,
           <1>14 DEF Accounts!Handle

\* Whatever the handlers interleave, a handler that is not behind is right about the
\* principals and the papers it has read.
THEOREM StaffInvariance == Accounts!Spec => []Accounts!IInv
<1>1. Accounts!Init => Accounts!IInv
  <2>1. Accounts!Init => Accounts!TypeOK
    BY DEF Accounts!Init, Accounts!TypeOK, Accounts!Exists
  <2>2. Accounts!Init => \A r \in Requests : Right(r)
    BY IdleFacts
       DEF Accounts!Init, Right, Accounts!RightAboutPrincipals, Accounts!RightAboutPapers,
           Accounts!Shape, Accounts!Counted, Accounts!At
  <2> QED BY <2>1, <2>2 DEF Accounts!IInv, Right
<1>2. Accounts!IInv /\ [Accounts!Next]_(Accounts!vars) => Accounts!IInv'
  <2>1. ASSUME Accounts!IInv, UNCHANGED Accounts!vars PROVE Accounts!IInv'
    <3>1. UNCHANGED <<role, active, papers, duty, calls, behind>>
      BY <2>1 DEF Accounts!vars
    <3>2. Accounts!TypeOK'
      BY <2>1, <3>1 DEF Accounts!IInv, Accounts!TypeOK
    <3>3. ASSUME NEW r \in Requests PROVE Right(r)'
      BY <2>1, <3>1
         DEF Accounts!IInv, Right, Accounts!RightAboutPrincipals, Accounts!RightAboutPapers,
             Accounts!Shape, Accounts!Counted, Accounts!At,
                        Accounts!Principals
    <3> QED BY <3>2, <3>3 DEF Accounts!IInv, Right
  <2> QED BY <2>1, NextKeeps
<1> QED BY <1>1, <1>2, PTL DEF Accounts!Spec

-----------------------------------------------------------------------------
(***************************************************************************)
(* The last principal.                                                     *)
(***************************************************************************)
\* The steps that can end the office of a principal.
LEMMA PrincipalsLeave ==
    ASSUME Accounts!TypeOK, NEW r \in Requests, Accounts!Handle(r), NEW p \in Accounts!Principals, p \notin Accounts!Principals'
    PROVE  calls[r].user = p /\ (Accounts!PatchUpdate(r) \/ Accounts!DeleteErase(r))
<1>1. p \in active /\ p \in Users /\ role[p] = "PRINCIPAL"
  BY DEF Accounts!Principals, Accounts!TypeOK
<1>2. ASSUME role' = role, active' = active PROVE FALSE
  BY <1>2 DEF Accounts!Principals
<1>3. ASSUME NEW u \in Users, Accounts!Create(r, u) PROVE FALSE
  <2>1. u # p
    BY <1>1, <1>3, OfficeMarkers DEF Accounts!Create, Accounts!Roles
  <2>2. role'[p] = "PRINCIPAL" /\ p \in active'
    BY <1>1, <1>3, <2>1 DEF Accounts!Create, Accounts!TypeOK
  <2> QED BY <2>2, <1>1 DEF Accounts!Principals
<1>4. CASE Accounts!PatchUpdate(r)
  <2>1. calls[r].user = p
    <3>1. SUFFICES ASSUME calls[r].user # p PROVE FALSE
      OBVIOUS
    <3>2. role'[p] = "PRINCIPAL" /\ p \in active'
      BY <1>1, <1>4, <3>1 DEF Accounts!PatchUpdate, Accounts!TypeOK
    <3> QED BY <3>2, <1>1 DEF Accounts!Principals
  <2> QED BY <1>4, <2>1
<1>5. CASE Accounts!DeleteErase(r)
  <2>1. calls[r].user = p
    <3>1. SUFFICES ASSUME calls[r].user # p PROVE FALSE
      OBVIOUS
    <3>2. role'[p] = "PRINCIPAL" /\ p \in active'
      BY <1>1, <1>5, <3>1 DEF Accounts!DeleteErase, Accounts!TypeOK
    <3> QED BY <3>2, <1>1 DEF Accounts!Principals
  <2> QED BY <1>5, <2>1
<1> QED BY <1>2, <1>3, <1>4, <1>5
        DEF Accounts!Handle, Accounts!PatchRead, Accounts!DeleteRead, Accounts!ClearRead, Accounts!TransferRead, Accounts!CreateAssign, Accounts!Assign,
            Accounts!PatchCount, Accounts!PatchClear, Accounts!PatchFill, Accounts!DeleteOthers, Accounts!DeleteLoad, Accounts!ClearWipe, Accounts!TransferList,
            Accounts!TransferMove, Accounts!RequestFails

LEMMA LastPrincipalStep ==
    ASSUME Accounts!IInv, Accounts!Next, Accounts!Principals # {}, Accounts!Principals' = {}
    PROVE  \E r \in Requests :
            /\ calls[r] # Accounts!Idle
            /\ \/ "principals" \in behind[r]
               \/ Accounts!At(r, "update") /\ \E u \in Accounts!Principals : u \notin active'
<1>1. Accounts!TypeOK
  BY DEF Accounts!IInv
<1>2. PICK r \in Requests : Accounts!Handle(r)
  BY DEF Accounts!Next
<1>3. PICK p \in Accounts!Principals : TRUE
  OBVIOUS
<1>4. \A u \in Accounts!Principals : calls[r].user = u /\ (Accounts!PatchUpdate(r) \/ Accounts!DeleteErase(r))
  BY <1>1, <1>2, PrincipalsLeave
<1>5. Accounts!Principals = {p} /\ calls[r].user = p /\ p \in active /\ p \in Users /\ role[p] = "PRINCIPAL"
  BY <1>1, <1>3, <1>4 DEF Accounts!Principals, Accounts!TypeOK
<1>6. calls[r] # Accounts!Idle /\ calls[r] \in Accounts!Handler
  BY <1>1, <1>4, <1>3, AtTyped DEF Accounts!PatchUpdate, Accounts!DeleteErase, Accounts!Steps
<1>7. SUFFICES ASSUME "principals" \notin behind[r]
               PROVE  Accounts!At(r, "update") /\ p \notin active'
  BY <1>3, <1>6
<1>8. ~Accounts!Counted(r)
  BY <1>5, <1>7 DEF Accounts!IInv, Accounts!RightAboutPrincipals
<1>9. Accounts!PatchUpdate(r)
  BY <1>3, <1>4, <1>8 DEF Accounts!Counted, Accounts!DeleteErase
<1>10. Accounts!At(r, "update") /\ calls[r].role \in {None, "PRINCIPAL"}
  BY <1>8, <1>9 DEF Accounts!Counted, Accounts!PatchUpdate
<1>11. role'[p] = "PRINCIPAL"
  BY <1>1, <1>5, <1>9, <1>10 DEF Accounts!PatchUpdate, Accounts!TypeOK
<1>12. p \notin active'
  BY <1>11 DEF Accounts!Principals
<1> QED BY <1>10, <1>12

\* The last active principal is lost only to a change of status or to a handler that looked
\* before somebody else became or ceased to be a principal: the guards of PATCH and DELETE
\* are enough for every role change and deletion that runs alone.
THEOREM PrincipalStays == Accounts!Spec => LastPrincipalStays
<1>1. Accounts!IInv /\ [Accounts!Next]_(Accounts!vars)
      => [Accounts!Principals # {} /\ Accounts!Principals' = {} =>
            \E r \in Requests :
               /\ calls[r] # Accounts!Idle
               /\ \/ "principals" \in behind[r]
                  \/ Accounts!At(r, "update") /\ \E u \in Accounts!Principals : u \notin active']_(Accounts!vars)
  BY LastPrincipalStep
<1> QED BY <1>1, StaffInvariance, PTL
   DEF Accounts!Spec, LastPrincipalStays, Accounts!LastPrincipalStays

-----------------------------------------------------------------------------
(***************************************************************************)
(* The last teacher of a paper.                                            *)
(***************************************************************************)
LEMMA PapersStep ==
    ASSUME Accounts!IInv, NEW r \in Requests, Accounts!Handle(r), "papers" \notin behind[r],
           ~Accounts!At(r, "clear"), ~Accounts!At(r, "wipe"),
           NEW p \in Papers, Accounts!Taught(p)
    PROVE  Accounts!Taught(p)'
<1>1. Accounts!TypeOK /\ Accounts!RightAboutPapers(r) /\ Accounts!Shape(r)
  BY DEF Accounts!IInv
<1>2. PICK u \in Users : p \in papers[u]
  BY DEF Accounts!Taught
<1>3. ASSUME papers' = papers PROVE Accounts!Taught(p)'
  BY <1>3 DEF Accounts!Taught
<1>4. ASSUME NEW step \in {"assign", "fill"}, Accounts!Assign(r, step) PROVE Accounts!Taught(p)'
  <2>1. p \in papers'[u]
    BY <1>1, <1>2, <1>4 DEF Accounts!Assign, Accounts!TypeOK
  <2> QED BY <2>1 DEF Accounts!Taught
<1>5. CASE Accounts!DeleteErase(r)
  <2>1. papers[calls[r].user] = {}
    BY <1>1, <1>5 DEF Accounts!RightAboutPapers, Accounts!DeleteErase
  <2>2. p \in papers'[u]
    BY <1>1, <1>2, <1>5, <2>1 DEF Accounts!DeleteErase, Accounts!TypeOK
  <2> QED BY <2>2 DEF Accounts!Taught
<1>6. CASE Accounts!TransferMove(r)
  <2>1. /\ papers[calls[r].user] = calls[r].set /\ papers[calls[r].to] = calls[r].has
        /\ calls[r].to \in Users \ {calls[r].user}
    BY <1>1, <1>6 DEF Accounts!RightAboutPapers, Accounts!Shape, Accounts!TransferMove
  <2>2. papers'[calls[r].to] = papers[calls[r].to] \cup (calls[r].set \ calls[r].has)
    BY <1>1, <1>6, <2>1 DEF Accounts!TransferMove, Accounts!TypeOK
  <2>3. CASE u \in {calls[r].user, calls[r].to}
    <3>1. p \in papers'[calls[r].to]
      BY <1>2, <2>1, <2>2, <2>3
    <3> QED BY <3>1, <2>1 DEF Accounts!Taught
  <2>4. CASE u \notin {calls[r].user, calls[r].to}
    <3>1. p \in papers'[u]
      BY <1>1, <1>2, <1>6, <2>4 DEF Accounts!TransferMove, Accounts!TypeOK
    <3> QED BY <3>1 DEF Accounts!Taught
  <2> QED BY <2>3, <2>4
<1> QED BY <1>3, <1>4, <1>5, <1>6
        DEF Accounts!Handle, Accounts!Create, Accounts!PatchRead, Accounts!DeleteRead, Accounts!ClearRead, Accounts!TransferRead, Accounts!CreateAssign,
            Accounts!PatchCount, Accounts!PatchUpdate, Accounts!PatchClear, Accounts!PatchFill, Accounts!DeleteOthers, Accounts!DeleteLoad, Accounts!ClearWipe,
            Accounts!TransferList, Accounts!RequestFails

LEMMA PapersNext ==
    ASSUME Accounts!IInv, Accounts!Next, NEW p \in Papers, Accounts!Taught(p), ~Accounts!Taught(p)'
    PROVE  \E r \in Requests : \/ Accounts!At(r, "clear") \/ Accounts!At(r, "wipe")
                               \/ calls[r] # Accounts!Idle /\ "papers" \in behind[r]
<1>1. PICK r \in Requests : Accounts!Handle(r)
  BY DEF Accounts!Next
<1>2. SUFFICES ASSUME "papers" \in behind[r] PROVE calls[r] # Accounts!Idle
  BY <1>1, PapersStep
<1> QED BY <1>2 DEF Accounts!IInv, Accounts!Shape

\* A paper loses its last teacher only where its assignments are replaced or cleared, or to
\* a deletion or transfer that looked before somebody else changed who teaches what: run
\* alone, a transfer hands every paper over and a deletion takes none along.
THEOREM HandedOver == Accounts!Spec => PapersHandedOver
<1>1. Accounts!IInv /\ [Accounts!Next]_(Accounts!vars)
      => [\A p \in Papers : Accounts!Taught(p) /\ ~Accounts!Taught(p)' =>
            \E r \in Requests : \/ Accounts!At(r, "clear") \/ Accounts!At(r, "wipe")
                                \/ calls[r] # Accounts!Idle /\ "papers" \in behind[r]]_(Accounts!vars)
  BY PapersNext
<1> QED BY <1>1, StaffInvariance, PTL
   DEF Accounts!Spec, PapersHandedOver, Accounts!PapersHandedOver

-----------------------------------------------------------------------------
(***************************************************************************)
(* The photos.  A name is given to a file once, and comes to one row or    *)
(* handler only: so the file that a row names is removed by the handlers   *)
(* that are about to change that row, and by no other.                     *)
(***************************************************************************)
PhotoHandler == Albums!Handler \cup {Albums!Idle}

\* What a step keeps of the photos.
PhotosSafe ==
    \A s \in Pupils : Albums!Stands(s) /\ ~Albums!Stands(s)' =>
        \E r \in Requests : Albums!RequestFails(r) /\ Albums!Replacing(r, s)

LEMMA PhotoIdle == Albums!Idle.step = "idle" /\ \A q \in Albums!Handler : q # Albums!Idle
BY DEF Albums!Idle, Albums!Handler

LEMMA PhotoBecomes ==
    ASSUME Albums!TypeOK, NEW r \in Requests, NEW q \in PhotoHandler, Albums!Becomes(r, q)
    PROVE  /\ uploads' \in [Requests -> PhotoHandler]
           /\ uploads'[r] = q
           /\ \A x \in Requests \ {r} : uploads'[x] = uploads[x]
BY DEF Albums!TypeOK, PhotoHandler, Albums!Becomes

LEMMA PhotoAt ==
    ASSUME Albums!TypeOK, NEW r \in Requests, NEW step \in {"read", "unlink", "put", "update", "copy"},
           Albums!At(r, step)
    PROVE  uploads[r] \in Albums!Handler /\ uploads[r] # Albums!Idle /\ uploads[r].step = step
<1>1. uploads[r] \in PhotoHandler
  BY DEF Albums!TypeOK, PhotoHandler
<1> QED BY <1>1, PhotoIdle DEF Albums!At, PhotoHandler

\* The steps that leave the files and the handlers alone, and give a row no name.
LEMMA ColumnsOnly ==
    ASSUME Albums!IInv, NEW t \in Pupils, NEW column \in {NoPhoto, Hollow, Gone},
           photo' = [photo EXCEPT ![t] = column], UNCHANGED <<files, uploads>>
    PROVE  Albums!IInv' /\ PhotosSafe
<1>1. column \notin Files /\ column \in Albums!Column \cup {Unused, Gone}
  BY OfficeMarkers DEF Albums!Column
<1>2. /\ photo' \in [Pupils -> Albums!Column \cup {Unused, Gone}] /\ photo'[t] \notin Files
      /\ \A s \in Pupils \ {t} : photo'[s] = photo[s]
  BY <1>1 DEF Albums!IInv, Albums!TypeOK
<1>3. Albums!TypeOK' /\ Albums!NamesGiven' /\ Albums!ToWrite'
  BY <1>2 DEF Albums!IInv, Albums!TypeOK, Albums!NamesGiven, Albums!ToWrite, Albums!At
<1>4. Albums!PendingIsOwn'
  BY <1>2 DEF Albums!IInv, Albums!PendingIsOwn, Albums!Pending, Albums!At
<1>5. Albums!OnePupilEach'
  BY <1>2 DEF Albums!IInv, Albums!OnePupilEach
<1>6. PhotosSafe
  BY <1>2 DEF PhotosSafe, Albums!Stands, Albums!Replacing, Albums!At
<1> QED BY <1>3, <1>4, <1>5, <1>6 DEF Albums!IInv

\* A handler that is at nothing, or reading, comes to hold what the row of its pupil names.
LEMMA HandlerReads ==
    ASSUME Albums!IInv, NEW r \in Requests, NEW q \in Albums!Handler, Albums!Becomes(r, q), UNCHANGED <<photo, files>>,
           uploads[r].step \in {"idle", "read"},
           q.step \in {"read", "copy", "unlink", "put", "update"},
           q.new \notin Files, q.step = "unlink" => q.old \in Files,
           q.old \in Files => q.old = photo[q.student]
    PROVE  Albums!IInv' /\ PhotosSafe
<1>1. /\ uploads' \in [Requests -> PhotoHandler] /\ uploads'[r] = q
      /\ \A x \in Requests \ {r} : uploads'[x] = uploads[x]
  BY PhotoBecomes DEF Albums!IInv, PhotoHandler
<1>2. q.student \in Pupils
  BY DEF Albums!Handler
<1>3. Albums!TypeOK' /\ Albums!ToWrite'
  BY <1>1 DEF Albums!IInv, Albums!TypeOK, Albums!ToWrite, Albums!At, PhotoHandler
<1>4. Albums!NamesGiven'
  BY <1>1, <1>2 DEF Albums!IInv, Albums!NamesGiven
<1>5. Albums!PendingIsOwn'
  <2> SUFFICES ASSUME NEW x \in Requests, Albums!Pending(x)'
               PROVE  /\ files[uploads'[x].new] = "stored"
                      /\ \A s \in Pupils : photo[s] # uploads'[x].new
                      /\ \A y \in Requests : y # x /\ Albums!Pending(y)' => uploads'[y].new # uploads'[x].new
                      /\ \A y \in Requests : uploads'[y] # Albums!Idle => uploads'[y].old # uploads'[x].new
    BY DEF Albums!PendingIsOwn
  <2>1. \A y \in Requests : Albums!Pending(y)' => y # r /\ Albums!Pending(y)
    BY <1>1 DEF Albums!Pending, Albums!At
  <2>2. x # r /\ Albums!Pending(x) /\ uploads'[x] = uploads[x] /\ uploads[x].new \in Files
    BY <1>1, <2>1 DEF Albums!Pending
  <2>3. /\ files[uploads[x].new] = "stored"
        /\ \A s \in Pupils : photo[s] # uploads[x].new
        /\ \A y \in Requests : y # x /\ Albums!Pending(y) => uploads[y].new # uploads[x].new
        /\ \A y \in Requests : uploads[y] # Albums!Idle => uploads[y].old # uploads[x].new
    BY <2>2 DEF Albums!IInv, Albums!PendingIsOwn
  <2>4. q.old # uploads[x].new
    BY <1>2, <2>2, <2>3
  <2> QED BY <1>1, <2>1, <2>2, <2>3, <2>4
<1>6. Albums!OnePupilEach'
  <2>1. \A s, t \in Pupils : photo[s] \in Files /\ photo[s] = photo[t] => s = t
    BY DEF Albums!IInv, Albums!OnePupilEach
  <2>2. ASSUME NEW x \in Requests, NEW s \in Pupils,
               uploads'[x] # Albums!Idle, uploads'[x].old \in Files, uploads'[x].old = photo[s]
        PROVE  uploads'[x].student = s
    BY <1>1, <1>2, <2>1, <2>2 DEF Albums!IInv, Albums!OnePupilEach
  <2> QED BY <2>1, <2>2 DEF Albums!OnePupilEach
<1>7. \A x \in Requests, s \in Pupils : Albums!Replacing(x, s) => x # r /\ Albums!Replacing(x, s)'
  BY <1>1 DEF Albums!Replacing, Albums!At
<1>8. PhotosSafe
  BY <1>7 DEF PhotosSafe, Albums!Stands
<1> QED BY <1>3, <1>4, <1>5, <1>6, <1>8 DEF Albums!IInv

\* A handler ends.
LEMMA HandlerEnds ==
    ASSUME Albums!IInv, NEW r \in Requests, Albums!Becomes(r, Albums!Idle), UNCHANGED files,
           UNCHANGED photo \/ (\E t \in Pupils : \E column \in {NoPhoto, Hollow} :
                                 photo' = [photo EXCEPT ![t] = column])
    PROVE  /\ Albums!IInv'
           /\ \A s \in Pupils : Albums!Stands(s) => Albums!Stands(s)' \/ Albums!Replacing(r, s)
<1>0. Albums!Idle \in PhotoHandler
  BY DEF PhotoHandler
<1>1. /\ uploads' \in [Requests -> PhotoHandler] /\ uploads'[r] = Albums!Idle
      /\ \A x \in Requests \ {r} : uploads'[x] = uploads[x]
  BY <1>0, PhotoBecomes DEF Albums!IInv
<1>2. /\ photo' \in [Pupils -> Albums!Column \cup {Unused, Gone}]
      /\ \A s \in Pupils : photo'[s] \in Files => photo'[s] = photo[s]
  BY OfficeMarkers DEF Albums!IInv, Albums!TypeOK, Albums!Column
<1>3. \A x \in Requests : uploads'[x] # Albums!Idle => x # r /\ uploads'[x] = uploads[x]
  BY <1>1
<1>4. \A x \in Requests : Albums!Pending(x)' => x # r /\ Albums!Pending(x)
  BY <1>1, PhotoIdle DEF Albums!Pending, Albums!At
<1>5. Albums!TypeOK' /\ Albums!ToWrite'
  BY <1>1, <1>2, PhotoIdle
     DEF Albums!IInv, Albums!TypeOK, Albums!ToWrite, Albums!At, PhotoHandler
<1>6. Albums!NamesGiven'
  BY <1>2, <1>3 DEF Albums!IInv, Albums!NamesGiven
<1>7. Albums!PendingIsOwn'
  <2> SUFFICES ASSUME NEW x \in Requests, Albums!Pending(x)'
               PROVE  /\ files[uploads'[x].new] = "stored"
                      /\ \A s \in Pupils : photo'[s] # uploads'[x].new
                      /\ \A y \in Requests : y # x /\ Albums!Pending(y)' => uploads'[y].new # uploads'[x].new
                      /\ \A y \in Requests : uploads'[y] # Albums!Idle => uploads'[y].old # uploads'[x].new
    BY DEF Albums!PendingIsOwn
  <2>1. Albums!Pending(x) /\ uploads'[x] = uploads[x] /\ uploads[x].new \in Files
    BY <1>1, <1>4 DEF Albums!Pending
  <2>2. /\ files[uploads[x].new] = "stored"
        /\ \A s \in Pupils : photo[s] # uploads[x].new
        /\ \A y \in Requests : y # x /\ Albums!Pending(y) => uploads[y].new # uploads[x].new
        /\ \A y \in Requests : uploads[y] # Albums!Idle => uploads[y].old # uploads[x].new
    BY <2>1 DEF Albums!IInv, Albums!PendingIsOwn
  <2> QED BY <1>1, <1>2, <1>3, <1>4, <2>1, <2>2
<1>8. Albums!OnePupilEach'
  BY <1>2, <1>3 DEF Albums!IInv, Albums!OnePupilEach
<1>9. ASSUME NEW s \in Pupils, Albums!Stands(s), ~Albums!Replacing(r, s) PROVE Albums!Stands(s)'
  <2>1. CASE photo'[s] \notin Files
    BY <2>1 DEF Albums!Stands
  <2>2. CASE photo'[s] \in Files
    BY <1>1, <1>2, <1>9, <2>2 DEF Albums!Stands, Albums!Replacing, Albums!At
  <2> QED BY <2>1, <2>2
<1> QED BY <1>5, <1>6, <1>7, <1>8, <1>9 DEF Albums!IInv

-----------------------------------------------------------------------------
LEMMA UnlinkKeeps ==
    ASSUME Albums!IInv, NEW r \in Requests, Albums!Unlink(r)
    PROVE  Albums!IInv' /\ PhotosSafe
<1>0. uploads[r] \in Albums!Handler /\ uploads[r] # Albums!Idle /\ uploads[r].step = "unlink" /\ UNCHANGED photo
  BY PhotoAt DEF Albums!IInv, Albums!Unlink
<1>1. PICK f \in Files : f = uploads[r].old /\ uploads[r].new \notin Files
  BY <1>0 DEF Albums!IInv, Albums!ToWrite, Albums!At
<1> DEFINE q == [uploads[r] EXCEPT !.step = IF uploads[r].todo = {} THEN "update" ELSE "put"]
<1>2. /\ q \in Albums!Handler /\ q.step \in {"update", "put"} /\ q.student = uploads[r].student
      /\ q.old = f /\ q.new = uploads[r].new
  BY <1>0, <1>1 DEF Albums!Handler
<1>3. Albums!Becomes(r, q) /\ files' \in {files, [files EXCEPT ![f] = "removed"]}
  BY <1>1 DEF Albums!Unlink
<1> HIDE DEF q
<1>4. /\ uploads' \in [Requests -> PhotoHandler] /\ uploads'[r] = q
      /\ \A x \in Requests \ {r} : uploads'[x] = uploads[x]
  BY <1>2, <1>3, PhotoBecomes DEF Albums!IInv, PhotoHandler
<1>5. /\ files' \in [Files -> {"new", "stored", "removed"}]
      /\ \A g \in Files \ {f} : files'[g] = files[g]
      /\ \A g \in Files : files'[g] = "new" => files[g] = "new"
  BY <1>3 DEF Albums!IInv, Albums!TypeOK
<1>6. Albums!TypeOK' /\ Albums!ToWrite'
  BY <1>0, <1>2, <1>4, <1>5
     DEF Albums!IInv, Albums!TypeOK, Albums!ToWrite, Albums!At, PhotoHandler
<1>7. Albums!NamesGiven'
  BY <1>0, <1>1, <1>2, <1>4, <1>5 DEF Albums!IInv, Albums!NamesGiven
<1>8. \A x \in Requests : Albums!Pending(x)' => x # r /\ Albums!Pending(x)
  BY <1>1, <1>2, <1>4 DEF Albums!Pending, Albums!At
<1>9. Albums!PendingIsOwn'
  <2> SUFFICES ASSUME NEW x \in Requests, Albums!Pending(x)'
               PROVE  /\ files'[uploads'[x].new] = "stored"
                      /\ \A s \in Pupils : photo'[s] # uploads'[x].new
                      /\ \A y \in Requests : y # x /\ Albums!Pending(y)' => uploads'[y].new # uploads'[x].new
                      /\ \A y \in Requests : uploads'[y] # Albums!Idle => uploads'[y].old # uploads'[x].new
    BY DEF Albums!PendingIsOwn
  <2>1. x # r /\ Albums!Pending(x) /\ uploads'[x] = uploads[x] /\ uploads[x].new \in Files
    BY <1>4, <1>8 DEF Albums!Pending
  <2>2. /\ files[uploads[x].new] = "stored"
        /\ \A s \in Pupils : photo[s] # uploads[x].new
        /\ \A y \in Requests : y # x /\ Albums!Pending(y) => uploads[y].new # uploads[x].new
        /\ \A y \in Requests : uploads[y] # Albums!Idle => uploads[y].old # uploads[x].new
    BY <2>1 DEF Albums!IInv, Albums!PendingIsOwn
  <2>3. uploads[x].new # f
    BY <1>0, <1>1, <2>2
  <2> QED BY <1>0, <1>1, <1>2, <1>4, <1>5, <1>8, <2>1, <2>2, <2>3
<1>10. Albums!OnePupilEach'
  BY <1>0, <1>1, <1>2, <1>4 DEF Albums!IInv, Albums!OnePupilEach
<1>11. ASSUME NEW s \in Pupils, Albums!Stands(s) PROVE Albums!Stands(s)'
  <2>1. CASE photo[s] = f
    <3>1. uploads[r].student = s
      BY <1>0, <1>1, <2>1 DEF Albums!IInv, Albums!OnePupilEach
    <3> QED BY <1>0, <1>2, <1>4, <2>1, <3>1 DEF Albums!Stands, Albums!Replacing, Albums!At
  <2>2. CASE photo[s] # f
    <3>1. \A x \in Requests : Albums!Replacing(x, s) => Albums!Replacing(x, s)'
      BY <1>0, <1>1, <1>2, <1>4 DEF Albums!Replacing, Albums!At
    <3> QED BY <1>0, <1>5, <1>11, <2>2, <3>1 DEF Albums!Stands
  <2> QED BY <2>1, <2>2
<1> QED BY <1>6, <1>7, <1>9, <1>10, <1>11 DEF Albums!IInv, PhotosSafe

LEMMA PutKeeps ==
    ASSUME Albums!IInv, NEW r \in Requests, Albums!Put(r)
    PROVE  Albums!IInv' /\ PhotosSafe
<1>0. uploads[r] \in Albums!Handler /\ uploads[r] # Albums!Idle /\ uploads[r].step = "put" /\ UNCHANGED photo
  BY PhotoAt DEF Albums!IInv, Albums!Put
<1>1. PICK f \in Files : /\ files[f] = "new"
                         /\ files' = [files EXCEPT ![f] = "stored"]
                         /\ Albums!Becomes(r, [uploads[r] EXCEPT !.step = "update", !.new = f])
  BY DEF Albums!Put, Albums!Named
<1> DEFINE q == [uploads[r] EXCEPT !.step = "update", !.new = f]
<1>2. /\ q \in Albums!Handler /\ q.step = "update" /\ q.student = uploads[r].student
      /\ q.old = uploads[r].old /\ q.new = f
  BY <1>0 DEF Albums!Handler, Albums!Column
<1>3. Albums!Becomes(r, q)
  BY <1>1
<1> HIDE DEF q
<1>4. /\ uploads' \in [Requests -> PhotoHandler] /\ uploads'[r] = q
      /\ \A x \in Requests \ {r} : uploads'[x] = uploads[x]
  BY <1>2, <1>3, PhotoBecomes DEF Albums!IInv, PhotoHandler
<1>5. /\ files' \in [Files -> {"new", "stored", "removed"}] /\ files'[f] = "stored"
      /\ \A g \in Files \ {f} : files'[g] = files[g]
  BY <1>1 DEF Albums!IInv, Albums!TypeOK
<1>6. Albums!TypeOK' /\ Albums!ToWrite'
  BY <1>0, <1>2, <1>4, <1>5
     DEF Albums!IInv, Albums!TypeOK, Albums!ToWrite, Albums!At, PhotoHandler
<1>7. /\ \A s \in Pupils : photo[s] # f
      /\ \A x \in Requests : uploads[x] # Albums!Idle => uploads[x].old # f /\ uploads[x].new # f
  BY <1>1 DEF Albums!IInv, Albums!NamesGiven
<1>8. Albums!NamesGiven'
  BY <1>0, <1>2, <1>4, <1>5 DEF Albums!IInv, Albums!NamesGiven
<1>9. Albums!PendingIsOwn'
  <2> SUFFICES ASSUME NEW x \in Requests, Albums!Pending(x)'
               PROVE  /\ files'[uploads'[x].new] = "stored"
                      /\ \A s \in Pupils : photo'[s] # uploads'[x].new
                      /\ \A y \in Requests : y # x /\ Albums!Pending(y)' => uploads'[y].new # uploads'[x].new
                      /\ \A y \in Requests : uploads'[y] # Albums!Idle => uploads'[y].old # uploads'[x].new
    BY DEF Albums!PendingIsOwn
  <2>0. \A y \in Requests \ {r} : Albums!Pending(y)' => Albums!Pending(y) /\ uploads[y] # Albums!Idle /\ uploads[y].new \in Files
    BY <1>4, PhotoIdle DEF Albums!Pending, Albums!At
  <2>1. CASE x = r
    BY <1>0, <1>2, <1>4, <1>5, <1>7, <2>0, <2>1
  <2>2. CASE x # r
    <3>1. Albums!Pending(x) /\ uploads'[x] = uploads[x] /\ uploads[x] # Albums!Idle /\ uploads[x].new \in Files
      BY <1>4, <2>0, <2>2
    <3>2. /\ files[uploads[x].new] = "stored"
          /\ \A s \in Pupils : photo[s] # uploads[x].new
          /\ \A y \in Requests : y # x /\ Albums!Pending(y) => uploads[y].new # uploads[x].new
          /\ \A y \in Requests : uploads[y] # Albums!Idle => uploads[y].old # uploads[x].new
      BY <3>1 DEF Albums!IInv, Albums!PendingIsOwn
    <3>3. uploads[x].new # f
      BY <1>7, <3>1
    <3> QED BY <1>0, <1>2, <1>4, <1>5, <2>0, <2>2, <3>1, <3>2, <3>3
  <2> QED BY <2>1, <2>2
<1>10. Albums!OnePupilEach'
  BY <1>0, <1>2, <1>4 DEF Albums!IInv, Albums!OnePupilEach
<1>11. ASSUME NEW s \in Pupils, Albums!Stands(s) PROVE Albums!Stands(s)'
  <2>1. \A x \in Requests : Albums!Replacing(x, s) => Albums!Replacing(x, s)'
    BY <1>0, <1>2, <1>4 DEF Albums!Replacing, Albums!At
  <2> QED BY <1>0, <1>5, <1>11, <2>1 DEF Albums!Stands
<1> QED BY <1>6, <1>8, <1>9, <1>10, <1>11 DEF Albums!IInv, PhotosSafe

LEMMA UpdateKeeps ==
    ASSUME Albums!IInv, NEW r \in Requests, Albums!Update(r)
    PROVE  Albums!IInv' /\ PhotosSafe
<1>0. uploads[r] \in Albums!Handler /\ uploads[r] # Albums!Idle /\ uploads[r].step = "update" /\ UNCHANGED files
  BY PhotoAt DEF Albums!IInv, Albums!Update
<1>1. PICK t \in Pupils : t = uploads[r].student
  BY <1>0 DEF Albums!Handler
<1>2. PICK n \in Albums!Column : n = uploads[r].new
  BY <1>0 DEF Albums!Handler
<1>3. /\ photo' = [photo EXCEPT ![t] = n]
      /\ \E q \in PhotoHandler : /\ Albums!Becomes(r, q) /\ q.step \in {"idle", "read"}
                                 /\ q # Albums!Idle => q.old = NoPhoto /\ q.new = NoPhoto
  <2>1. photo' = [photo EXCEPT ![t] = n]
    BY <1>1, <1>2 DEF Albums!Update
  <2>2. CASE Albums!Becomes(r, Albums!Idle)
    BY <2>1, <2>2, PhotoIdle DEF PhotoHandler
  <2>3. CASE \E s \in uploads[r].todo \ {t} :
               Albums!Becomes(r, [step |-> "read", todo |-> uploads[r].todo \ {t}, student |-> s,
                           old |-> NoPhoto, new |-> NoPhoto])
    <3>1. PICK s \in uploads[r].todo \ {t} :
               Albums!Becomes(r, [step |-> "read", todo |-> uploads[r].todo \ {t}, student |-> s,
                           old |-> NoPhoto, new |-> NoPhoto])
      BY <2>3
    <3> DEFINE q == [step |-> "read", todo |-> uploads[r].todo \ {t}, student |-> s,
                     old |-> NoPhoto, new |-> NoPhoto]
    <3>2. q \in Albums!Handler /\ q.step = "read" /\ q.old = NoPhoto /\ q.new = NoPhoto
      BY <1>0 DEF Albums!Handler, Albums!Column
    <3>3. q \in PhotoHandler /\ Albums!Becomes(r, q)
      BY <3>1, <3>2 DEF PhotoHandler
    <3> QED BY <2>1, <3>2, <3>3
  <2> QED BY <1>1, <2>1, <2>2, <2>3 DEF Albums!Update
<1>4. PICK q \in PhotoHandler : /\ Albums!Becomes(r, q) /\ q.step \in {"idle", "read"}
                                /\ q # Albums!Idle => q.old = NoPhoto /\ q.new = NoPhoto
  BY <1>3
<1>5. /\ uploads' \in [Requests -> PhotoHandler] /\ uploads'[r] = q
      /\ \A x \in Requests \ {r} : uploads'[x] = uploads[x]
  BY <1>4, PhotoBecomes DEF Albums!IInv
<1>6. /\ photo' \in [Pupils -> Albums!Column \cup {Unused, Gone}] /\ photo'[t] = n
      /\ \A s \in Pupils \ {t} : photo'[s] = photo[s]
  BY <1>3 DEF Albums!IInv, Albums!TypeOK
<1>7. n \in Files => /\ files[n] = "stored"
                     /\ \A s \in Pupils : photo[s] # n
                     /\ \A y \in Requests : y # r /\ Albums!Pending(y) => uploads[y].new # n
                     /\ \A y \in Requests : uploads[y] # Albums!Idle => uploads[y].old # n
  BY <1>0, <1>2 DEF Albums!IInv, Albums!PendingIsOwn, Albums!Pending, Albums!At
<1>8. q # Albums!Idle => q.old \notin Files /\ q.new \notin Files
  BY <1>4, OfficeMarkers
<1>9. Albums!TypeOK' /\ Albums!ToWrite'
  BY <1>0, <1>4, <1>5, <1>6, <1>8, PhotoIdle
     DEF Albums!IInv, Albums!TypeOK, Albums!ToWrite, Albums!At, PhotoHandler
<1>10. Albums!NamesGiven'
  BY <1>0, <1>5, <1>6, <1>7, <1>8 DEF Albums!IInv, Albums!NamesGiven
<1>11. \A x \in Requests : Albums!Pending(x)' => x # r /\ Albums!Pending(x)
  BY <1>4, <1>5 DEF Albums!Pending, Albums!At
<1>12. Albums!PendingIsOwn'
  <2> SUFFICES ASSUME NEW x \in Requests, Albums!Pending(x)'
               PROVE  /\ files'[uploads'[x].new] = "stored"
                      /\ \A s \in Pupils : photo'[s] # uploads'[x].new
                      /\ \A y \in Requests : y # x /\ Albums!Pending(y)' => uploads'[y].new # uploads'[x].new
                      /\ \A y \in Requests : uploads'[y] # Albums!Idle => uploads'[y].old # uploads'[x].new
    BY DEF Albums!PendingIsOwn
  <2>1. x # r /\ Albums!Pending(x) /\ uploads'[x] = uploads[x] /\ uploads[x].new \in Files
    BY <1>5, <1>11 DEF Albums!Pending
  <2>2. /\ files[uploads[x].new] = "stored"
        /\ \A s \in Pupils : photo[s] # uploads[x].new
        /\ \A y \in Requests : y # x /\ Albums!Pending(y) => uploads[y].new # uploads[x].new
        /\ \A y \in Requests : uploads[y] # Albums!Idle => uploads[y].old # uploads[x].new
    BY <2>1 DEF Albums!IInv, Albums!PendingIsOwn
  <2>3. n # uploads[x].new
    BY <1>7, <2>1
  <2> QED BY <1>0, <1>5, <1>6, <1>8, <1>11, <2>1, <2>2, <2>3
<1>13. Albums!OnePupilEach'
  <2>1. \A s, u \in Pupils : photo'[s] \in Files /\ photo'[s] = photo'[u] => s = u
    BY <1>6, <1>7 DEF Albums!IInv, Albums!OnePupilEach
  <2>2. ASSUME NEW x \in Requests, NEW s \in Pupils,
               uploads'[x] # Albums!Idle, uploads'[x].old \in Files, uploads'[x].old = photo'[s]
        PROVE  uploads'[x].student = s
    <3>1. x # r /\ uploads'[x] = uploads[x]
      BY <1>5, <1>8, <2>2
    <3>2. s # t
      BY <1>6, <1>7, <2>2, <3>1
    <3> QED BY <1>6, <2>2, <3>1, <3>2 DEF Albums!IInv, Albums!OnePupilEach
  <2> QED BY <2>1, <2>2 DEF Albums!OnePupilEach
<1>14. ASSUME NEW s \in Pupils, Albums!Stands(s) PROVE Albums!Stands(s)'
  <2>1. CASE s = t
    BY <1>0, <1>6, <1>7, <2>1 DEF Albums!Stands
  <2>2. CASE s # t
    <3>1. \A x \in Requests : Albums!Replacing(x, s) => Albums!Replacing(x, s)'
      BY <1>1, <1>5, <1>6, <2>2 DEF Albums!Replacing, Albums!At
    <3> QED BY <1>0, <1>6, <1>14, <2>2, <3>1 DEF Albums!Stands
  <2> QED BY <2>1, <2>2
<1> QED BY <1>9, <1>10, <1>12, <1>13, <1>14 DEF Albums!IInv, PhotosSafe

-----------------------------------------------------------------------------
LEMMA PhotosStep == Albums!IInv /\ [Albums!Next]_(Albums!vars) => Albums!IInv' /\ PhotosSafe
<1> SUFFICES ASSUME Albums!IInv, [Albums!Next]_(Albums!vars) PROVE Albums!IInv' /\ PhotosSafe
  OBVIOUS
<1>1. CASE UNCHANGED Albums!vars
  <2>1. UNCHANGED photo /\ UNCHANGED files /\ UNCHANGED uploads
    BY <1>1 DEF Albums!vars
  <2>2. Albums!TypeOK' /\ Albums!NamesGiven' /\ Albums!ToWrite' /\ Albums!OnePupilEach'
    BY <2>1
       DEF Albums!IInv, Albums!TypeOK, Albums!NamesGiven, Albums!ToWrite,
           Albums!OnePupilEach, Albums!At
  <2>3. Albums!PendingIsOwn'
    BY <2>1 DEF Albums!IInv, Albums!PendingIsOwn, Albums!Pending, Albums!At
  <2>4. PhotosSafe
    BY <2>1 DEF PhotosSafe, Albums!Stands, Albums!Replacing, Albums!At
  <2> QED BY <2>2, <2>3, <2>4 DEF Albums!IInv
<1>2. ASSUME NEW s \in Pupils, Albums!Enrol(s) \/ Albums!Delete(s)
      PROVE Albums!IInv' /\ PhotosSafe
  BY <1>2, ColumnsOnly DEF Albums!Enrol, Albums!Delete
<1>3. ASSUME NEW r \in Requests, NEW s \in Pupils, Albums!PromoteRead(r, s)
      PROVE Albums!IInv' /\ PhotosSafe
  <2> DEFINE q == [step |-> "copy", todo |-> {}, student |-> s, old |-> photo[s], new |-> NoPhoto]
  <2>1. photo[s] \in Albums!Column /\ uploads[r] = Albums!Idle
    BY <1>3 DEF Albums!PromoteRead, Albums!Present
  <2>2. q \in Albums!Handler /\ q.step = "copy" /\ q.student = s /\ q.old = photo[s] /\ q.new = NoPhoto
    BY <2>1 DEF Albums!Handler, Albums!Column
  <2>3. Albums!Becomes(r, q) /\ UNCHANGED <<photo, files>>
    BY <1>3 DEF Albums!PromoteRead
  <2> HIDE DEF q
  <2> QED BY <2>1, <2>2, <2>3, OfficeMarkers, PhotoIdle, HandlerReads
<1>4. ASSUME NEW r \in Requests, NEW s \in Pupils, Albums!RemoveRead(r, s)
      PROVE Albums!IInv' /\ PhotosSafe
  <2> DEFINE q == [step |-> IF photo[s] \in Files THEN "unlink" ELSE "update", todo |-> {},
                   student |-> s, old |-> photo[s], new |-> NoPhoto]
  <2>1. photo[s] \in Albums!Column /\ uploads[r] = Albums!Idle
    BY <1>4 DEF Albums!RemoveRead, Albums!Present
  <2>2. /\ q \in Albums!Handler /\ q.step \in {"unlink", "update"} /\ q.student = s /\ q.old = photo[s]
        /\ q.new = NoPhoto
        /\ q.step = "unlink" => q.old \in Files
    BY <2>1 DEF Albums!Handler, Albums!Column
  <2>3. Albums!Becomes(r, q) /\ UNCHANGED <<photo, files>>
    BY <1>4 DEF Albums!RemoveRead
  <2> HIDE DEF q
  <2> QED BY <2>1, <2>2, <2>3, OfficeMarkers, PhotoIdle, HandlerReads
<1>5. ASSUME NEW r \in Requests, Albums!UploadOpen(r) PROVE Albums!IInv' /\ PhotosSafe
  <2>1. PICK todo \in SUBSET {s \in Pupils : Albums!Present(s)} : \E s \in todo :
          Albums!Becomes(r, [step |-> "read", todo |-> todo, student |-> s, old |-> NoPhoto, new |-> NoPhoto])
    BY <1>5 DEF Albums!UploadOpen
  <2>2. PICK s \in todo :
          Albums!Becomes(r, [step |-> "read", todo |-> todo, student |-> s, old |-> NoPhoto, new |-> NoPhoto])
    BY <2>1
  <2> DEFINE q == [step |-> "read", todo |-> todo, student |-> s, old |-> NoPhoto, new |-> NoPhoto]
  <2>3. q \in Albums!Handler /\ q.step = "read" /\ q.old = NoPhoto /\ q.new = NoPhoto
    BY DEF Albums!Handler, Albums!Column
  <2>4. uploads[r] = Albums!Idle /\ Albums!Becomes(r, q) /\ UNCHANGED <<photo, files>>
    BY <1>5, <2>2 DEF Albums!UploadOpen
  <2> HIDE DEF q
  <2> QED BY <2>3, <2>4, OfficeMarkers, PhotoIdle, HandlerReads
<1>6. ASSUME NEW r \in Requests, Albums!UploadRead(r) PROVE Albums!IInv' /\ PhotosSafe
  <2>1. uploads[r] \in Albums!Handler /\ uploads[r] # Albums!Idle /\ uploads[r].step = "read" /\ UNCHANGED <<photo, files>>
    BY <1>6, PhotoAt DEF Albums!IInv, Albums!UploadRead
  <2> DEFINE s == uploads[r].student
             old == IF Albums!Present(s) THEN photo[s] ELSE NoPhoto
             q == [uploads[r] EXCEPT !.old = old, !.step = IF old \in Files THEN "unlink" ELSE "put"]
  <2>2. old \in Albums!Column /\ (old \in Files => old = photo[s])
    BY OfficeMarkers DEF Albums!Present, Albums!Column
  <2> HIDE DEF old
  <2>3. /\ q \in Albums!Handler /\ q.step \in {"unlink", "put"} /\ q.student = s /\ q.old = old
        /\ q.new = uploads[r].new /\ (q.step = "unlink" => q.old \in Files)
    BY <2>1, <2>2 DEF Albums!Handler
  <2>4. Albums!Becomes(r, q)
    BY <1>6 DEF Albums!UploadRead, old
  <2>5. q.new \notin Files
    BY <2>1, <2>3 DEF Albums!IInv, Albums!ToWrite, Albums!At
  <2> HIDE DEF q
  <2> QED BY <2>1, <2>2, <2>3, <2>4, <2>5, HandlerReads
<1>7. ASSUME NEW r \in Requests, NEW t \in Pupils, Albums!PromoteCopy(r, t)
      PROVE Albums!IInv' /\ PhotosSafe
  <2>1. \E column \in {NoPhoto, Hollow} : photo' = [photo EXCEPT ![t] = column]
    BY <1>7 DEF Albums!PromoteCopy, Albums!Copied
  <2>2. Albums!Becomes(r, Albums!Idle) /\ UNCHANGED files /\ \A s \in Pupils : ~Albums!Replacing(r, s)
    BY <1>7 DEF Albums!PromoteCopy, Albums!Replacing, Albums!At
  <2>3. Albums!IInv' /\ \A s \in Pupils : Albums!Stands(s) => Albums!Stands(s)' \/ Albums!Replacing(r, s)
    BY <2>1, <2>2, HandlerEnds
  <2> QED BY <2>2, <2>3 DEF PhotosSafe
<1>8. ASSUME NEW r \in Requests, Albums!RequestFails(r) PROVE Albums!IInv' /\ PhotosSafe
  <2>1. Albums!IInv' /\ \A s \in Pupils : Albums!Stands(s) => Albums!Stands(s)' \/ Albums!Replacing(r, s)
    BY <1>8, HandlerEnds DEF Albums!RequestFails
  <2> QED BY <1>8, <2>1 DEF PhotosSafe
<1>9. ASSUME NEW r \in Requests, Albums!Unlink(r) \/ Albums!Put(r) \/ Albums!Update(r)
      PROVE Albums!IInv' /\ PhotosSafe
  BY <1>9, UnlinkKeeps, PutKeeps, UpdateKeeps
<1> QED BY <1>1, <1>2, <1>3, <1>4, <1>5, <1>6, <1>7, <1>8, <1>9 DEF Albums!Next

\* Names are given once, and to one row or handler.
THEOREM PhotoInvariance == Albums!Spec => []Albums!IInv
<1>1. Albums!Init => Albums!IInv
  <2> SUFFICES ASSUME Albums!Init PROVE Albums!IInv
    OBVIOUS
  <2>1. Albums!TypeOK
    BY DEF Albums!Init, Albums!TypeOK
  <2>2. \A r \in Requests : uploads[r] = Albums!Idle /\ uploads[r].step = "idle"
    BY PhotoIdle DEF Albums!Init
  <2>3. \A s \in Pupils : photo[s] \notin Files
    BY OfficeMarkers DEF Albums!Init
  <2> QED BY <2>1, <2>2, <2>3
     DEF Albums!IInv, Albums!NamesGiven, Albums!PendingIsOwn, Albums!Pending,
         Albums!OnePupilEach, Albums!ToWrite, Albums!At
<1> QED BY <1>1, PhotosStep, PTL DEF Albums!Spec

\* The photo that a row names is lost only when the handler that was replacing it fails,
\* however many uploads, removals and promotions run beside it (students.js:404).
THEOREM LostOnlyByFailure == Albums!Spec => PhotoLostOnlyByFailure
<1>1. Albums!IInv /\ [Albums!Next]_(Albums!vars) =>
        [\A s \in Pupils : Albums!Stands(s) /\ ~Albums!Stands(s)' =>
            \E r \in Requests : Albums!RequestFails(r) /\ Albums!Replacing(r, s)]_(Albums!vars)
  BY PhotosStep DEF PhotosSafe
<1> QED BY <1>1, PhotoInvariance, PTL
   DEF Albums!Spec, PhotoLostOnlyByFailure, Albums!PhotoLostOnlyByFailure

-----------------------------------------------------------------------------
(***************************************************************************)
(* The subjects.  A handler that is about to delete a row knows of what    *)
(* has come to use it since it counted, and an enrolment of the rows that  *)
(* are not on its list.  What goes away makes nothing known less true; the *)
(* four steps by which something comes tell whom it concerns.              *)
(***************************************************************************)
Editing == Subjects!Handler \cup {Subjects!Idle}

LEMMA EditIdle ==
    /\ Subjects!Idle.step = "idle" /\ Subjects!Idle.drops = {}
    /\ \A q \in Subjects!Handler : q # Subjects!Idle
BY DEF Subjects!Idle, Subjects!Handler

LEMMA EditActive ==
    ASSUME Subjects!IInv, NEW r \in Requests, edits[r] # Subjects!Idle
    PROVE  edits[r] \in Subjects!Handler /\ Subjects!Knows(edits[r], missed[r])
BY DEF Subjects!IInv, Subjects!TypeOK, Subjects!HandlersKnow

LEMMA EditAt ==
    ASSUME Subjects!IInv, NEW r \in Requests, NEW step, step # "idle", Subjects!At(r, step)
    PROVE  /\ edits[r] \in Subjects!Handler /\ edits[r] # Subjects!Idle /\ edits[r].step = step
           /\ Subjects!Knows(edits[r], missed[r])
BY EditIdle, EditActive DEF Subjects!At

LEMMA EditBecomes ==
    ASSUME Subjects!IInv, NEW r \in Requests, NEW q \in Editing, Subjects!Becomes(r, q)
    PROVE  /\ edits' \in [Requests -> Editing] /\ edits'[r] = q
           /\ \A x \in Requests \ {r} : edits'[x] = edits[x] /\ missed'[x] = missed[x]
           /\ missed' \in [Requests -> SUBSET {"use", "section"}]
           /\ q # Subjects!Idle => missed'[r] = missed[r]
BY DEF Subjects!IInv, Subjects!TypeOK, Editing, Subjects!Becomes

LEMMA AsksEdit ==
    ASSUME NEW kind \in {"select", "clean", "enrol"}, NEW step \in {"remaining", "tally", "commit", "clear"}
    PROVE  /\ Subjects!Asks(kind, step) \in Subjects!Handler
           /\ Subjects!Asks(kind, step).kind = kind /\ Subjects!Asks(kind, step).step = step
           /\ Subjects!Asks(kind, step).drops = {}
BY DEF Subjects!Asks, Subjects!Handler

-----------------------------------------------------------------------------
\* Uses, sections and enrolments go, and no row becomes another class's.
Recedes ==
    /\ where' \in [Ids -> {"unused", "here", "elsewhere", "gone"}]
    /\ \A i \in Ids : where'[i] = "elsewhere" => where[i] = "elsewhere"
    /\ data' \subseteq data
    /\ enrolled' \in [Ids -> SUBSET Takers] /\ \A i \in Ids : enrolled'[i] \subseteq enrolled[i]
    /\ named' \subseteq named
    /\ takers' \subseteq takers
    /\ asked' \in [Ids -> [pupils : SUBSET Takers, crossed : BOOLEAN]]
    /\ Subjects!EnrolledAsSaved'

LEMMA KnowsOnRecession ==
    ASSUME Subjects!IInv, Recedes, NEW q \in Subjects!Handler, NEW m, Subjects!Knows(q, m)
    PROVE  Subjects!Knows(q, m)'
<1>1. \A i \in Ids : Subjects!InUse(i)' => Subjects!InUse(i)
  BY DEF Recedes, Subjects!InUse
<1>2. Subjects!KnowsUses(q, m)'
  BY <1>1 DEF Subjects!Knows, Subjects!KnowsUses
<1>3. Subjects!KnowsSections(q, m)'
  BY DEF Subjects!Handler, Subjects!Knows, Subjects!KnowsSections, Recedes
<1>4. Subjects!KnowsList(q)' /\ Subjects!AtOne(q)'
  BY DEF Subjects!Handler, Subjects!Knows, Subjects!KnowsList, Subjects!AtOne, Recedes
<1> QED BY <1>2, <1>3, <1>4 DEF Subjects!Knows

\* One handler goes on, and things go away or stay.
LEMMA EditGoesOn ==
    ASSUME Subjects!IInv, Recedes, NEW r \in Requests, NEW q \in Editing,
           Subjects!Becomes(r, q), q # Subjects!Idle => Subjects!Knows(q, missed[r])
    PROVE  Subjects!IInv'
<1>1. /\ edits' \in [Requests -> Editing] /\ edits'[r] = q
      /\ \A x \in Requests \ {r} : edits'[x] = edits[x] /\ missed'[x] = missed[x]
      /\ missed' \in [Requests -> SUBSET {"use", "section"}]
      /\ q # Subjects!Idle => missed'[r] = missed[r]
  BY EditBecomes
<1>2. Subjects!TypeOK'
  BY <1>1 DEF Recedes, Subjects!IInv, Subjects!TypeOK, Editing
<1>3. ASSUME NEW x \in Requests, edits'[x] # Subjects!Idle
      PROVE  Subjects!Knows(edits[x], missed[x])'
  <2>1. CASE x = r
    <3>1. q \in Subjects!Handler /\ Subjects!Knows(q, missed[r])
      BY <1>1, <1>3, <2>1 DEF Editing
    <3>2. \A m : Subjects!Knows(q, m) => Subjects!Knows(q, m)'
      BY <3>1, KnowsOnRecession
    <3>3. edits'[x] = q /\ missed'[x] = missed[r]
      BY <1>1, <1>3, <2>1
    <3> QED BY <3>1, <3>2, <3>3
       DEF Subjects!Knows, Subjects!KnowsUses, Subjects!KnowsSections, Subjects!KnowsList, Subjects!AtOne
  <2>2. CASE x # r
    <3>1. /\ edits'[x] = edits[x] /\ missed'[x] = missed[x]
          /\ edits[x] \in Subjects!Handler /\ Subjects!Knows(edits[x], missed[x])
      BY <1>1, <1>3, <2>2, EditActive
    <3> QED BY <3>1, KnowsOnRecession
       DEF Subjects!Knows, Subjects!KnowsUses, Subjects!KnowsSections, Subjects!KnowsList, Subjects!AtOne
  <2> QED BY <2>1, <2>2
<1> QED BY <1>2, <1>3 DEF Recedes, Subjects!IInv, Subjects!HandlersKnow

\* Nobody's handler moves, but what comes is told to those it concerns.
LEMMA EditsTold ==
    ASSUME Subjects!IInv, Subjects!TypeOK', Subjects!EnrolledAsSaved', UNCHANGED edits,
           \A i \in Ids : enrolled'[i] \subseteq enrolled[i],
           \A r \in Requests : missed[r] \subseteq missed'[r],
           \A i \in Ids : i \in data' \ data =>
               \A r \in Requests : /\ i \notin edits[r].drops
                                   /\ Subjects!At(r, "drop") /\ i \in edits[r].at => "use" \in missed'[r],
           ~(named' \subseteq named) \/ (\E i \in Ids : where'[i] = "elsewhere" /\ where[i] # "elsewhere") =>
               \A r \in Requests : edits[r] # Subjects!Idle /\ ~Subjects!At(r, "remaining") =>
                   "section" \in missed'[r]
    PROVE  Subjects!IInv'
<1> SUFFICES ASSUME NEW x \in Requests, edits[x] # Subjects!Idle
             PROVE  Subjects!Knows(edits[x], missed[x])'
  BY DEF Subjects!IInv, Subjects!HandlersKnow
<1>1. edits[x] \in Subjects!Handler /\ Subjects!Knows(edits[x], missed[x])
  BY EditActive
<1>2. Subjects!AtOne(edits[x])'
  BY <1>1 DEF Subjects!Knows, Subjects!AtOne
<1>3. Subjects!KnowsUses(edits[x], missed[x])'
  BY <1>1 DEF Subjects!Knows, Subjects!KnowsUses, Subjects!InUse, Subjects!At
<1>4. Subjects!KnowsSections(edits[x], missed[x])'
  BY <1>1 DEF Subjects!Knows, Subjects!KnowsSections, Subjects!At, Subjects!Handler
<1>5. Subjects!KnowsList(edits[x])'
  BY <1>1 DEF Subjects!Knows, Subjects!KnowsList, Subjects!Handler
<1> QED BY <1>2, <1>3, <1>4, <1>5 DEF Subjects!Knows

\* What Remove takes away.
LEMMA RemoveRecedes ==
    ASSUME Subjects!IInv, NEW D \in SUBSET Ids, Subjects!Remove(D), UNCHANGED <<named, takers>>
    PROVE  Recedes
<1>1. /\ \A i \in Ids : where'[i] = IF i \in D THEN "gone" ELSE where[i]
      /\ \A i \in Ids : enrolled'[i] = IF i \in D THEN {} ELSE enrolled[i]
      /\ \A i \in Ids : asked'[i] = IF i \in D THEN [pupils |-> {}, crossed |-> FALSE] ELSE asked[i]
  BY DEF Subjects!Remove
<1>2. Subjects!EnrolledAsSaved'
  <2> SUFFICES ASSUME NEW i \in Ids
               PROVE  /\ asked'[i].pupils \subseteq enrolled'[i]
                      /\ ~asked'[i].crossed => enrolled'[i] = asked'[i].pupils
    BY DEF Subjects!EnrolledAsSaved
  <2>1. CASE i \in D
    <3>1. asked'[i].pupils = {} /\ enrolled'[i] = {}
      BY <1>1, <2>1
    <3> QED BY <3>1
  <2>2. CASE i \notin D
    BY <1>1, <2>2 DEF Subjects!IInv, Subjects!EnrolledAsSaved
  <2> QED BY <2>1, <2>2
<1> QED BY <1>1, <1>2 DEF Recedes, Subjects!IInv, Subjects!TypeOK, Subjects!Remove

LEMMA StillRecedes ==
    ASSUME Subjects!IInv, UNCHANGED <<where, data, enrolled, takers, asked>>, named' \subseteq named
    PROVE  Recedes
BY DEF Recedes, Subjects!IInv, Subjects!TypeOK, Subjects!EnrolledAsSaved

-----------------------------------------------------------------------------
\* The rows, their uses, the sections and the pupils.
LEMMA RowsKeep ==
    ASSUME Subjects!IInv, NEW i \in Ids,
           \/ Subjects!Create(i) \/ Subjects!Move(i) \/ Subjects!Delete(i)
           \/ Subjects!Use(i) \/ Subjects!Disuse(i)
    PROVE  Subjects!IInv'
<1>a. Subjects!TypeOK
  BY DEF Subjects!IInv
<1>b. UNCHANGED <<enrolled, asked>> => Subjects!EnrolledAsSaved'
  BY DEF Subjects!IInv, Subjects!EnrolledAsSaved
<1>c. ASSUME Subjects!SectionComes
      PROVE  /\ missed' \in [Requests -> SUBSET {"use", "section"}]
             /\ \A r \in Requests : missed[r] \subseteq missed'[r]
             /\ \A r \in Requests : edits[r] # Subjects!Idle /\ ~Subjects!At(r, "remaining") =>
                   "section" \in missed'[r]
  BY <1>a, <1>c DEF Subjects!SectionComes, Subjects!TypeOK
<1>1. CASE Subjects!Create(i) \/ Subjects!Disuse(i)
  <2>1. Subjects!TypeOK'
    BY <1>a, <1>1 DEF Subjects!Create, Subjects!Disuse, Subjects!TypeOK
  <2>2. UNCHANGED <<enrolled, asked, named, edits, missed>> /\ data' \subseteq data
        /\ \A j \in Ids : where'[j] = "elsewhere" => where[j] = "elsewhere"
    BY <1>a, <1>1 DEF Subjects!Create, Subjects!Disuse, Subjects!TypeOK
  <2> QED BY <1>b, <2>1, <2>2, EditsTold
<1>2. CASE Subjects!Move(i)
  <2>1. Subjects!TypeOK' /\ \A r \in Requests : missed[r] \subseteq missed'[r]
    BY <1>a, <1>c, <1>2 DEF Subjects!Move, Subjects!TypeOK
  <2>2. UNCHANGED <<enrolled, asked, named, edits, data>>
    BY <1>2 DEF Subjects!Move
  <2>3. CASE where' = [where EXCEPT ![i] = "here"] /\ UNCHANGED missed
    <3>1. \A j \in Ids : where'[j] = "elsewhere" => where[j] = "elsewhere"
      BY <1>a, <2>3 DEF Subjects!TypeOK
    <3> QED BY <1>b, <2>1, <2>2, <3>1, EditsTold
  <2>4. CASE Subjects!SectionComes
    BY <1>b, <1>c, <2>1, <2>2, <2>4, EditsTold
  <2> QED BY <1>2, <2>3, <2>4 DEF Subjects!Move
<1>3. CASE Subjects!Delete(i)
  <2>1. UNCHANGED <<edits, missed, named>> /\ Recedes /\ data' \subseteq data
    BY <1>3, RemoveRecedes DEF Subjects!Delete, Recedes
  <2>2. Subjects!TypeOK'
    BY <1>a, <2>1 DEF Recedes, Subjects!TypeOK
  <2> QED BY <2>1, <2>2, EditsTold DEF Recedes
<1>4. CASE Subjects!Use(i)
  <2>1. Subjects!TypeOK' /\ \A r \in Requests : missed[r] \subseteq missed'[r]
    BY <1>a, <1>4 DEF Subjects!Use, Subjects!UseComes, Subjects!TypeOK
  <2>2. UNCHANGED <<enrolled, asked, named, edits, where>> /\ data' = data \cup {i}
    BY <1>4 DEF Subjects!Use
  <2>3. \A r \in Requests : /\ i \notin edits[r].drops
                            /\ Subjects!At(r, "drop") /\ i \in edits[r].at => "use" \in missed'[r]
    BY <1>4 DEF Subjects!Use, Subjects!UseComes, Subjects!Doomed
  <2> QED BY <1>b, <2>1, <2>2, <2>3, EditsTold
<1> QED BY <1>1, <1>2, <1>3, <1>4

LEMMA PeopleKeep ==
    ASSUME Subjects!IInv,
           \/ \E p \in Takers : Subjects!PupilLeaves(p)
           \/ \E c \in Sections : Subjects!SectionOpens(c) \/ Subjects!SectionRenamed(c)
    PROVE  Subjects!IInv'
<1>a. Subjects!TypeOK
  BY DEF Subjects!IInv
<1>1. ASSUME NEW p \in Takers, Subjects!PupilLeaves(p) PROVE Subjects!IInv'
  <2>1. /\ enrolled' \in [Ids -> SUBSET Takers] /\ \A i \in Ids : enrolled'[i] = enrolled[i] \ {p}
        /\ asked' \in [Ids -> [pupils : SUBSET Takers, crossed : BOOLEAN]]
        /\ \A i \in Ids : asked'[i].pupils = asked[i].pupils \ {p} /\ asked'[i].crossed = asked[i].crossed
    BY <1>a, <1>1 DEF Subjects!PupilLeaves, Subjects!TypeOK
  <2>2. Subjects!TypeOK' /\ UNCHANGED <<where, data, named, edits, missed>>
    BY <1>a, <1>1, <2>1 DEF Subjects!PupilLeaves, Subjects!TypeOK
  <2>3. Subjects!EnrolledAsSaved'
    BY <2>1 DEF Subjects!IInv, Subjects!EnrolledAsSaved
  <2> QED BY <2>1, <2>2, <2>3, EditsTold
<1>2. ASSUME NEW c \in Sections, Subjects!SectionOpens(c) PROVE Subjects!IInv'
  <2>1. /\ Subjects!TypeOK' /\ \A r \in Requests : missed[r] \subseteq missed'[r]
        /\ UNCHANGED <<where, data, enrolled, asked, edits>>
    BY <1>a, <1>2 DEF Subjects!SectionOpens, Subjects!SectionComes, Subjects!TypeOK
  <2>2. \A r \in Requests : edits[r] # Subjects!Idle /\ ~Subjects!At(r, "remaining") =>
            "section" \in missed'[r]
    BY <1>a, <1>2 DEF Subjects!SectionOpens, Subjects!SectionComes, Subjects!TypeOK
  <2>3. Subjects!EnrolledAsSaved'
    BY <2>1 DEF Subjects!IInv, Subjects!EnrolledAsSaved
  <2> QED BY <2>1, <2>2, <2>3, EditsTold
<1>3. ASSUME NEW c \in Sections, Subjects!SectionRenamed(c) PROVE Subjects!IInv'
  <2>1. /\ Subjects!TypeOK' /\ named' \subseteq named
        /\ UNCHANGED <<where, data, enrolled, asked, edits, missed>>
    BY <1>a, <1>3 DEF Subjects!SectionRenamed, Subjects!TypeOK
  <2>2. Subjects!EnrolledAsSaved'
    BY <2>1 DEF Subjects!IInv, Subjects!EnrolledAsSaved
  <2> QED BY <2>1, <2>2, EditsTold
<1> QED BY <1>1, <1>2, <1>3

-----------------------------------------------------------------------------
\* The handlers that count and delete.
LEMMA OnwardEdits ==
    ASSUME Subjects!IInv, NEW q \in Subjects!Handler, NEW todo \in SUBSET q.todo, NEW m \in SUBSET {"use", "section"},
           q.step \in {"tally", "drop"}, Subjects!Knows(q, m)
    PROVE  /\ Subjects!Onward(q, todo) \in Editing
           /\ Subjects!Onward(q, todo) # Subjects!Idle => Subjects!Knows(Subjects!Onward(q, todo), m)
<1>1. CASE todo # {}
  <2> DEFINE p == [q EXCEPT !.step = "tally", !.todo = todo, !.at = {}]
  <2>1. Subjects!Onward(q, todo) = p
    BY <1>1 DEF Subjects!Onward
  <2>2. /\ p \in Subjects!Handler /\ p.step = "tally" /\ p.todo = todo /\ p.kind = q.kind
        /\ p.drops = q.drops
    BY DEF Subjects!Handler
  <2> HIDE DEF p
  <2> QED BY <2>1, <2>2
     DEF Editing, Subjects!Knows, Subjects!AtOne, Subjects!KnowsUses, Subjects!KnowsSections,
         Subjects!KnowsList
<1>2. CASE todo = {} /\ q.kind = "clean"
  BY <1>2 DEF Subjects!Onward, Editing
<1>3. CASE todo = {} /\ q.kind # "clean"
  <2> DEFINE p == [q EXCEPT !.step = "commit", !.todo = {}, !.at = {}]
  <2>1. Subjects!Onward(q, todo) = p
    BY <1>3 DEF Subjects!Onward
  <2>2. /\ p \in Subjects!Handler /\ p.step = "commit" /\ p.kind = q.kind /\ p.drops = q.drops
    BY DEF Subjects!Handler
  <2> HIDE DEF p
  <2> QED BY <1>3, <2>1, <2>2
     DEF Editing, Subjects!Knows, Subjects!AtOne, Subjects!KnowsUses, Subjects!KnowsSections,
         Subjects!KnowsList
<1> QED BY <1>1, <1>2, <1>3

LEMMA CleanKeeps ==
    ASSUME Subjects!IInv, NEW r \in Requests,
           \/ \E c \in Sections : Subjects!SectionDeleted(r, c)
           \/ Subjects!CleanCount(r) \/ Subjects!CleanList(r)
    PROVE  Subjects!IInv'
<1>1. ASSUME NEW c \in Sections, Subjects!SectionDeleted(r, c) PROVE Subjects!IInv'
  <2> DEFINE q == Subjects!Asks("clean", "remaining")
  <2>1. q \in Subjects!Handler /\ q.step = "remaining" /\ q.drops = {}
    BY AsksEdit
  <2>2. Subjects!Becomes(r, q) /\ Recedes
    BY <1>1, StillRecedes DEF Subjects!SectionDeleted
  <2> HIDE DEF q
  <2>3. Subjects!Knows(q, missed[r])
    BY <2>1 DEF Subjects!Knows, Subjects!AtOne, Subjects!KnowsUses, Subjects!KnowsSections,
                Subjects!KnowsList
  <2> QED BY <2>1, <2>2, <2>3, EditGoesOn DEF Editing
<1>2. CASE Subjects!CleanCount(r)
  <2> DEFINE q == [edits[r] EXCEPT !.step = "list"]
  <2>1. /\ edits[r] \in Subjects!Handler /\ edits[r].step = "remaining"
        /\ Subjects!Knows(edits[r], missed[r])
    BY <1>2, EditAt DEF Subjects!CleanCount
  <2>2. q \in Subjects!Handler /\ q.step = "list" /\ q.drops = edits[r].drops
    BY <2>1 DEF Subjects!Handler
  <2>3. /\ (Subjects!Becomes(r, q) /\ named = {}) \/ Subjects!Becomes(r, Subjects!Idle)
        /\ Recedes
    BY <1>2, StillRecedes DEF Subjects!CleanCount
  <2> HIDE DEF q
  <2>4. named = {} => Subjects!Knows(q, missed[r])
    BY <2>1, <2>2 DEF Subjects!Knows, Subjects!AtOne, Subjects!KnowsUses,
                      Subjects!KnowsSections, Subjects!KnowsList
  <2> QED BY <2>2, <2>3, <2>4, EditGoesOn DEF Editing
<1>3. CASE Subjects!CleanList(r)
  <2> DEFINE q == [edits[r] EXCEPT !.step = "tally", !.todo = Subjects!Here]
  <2>1. /\ edits[r] \in Subjects!Handler /\ edits[r].step = "list"
        /\ Subjects!Knows(edits[r], missed[r])
    BY <1>3, EditAt DEF Subjects!CleanList
  <2>2. /\ q \in Subjects!Handler /\ q.step = "tally" /\ q.drops = edits[r].drops
        /\ q.todo = Subjects!Here /\ q.kind = edits[r].kind
    BY <2>1 DEF Subjects!Handler, Subjects!Here
  <2>3. (Subjects!Becomes(r, q) \/ Subjects!Becomes(r, Subjects!Idle)) /\ Recedes
    BY <1>3, StillRecedes DEF Subjects!CleanList
  <2> HIDE DEF q
  <2>4. Subjects!Knows(q, missed[r])
    BY <2>1, <2>2 DEF Subjects!Knows, Subjects!AtOne, Subjects!KnowsUses, Subjects!Here,
                      Subjects!KnowsSections, Subjects!KnowsList
  <2> QED BY <2>2, <2>3, <2>4, EditGoesOn DEF Editing
<1> QED BY <1>1, <1>2, <1>3

LEMMA SelectReadKeeps ==
    ASSUME Subjects!IInv, NEW r \in Requests, Subjects!SelectRead(r)
    PROVE  Subjects!IInv'
<1>1. PICK others \in SUBSET Subjects!Here :
        Subjects!Becomes(r, [Subjects!Asks("select", IF others = {} THEN "commit" ELSE "tally")
                                EXCEPT !.todo = others])
  BY DEF Subjects!SelectRead
<1> DEFINE step == IF others = {} THEN "commit" ELSE "tally"
           q == [Subjects!Asks("select", step) EXCEPT !.todo = others]
<1>2. q \in Subjects!Handler /\ q.kind = "select" /\ q.step \in {"commit", "tally"} /\ q.drops = {}
  BY AsksEdit DEF Subjects!Handler, Subjects!Here
<1>3. Subjects!Becomes(r, q) /\ Recedes
  BY <1>1, StillRecedes DEF Subjects!SelectRead
<1> HIDE DEF q
<1>4. Subjects!Knows(q, missed[r])
  BY <1>2 DEF Subjects!Knows, Subjects!AtOne, Subjects!KnowsUses, Subjects!KnowsSections,
              Subjects!KnowsList
<1> QED BY <1>2, <1>3, <1>4, EditGoesOn DEF Editing

LEMMA TallyKeeps ==
    ASSUME Subjects!IInv, NEW r \in Requests, Subjects!Tally(r)
    PROVE  Subjects!IInv'
<1>1. /\ edits[r] \in Subjects!Handler /\ edits[r].step = "tally"
      /\ Subjects!Knows(edits[r], missed[r]) /\ missed[r] \in SUBSET {"use", "section"}
  BY EditAt DEF Subjects!Tally, Subjects!IInv, Subjects!TypeOK
<1>2. PICK i \in edits[r].todo :
        Subjects!Becomes(r, IF Subjects!Unneeded(i) THEN [edits[r] EXCEPT !.step = "drop", !.at = {i}]
                            ELSE Subjects!Onward(edits[r], edits[r].todo \ {i}))
  BY DEF Subjects!Tally
<1>3. Recedes
  BY StillRecedes DEF Subjects!Tally
<1>4. CASE Subjects!Unneeded(i)
  <2> DEFINE q == [edits[r] EXCEPT !.step = "drop", !.at = {i}]
  <2>1. /\ q \in Subjects!Handler /\ q.step = "drop" /\ q.at = {i} /\ q.drops = edits[r].drops
        /\ q.todo = edits[r].todo /\ q.kind = edits[r].kind
    BY <1>1 DEF Subjects!Handler
  <2>2. Subjects!Becomes(r, q)
    BY <1>2, <1>4
  <2> HIDE DEF q
  <2>3. Subjects!Knows(q, missed[r])
    BY <1>1, <1>4, <2>1 DEF Subjects!Knows, Subjects!AtOne, Subjects!KnowsUses, Subjects!Unneeded,
                       Subjects!KnowsSections, Subjects!KnowsList
  <2> QED BY <1>3, <2>1, <2>2, <2>3, EditGoesOn DEF Editing
<1>5. CASE ~Subjects!Unneeded(i)
  <2>1. Subjects!Becomes(r, Subjects!Onward(edits[r], edits[r].todo \ {i}))
    BY <1>2, <1>5
  <2> QED BY <1>1, <1>3, <2>1, OnwardEdits, EditGoesOn
<1> QED BY <1>4, <1>5

LEMMA DropKeepsSubjects ==
    ASSUME Subjects!IInv, NEW r \in Requests, Subjects!CleanDrop(r) \/ Subjects!SelectDrop(r)
    PROVE  Subjects!IInv'
<1>1. /\ edits[r] \in Subjects!Handler /\ edits[r].step = "drop"
      /\ Subjects!Knows(edits[r], missed[r]) /\ missed[r] \in SUBSET {"use", "section"}
  BY EditAt DEF Subjects!CleanDrop, Subjects!SelectDrop, Subjects!IInv, Subjects!TypeOK
<1> DEFINE q == Subjects!Onward(edits[r], edits[r].todo \ edits[r].at)
<1>2. q \in Editing /\ (q # Subjects!Idle => Subjects!Knows(q, missed[r]))
  BY <1>1, OnwardEdits
<1>3. CASE Subjects!CleanDrop(r)
  <2>1. edits[r].at \in SUBSET Ids
    BY <1>1 DEF Subjects!Handler
  <2>2. Subjects!Becomes(r, q) /\ Recedes
    BY <1>3, <2>1, RemoveRecedes DEF Subjects!CleanDrop
  <2> HIDE DEF q
  <2> QED BY <1>2, <2>2, EditGoesOn
<1>4. CASE Subjects!SelectDrop(r)
  <2> DEFINE p == [q EXCEPT !.drops = @ \cup edits[r].at]
  <2>1. edits[r].kind = "select" /\ Subjects!Becomes(r, p) /\ Recedes
    BY <1>4, StillRecedes DEF Subjects!SelectDrop
  <2>2. /\ q \in Subjects!Handler /\ q.kind = "select" /\ q.step \in {"tally", "commit"}
        /\ q.drops = edits[r].drops
    BY <1>1, <2>1 DEF Subjects!Onward, Subjects!Handler
  <2> HIDE DEF q
  <2>3. /\ p \in Subjects!Handler /\ p.kind = "select" /\ p.step \in {"tally", "commit"}
        /\ p.drops = edits[r].drops \cup edits[r].at
    BY <1>1, <2>2 DEF Subjects!Handler
  <2> HIDE DEF p
  <2>4. Subjects!Knows(p, missed[r])
    BY <1>1, <2>3 DEF Subjects!Knows, Subjects!AtOne, Subjects!KnowsUses, Subjects!KnowsSections,
                      Subjects!KnowsList
  <2> QED BY <2>1, <2>3, <2>4, EditGoesOn DEF Editing
<1> QED BY <1>3, <1>4

LEMMA CommitKeeps ==
    ASSUME Subjects!IInv, NEW r \in Requests, Subjects!SelectCommit(r) \/ Subjects!RequestFails(r)
    PROVE  Subjects!IInv'
<1>1. CASE Subjects!RequestFails(r)
  <2>1. Subjects!Becomes(r, Subjects!Idle) /\ Recedes
    BY <1>1, StillRecedes DEF Subjects!RequestFails
  <2> QED BY <2>1, EditGoesOn DEF Editing
<1>2. CASE Subjects!SelectCommit(r)
  <2> DEFINE D == edits[r].drops
  <2>1. D \in SUBSET Ids
    BY <1>2, EditAt DEF Subjects!SelectCommit, Subjects!Handler
  <2>2. PICK new \in SUBSET {i \in Ids : where[i] = "unused"} :
          where' = [i \in Ids |-> IF i \in D THEN "gone" ELSE IF i \in new THEN "here" ELSE where[i]]
    BY <1>2 DEF Subjects!SelectCommit
  <2>3. /\ data' = data \ D
        /\ enrolled' = [i \in Ids |-> IF i \in D THEN {} ELSE enrolled[i]]
        /\ asked' = [i \in Ids |-> IF i \in D THEN [pupils |-> {}, crossed |-> FALSE] ELSE asked[i]]
        /\ Subjects!Becomes(r, Subjects!Idle) /\ UNCHANGED <<named, takers>>
    BY <1>2 DEF Subjects!SelectCommit
  <2> HIDE DEF D
  <2>4. Subjects!EnrolledAsSaved'
    <3> SUFFICES ASSUME NEW i \in Ids
                 PROVE  /\ asked'[i].pupils \subseteq enrolled'[i]
                        /\ ~asked'[i].crossed => enrolled'[i] = asked'[i].pupils
      BY DEF Subjects!EnrolledAsSaved
    <3>1. CASE i \in D
      <4>1. asked'[i].pupils = {} /\ enrolled'[i] = {}
        BY <2>3, <3>1
      <4> QED BY <4>1
    <3>2. CASE i \notin D
      BY <2>3, <3>2 DEF Subjects!IInv, Subjects!EnrolledAsSaved
    <3> QED BY <3>1, <3>2
  <2>5. Recedes
    BY <2>1, <2>2, <2>3, <2>4 DEF Recedes, Subjects!IInv, Subjects!TypeOK
  <2> QED BY <2>3, <2>5, EditGoesOn DEF Editing
<1> QED BY <1>1, <1>2

-----------------------------------------------------------------------------
\* The enrolments.
LEMMA EnrolReadKeeps ==
    ASSUME Subjects!IInv, NEW r \in Requests, NEW i \in Ids, Subjects!EnrolRead(r, i)
    PROVE  Subjects!IInv'
<1>1. PICK list \in SUBSET takers :
        Subjects!Becomes(r, [Subjects!Asks("enrol", "clear") EXCEPT !.at = {i}, !.pupils = list])
  BY DEF Subjects!EnrolRead
<1> DEFINE q == [Subjects!Asks("enrol", "clear") EXCEPT !.at = {i}, !.pupils = list]
<1>2. /\ q \in Subjects!Handler /\ q.kind = "enrol" /\ q.step = "clear" /\ q.drops = {} /\ q.at = {i}
  BY AsksEdit DEF Subjects!Handler, Subjects!IInv, Subjects!TypeOK
<1>3. Subjects!Becomes(r, q) /\ Recedes
  BY <1>1, StillRecedes DEF Subjects!EnrolRead
<1> HIDE DEF q
<1>4. Subjects!Knows(q, missed[r])
  BY <1>2 DEF Subjects!Knows, Subjects!AtOne, Subjects!KnowsUses, Subjects!KnowsSections,
              Subjects!KnowsList
<1> QED BY <1>2, <1>3, <1>4, EditGoesOn DEF Editing

LEMMA EnrolClearKeeps ==
    ASSUME Subjects!IInv, NEW r \in Requests, Subjects!EnrolClear(r)
    PROVE  Subjects!IInv'
<1>1. /\ edits[r] \in Subjects!Handler /\ edits[r].step = "clear"
      /\ Subjects!Knows(edits[r], missed[r])
  BY EditAt DEF Subjects!EnrolClear
<1>2. PICK i \in edits[r].at :
        Subjects!Becomes(r, [edits[r] EXCEPT !.step = "fill", !.old = Subjects!Cleared(edits[r], i)])
  BY DEF Subjects!EnrolClear
<1>3. edits[r].at = {i} /\ i \in Ids
  BY <1>1 DEF Subjects!Knows, Subjects!AtOne
<1> DEFINE q == [edits[r] EXCEPT !.step = "fill", !.old = enrolled[i]]
<1>4. /\ q \in Subjects!Handler /\ q.step = "fill" /\ q.old = enrolled[i] /\ q.at = {i}
      /\ q.drops = edits[r].drops /\ q.kind = edits[r].kind
  BY <1>1, <1>3 DEF Subjects!Handler, Subjects!IInv, Subjects!TypeOK
<1>5. Subjects!Becomes(r, q) /\ Recedes
  BY <1>2, StillRecedes DEF Subjects!EnrolClear, Subjects!Cleared
<1>6. q.todo = edits[r].todo
  OBVIOUS
<1> HIDE DEF q
<1>7. Subjects!Knows(q, missed[r])
  BY <1>1, <1>3, <1>4, <1>6
     DEF Subjects!Knows, Subjects!AtOne, Subjects!KnowsUses, Subjects!KnowsSections,
         Subjects!KnowsList
<1> QED BY <1>4, <1>5, <1>7, EditGoesOn DEF Editing

\* The list takes the place of the rows that were cleared.  Another enrolment of the same
\* subject that has cleared rows is told so, and a handler that is to delete the subject.
LEMMA EnrolFillKeeps ==
    ASSUME Subjects!IInv, NEW r \in Requests, Subjects!EnrolFill(r)
    PROVE  Subjects!IInv'
<1> DEFINE q == edits[r]
<1>1. q \in Subjects!Handler /\ q.step = "fill" /\ Subjects!Knows(q, missed[r]) /\ Subjects!TypeOK
  BY EditAt DEF Subjects!EnrolFill, Subjects!IInv
<1>2. PICK i \in q.at :
        /\ Subjects!There(i) /\ ~Subjects!Doomed(i)
        /\ enrolled' = [enrolled EXCEPT ![i] = (@ \ q.old) \cup q.pupils]
        /\ asked' = [asked EXCEPT ![i] = [pupils |-> q.pupils, crossed |-> q.late]]
        /\ edits' = [s \in Requests |->
                      IF s = r THEN Subjects!Idle
                      ELSE IF Subjects!At(s, "fill") /\ edits[s].at = q.at
                      THEN [edits[s] EXCEPT !.old = @ \ q.old, !.late = TRUE]
                      ELSE edits[s]]
        /\ missed' = [s \in Requests |->
                        IF s = r THEN {}
                        ELSE IF q.pupils # {} /\ Subjects!At(s, "drop") /\ edits[s].at = q.at
                        THEN missed[s] \cup {"use"} ELSE missed[s]]
  BY DEF Subjects!EnrolFill
<1>3. q.at = {i} /\ i \in Ids /\ (~q.late => enrolled[i] \subseteq q.old)
  BY <1>1 DEF Subjects!Knows, Subjects!AtOne, Subjects!KnowsList
<1>4. q.pupils \subseteq Takers /\ q.old \subseteq Takers /\ q.late \in BOOLEAN
  BY <1>1 DEF Subjects!Handler
<1>5. UNCHANGED <<where, data, named, takers>>
  BY DEF Subjects!EnrolFill
<1>6. /\ enrolled' \in [Ids -> SUBSET Takers] /\ enrolled'[i] = (enrolled[i] \ q.old) \cup q.pupils
      /\ \A j \in Ids \ {i} : enrolled'[j] = enrolled[j]
  BY <1>1, <1>2, <1>3, <1>4 DEF Subjects!TypeOK
<1> DEFINE note == [pupils |-> q.pupils, crossed |-> q.late]
<1>7. /\ asked' \in [Ids -> [pupils : SUBSET Takers, crossed : BOOLEAN]]
      /\ asked'[i].pupils = q.pupils /\ asked'[i].crossed = q.late
      /\ \A j \in Ids \ {i} : asked'[j] = asked[j]
  <2>1. note \in [pupils : SUBSET Takers, crossed : BOOLEAN] /\ note.pupils = q.pupils
        /\ note.crossed = q.late
    BY <1>4
  <2>2. asked' = [asked EXCEPT ![i] = note]
    BY <1>2
  <2> HIDE DEF note
  <2> QED BY <1>1, <1>3, <2>1, <2>2 DEF Subjects!TypeOK
<1>8. Subjects!EnrolledAsSaved'
  <2> SUFFICES ASSUME NEW j \in Ids
               PROVE  /\ asked'[j].pupils \subseteq enrolled'[j]
                      /\ ~asked'[j].crossed => enrolled'[j] = asked'[j].pupils
    BY DEF Subjects!EnrolledAsSaved
  <2>1. CASE j = i
    BY <1>3, <1>4, <1>6, <1>7, <2>1
  <2>2. CASE j # i
    BY <1>6, <1>7, <2>2 DEF Subjects!IInv, Subjects!EnrolledAsSaved
  <2> QED BY <2>1, <2>2
\* What becomes of the others.
<1>9. ASSUME NEW x \in Requests, x # r
      PROVE  /\ edits'[x] \in Editing
             /\ edits'[x] # Subjects!Idle => /\ edits[x] # Subjects!Idle
                                             /\ edits'[x].kind = edits[x].kind
                                             /\ edits'[x].step = edits[x].step
                                             /\ edits'[x].todo = edits[x].todo
                                             /\ edits'[x].at = edits[x].at
                                             /\ edits'[x].drops = edits[x].drops
             /\ ~(Subjects!At(x, "fill") /\ edits[x].at = q.at) => edits'[x] = edits[x]
             /\ Subjects!At(x, "fill") /\ edits[x].at = q.at => edits'[x].late
  <2>1. CASE Subjects!At(x, "fill") /\ edits[x].at = q.at
    <3>1. edits[x] \in Subjects!Handler /\ edits[x] # Subjects!Idle
      BY <2>1, EditAt
    <3>2. edits'[x] = [edits[x] EXCEPT !.old = @ \ q.old, !.late = TRUE]
      BY <1>2, <1>9, <2>1
    <3> QED BY <2>1, <3>1, <3>2, EditIdle DEF Editing, Subjects!Handler
  <2>2. CASE ~(Subjects!At(x, "fill") /\ edits[x].at = q.at)
    <3>1. edits'[x] = edits[x]
      BY <1>2, <1>9, <2>2
    <3> QED BY <1>1, <2>2, <3>1 DEF Editing, Subjects!TypeOK
  <2> QED BY <2>1, <2>2
<1>10. edits'[r] = Subjects!Idle
  BY <1>2
<1>11. edits' \in [Requests -> Editing]
  <2>1. \A x \in Requests : edits'[x] \in Editing
    BY <1>9, <1>10 DEF Editing
  <2> QED BY <1>2, <2>1
<1>12. /\ missed' \in [Requests -> SUBSET {"use", "section"}]
       /\ \A x \in Requests \ {r} : missed[x] \subseteq missed'[x]
       /\ \A x \in Requests \ {r} :
             q.pupils # {} /\ Subjects!At(x, "drop") /\ edits[x].at = q.at => "use" \in missed'[x]
  BY <1>1, <1>2 DEF Subjects!TypeOK
<1>13. Subjects!TypeOK'
  BY <1>1, <1>5, <1>6, <1>7, <1>11, <1>12 DEF Subjects!TypeOK, Editing
<1> HIDE DEF q, note
<1>14. ASSUME NEW x \in Requests, edits'[x] # Subjects!Idle
       PROVE  Subjects!Knows(edits[x], missed[x])'
  <2>1. x # r /\ edits[x] # Subjects!Idle
    BY <1>9, <1>10, <1>14
  <2>2. edits[x] \in Subjects!Handler /\ Subjects!Knows(edits[x], missed[x])
    BY <2>1, EditActive
  <2>3. /\ edits'[x].kind = edits[x].kind /\ edits'[x].step = edits[x].step
        /\ edits'[x].todo = edits[x].todo /\ edits'[x].at = edits[x].at
        /\ edits'[x].drops = edits[x].drops
    BY <1>9, <1>14, <2>1
  <2>4. Subjects!AtOne(edits[x])'
    BY <2>2, <2>3 DEF Subjects!Knows, Subjects!AtOne
  <2>5. Subjects!KnowsUses(edits[x], missed[x])'
    <3> SUFFICES ASSUME NEW j \in Ids, (edits[x].step = "drop" /\ j \in edits[x].at) \/ j \in edits[x].drops,
                        Subjects!InUse(j)'
                 PROVE  "use" \in missed'[x]
      BY <2>3 DEF Subjects!KnowsUses
    <3>1. CASE Subjects!InUse(j)
      BY <1>12, <2>1, <2>2, <3>1 DEF Subjects!Knows, Subjects!KnowsUses
    <3>2. CASE ~Subjects!InUse(j)
      <4>1. j = i /\ q.pupils # {}
        BY <1>5, <1>6, <3>2 DEF Subjects!InUse
      <4>2. j \notin edits[x].drops
        BY <1>2, <4>1 DEF Subjects!Doomed
      <4>3. Subjects!At(x, "drop") /\ edits[x].at = q.at
        BY <1>3, <2>2, <4>1, <4>2 DEF Subjects!At, Subjects!Knows, Subjects!AtOne
      <4> QED BY <1>12, <2>1, <4>1, <4>3
    <3> QED BY <3>1, <3>2
  <2>6. Subjects!KnowsSections(edits[x], missed[x])'
    BY <1>5, <1>12, <2>1, <2>2, <2>3 DEF Subjects!Knows, Subjects!KnowsSections
  <2>7. Subjects!KnowsList(edits[x])'
    <3>1. CASE Subjects!At(x, "fill") /\ edits[x].at = q.at
      BY <1>9, <2>1, <3>1 DEF Subjects!KnowsList
    <3>2. CASE edits[x].step # "fill"
      BY <2>3, <3>2 DEF Subjects!KnowsList
    <3>3. CASE edits[x].step = "fill" /\ edits[x].at # q.at
      <4>1. edits'[x] = edits[x]
        BY <1>9, <2>1, <3>3 DEF Subjects!At
      <4>2. \A j \in edits[x].at : j # i /\ j \in Ids
        BY <1>3, <2>2, <3>3 DEF Subjects!Knows, Subjects!AtOne
      <4> QED BY <1>6, <2>2, <4>1, <4>2 DEF Subjects!Knows, Subjects!KnowsList
    <3> QED BY <3>1, <3>2, <3>3 DEF Subjects!At
  <2> QED BY <2>4, <2>5, <2>6, <2>7 DEF Subjects!Knows
<1> QED BY <1>8, <1>13, <1>14 DEF Subjects!IInv, Subjects!HandlersKnow

-----------------------------------------------------------------------------
LEMMA SubjectsStep == Subjects!IInv /\ [Subjects!Next]_(Subjects!vars) => Subjects!IInv'
<1> SUFFICES ASSUME Subjects!IInv, [Subjects!Next]_(Subjects!vars) PROVE Subjects!IInv'
  OBVIOUS
<1>1. CASE UNCHANGED Subjects!vars
  <2>1. Recedes /\ UNCHANGED <<edits, missed>> /\ Subjects!TypeOK'
    BY <1>1, StillRecedes DEF Subjects!vars, Subjects!IInv, Subjects!TypeOK
  <2>2. ASSUME NEW x \in Requests, edits'[x] # Subjects!Idle PROVE Subjects!Knows(edits[x], missed[x])'
    <3>1. edits[x] \in Subjects!Handler /\ Subjects!Knows(edits[x], missed[x])
      BY <2>1, <2>2, EditActive
    <3> QED BY <2>1, <3>1, KnowsOnRecession
       DEF Subjects!Knows, Subjects!KnowsUses, Subjects!KnowsSections, Subjects!KnowsList, Subjects!AtOne
  <2> QED BY <2>1, <2>2 DEF Recedes, Subjects!IInv, Subjects!HandlersKnow
<1>2. CASE Subjects!Next
  BY <1>2, RowsKeep, PeopleKeep, CleanKeeps, SelectReadKeeps, TallyKeeps, DropKeepsSubjects,
     CommitKeeps, EnrolReadKeeps, EnrolClearKeeps, EnrolFillKeeps DEF Subjects!Next
<1> QED BY <1>1, <1>2

\* What a handler holds of the subject it is at is what it counted and cleared, or it has
\* been told of what came since.
THEOREM SubjectsInvariance == Subjects!Spec => []Subjects!IInv
<1>1. Subjects!Init => Subjects!IInv
  BY DEF Subjects!Init, Subjects!IInv, Subjects!TypeOK, Subjects!HandlersKnow,
         Subjects!EnrolledAsSaved
<1> QED BY <1>1, SubjectsStep, PTL DEF Subjects!Spec

\* Whoever is on the list saved last takes the subject and, when no two lists were saved at
\* once, nobody else does (subjects.js:437).
THEOREM EnrolledAsTheListSays == Subjects!Spec => []EnrolledAsSaved
BY SubjectsInvariance, PTL DEF Subjects!IInv, EnrolledAsSaved

LEMMA SubjectLost ==
    ASSUME Subjects!IInv, [Subjects!Next]_(Subjects!vars), NEW i \in Ids,
           Subjects!There(i), ~Subjects!There(i)'
    PROVE  \/ Subjects!Delete(i)
           \/ \E r \in Requests :
                 \/ Subjects!CleanMayDrop(r, i)
                 \/ /\ Subjects!At(r, "commit") /\ i \in edits[r].drops
                    /\ Subjects!InUse(i) => "use" \in missed[r]
<1>a. Subjects!TypeOK
  BY DEF Subjects!IInv
<1>b. where'[i] # where[i]
  BY DEF Subjects!There
<1>1. ASSUME NEW j \in Ids, Subjects!Create(j) \/ Subjects!Move(j) PROVE FALSE
  BY <1>a, <1>1 DEF Subjects!Create, Subjects!Move, Subjects!There, Subjects!TypeOK
<1>2. ASSUME NEW j \in Ids, Subjects!Delete(j) PROVE Subjects!Delete(i)
  <2>1. j = i
    BY <1>b, <1>2 DEF Subjects!Delete, Subjects!Remove
  <2> QED BY <1>2, <2>1
<1>3. ASSUME NEW r \in Requests, Subjects!CleanDrop(r) PROVE Subjects!CleanMayDrop(r, i)
  <2>1. /\ edits[r] \in Subjects!Handler /\ edits[r].step = "drop" /\ edits[r].kind = "clean"
        /\ Subjects!Knows(edits[r], missed[r])
    BY <1>3, EditAt DEF Subjects!CleanDrop
  <2>2. i \in edits[r].at
    BY <1>b, <1>3 DEF Subjects!CleanDrop, Subjects!Remove
  <2>3. i \in edits[r].todo
    BY <2>1, <2>2 DEF Subjects!Knows, Subjects!AtOne
  <2> QED BY <2>1, <2>2, <2>3
     DEF Subjects!CleanMayDrop, Subjects!At, Subjects!There, Subjects!Knows, Subjects!KnowsUses,
         Subjects!KnowsSections
<1>4. ASSUME NEW r \in Requests, Subjects!SelectCommit(r)
      PROVE  /\ Subjects!At(r, "commit") /\ i \in edits[r].drops
             /\ Subjects!InUse(i) => "use" \in missed[r]
  <2>1. Subjects!At(r, "commit") /\ Subjects!Knows(edits[r], missed[r])
    BY <1>4, EditAt DEF Subjects!SelectCommit
  <2>2. i \in edits[r].drops
    BY <1>4 DEF Subjects!SelectCommit, Subjects!There
  <2> QED BY <2>1, <2>2 DEF Subjects!Knows, Subjects!KnowsUses
<1> QED BY <1>b, <1>1, <1>2, <1>3, <1>4
    DEF Subjects!Next, Subjects!vars, Subjects!Use, Subjects!Disuse, Subjects!PupilLeaves,
        Subjects!SectionOpens, Subjects!SectionRenamed, Subjects!SectionDeleted,
        Subjects!CleanCount, Subjects!CleanList, Subjects!SelectRead, Subjects!Tally,
        Subjects!SelectDrop, Subjects!EnrolRead, Subjects!EnrolClear, Subjects!EnrolFill,
        Subjects!RequestFails

\* What uses a subject, or the class that it is of, is lost with it only when it came after
\* the count, or by the deletion that asks nothing (subjects.js:281, classes.js:150).
THEOREM OnlyUnusedDropped == Subjects!Spec => UnusedDropped
<1>1. Subjects!IInv /\ [Subjects!Next]_(Subjects!vars) =>
        [\A i \in Ids : Subjects!There(i) /\ ~Subjects!There(i)' =>
            \/ Subjects!Delete(i)
            \/ \E r \in Requests :
                  \/ Subjects!CleanMayDrop(r, i)
                  \/ Subjects!At(r, "commit") /\ i \in edits[r].drops
                       /\ (Subjects!InUse(i) => "use" \in missed[r])]_(Subjects!vars)
  BY SubjectLost
<1> QED BY <1>1, SubjectsInvariance, PTL
   DEF Subjects!Spec, UnusedDropped, Subjects!UnusedDropped

-----------------------------------------------------------------------------
\* The office as a whole keeps what each desk keeps: no desk writes what is another's.
THEOREM OfficeKeeps ==
    OfficeSpec => /\ []PromotedOnce /\ []EnrolledAsSaved
                  /\ LastPrincipalStays /\ PapersHandedOver /\ PhotoLostOnlyByFailure
                  /\ UnusedDropped
<1>1. OfficeInit => Init /\ Accounts!Init /\ Albums!Init /\ Subjects!Init
  BY DEF OfficeInit
<1>2. [OfficeNext]_<<desk, vars, staffVars, albumVars, subjectVars>> =>
        /\ [Next]_vars /\ [Accounts!Next]_(Accounts!vars) /\ [Albums!Next]_(Albums!vars)
        /\ [Subjects!Next]_(Subjects!vars)
  BY DEF OfficeNext, RosterStep, StaffStep, PhotoStep, SubjectStep, staffVars, albumVars,
         subjectVars, Accounts!vars, Albums!vars, Subjects!vars
<1>3. OfficeSpec => Spec /\ Accounts!Spec /\ Albums!Spec /\ Subjects!Spec
  BY <1>1, <1>2, PTL DEF OfficeSpec, Spec, Accounts!Spec, Albums!Spec, Subjects!Spec
<1> QED BY <1>3, PromotedOnceOnly, PrincipalStays, HandedOver, LostOnlyByFailure,
           EnrolledAsTheListSays, OnlyUnusedDropped

=============================================================================
