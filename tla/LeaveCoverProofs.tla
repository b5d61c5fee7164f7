-------------------------- MODULE LeaveCoverProofs --------------------------
(***************************************************************************)
(* What holds of leaves and covers for any number of teachers, leaves,     *)
(* slots, classes and handlers in flight.                                  *)
(***************************************************************************)
EXTENDS LeaveCover, TLAPS

\* The op of a handler tells what record it is.
LEMMA RequestKinds ==
    ASSUME TypeOK, NEW r \in Requests
    PROVE  /\ reqs[r].op = "create" => reqs[r] \in CreateRequest
           /\ reqs[r].op = "patch" => reqs[r] \in PatchRequest
           /\ reqs[r].op = "assign" => reqs[r] \in AssignRequest
           /\ reqs[r] \notin CreateRequest \cup PatchRequest \cup AssignRequest => reqs[r] = Idle
BY DEF TypeOK, CreateRequest, PatchRequest, AssignRequest, Idle

\* Losing a cover row changes what a handler knows of it and nothing else.
LEMMA LosesRow ==
    ASSUME TypeOK, NEW r \in Requests, NEW cells
    PROVE  /\ Loses(reqs[r], cells) \in CreateRequest \cup PatchRequest \cup AssignRequest \cup {Idle}
           /\ Loses(reqs[r], cells).op = reqs[r].op
           /\ reqs[r].op = "patch" => Loses(reqs[r], cells) = reqs[r]
           /\ reqs[r].op = "assign" => /\ Loses(reqs[r], cells).sub = reqs[r].sub
                                       /\ Loses(reqs[r], cells).cell = reqs[r].cell
<1>1. CASE reqs[r].op = "assign"
  <2>1. reqs[r] \in AssignRequest
    BY <1>1, RequestKinds
  <2> QED BY <1>1, <2>1 DEF Loses, AssignRequest
<1>2. CASE reqs[r].op # "assign"
  BY <1>2 DEF Loses, TypeOK
<1> QED BY <1>1, <1>2

-----------------------------------------------------------------------------
(***************************************************************************)
(* What each action keeps of the type and of the rows handlers point at.   *)
(***************************************************************************)
Typed == TypeOK /\ PatchedRowExists

LEMMA CreateCheckTyped ==
    ASSUME Typed, NEW r \in Requests, NEW t \in Teachers, NEW span \in Spans,
           NEW by \in {"approver", "owner"}, CreateCheck(r, t, span, by)
    PROVE  Typed'
<1>1. [op |-> "create", leave |-> [teacher |-> t, span |-> span,
           status |-> IF by = "approver" THEN "ACTIVE" ELSE "PENDING"]] \in CreateRequest
  BY DEF CreateRequest, Leave, Statuses, Open
<1>2. TypeOK'
  BY <1>1 DEF CreateCheck, Start, Becomes, Typed, TypeOK
<1>3. PatchedRowExists'
  BY DEF CreateCheck, Start, Becomes, Typed, TypeOK, PatchedRowExists, Exists
<1> QED BY <1>2, <1>3 DEF Typed

LEMMA CreateWriteTyped ==
    ASSUME Typed, NEW r \in Requests, CreateWrite(r)
    PROVE  Typed'
<1>1. reqs[r].leave \in Leave /\ reqs[r].leave # NoLeave
  BY RequestKinds, Distinguished DEF CreateWrite, CreateRequest, Typed
<1>2. TypeOK'
  BY <1>1 DEF CreateWrite, Writes, Typed, TypeOK
<1>3. PatchedRowExists'
  BY <1>1 DEF CreateWrite, Writes, Typed, TypeOK, PatchedRowExists, Exists, Idle
<1> QED BY <1>2, <1>3 DEF Typed

LEMMA PatchReadTyped ==
    ASSUME Typed, NEW r \in Requests, NEW by \in {"approver", "owner"}, NEW l \in Leaves,
           NEW span \in Spans \cup {Same}, NEW to \in Statuses \cup {Same},
           PatchRead(r, by, l, span, to)
    PROVE  Typed'
<1>1. Status(l) \in Statuses
  BY DEF PatchRead, Exists, Status, Leave, Typed, TypeOK
<1>2. [op |-> "patch", step |-> IF span = Same THEN "write" ELSE "check",
       id |-> l, by |-> by, read |-> Status(l), span |-> span, to |-> to,
       drops |-> IF Status(l) = "ACTIVE" /\ to = "CANCELLED" THEN 2 ELSE 0] \in PatchRequest
  BY <1>1 DEF PatchRequest
<1>3. TypeOK'
  BY <1>2 DEF PatchRead, Start, Becomes, Typed, TypeOK
<1>4. PatchedRowExists'
  BY DEF PatchRead, Start, Becomes, Typed, TypeOK, PatchedRowExists, Exists
<1> QED BY <1>3, <1>4 DEF Typed

LEMMA DeleteReadTyped ==
    ASSUME Typed, NEW r \in Requests, NEW by \in {"approver", "owner"}, NEW l \in Leaves,
           DeleteRead(r, by, l)
    PROVE  Typed'
<1>1. Status(l) \in Statuses
  BY DEF DeleteRead, Exists, Status, Leave, Typed, TypeOK
<1>2. [op |-> "patch", step |-> "write", id |-> l, by |-> by,
       read |-> Status(l), span |-> Same, to |-> "CANCELLED",
       drops |-> IF Status(l) = "ACTIVE" THEN 1 ELSE 0] \in PatchRequest
  BY <1>1 DEF PatchRequest, Statuses, Closed
<1>3. TypeOK'
  BY <1>2 DEF DeleteRead, Start, Becomes, Typed, TypeOK
<1>4. PatchedRowExists'
  BY DEF DeleteRead, Start, Becomes, Typed, TypeOK, PatchedRowExists, Exists
<1> QED BY <1>3, <1>4 DEF Typed

LEMMA PatchCheckTyped ==
    ASSUME Typed, NEW r \in Requests, PatchCheck(r)
    PROVE  Typed'
<1>1. reqs[r] \in PatchRequest
  BY RequestKinds DEF PatchCheck, At, Typed
<1>2. [reqs[r] EXCEPT !.step = "write"] \in PatchRequest
  BY <1>1 DEF PatchRequest
<1>3. TypeOK'
  BY <1>2 DEF PatchCheck, Becomes, Typed, TypeOK
<1>4. PatchedRowExists'
  BY <1>1 DEF PatchCheck, Becomes, Typed, TypeOK, PatchedRowExists, PatchRequest, Exists, Idle
<1> QED BY <1>3, <1>4 DEF Typed

\* What the update of a leave does to the row, and to the others.
LEMMA PatchWriteRow ==
    ASSUME Typed, NEW r \in Requests, PatchWrite(r)
    PROVE  LET q == reqs[r]
           IN  /\ q \in PatchRequest
               /\ leaves[q.id] \in Leave
               /\ leaves'[q.id] \in Leave
               /\ leaves'[q.id].status = IF q.to = Same THEN leaves[q.id].status ELSE q.to
               /\ leaves'[q.id].span = IF q.span = Same THEN leaves[q.id].span ELSE q.span
               /\ leaves'[q.id].teacher = leaves[q.id].teacher
               /\ \A l \in Leaves \ {q.id} : leaves'[l] = leaves[l]
<1> DEFINE q == reqs[r]
           span == IF q.span = Same THEN leaves[q.id].span ELSE q.span
           status == IF q.to = Same THEN leaves[q.id].status ELSE q.to
<1>1. q \in PatchRequest
  BY RequestKinds DEF PatchWrite, At, Typed
<1>2. leaves[q.id] \in Leave /\ q.id \in Leaves
  BY <1>1 DEF PatchRequest, PatchWrite, At, Typed, TypeOK, PatchedRowExists, Exists
<1>3. leaves' = [leaves EXCEPT ![q.id] = [leaves[q.id] EXCEPT !.span = span, !.status = status]]
  BY <1>2 DEF PatchWrite, Typed, TypeOK, Leave
<1>4. leaves'[q.id] = [leaves[q.id] EXCEPT !.span = span, !.status = status]
  BY <1>2, <1>3 DEF Typed, TypeOK
<1>5. span \in Spans /\ status \in Statuses
  BY <1>1, <1>2 DEF PatchRequest, Leave
<1>6. \A l \in Leaves \ {q.id} : leaves'[l] = leaves[l]
  BY <1>3 DEF Typed, TypeOK
<1> HIDE DEF span
<1>7. /\ leaves'[q.id] \in Leave /\ leaves'[q.id].status = status
      /\ leaves'[q.id].span = span /\ leaves'[q.id].teacher = leaves[q.id].teacher
  BY <1>2, <1>4, <1>5 DEF Leave
<1> QED BY <1>1, <1>2, <1>6, <1>7 DEF span

LEMMA PatchWriteTyped ==
    ASSUME Typed, NEW r \in Requests, PatchWrite(r)
    PROVE  Typed'
<1> DEFINE q == reqs[r]
<1>1. /\ q \in PatchRequest /\ leaves'[q.id] \in Leave
      /\ \A l \in Leaves \ {q.id} : leaves'[l] = leaves[l]
  BY PatchWriteRow
<1>2. leaves' \in [Leaves -> Leave \cup {NoLeave}]
  BY <1>1 DEF PatchWrite, Typed, TypeOK
<1>3. [q EXCEPT !.step = "drop"] \in PatchRequest /\ [q EXCEPT !.step = "drop"].id = q.id
  BY <1>1 DEF PatchRequest
<1>4. TypeOK'
  BY <1>2, <1>3 DEF PatchWrite, Writes, Typed, TypeOK
<1>5. leaves'[q.id] # NoLeave
  BY <1>1, Distinguished
<1>6. PatchedRowExists'
  <2> SUFFICES ASSUME NEW x \in Requests, reqs'[x].op = "patch" PROVE leaves'[reqs'[x].id] # NoLeave
    BY DEF PatchedRowExists, Exists
  <2>1. reqs'[x].id = reqs[x].id /\ reqs[x].op = "patch"
    BY <1>1, <1>3 DEF PatchWrite, Writes, At, Typed, TypeOK, Idle
  <2>2. reqs[x].id \in Leaves /\ leaves[reqs[x].id] # NoLeave
    BY <2>1, RequestKinds DEF Typed, PatchRequest, PatchedRowExists, Exists
  <2> QED BY <1>1, <1>5, <2>1, <2>2
<1> QED BY <1>4, <1>6 DEF Typed

\* Rows that are deleted: what the handlers in flight make of it.
LEMMA PatchDropTyped ==
    ASSUME Typed, CancelsOweDrops, NEW r \in Requests, PatchDrop(r)
    PROVE  Typed'
<1> DEFINE q == reqs[r]
           mine == {c \in Cells : covers[c] # NoCover /\ covers[c].leave = q.id}
           next == [q EXCEPT !.drops = @ - 1]
<1>1. q \in PatchRequest /\ q.drops \in {1, 2}
  BY RequestKinds DEF PatchDrop, At, Typed, CancelsOweDrops, PatchRequest
<1>2. q.drops # 1 => next \in PatchRequest /\ next.id = q.id
  BY <1>1 DEF PatchRequest
<1>3. reqs' = [x \in Requests |-> IF x # r THEN Loses(reqs[x], mine)
                                  ELSE IF q.drops = 1 THEN Idle ELSE next]
  BY DEF PatchDrop
<1> HIDE DEF next, mine
<1>4. reqs' \in [Requests -> CreateRequest \cup PatchRequest \cup AssignRequest \cup {Idle}]
  BY <1>2, <1>3, LosesRow DEF Typed
<1>5. TypeOK'
  BY <1>4 DEF PatchDrop, Delete, Typed, TypeOK
<1>6. PatchedRowExists'
  <2> SUFFICES ASSUME NEW x \in Requests, reqs'[x].op = "patch" PROVE leaves'[reqs'[x].id] # NoLeave
    BY DEF PatchedRowExists, Exists
  <2>1. x = r \/ reqs'[x] = reqs[x]
    BY <1>3, LosesRow DEF Typed
  <2>2. reqs'[x].id = reqs[x].id /\ reqs[x].op = "patch"
    BY <1>1, <1>2, <1>3, <2>1 DEF Idle, PatchDrop, At
  <2> QED BY <2>2 DEF Typed, PatchedRowExists, Exists, PatchDrop
<1> QED BY <1>5, <1>6 DEF Typed

LEMMA RemoveTyped ==
    ASSUME Typed, NEW cell \in Cells, Remove(cell)
    PROVE  Typed'
<1>1. reqs' = [x \in Requests |-> Loses(reqs[x], {cell})]
  BY DEF Remove
<1>2. reqs' \in [Requests -> CreateRequest \cup PatchRequest \cup AssignRequest \cup {Idle}]
  BY <1>1, LosesRow DEF Typed
<1>3. TypeOK'
  BY <1>2 DEF Remove, Delete, Typed, TypeOK
<1>4. PatchedRowExists'
  BY <1>1, LosesRow DEF Remove, Typed, PatchedRowExists, Exists
<1> QED BY <1>3, <1>4 DEF Typed

LEMMA AssignReadTyped ==
    ASSUME Typed, NEW r \in Requests, NEW orig \in Teachers, NEW sub \in Teachers,
           NEW cell \in Cells, NEW l \in Leaves, AssignRead(r, orig, sub, cell, l)
    PROVE  Typed'
<1>1. PICK step \in {"leave", "find"} :
          Start(r, [op |-> "assign", step |-> step, id |-> l, cell |-> cell,
                    orig |-> orig, sub |-> sub, row |-> "none"])
  BY DEF AssignRead
<1>2. [op |-> "assign", step |-> step, id |-> l, cell |-> cell,
       orig |-> orig, sub |-> sub, row |-> "none"] \in AssignRequest
  BY DEF AssignRequest
<1>3. TypeOK'
  BY <1>1, <1>2 DEF AssignRead, Start, Becomes, Typed, TypeOK
<1>4. PatchedRowExists'
  BY <1>1 DEF AssignRead, Start, Becomes, Typed, TypeOK, PatchedRowExists, Exists
<1> QED BY <1>3, <1>4 DEF Typed

LEMMA AssignLeaveTyped ==
    ASSUME Typed, NEW r \in Requests, AssignLeave(r)
    PROVE  Typed'
<1>1. reqs[r] \in AssignRequest
  BY RequestKinds DEF AssignLeave, At, Typed
<1>2. [reqs[r] EXCEPT !.step = "find"] \in AssignRequest
  BY <1>1 DEF AssignRequest
<1>3. TypeOK'
  BY <1>2 DEF AssignLeave, Becomes, Typed, TypeOK
<1>4. [reqs[r] EXCEPT !.step = "find"].op = "assign"
  BY <1>1 DEF AssignRequest
<1>5. PatchedRowExists'
  BY <1>4 DEF AssignLeave, Becomes, Typed, TypeOK, PatchedRowExists, Exists, Idle
<1> QED BY <1>3, <1>5 DEF Typed

LEMMA AssignFindTyped ==
    ASSUME Typed, NEW r \in Requests, AssignFind(r)
    PROVE  Typed'
<1> DEFINE q == reqs[r]
           next == [q EXCEPT !.step = "write",
                             !.row = IF covers[q.cell] = NoCover THEN "none" ELSE "held"]
<1>1. q \in AssignRequest
  BY RequestKinds DEF AssignFind, At, Typed
<1>2. next \in AssignRequest /\ next.op = "assign"
  BY <1>1 DEF AssignRequest
<1>3. /\ reqs' = [reqs EXCEPT ![r] = next] /\ UNCHANGED <<leaves, covers>>
      /\ behind' \subseteq behind
  BY DEF AssignFind, Becomes
<1> HIDE DEF next
<1>4. TypeOK'
  BY <1>2, <1>3 DEF Typed, TypeOK
<1>5. PatchedRowExists'
  BY <1>2, <1>3 DEF Typed, TypeOK, PatchedRowExists, Exists
<1> QED BY <1>4, <1>5 DEF Typed

LEMMA AssignWriteTyped ==
    ASSUME Typed, NEW r \in Requests, AssignWrite(r)
    PROVE  Typed'
<1> DEFINE q == reqs[r]
<1>1. q \in AssignRequest
  BY RequestKinds DEF AssignWrite, At, Typed
<1>2. [leave |-> q.id, orig |-> q.orig, sub |-> q.sub] \in Cover /\ q.cell \in Cells
  BY <1>1 DEF AssignRequest, Cover
<1>3. TypeOK'
  BY <1>2 DEF AssignWrite, Ends, Becomes, Typed, TypeOK
<1>4. PatchedRowExists'
  BY DEF AssignWrite, Ends, Becomes, Typed, TypeOK, PatchedRowExists, Exists, Idle
<1> QED BY <1>3, <1>4 DEF Typed

LEMMA RequestFailsTyped ==
    ASSUME Typed, NEW r \in Requests, RequestFails(r)
    PROVE  Typed'
BY DEF RequestFails, Ends, Becomes, Typed, TypeOK, PatchedRowExists, Exists, Idle

LEMMA TypedStep == Typed /\ CancelsOweDrops /\ [Next]_vars => Typed'
<1> SUFFICES ASSUME Typed, CancelsOweDrops, [Next]_vars PROVE Typed'
  OBVIOUS
<1>1. ASSUME NEW r \in Requests, Arrives(r) PROVE Typed'
  BY <1>1, CreateCheckTyped, PatchReadTyped, DeleteReadTyped, AssignReadTyped DEF Arrives
<1>2. ASSUME NEW r \in Requests, Step(r) PROVE Typed'
  BY <1>2, CreateWriteTyped, PatchCheckTyped, PatchWriteTyped, PatchDropTyped,
     AssignLeaveTyped, AssignFindTyped, AssignWriteTyped DEF Step
<1>3. CASE UNCHANGED vars
  BY <1>3 DEF vars, Typed, TypeOK, PatchedRowExists, Exists
<1> QED BY <1>1, <1>2, <1>3, RemoveTyped, RequestFailsTyped DEF Next

-----------------------------------------------------------------------------
(***************************************************************************)
(* Covers.  Only AssignWrite writes one; PatchDrop and Remove delete some. *)
(***************************************************************************)
\* The steps of each kind, by what they do to the covers.
LEMMA CoverSteps ==
    ASSUME Typed, [Next]_vars
    PROVE  \/ UNCHANGED covers
           \/ \E cells \in SUBSET Cells : Delete(cells)
           \/ \E r \in Requests : AssignWrite(r)
<1>1. ASSUME NEW r \in Requests, Arrives(r) PROVE UNCHANGED covers
  BY <1>1 DEF Arrives, CreateCheck, PatchRead, DeleteRead, AssignRead
<1>2. ASSUME NEW r \in Requests, PatchDrop(r) PROVE \E cells \in SUBSET Cells : Delete(cells)
  <2> DEFINE mine == {c \in Cells : covers[c] # NoCover /\ covers[c].leave = reqs[r].id}
  <2>1. mine \in SUBSET Cells /\ Delete(mine)
    BY <1>2 DEF PatchDrop
  <2> QED BY <2>1
<1>3. ASSUME NEW r \in Requests, Step(r), ~PatchDrop(r), ~AssignWrite(r) PROVE UNCHANGED covers
  BY <1>3 DEF Step, CreateWrite, PatchCheck, PatchWrite, AssignLeave, AssignFind
<1>4. ASSUME NEW cell \in Cells, Remove(cell) PROVE \E cells \in SUBSET Cells : Delete(cells)
  <2>1. {cell} \in SUBSET Cells /\ Delete({cell})
    BY <1>4 DEF Remove
  <2> QED BY <2>1
<1>5. ASSUME NEW r \in Requests, RequestFails(r) PROVE UNCHANGED covers
  BY <1>5 DEF RequestFails
<1>6. CASE UNCHANGED vars
  BY <1>6 DEF vars
<1> QED BY <1>1, <1>2, <1>3, <1>4, <1>5, <1>6 DEF Next, Step

-----------------------------------------------------------------------------
(***************************************************************************)
(* Handlers that cancel know that they have covers to drop.                *)
(***************************************************************************)
Owes(q) ==
    q.op = "patch" => /\ q.step = "drop" => q.drops # 0
                      /\ (q.read = "ACTIVE" /\ q.to \notin {"ACTIVE", Same}) => q.drops # 0

LEMMA OwedStep == Typed /\ CancelsOweDrops /\ [Next]_vars => CancelsOweDrops'
<1> SUFFICES ASSUME Typed, \A r \in Requests : Owes(reqs[r]), [Next]_vars,
                    NEW x \in Requests
             PROVE  Owes(reqs'[x])
  BY DEF CancelsOweDrops, Owes
<1> USE DEF Typed, TypeOK
<1>1. ASSUME NEW r \in Requests, Arrives(r) PROVE Owes(reqs'[x])
  <2>1. ASSUME NEW t \in Teachers, NEW span \in Spans, NEW by \in {"approver", "owner"},
               CreateCheck(r, t, span, by)
        PROVE Owes(reqs'[x])
    BY <2>1 DEF CreateCheck, Start, Becomes, Owes
  <2>2. ASSUME NEW by \in {"approver", "owner"}, NEW l \in Leaves, DeleteRead(r, by, l)
        PROVE Owes(reqs'[x])
    BY <2>2 DEF DeleteRead, Start, Becomes, Owes
  <2>3. ASSUME NEW by \in {"approver", "owner"}, NEW l \in Leaves, NEW span \in Spans \cup {Same},
               NEW to \in Statuses \cup {Same}, PatchRead(r, by, l, span, to)
        PROVE Owes(reqs'[x])
    BY <2>3, Distinguished DEF PatchRead, Start, Becomes, Owes, MayBecome, Statuses, Open, Closed
  <2>4. ASSUME NEW orig \in Teachers, NEW sub \in Teachers, NEW cell \in Cells, NEW l \in Leaves,
               AssignRead(r, orig, sub, cell, l)
        PROVE Owes(reqs'[x])
    BY <2>4 DEF AssignRead, Start, Becomes, Owes
  <2> QED BY <1>1, <2>1, <2>2, <2>3, <2>4 DEF Arrives
<1>2. ASSUME NEW r \in Requests, Ends(r) PROVE Owes(reqs'[x])
  BY <1>2 DEF Ends, Becomes, Owes, Idle
<1>3. ASSUME NEW r \in Requests, PatchCheck(r) PROVE Owes(reqs'[x])
  <2>1. reqs[r] \in PatchRequest
    BY <1>3, RequestKinds DEF PatchCheck, At
  <2>2. Owes([reqs[r] EXCEPT !.step = "write"])
    BY <2>1 DEF Owes, PatchRequest
  <2> QED BY <1>3, <2>2 DEF PatchCheck, Becomes, Owes, Idle
<1>4. ASSUME NEW r \in Requests, PatchWrite(r) PROVE Owes(reqs'[x])
  <2>1. reqs[r] \in PatchRequest
    BY <1>4, RequestKinds DEF PatchWrite, At
  <2>2. reqs[r].drops # 0 => Owes([reqs[r] EXCEPT !.step = "drop"])
    BY <2>1 DEF Owes, PatchRequest
  <2> QED BY <1>4, <2>2 DEF PatchWrite, Writes, Owes, Idle
<1>5. ASSUME NEW r \in Requests, PatchDrop(r) PROVE Owes(reqs'[x])
  <2> DEFINE q == reqs[r]
             mine == {c \in Cells : covers[c] # NoCover /\ covers[c].leave = q.id}
             next == [q EXCEPT !.drops = @ - 1]
  <2>1. q \in PatchRequest /\ q.drops # 0
    BY <1>5, RequestKinds DEF PatchDrop, At, Owes
  <2>2. q.drops # 1 => Owes(next)
    BY <2>1 DEF Owes, PatchRequest
  <2>3. reqs'[x] = IF x # r THEN Loses(reqs[x], mine) ELSE IF q.drops = 1 THEN Idle ELSE next
    BY <1>5 DEF PatchDrop
  <2> HIDE DEF mine, next
  <2> QED BY <2>2, <2>3, LosesRow DEF Owes, Idle
<1>6. ASSUME NEW r \in Requests, AssignLeave(r) \/ AssignFind(r) PROVE Owes(reqs'[x])
  <2> DEFINE q == reqs[r]
             found == [q EXCEPT !.step = "find"]
             held == [q EXCEPT !.step = "write",
                               !.row = IF covers[q.cell] = NoCover THEN "none" ELSE "held"]
  <2>1. q \in AssignRequest
    BY <1>6, RequestKinds DEF AssignLeave, AssignFind, At
  <2>2. found.op = "assign" /\ held.op = "assign"
    BY <2>1 DEF AssignRequest
  <2>3. reqs'[x] \in {reqs[x], Idle, found, held}
    BY <1>6 DEF AssignLeave, AssignFind, Becomes
  <2> HIDE DEF found, held
  <2> QED BY <2>2, <2>3 DEF Owes, Idle
<1>7. ASSUME NEW cell \in Cells, Remove(cell) PROVE Owes(reqs'[x])
  BY <1>7, LosesRow DEF Remove, Owes
<1>8. ASSUME NEW r \in Requests, CreateWrite(r) PROVE Owes(reqs'[x])
  BY <1>8 DEF CreateWrite, Writes, Owes, Idle
<1>9. CASE UNCHANGED vars
  BY <1>9 DEF vars
<1> QED BY <1>1, <1>2, <1>3, <1>4, <1>5, <1>6, <1>7, <1>8, <1>9
        DEF Next, Step, AssignWrite, RequestFails

-----------------------------------------------------------------------------
(***************************************************************************)
(* What handlers know of the leaves.  Only CreateWrite and PatchWrite      *)
(* write one, and they put those that look at the same teacher behind.     *)
(***************************************************************************)
LEMMA KnowsNothing == \A q : q.op \notin {"create", "patch", "assign"} => Knows(q)
BY DEF Knows

LEMMA KnowsPresence == \A q : q.op = "assign" => (Knows(q) <=> ~OnLeave(q.sub, q.cell[1]))
BY DEF Knows

\* While no leave is written, what is known stays so.
LEMMA KnowsStill ==
    ASSUME UNCHANGED leaves, NEW q, Knows(q), NEW x, reqs'[x] = q
    PROVE  Knows(reqs[x])'
BY DEF Knows, Conflicts, OnLeave, Absent, Active, Exists, Status

\* So it does when the row that is written is of another teacher.
LEMMA KnowsElsewhere ==
    ASSUME NEW l \in Leaves, \A m \in Leaves \ {l} : leaves'[m] = leaves[m],
           NEW t, Exists(l) => leaves[l].teacher = t, leaves'[l].teacher = t,
           NEW q, Knows(q), ~LooksAt(q, t), q.op = "patch" => q.id \in Leaves /\ Exists(q.id),
           NEW x, reqs'[x] = q
    PROVE  Knows(reqs[x])'
<1>1. ASSUME NEW u, u # t, NEW span, NEW ids \in SUBSET Leaves, ~Conflicts(u, span, ids)
      PROVE  ~Conflicts(u, span, ids)'
  BY <1>1 DEF Conflicts, Exists, Status
<1>2. CASE q.op = "create"
  BY <1>1, <1>2 DEF Knows, LooksAt
<1>3. CASE q.op = "patch" /\ q.step # "drop"
  <2>1. q.id # l /\ leaves[q.id].teacher # t
    BY <1>3 DEF LooksAt
  <2>2. leaves'[q.id] = leaves[q.id] /\ Leaves \ {q.id} \in SUBSET Leaves
    BY <1>3, <2>1
  <2>3. q.step = "write" /\ q.span # Same =>
           ~Conflicts(leaves[q.id].teacher, q.span, Leaves \ {q.id})'
    BY <1>1, <1>3, <2>1, <2>2 DEF Knows
  <2> QED BY <1>3, <2>2, <2>3 DEF Knows, Status
<1>4. CASE q.op = "assign"
  <2>1. q.sub # t /\ ~OnLeave(q.sub, q.cell[1])
    BY <1>4, KnowsPresence DEF LooksAt
  <2>2. \A m \in Leaves : Absent(m, q.sub, q.cell[1])' => Absent(m, q.sub, q.cell[1])
    BY <2>1 DEF Absent, Active, Exists, Status
  <2>3. ~OnLeave(q.sub, q.cell[1])'
    BY <2>1, <2>2 DEF OnLeave
  <2> QED BY <1>4, <2>3 DEF Knows
<1>5. CASE q.op \notin {"create", "patch", "assign"} \/ (q.op = "patch" /\ q.step = "drop")
  BY <1>5 DEF Knows
<1> QED BY <1>2, <1>3, <1>4, <1>5

\* A handler that starts knows what it has just read.
LEMMA ArrivesKnowing ==
    ASSUME NEW r \in Requests, Arrives(r)
    PROVE  \E q : Start(r, q) /\ Knows(q) /\ UNCHANGED leaves
<1>1. ASSUME NEW t \in Teachers, NEW span \in Spans, NEW by \in {"approver", "owner"},
             CreateCheck(r, t, span, by)
      PROVE \E q : Start(r, q) /\ Knows(q) /\ UNCHANGED leaves
  <2> DEFINE q == [op |-> "create",
                   leave |-> [teacher |-> t, span |-> span,
                              status |-> IF by = "approver" THEN "ACTIVE" ELSE "PENDING"]]
  <2>1. Knows(q)
    BY <1>1 DEF Knows, CreateCheck, Open
  <2> QED BY <1>1, <2>1 DEF CreateCheck
<1>2. ASSUME NEW by \in {"approver", "owner"}, NEW l \in Leaves, DeleteRead(r, by, l)
      PROVE \E q : Start(r, q) /\ Knows(q) /\ UNCHANGED leaves
  <2> DEFINE q == [op |-> "patch", step |-> "write", id |-> l, by |-> by,
                   read |-> Status(l), span |-> Same, to |-> "CANCELLED",
                   drops |-> IF Status(l) = "ACTIVE" THEN 1 ELSE 0]
  <2>1. Knows(q)
    BY <1>2 DEF Knows, DeleteRead, MayBecome, Open
  <2> QED BY <1>2, <2>1 DEF DeleteRead
<1>3. ASSUME NEW by \in {"approver", "owner"}, NEW l \in Leaves, NEW span \in Spans \cup {Same},
             NEW to \in Statuses \cup {Same}, PatchRead(r, by, l, span, to)
      PROVE \E q : Start(r, q) /\ Knows(q) /\ UNCHANGED leaves
  <2> DEFINE q == [op |-> "patch", step |-> IF span = Same THEN "write" ELSE "check",
                   id |-> l, by |-> by, read |-> Status(l), span |-> span, to |-> to,
                   drops |-> IF Status(l) = "ACTIVE" /\ to = "CANCELLED" THEN 2 ELSE 0]
  <2>1. Knows(q)
    BY <1>3 DEF Knows, PatchRead
  <2> QED BY <1>3, <2>1 DEF PatchRead
<1>4. ASSUME NEW orig \in Teachers, NEW sub \in Teachers, NEW cell \in Cells, NEW l \in Leaves,
             AssignRead(r, orig, sub, cell, l)
      PROVE \E q : Start(r, q) /\ Knows(q) /\ UNCHANGED leaves
  <2>1. PICK step \in {"leave", "find"} :
            Start(r, [op |-> "assign", step |-> step, id |-> l, cell |-> cell,
                      orig |-> orig, sub |-> sub, row |-> "none"])
    BY <1>4 DEF AssignRead
  <2>2. Knows([op |-> "assign", step |-> step, id |-> l, cell |-> cell,
               orig |-> orig, sub |-> sub, row |-> "none"])
    BY <1>4, KnowsPresence DEF AssignRead, Eligible
  <2> QED BY <1>4, <2>1, <2>2 DEF AssignRead
<1> QED BY <1>1, <1>2, <1>3, <1>4 DEF Arrives

\* The handler goes on with q, and no leave is written.
LEMMA GoesOnKnowing ==
    ASSUME Typed, UpToDate, NEW r \in Requests, NEW q, Becomes(r, q), UNCHANGED leaves,
           r \notin behind => Knows(q)
    PROVE  UpToDate'
<1> SUFFICES ASSUME NEW x \in Requests, x \notin behind' PROVE Knows(reqs[x])'
  BY DEF UpToDate
<1>1. CASE x # r
  <2>1. reqs'[x] = reqs[x] /\ x \notin behind
    BY <1>1 DEF Becomes, Typed, TypeOK
  <2> QED BY <2>1, KnowsStill DEF UpToDate
<1>2. CASE x = r
  <2>1. reqs'[x] = q
    BY <1>2 DEF Becomes, Typed, TypeOK
  <2>2. Knows(q)
    BY <1>2, KnowsNothing DEF Becomes, Idle
  <2> QED BY <2>1, <2>2, KnowsStill
<1> QED BY <1>1, <1>2

\* The handler goes on with q after it has written the leave l of t.
LEMMA WritesKnowing ==
    ASSUME Typed, UpToDate, NEW r \in Requests, NEW q, NEW l \in Leaves, NEW t,
           Writes(r, t, q), \A m \in Leaves \ {l} : leaves'[m] = leaves[m],
           Exists(l) => leaves[l].teacher = t, leaves'[l].teacher = t,
           q.op = "patch" => q.step = "drop", q.op \notin {"create", "assign"}
    PROVE  UpToDate'
<1> SUFFICES ASSUME NEW x \in Requests, x \notin behind' PROVE Knows(reqs[x])'
  BY DEF UpToDate
<1>1. CASE x # r
  <2>1. reqs'[x] = reqs[x] /\ x \notin behind /\ ~LooksAt(reqs[x], t)
    BY <1>1 DEF Writes, Typed, TypeOK
  <2>2. reqs[x].op = "patch" => reqs[x].id \in Leaves /\ Exists(reqs[x].id)
    BY RequestKinds DEF Typed, PatchRequest, PatchedRowExists
  <2>3. Knows(reqs[x])
    BY <2>1 DEF UpToDate
  <2> QED BY <2>1, <2>2, <2>3, KnowsElsewhere
<1>2. CASE x = r
  <2>1. reqs'[x] = q
    BY <1>2 DEF Writes, Typed, TypeOK
  <2> QED BY <2>1 DEF Knows
<1> QED BY <1>1, <1>2

\* A cover row that is lost is no leave.
LEMMA LosesKnowing ==
    ASSUME Typed, NEW x \in Requests, Knows(reqs[x]), NEW cells
    PROVE  Knows(Loses(reqs[x], cells))
<1>1. CASE reqs[x].op = "assign"
  BY <1>1, LosesRow, KnowsPresence DEF Typed
<1>2. CASE reqs[x].op # "assign"
  BY <1>2 DEF Loses
<1> QED BY <1>1, <1>2

LEMMA KnownStep == Typed /\ CancelsOweDrops /\ UpToDate /\ [Next]_vars => UpToDate'
<1> SUFFICES ASSUME Typed, CancelsOweDrops, UpToDate, [Next]_vars PROVE UpToDate'
  OBVIOUS
<1>1. ASSUME NEW r \in Requests, Arrives(r) PROVE UpToDate'
  <2>1. PICK q : Start(r, q) /\ Knows(q) /\ UNCHANGED leaves
    BY <1>1, ArrivesKnowing
  <2> QED BY <2>1, GoesOnKnowing DEF Start
<1>2. ASSUME NEW r \in Requests, Ends(r), UNCHANGED leaves PROVE UpToDate'
  BY <1>2, GoesOnKnowing, KnowsNothing DEF Ends, Idle
<1>3. ASSUME NEW r \in Requests, PatchCheck(r) PROVE UpToDate'
  <2> DEFINE q == reqs[r]
             next == [q EXCEPT !.step = "write"]
  <2>1. q \in PatchRequest
    BY <1>3, RequestKinds DEF PatchCheck, At, Typed
  <2>2. CASE Conflicts(leaves[q.id].teacher, q.span, Leaves \ {q.id})
    BY <1>2, <1>3, <2>2 DEF PatchCheck, Ends
  <2>3. CASE ~Conflicts(leaves[q.id].teacher, q.span, Leaves \ {q.id})
    <3>1. /\ next.op = "patch" /\ next.id = q.id /\ next.span = q.span
          /\ next.read = q.read /\ next.to = q.to
      BY <2>1 DEF PatchRequest
    <3>2. r \notin behind => Knows(next)
      BY <1>3, <2>3, <3>1 DEF UpToDate, Knows, PatchCheck, At
    <3>3. Becomes(r, next) /\ UNCHANGED leaves
      BY <1>3, <2>3 DEF PatchCheck
    <3> HIDE DEF next
    <3> QED BY <3>2, <3>3, GoesOnKnowing
  <2> QED BY <2>2, <2>3
<1>4. ASSUME NEW r \in Requests, AssignLeave(r) \/ AssignFind(r) PROVE UpToDate'
  <2> DEFINE q == reqs[r]
             found == [q EXCEPT !.step = "find"]
             held == [q EXCEPT !.step = "write",
                               !.row = IF covers[q.cell] = NoCover THEN "none" ELSE "held"]
  <2>1. q \in AssignRequest
    BY <1>4, RequestKinds DEF AssignLeave, AssignFind, At, Typed
  <2>2. /\ found.op = "assign" /\ found.sub = q.sub /\ found.cell = q.cell
        /\ held.op = "assign" /\ held.sub = q.sub /\ held.cell = q.cell
        /\ q.op = "assign" /\ Idle.op = "none"
    BY <2>1 DEF AssignRequest, Idle
  <2>3. UNCHANGED leaves /\ (Becomes(r, found) \/ Becomes(r, held) \/ Becomes(r, Idle))
    BY <1>4 DEF AssignLeave, AssignFind
  <2> HIDE DEF found, held
  <2>4. r \notin behind => Knows(found) /\ Knows(held) /\ Knows(Idle)
    BY <2>2, KnowsPresence, KnowsNothing DEF UpToDate
  <2> QED BY <2>3, <2>4, GoesOnKnowing
<1>5. ASSUME NEW r \in Requests, CreateWrite(r) PROVE UpToDate'
  <2>1. reqs[r].leave \in Leave
    BY <1>5, RequestKinds DEF CreateWrite, CreateRequest, Typed
  <2>2. PICK l \in Leaves : ~Exists(l) /\ leaves' = [leaves EXCEPT ![l] = reqs[r].leave]
    BY <1>5 DEF CreateWrite
  <2>3. leaves'[l] = reqs[r].leave /\ \A m \in Leaves \ {l} : leaves'[m] = leaves[m]
    BY <2>2 DEF Typed, TypeOK
  <2>4. Writes(r, reqs[r].leave.teacher, Idle) /\ Idle.op = "none"
    BY <1>5 DEF CreateWrite, Idle
  <2> QED BY <2>2, <2>3, <2>4, WritesKnowing
<1>6. ASSUME NEW r \in Requests, PatchWrite(r) PROVE UpToDate'
  <2> DEFINE q == reqs[r]
             drop == [q EXCEPT !.step = "drop"]
  <2>1. /\ q \in PatchRequest /\ leaves'[q.id].teacher = leaves[q.id].teacher
        /\ \A l \in Leaves \ {q.id} : leaves'[l] = leaves[l]
    BY <1>6, PatchWriteRow
  <2>2. q.id \in Leaves /\ drop.op = "patch" /\ drop.step = "drop" /\ Idle.op = "none"
    BY <2>1 DEF PatchRequest, Idle
  <2>3. Writes(r, leaves[q.id].teacher, drop) \/ Writes(r, leaves[q.id].teacher, Idle)
    BY <1>6 DEF PatchWrite
  <2> HIDE DEF drop
  <2> QED BY <2>1, <2>2, <2>3, WritesKnowing
<1>7. ASSUME NEW r \in Requests, PatchDrop(r) PROVE UpToDate'
  <2> DEFINE q == reqs[r]
             mine == {c \in Cells : covers[c] # NoCover /\ covers[c].leave = q.id}
             next == [q EXCEPT !.drops = @ - 1]
  <2>1. q \in PatchRequest /\ q.step = "drop"
    BY <1>7, RequestKinds DEF PatchDrop, At, Typed
  <2>2. next.op = "patch" /\ next.step = "drop" /\ Idle.op = "none"
    BY <2>1 DEF PatchRequest, Idle
  <2>3. /\ UNCHANGED <<leaves, behind>>
        /\ \A x \in Requests : reqs'[x] = IF x # r THEN Loses(reqs[x], mine)
                                         ELSE IF q.drops = 1 THEN Idle ELSE next
    BY <1>7 DEF PatchDrop
  <2> HIDE DEF mine, next
  <2> SUFFICES ASSUME NEW x \in Requests, x \notin behind PROVE Knows(reqs[x])'
    BY <2>3 DEF UpToDate
  <2>4. CASE x # r
    <3>1. Knows(Loses(reqs[x], mine))
      BY LosesKnowing DEF UpToDate
    <3> QED BY <2>3, <2>4, <3>1, KnowsStill
  <2>5. CASE x = r
    BY <2>2, <2>3, <2>5 DEF Knows
  <2> QED BY <2>4, <2>5
<1>8. ASSUME NEW cell \in Cells, Remove(cell) PROVE UpToDate'
  <2> SUFFICES ASSUME NEW x \in Requests, x \notin behind PROVE Knows(reqs[x])'
    BY <1>8 DEF UpToDate, Remove
  <2>1. Knows(Loses(reqs[x], {cell}))
    BY LosesKnowing DEF UpToDate
  <2> QED BY <1>8, <2>1, KnowsStill DEF Remove
<1>9. CASE UNCHANGED vars
  BY <1>9, KnowsStill DEF vars, UpToDate
<1> QED BY <1>1, <1>2, <1>3, <1>4, <1>5, <1>6, <1>7, <1>8, <1>9
        DEF Next, Step, AssignWrite, RequestFails

-----------------------------------------------------------------------------
LEMMA InitInvariant == Init => IInv
BY DEF Init, IInv, TypeOK, PatchedRowExists, CancelsOweDrops, UpToDate, Knows, Idle

LEMMA InvariantStep == IInv /\ [Next]_vars => IInv'
BY TypedStep, OwedStep, KnownStep DEF IInv, Typed

\* In every reachable state the rows have their types, every handler updates a leave
\* that is there, and one that takes an active leave down owes its covers a drop.
THEOREM Invariance == Spec => []IInv
BY InitInvariant, InvariantStep, PTL DEF Spec

-----------------------------------------------------------------------------
(***************************************************************************)
(* How open leaves of one teacher come to overlap.                         *)
(***************************************************************************)
LEMMA InformedCreate ==
    ASSUME IInv, NEW r \in Requests \ behind, CreateWrite(r), NEW l \in Leaves, NEW m \in Leaves,
           ~Overlap(l, m)
    PROVE  ~Overlap(l, m)'
<1>1. Knows(reqs[r]) /\ reqs[r].op = "create"
  BY DEF IInv, UpToDate, CreateWrite
<1>2. PICK i \in Leaves : ~Exists(i) /\ leaves' = [leaves EXCEPT ![i] = reqs[r].leave]
  BY DEF CreateWrite
<1>3. leaves'[i] = reqs[r].leave /\ \A j \in Leaves \ {i} : leaves'[j] = leaves[j]
  BY <1>2 DEF IInv, TypeOK
<1>4. \A j \in Leaves \ {i} : ~Overlap(i, j)' /\ ~Overlap(j, i)'
  BY <1>1, <1>3 DEF Overlap, Knows, Conflicts, Exists, Status
<1>5. CASE l # i /\ m # i
  BY <1>3, <1>5 DEF Overlap, Exists, Status
<1> QED BY <1>4, <1>5 DEF Overlap

LEMMA InformedPatch ==
    ASSUME IInv, NEW r \in Requests \ behind, PatchWrite(r), NEW l \in Leaves, NEW m \in Leaves,
           ~Overlap(l, m)
    PROVE  ~Overlap(l, m)'
<1> DEFINE q == reqs[r]
<1>0. PICK i \in Leaves : i = q.id
  BY RequestKinds DEF IInv, PatchWrite, At, PatchRequest
<1>1. /\ q \in PatchRequest /\ leaves[i] \in Leave /\ leaves'[i] \in Leave
      /\ leaves'[i].status = IF q.to = Same THEN leaves[i].status ELSE q.to
      /\ leaves'[i].span = IF q.span = Same THEN leaves[i].span ELSE q.span
      /\ leaves'[i].teacher = leaves[i].teacher
      /\ \A j \in Leaves \ {i} : leaves'[j] = leaves[j]
  BY <1>0, PatchWriteRow DEF IInv, Typed
<1>2. Exists(i) /\ Knows(q) /\ q.op = "patch" /\ q.step = "write"
  BY <1>0 DEF IInv, PatchedRowExists, UpToDate, PatchWrite, At
<1>3. leaves'[i].status \in Open => leaves[i].status \in Open
  BY <1>0, <1>1, <1>2, Distinguished DEF Knows, MayBecome, Status, Open, Statuses, PatchRequest, Closed
<1>4. CASE q.span # Same
  <2>1. \A j \in Leaves \ {i} : ~Overlap(i, j)' /\ ~Overlap(j, i)'
    BY <1>0, <1>1, <1>2, <1>4 DEF Overlap, Knows, Conflicts, Exists, Status
  <2>2. CASE l # i /\ m # i
    BY <1>1, <2>2 DEF Overlap, Exists, Status
  <2> QED BY <2>1, <2>2 DEF Overlap
<1>5. CASE q.span = Same
  <2>1. leaves'[i].span = leaves[i].span
    BY <1>1, <1>5
  <2>2. ASSUME NEW j \in Leaves
        PROVE  /\ leaves'[j].span = leaves[j].span
               /\ leaves'[j].teacher = leaves[j].teacher
               /\ leaves'[j].status \in Open => leaves[j].status \in Open
               /\ leaves'[j] # NoLeave => leaves[j] # NoLeave
    <3>1. CASE j = i
      BY <1>1, <1>2, <1>3, <2>1, <3>1 DEF Exists
    <3>2. CASE j # i
      BY <1>1, <3>2
    <3> QED BY <3>1, <3>2
  <2>3. SUFFICES ASSUME Overlap(l, m)' PROVE Overlap(l, m)
    OBVIOUS
  <2>4. /\ l # m /\ leaves'[l] # NoLeave /\ leaves'[m] # NoLeave
        /\ leaves'[l].teacher = leaves'[m].teacher
        /\ leaves'[l].status \in Open /\ leaves'[m].status \in Open
        /\ leaves'[l].span \cap leaves'[m].span # {}
    BY <2>3 DEF Overlap, Exists, Status
  <2> HIDE DEF q
  <2>5. /\ leaves[l] # NoLeave /\ leaves[m] # NoLeave
        /\ leaves[l].teacher = leaves[m].teacher
        /\ leaves[l].status \in Open /\ leaves[m].status \in Open
        /\ leaves[l].span \cap leaves[m].span # {}
    BY <2>2, <2>4
  <2> QED BY <2>4, <2>5 DEF Overlap, Exists, Status
<1> QED BY <1>4, <1>5

\* Open leaves of one teacher come to overlap only by a handler that writes a leave after
\* another one has written one of that teacher, since it looked.
THEOREM LeavesOverlapUnseenOnly == Spec => LeavesDisjoint
<1>1. ASSUME IInv, [Next]_vars, NEW l \in Leaves, NEW m \in Leaves, ~Overlap(l, m), Overlap(l, m)'
      PROVE  \E r \in behind : CreateWrite(r) \/ PatchWrite(r)
  <2>1. leaves' # leaves
    BY <1>1 DEF Overlap, Exists, Status
  <2>2. ASSUME NEW r \in Requests, Arrives(r) PROVE UNCHANGED leaves
    BY <2>2 DEF Arrives, CreateCheck, PatchRead, DeleteRead, AssignRead
  <2>3. ASSUME NEW r \in Requests, Step(r), ~CreateWrite(r), ~PatchWrite(r) PROVE UNCHANGED leaves
    BY <2>3 DEF Step, PatchCheck, PatchDrop, AssignLeave, AssignFind, AssignWrite
  <2>4. PICK r \in Requests : CreateWrite(r) \/ PatchWrite(r)
    BY <1>1, <2>1, <2>2, <2>3 DEF Next, vars, RequestFails, Remove
  <2>5. r \in behind
    BY <1>1, <2>4, InformedCreate, InformedPatch
  <2> QED BY <2>4, <2>5
<1>2. IInv /\ [Next]_vars =>
         [\A l, m \in Leaves :
             ~Overlap(l, m) /\ Overlap(l, m)' =>
                 \E r \in behind : CreateWrite(r) \/ PatchWrite(r)]_vars
  BY <1>1
<1> QED BY <1>2, Invariance, PTL DEF Spec, LeavesDisjoint

-----------------------------------------------------------------------------
(***************************************************************************)
(* How a class comes to wait for a substitute who is on leave.             *)
(***************************************************************************)
\* A handler that is not behind sends nobody who is on leave.
LEMMA InformedAssign ==
    ASSUME IInv, NEW r \in Requests \ behind, AssignWrite(r),
           NEW t, NEW slot, t = reqs[r].sub, slot = reqs[r].cell[1]
    PROVE  ~OnLeave(t, slot)'
<1>1. ~OnLeave(t, slot) /\ UNCHANGED leaves
  BY KnowsPresence DEF IInv, UpToDate, AssignWrite, At
<1> QED BY <1>1 DEF OnLeave, Absent, Active, Exists, Status

\* A substitute comes to be away only by a leave that is written over the cover, or by a
\* handler that looked before somebody wrote a leave of that substitute.
THEOREM SubstitutesAway == Spec => SubstitutesPresent
<1>1. ASSUME IInv, [Next]_vars, NEW cell \in Cells, ~Away(cell), Away(cell)'
      PROVE  \/ covers'[cell] = covers[cell] /\ \E r \in Requests : CreateWrite(r) \/ PatchWrite(r)
             \/ \E r \in behind : AssignWrite(r) /\ reqs[r].cell = cell
  <2>1. CASE covers'[cell] = covers[cell]
    <3>1. leaves' # leaves
      BY <1>1, <2>1 DEF Away, OnLeave, Absent, Active, Exists, Status
    <3>2. ASSUME NEW r \in Requests, Arrives(r) PROVE UNCHANGED leaves
      BY <3>2 DEF Arrives, CreateCheck, PatchRead, DeleteRead, AssignRead
    <3>3. ASSUME NEW r \in Requests, Step(r), ~CreateWrite(r), ~PatchWrite(r) PROVE UNCHANGED leaves
      BY <3>3 DEF Step, PatchCheck, PatchDrop, AssignLeave, AssignFind, AssignWrite
    <3> QED BY <1>1, <2>1, <3>1, <3>2, <3>3 DEF Next, vars, RequestFails, Remove
  <2>2. CASE covers'[cell] # covers[cell]
    <3>1. covers'[cell] # NoCover /\ OnLeave(covers[cell].sub, cell[1])'
      BY <1>1 DEF Away
    <3>2. PICK r \in Requests : AssignWrite(r)
      BY <1>1, <2>2, <3>1, CoverSteps DEF IInv, Typed, Delete
    <3>3. reqs[r].cell = cell /\ covers'[cell].sub = reqs[r].sub
      BY <2>2, <3>2 DEF AssignWrite, IInv, TypeOK
    <3>4. PICK t, slot : t = reqs[r].sub /\ slot = reqs[r].cell[1]
      OBVIOUS
    <3>5. OnLeave(t, slot)'
      BY <3>1, <3>3, <3>4
    <3>6. r \in behind
      BY <1>1, <3>2, <3>4, <3>5, InformedAssign
    <3> QED BY <3>2, <3>3, <3>6
  <2> QED BY <2>1, <2>2
<1>2. IInv /\ [Next]_vars =>
         [\A cell \in Cells :
             ~Away(cell) /\ Away(cell)' =>
                 \/ covers'[cell] = covers[cell] /\ \E r \in Requests : CreateWrite(r) \/ PatchWrite(r)
                 \/ \E r \in behind : AssignWrite(r) /\ reqs[r].cell = cell]_vars
  BY <1>1
<1> QED BY <1>2, Invariance, PTL DEF Spec, SubstitutesPresent

-----------------------------------------------------------------------------
(***************************************************************************)
(* How a cover comes to be left without its leave.                         *)
(***************************************************************************)
Backing(l) ==
    \/ Active(l)
    \/ \E r \in Requests : At(r, "patch", "drop") /\ reqs[r].id = l

\* A step that keeps the active leaves active and the pending drops pending, and
\* writes no cover, orphans none.
LEMMA KeepsBacking ==
    ASSUME NEW cell \in Cells, Backed(cell),
           covers'[cell] \in {covers[cell], NoCover},
           Backing(covers[cell].leave) => Backing(covers[cell].leave)'
    PROVE  Backed(cell)'
BY DEF Backed, Backing

\* An update that knows the status it overwrites keeps the leave active, or is going
\* to drop its covers.
LEMMA InformedWriteBacks ==
    ASSUME IInv, NEW r \in Requests, PatchWrite(r), reqs[r].read = Status(reqs[r].id),
           NEW l \in Leaves, Backing(l)
    PROVE  Backing(l)'
<1> DEFINE q == reqs[r]
<1>1. /\ q \in PatchRequest /\ leaves'[q.id] # NoLeave
      /\ leaves'[q.id].status = IF q.to = Same THEN leaves[q.id].status ELSE q.to
      /\ \A m \in Leaves \ {q.id} : leaves'[m] = leaves[m]
  BY PatchWriteRow, Distinguished DEF IInv, Typed
<1>2. \A x \in Requests \ {r} : reqs'[x] = reqs[x]
  BY DEF PatchWrite, Writes, IInv, TypeOK
<1>3. ASSUME NEW x \in Requests, At(x, "patch", "drop"), reqs[x].id = l PROVE Backing(l)'
  <2>1. x # r
    BY <1>3 DEF PatchWrite, At
  <2> QED BY <1>2, <1>3, <2>1 DEF Backing, At
<1>4. CASE Active(l) /\ (l # q.id \/ q.to \in {"ACTIVE", Same})
  BY <1>1, <1>4 DEF Backing, Active, Exists, Status
<1>5. CASE Active(l) /\ l = q.id /\ q.to \notin {"ACTIVE", Same}
  <2>1. q.drops # 0
    BY <1>5 DEF IInv, CancelsOweDrops, PatchWrite, At, Active
  <2>2. reqs'[r] = [q EXCEPT !.step = "drop"]
    BY <2>1 DEF PatchWrite, Writes, IInv, TypeOK
  <2>3. reqs'[r].op = "patch" /\ reqs'[r].step = "drop" /\ reqs'[r].id = q.id
    BY <1>1, <2>2 DEF PatchRequest, PatchWrite, At
  <2> QED BY <1>5, <2>3 DEF Backing, At
<1> QED BY <1>3, <1>4, <1>5 DEF Backing

\* A step that drops covers drops all of its own leave, and leaves the others backed.
LEMMA DropKeepsOthers ==
    ASSUME IInv, NEW r \in Requests, PatchDrop(r), NEW cell \in Cells, Backed(cell)
    PROVE  Backed(cell)'
<1> DEFINE q == reqs[r]
           mine == {c \in Cells : covers[c] # NoCover /\ covers[c].leave = q.id}
<1>1. covers'[cell] = IF cell \in mine THEN NoCover ELSE covers[cell]
  BY DEF PatchDrop, Delete
<1>2. CASE covers[cell] = NoCover \/ cell \in mine
  BY <1>1, <1>2 DEF Backed
<1>3. CASE covers[cell] # NoCover /\ covers[cell].leave # q.id
  <2>1. \A x \in Requests \ {r} : At(x, "patch", "drop") => reqs'[x] = reqs[x]
    BY LosesRow DEF PatchDrop, At, IInv
  <2>2. leaves' = leaves
    BY DEF PatchDrop
  <2> QED BY <1>1, <1>3, <2>1, <2>2 DEF Backed, Active, Exists, Status, At
<1> QED BY <1>2, <1>3

\* The steps that only start, end or move a handler.
LEMMA ElsewhereKeeps ==
    ASSUME IInv, NEW r \in Requests, ~At(r, "patch", "drop"), NEW q, reqs' = [reqs EXCEPT ![r] = q],
           UNCHANGED <<leaves, covers>>, NEW cell \in Cells, Backed(cell)
    PROVE  Backed(cell)'
BY DEF Backed, Active, Exists, Status, At, IInv, TypeOK

LEMMA CreateKeeps ==
    ASSUME IInv, NEW r \in Requests, CreateWrite(r), NEW cell \in Cells, Backed(cell)
    PROVE  Backed(cell)'
<1>1. PICK l \in Leaves : ~Exists(l) /\ leaves' = [leaves EXCEPT ![l] = reqs[r].leave]
  BY DEF CreateWrite
<1>2. covers' = covers /\ reqs' = [reqs EXCEPT ![r] = Idle]
  BY DEF CreateWrite, Writes
<1>3. CASE covers[cell] = NoCover
  BY <1>2, <1>3 DEF Backed
<1>4. ASSUME covers[cell] # NoCover, NEW x \in Requests, At(x, "patch", "drop"),
             reqs[x].id = covers[cell].leave
      PROVE  Backed(cell)'
  BY <1>2, <1>4 DEF Backed, At, CreateWrite, IInv, TypeOK
<1>5. CASE Active(covers[cell].leave)
  <2>1. covers[cell].leave # l
    BY <1>1, <1>5 DEF Active
  <2>2. leaves'[covers[cell].leave] = leaves[covers[cell].leave]
    BY <1>1, <2>1, <1>5 DEF IInv, TypeOK, Cover
  <2> QED BY <1>2, <1>5, <2>2 DEF Backed, Active, Exists, Status
<1> QED BY <1>3, <1>4, <1>5 DEF Backed

\* A cover written for an active leave is backed, and the others stay so.
LEMMA AssignKeeps ==
    ASSUME IInv, NEW r \in Requests, AssignWrite(r), Active(reqs[r].id),
           NEW cell \in Cells, Backed(cell)
    PROVE  Backed(cell)'
<1> DEFINE q == reqs[r]
<1>1. covers'[cell] = covers[cell] \/ (covers'[cell].leave = q.id)
  BY DEF AssignWrite, IInv, TypeOK
<1>2. leaves' = leaves
  BY DEF AssignWrite
<1>3. \A x \in Requests : At(x, "patch", "drop") => reqs'[x] = reqs[x]
  BY DEF AssignWrite, Ends, Becomes, At, IInv, TypeOK
<1>4. CASE covers'[cell] = covers[cell]
  BY <1>2, <1>3, <1>4 DEF Backed, Active, Exists, Status, At
<1>5. CASE covers'[cell].leave = q.id
  BY <1>2, <1>5 DEF Backed, Active, Exists, Status
<1> QED BY <1>1, <1>4, <1>5

LEMMA RemoveKeeps ==
    ASSUME IInv, NEW row \in Cells, Remove(row), NEW cell \in Cells, Backed(cell)
    PROVE  Backed(cell)'
<1>1. covers'[cell] \in {covers[cell], NoCover}
  BY DEF Remove, Delete
<1>2. \A x \in Requests : At(x, "patch", "drop") => reqs'[x] = reqs[x]
  BY LosesRow DEF Remove, At, IInv
<1>3. leaves' = leaves
  BY DEF Remove
<1> QED BY <1>1, <1>2, <1>3 DEF Backed, Active, Exists, Status, At

Explained ==
    \E r \in Requests :
        \/ RequestFails(r)
        \/ AssignWrite(r) /\ ~Active(reqs[r].id)
        \/ PatchWrite(r) /\ reqs[r].read # Status(reqs[r].id)

LEMMA UnexplainedStepKeeps ==
    ASSUME IInv, [Next]_vars, ~Explained, NEW cell \in Cells, Backed(cell)
    PROVE  Backed(cell)'
<1>1. ASSUME NEW r \in Requests, Arrives(r) PROVE Backed(cell)'
  <2>1. UNCHANGED <<leaves, covers>> /\ \E q : Start(r, q)
    BY <1>1 DEF Arrives, CreateCheck, PatchRead, DeleteRead, AssignRead
  <2>2. PICK q : Start(r, q)
    BY <2>1
  <2>3. reqs' = [reqs EXCEPT ![r] = q] /\ reqs[r] = Idle
    BY <2>2 DEF Start, Becomes
  <2>4. ~At(r, "patch", "drop")
    BY <2>3 DEF At, Idle
  <2> QED BY <2>1, <2>3, <2>4, ElsewhereKeeps
<1>2. ASSUME NEW r \in Requests, PatchCheck(r) \/ AssignLeave(r) \/ AssignFind(r)
      PROVE  Backed(cell)'
  <2>1. ~At(r, "patch", "drop") /\ UNCHANGED <<leaves, covers>>
    BY <1>2 DEF PatchCheck, AssignLeave, AssignFind, At
  <2>2. \E q : reqs' = [reqs EXCEPT ![r] = q]
    BY <1>2 DEF PatchCheck, AssignLeave, AssignFind, Becomes
  <2> QED BY <2>1, <2>2, ElsewhereKeeps
<1>3. ASSUME NEW r \in Requests, PatchWrite(r) PROVE Backed(cell)'
  <2>1. reqs[r].read = Status(reqs[r].id)
    BY <1>3 DEF Explained
  <2>2. covers' = covers
    BY <1>3 DEF PatchWrite
  <2>3. covers[cell] # NoCover => covers[cell].leave \in Leaves
    BY DEF IInv, TypeOK, Cover
  <2>4. CASE covers[cell] = NoCover
    BY <2>2, <2>4 DEF Backed
  <2>5. CASE covers[cell] # NoCover
    BY <1>3, <2>1, <2>2, <2>3, <2>5, InformedWriteBacks, KeepsBacking
  <2> QED BY <2>4, <2>5
<1>4. ASSUME NEW r \in Requests, AssignWrite(r) PROVE Backed(cell)'
  BY <1>4, AssignKeeps DEF Explained
<1>5. CASE UNCHANGED vars
  BY <1>5 DEF vars, Backed, Active, Exists, Status, At
<1> QED BY <1>1, <1>2, <1>3, <1>4, <1>5, CreateKeeps, DropKeepsOthers, RemoveKeeps
        DEF Next, Step, Explained

\* A cover loses its leave in three ways and no other: the handler that closes the
\* leave fails half-way, the cover is written for a leave that is no longer active, or
\* the leave is closed by a handler that read a status it has no more.
THEOREM OrphansAreExplained == Spec => OrphansExplained
<1>1. IInv /\ [Next]_vars =>
         [\A cell \in Cells :
             (Backed(cell) /\ ~Backed(cell)') =>
                 \E r \in Requests :
                     \/ RequestFails(r)
                     \/ AssignWrite(r) /\ ~Active(reqs[r].id)
                     \/ PatchWrite(r) /\ reqs[r].read # Status(reqs[r].id)]_vars
  BY UnexplainedStepKeeps DEF Explained
<1> QED BY <1>1, Invariance, PTL DEF Spec, OrphansExplained
=============================================================================
