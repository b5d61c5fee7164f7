------------------------- MODULE MarkRegisterProofs -------------------------
(***************************************************************************)
(* Proofs about MarkRegister, for every school: any sets of staff,         *)
(* students, values and handlers in flight.                                *)
(***************************************************************************)
EXTENDS MarkRegister, TLAPS

-----------------------------------------------------------------------------
(***************************************************************************)
(* Facts about handlers in flight.                                         *)
(***************************************************************************)
\* A cell that is written by a file or a moderation has the score that was sent.
LEMMA PutType ==
  ASSUME TypeOK, NEW s \in Students, NEW v \in Values, NEW status \in Statuses, NEW by \in Staff
  PROVE  /\ Put(s, v, status, by) \in Mark
         /\ Put(s, v, status, by).value.score = v.score
         /\ Put(s, v, status, by).status = status
  <1>1. Has(s) => marks[s].value \in Values
    BY DEF TypeOK, Has, Mark
  <1> DEFINE value == [v EXCEPT !.practical = IF Has(s) THEN marks[s].value.practical ELSE @]
  <1>2. value \in Values /\ value.score = v.score
    BY <1>1 DEF Values
  <1>3. Put(s, v, status, by) = [value |-> value, status |-> status, by |-> by]
    BY DEF Put
  <1> HIDE DEF value
  <1> QED BY <1>2, <1>3 DEF Mark

LEMMA PlainType == Plain \subseteq Values
  BY DEF Plain

LEMMA IdleIsNoRequest == Idle \notin Request
  BY DEF Idle, Request, Ops

LEMMA ActiveIsRequest ==
  ASSUME TypeOK, NEW r \in Requests, reqs[r].op \in Ops
  PROVE  reqs[r] \in Request /\ reqs[r] # Idle
  BY DEF TypeOK, Idle, Ops, Request

LEMMA NewRequestType ==
  ASSUME NEW op \in Ops, NEW u \in Staff, NEW step \in Steps
  PROVE  NewRequest(op, u, step) \in Request
  BY DEF NewRequest, Request, Steps

LEMMA LosesType ==
  ASSUME NEW q \in Request, NEW cells
  PROVE  /\ Loses(q, cells) \in Request
         /\ Loses(q, cells).found = q.found
         /\ Loses(q, cells).gone = q.gone \cup (cells \cap q.found)
  BY DEF Loses, Request

LEMMA LosesKeeps ==
  ASSUME NEW q \in Request, NEW cells, WellFormed(q)
  PROVE  WellFormed(Loses(q, cells))
  BY DEF Loses, Request, WellFormed, Pending

LEMMA ReadsType ==
  ASSUME NEW op \in Ops, NEW u \in Staff, NEW step \in Steps,
         NEW e \in [Students -> Values \cup {Blank, Skip}]
  PROVE  Reads(op, u, step, e) \in Request
  BY DEF Reads, NewRequest, Request, Steps

\* The steps of applyMarkPlans move a handler on and keep what it holds.
Same(p, q) ==
    p # Idle =>
        /\ p.op = q.op /\ p.user = q.user /\ p.entry = q.entry
        /\ p.found = q.found /\ p.gone = q.gone

LEMMA FromType ==
  ASSUME NEW q \in Request
  PROVE  /\ FromUpdate(q) \in Request \cup {Idle} /\ Same(FromUpdate(q), q)
         /\ FromCreate(q) \in Request \cup {Idle} /\ Same(FromCreate(q), q)
         /\ FromDelete(q) \in Request \cup {Idle} /\ Same(FromDelete(q), q)
  <1>1. FromUpdate(q) \in Request \cup {Idle} /\ Same(FromUpdate(q), q)
    BY DEF FromUpdate, Updates, Request, Steps, Same
  <1>2. FromCreate(q) \in Request \cup {Idle} /\ Same(FromCreate(q), q)
    BY <1>1 DEF FromCreate, Request, Steps, Same
  <1>3. FromDelete(q) \in Request \cup {Idle} /\ Same(FromDelete(q), q)
    BY <1>2 DEF FromDelete, Request, Steps, Same
  <1> QED BY <1>1, <1>2, <1>3

-----------------------------------------------------------------------------
(***************************************************************************)
(* The shape of almost every action: one handler moves on to q, and no row *)
(* goes away.                                                              *)
(***************************************************************************)
Sound(q) == q # Idle => q \in Request /\ WellFormed(q)

LEMMA OneMoves ==
  ASSUME IInv, NEW r \in Requests, NEW q, Becomes(r, q), Sound(q),
         marks' \in [Students -> Mark \cup {NoMark}],
         trail' \in [Students -> SUBSET Scores],
         access' \in [Teachers -> [Kinds -> {"NONE", "PENDING", "APPROVED", "REJECTED"}]],
         pastDeadline' \in BOOLEAN,
         \A s \in Students : Has(s) => marks'[s] # NoMark,
         q # Idle => \A s \in Students : StillThere(q, s) => marks'[s] # NoMark
  PROVE  IInv'
  <1>1. reqs' = [reqs EXCEPT ![r] = q] /\ reqs \in [Requests -> Request \cup {Idle}]
    BY DEF Becomes, IInv, TypeOK
  <1>2. TypeOK'
    BY <1>1 DEF TypeOK, Sound
  <1>3. HeldRowsExist'
    BY <1>1 DEF HeldRowsExist, IInv, Has, StillThere
  <1>4. HandlersWellFormed'
    BY <1>1 DEF HandlersWellFormed, IInv, Sound
  <1> QED BY <1>2, <1>3, <1>4 DEF IInv

LEMMA OneMovesMarksStay ==
  ASSUME IInv, NEW r \in Requests, NEW q, Becomes(r, q), Sound(q),
         UNCHANGED marks,
         trail' \in [Students -> SUBSET Scores],
         access' \in [Teachers -> [Kinds -> {"NONE", "PENDING", "APPROVED", "REJECTED"}]],
         pastDeadline' \in BOOLEAN,
         q # Idle => \A s \in Students : StillThere(q, s) => Has(s)
  PROVE  IInv'
  BY OneMoves DEF IInv, TypeOK, Has

LEMMA IdleIsSound == Sound(Idle)
  BY DEF Sound

\* A handler with nothing pending cell by cell.
LEMMA RestingIsSound ==
  ASSUME NEW q \in Request, q.op # "moderate", Pending(q) = {},
         q.op = "upload" => \A s \in Students : q.entry[s] # Blank
  PROVE  Sound(q)
  BY DEF Sound, WellFormed, Pending

LEMMA ActiveIsSound ==
  ASSUME IInv, NEW r \in Requests, reqs[r] # Idle
  PROVE  reqs[r] \in Request /\ WellFormed(reqs[r])
  BY DEF IInv, TypeOK, HandlersWellFormed

LEMMA HeldBy ==
  ASSUME IInv, NEW r \in Requests, reqs[r] # Idle, NEW s \in Students, StillThere(reqs[r], s)
  PROVE  Has(s)
  BY DEF IInv, HeldRowsExist

LEMMA FromSound ==
  ASSUME NEW q \in Request, Pending(q) = {}, q.op = "save"
  PROVE  Sound(FromUpdate(q)) /\ Sound(FromCreate(q)) /\ Sound(FromDelete(q))
  <1>1. Sound(FromUpdate(q))
    BY FromType DEF Sound, FromUpdate, Updates, WellFormed, Pending, Request
  <1>2. \A step \in Steps : Sound([q EXCEPT !.step = step])
    BY DEF Sound, WellFormed, Pending, Request
  <1>3. Sound(FromCreate(q))
    BY <1>1, <1>2 DEF FromCreate, Steps
  <1>4. Sound(FromDelete(q))
    BY <1>2, <1>3 DEF FromDelete, Steps
  <1> QED BY <1>1, <1>3, <1>4

-----------------------------------------------------------------------------
LEMMA ArrivesInv ==
  ASSUME IInv, NEW r \in Requests, Arrives(r)
  PROVE  IInv'
  <1> USE DEF Start, Becomes
  <1>1. ASSUME NEW u \in Writers, SaveRead(r, u) PROVE IInv'
    <2>1. PICK e \in Entries : Start(r, Reads("save", u, "plan", e))
      BY <1>1 DEF SaveRead
    <2> DEFINE q == Reads("save", u, "plan", e)
    <2>2. u \in Staff /\ e \in [Students -> Values \cup {Blank, Skip}]
      BY DEF Writers, Staff, Leaders, Entries
    <2>3. q \in Request  BY <2>2, ReadsType DEF Ops, Steps
    <2>4. /\ q.op = "save" /\ Pending(q) = {}
          /\ \A s \in Students : StillThere(q, s) => Has(s)
      BY DEF Reads, NewRequest, StillThere, Pending
    <2>5. Sound(q)  BY <2>3, <2>4, RestingIsSound
    <2> HIDE DEF q
    <2> QED BY <1>1, <2>1, <2>4, <2>5, OneMovesMarksStay DEF SaveRead, IInv, TypeOK, q
  <1>2. ASSUME NEW u \in Writers, UploadRead(r, u) PROVE IInv'
    <2>1. PICK e \in [Students -> Values \cup {Skip}] : Start(r, Reads("upload", u, "check", e))
      BY <1>2, PlainType DEF UploadRead
    <2> DEFINE q == Reads("upload", u, "check", e)
    <2>2. u \in Staff /\ e \in [Students -> Values \cup {Blank, Skip}]
      BY DEF Writers, Staff, Leaders
    <2>3. q \in Request  BY <2>2, ReadsType DEF Ops, Steps
    <2>4. /\ q.op = "upload" /\ Pending(q) = {}
          /\ \A s \in Students : q.entry[s] # Blank
          /\ \A s \in Students : StillThere(q, s) => Has(s)
      BY Distinguished DEF Reads, NewRequest, StillThere, Pending
    <2>5. Sound(q)  BY <2>3, <2>4, RestingIsSound
    <2> QED BY <1>2, <2>1, <2>4, <2>5, OneMovesMarksStay DEF UploadRead, IInv, TypeOK
  <1>3. ASSUME NEW u \in Writers, NEW owner \in Staff, SubmitCheck(r, u, owner) PROVE IInv'
    <2> DEFINE q == [NewRequest("submit", u, "read") EXCEPT !.owner = owner]
    <2>1. u \in Staff  BY DEF Writers, Staff, Leaders
    <2>2. NewRequest("submit", u, "read") \in Request
      BY <2>1, NewRequestType DEF Ops, Steps
    <2>3. q \in Request /\ q.op = "submit" /\ q.found = {} /\ Pending(q) = {}
      BY <2>2 DEF Request, NewRequest, Pending
    <2>4. Sound(q) /\ \A s \in Students : StillThere(q, s) => Has(s)
      BY <2>3, RestingIsSound DEF StillThere
    <2> QED BY <1>3, <2>4, OneMovesMarksStay DEF SubmitCheck, IInv, TypeOK
  <1>4. ASSUME NEW l \in Leaders, ModerateRead(r, l) PROVE IInv'
    <2>1. PICK s \in Students, v \in Values :
            Start(r, [NewRequest("moderate", l, "write") EXCEPT
                       !.entry[s] = v, !.todo = {s}, !.found = {x \in {s} : Has(x)},
                       !.owner = IF Has(s) THEN marks[s].by ELSE l])
      BY <1>4, PlainType DEF ModerateRead
    <2> DEFINE q == [NewRequest("moderate", l, "write") EXCEPT
                       !.entry[s] = v, !.todo = {s}, !.found = {x \in {s} : Has(x)},
                       !.owner = IF Has(s) THEN marks[s].by ELSE l]
    <2>2. l \in Staff  BY DEF Staff
    <2>3. NewRequest("moderate", l, "write") \in Request
      BY <2>2, NewRequestType DEF Ops, Steps
    <2>4. (IF Has(s) THEN marks[s].by ELSE l) \in Staff
      BY <2>2 DEF Has, IInv, TypeOK, Mark
    <2>5. q \in Request
      BY <2>3, <2>4 DEF Request
    <2>6. /\ q.op = "moderate" /\ q.user = l /\ q.found = {x \in {s} : Has(x)}
          /\ Pending(q) = {s} /\ q.entry[s] = v
      BY <2>3 DEF NewRequest, Pending
    <2>7. Sound(q)
      BY <2>5, <2>6 DEF Sound, WellFormed
    <2>8. \A x \in Students : StillThere(q, x) => Has(x)
      BY <2>6 DEF StillThere
    <2> HIDE DEF q
    <2>9. Becomes(r, q)  BY <2>1 DEF q
    <2> QED BY <1>4, <2>7, <2>8, <2>9, OneMovesMarksStay DEF ModerateRead, IInv, TypeOK
  <1>5. ASSUME NEW t \in Teachers, NEW k \in Kinds, AskRead(r, t, k) PROVE IInv'
    <2> DEFINE q == [NewRequest("ask", t, "write") EXCEPT
                    !.kind = k, !.row = IF access[t][k] = "NONE" THEN "none" ELSE "held"]
    <2>1. t \in Staff  BY DEF Staff
    <2>2. NewRequest("ask", t, "write") \in Request
      BY <2>1, NewRequestType DEF Ops, Steps
    <2>3. q \in Request /\ q.op = "ask" /\ q.found = {} /\ Pending(q) = {}
      BY <2>2, KindsKnown DEF Request, NewRequest, Pending
    <2>4. Sound(q) /\ \A s \in Students : StillThere(q, s) => Has(s)
      BY <2>3, RestingIsSound DEF StillThere
    <2> QED BY <1>5, <2>4, OneMovesMarksStay DEF AskRead, IInv, TypeOK
  <1>6. ASSUME NEW l \in Leaders, NEW t \in Teachers, NEW k \in Kinds,
               NEW verdict \in {"APPROVED", "REJECTED"}, ReviewWrite(r, l, t, k, verdict)
        PROVE  IInv'
    <2> DEFINE q == [NewRequest("review", l, "reopen") EXCEPT !.owner = t]
    <2>1. l \in Staff /\ t \in Staff  BY DEF Staff
    <2>2. NewRequest("review", l, "reopen") \in Request
      BY <2>1, NewRequestType DEF Ops, Steps
    <2>3. q \in Request /\ q.op = "review" /\ q.found = {} /\ Pending(q) = {}
      BY <2>1, <2>2 DEF Request, NewRequest, Pending
    <2>4. Sound(q) /\ \A s \in Students : StillThere(q, s) => Has(s)
      BY <2>3, RestingIsSound DEF StillThere
    <2>5. access' \in [Teachers -> [Kinds -> {"NONE", "PENDING", "APPROVED", "REJECTED"}]]
      BY <1>6 DEF ReviewWrite, IInv, TypeOK
    <2>6. CASE k = "EDIT" /\ verdict = "APPROVED"
      BY <1>6, <2>4, <2>5, <2>6, OneMovesMarksStay DEF ReviewWrite, IInv, TypeOK
    <2>7. CASE ~(k = "EDIT" /\ verdict = "APPROVED")
      <3>1. UNCHANGED <<marks, trail, pastDeadline, reqs>>
        BY <1>6, <2>7 DEF ReviewWrite
      <3> QED BY <2>5, <3>1
              DEF IInv, TypeOK, HeldRowsExist, HandlersWellFormed, Has, StillThere
    <2> QED BY <2>6, <2>7
  <1> QED BY <1>1, <1>2, <1>3, <1>4, <1>5, <1>6 DEF Arrives

-----------------------------------------------------------------------------
LEMMA AuditsType ==
  ASSUME TypeOK, NEW cells, NEW entry, Audits(cells, entry),
         \A s \in Students : s \in cells => entry[s] \in Values
  PROVE  trail' \in [Students -> SUBSET Scores]
  <1>1. \A s \in Students : s \in cells => entry[s].score \in Scores
    BY DEF Values
  <1> QED BY <1>1 DEF Audits, TypeOK

LEMMA SaveInv ==
  ASSUME IInv, NEW r \in Requests, SaveStep(r)
  PROVE  IInv'
  <1> DEFINE q == reqs[r]
  <1>0. q \in Request /\ q # Idle /\ q.op = "save"
    BY ActiveIsRequest DEF IInv, Ops, SaveStep, SavePlan, SaveDelete, SaveCreate,
       SaveAuditCreated, SaveUpdate, SaveAuditUpdated, At
  <1>a. /\ \A s \in Students : StillThere(q, s) => Has(s)
        /\ WellFormed(q)
    BY <1>0, HeldBy, ActiveIsSound
  <1>b. /\ marks \in [Students -> Mark \cup {NoMark}]
        /\ trail \in [Students -> SUBSET Scores]
        /\ access \in [Teachers -> [Kinds -> {"NONE", "PENDING", "APPROVED", "REJECTED"}]]
        /\ pastDeadline \in BOOLEAN
    BY DEF IInv, TypeOK
  <1>c. q.user \in Staff /\ \A s \in Students : q.entry[s] \in Values \cup {Blank, Skip}
    BY <1>0 DEF Request
  <1>1. CASE SavePlan(r)
    <2> DEFINE plan == [s \in Students |-> IF MutateBlocked(q.user, s \in q.locked)
                                           THEN Skip ELSE q.entry[s]]
               p == [q EXCEPT !.entry = plan, !.locked = {}]
    <2>1. p \in Request  BY <1>0, <1>c DEF Request
    <2>2. p.op = "save" /\ p.found = q.found /\ p.gone = q.gone /\ Pending(p) = {}
      BY <1>0, <1>1, <1>a DEF SavePlan, At, WellFormed, Pending, Request
    <2> HIDE DEF p
    <2>3. Sound(FromDelete(p))
      BY <2>1, <2>2, FromSound
    <2>4. FromDelete(p) # Idle =>
            \A s \in Students : StillThere(FromDelete(p), s) => Has(s)
      BY <1>a, <2>1, <2>2, FromType DEF Same, StillThere
    <2>5. Becomes(r, FromDelete(p))  BY <1>1 DEF SavePlan, p
    <2> QED BY <1>1, <1>b, <2>3, <2>4, <2>5, OneMovesMarksStay DEF SavePlan
  <1>2. CASE SaveDelete(r)
    <2>1. CASE \A s \in Deletes(q) : StillThere(q, s)
      <3> DEFINE p == Loses(q, Deletes(q))
      <3>1. p \in Request /\ p.op = "save" /\ p.found = q.found
            /\ p.gone = q.gone \cup (Deletes(q) \cap q.found)
        BY <1>0, LosesType DEF Loses, Request
      <3>2. FromCreate(p) \in Request \cup {Idle} /\ Same(FromCreate(p), p)
        BY <3>1, FromType
      <3> HIDE DEF p
      <3>3. /\ marks' = [s \in Students |-> IF s \in Deletes(q) THEN NoMark ELSE marks[s]]
            /\ trail' = [s \in Students |-> IF s \in Deletes(q) THEN {} ELSE trail[s]]
            /\ reqs' = [x \in Requests |->
                          IF x = r THEN FromCreate(p)
                          ELSE IF reqs[x] = Idle THEN Idle ELSE Loses(reqs[x], Deletes(q))]
            /\ UNCHANGED <<access, pastDeadline>>
        BY <1>2, <2>1 DEF SaveDelete, p
      <3>4. \A x \in Requests \ {r} : reqs[x] # Idle =>
              /\ reqs[x] \in Request
              /\ reqs'[x] \in Request
              /\ reqs'[x].found = reqs[x].found
              /\ reqs'[x].gone = reqs[x].gone \cup (Deletes(q) \cap reqs[x].found)
        <4>1. \A x \in Requests \ {r} : reqs[x] # Idle =>
                 reqs[x] \in Request /\ reqs'[x] = Loses(reqs[x], Deletes(q))
          BY <3>3 DEF IInv, TypeOK
        <4> QED BY <4>1, LosesType
      <3>5. \A x \in Requests \ {r} : reqs[x] = Idle => reqs'[x] = Idle
        BY <3>3
      <3>6. reqs'[r] = FromCreate(p)  BY <3>3
      <3>7. reqs' \in [Requests -> Request \cup {Idle}]
        <4>1. \A x \in Requests : reqs'[x] \in Request \cup {Idle}
          BY <3>2, <3>4, <3>5, <3>6
        <4>2. reqs' = [x \in Requests |-> reqs'[x]]
          BY <3>3
        <4> QED BY <4>1, <4>2
      <3>8. TypeOK'
        BY <1>b, <3>3, <3>7 DEF TypeOK
      <3>9. HeldRowsExist'
        <4> SUFFICES ASSUME NEW x \in Requests, reqs'[x] # Idle, NEW s \in Students,
                            StillThere(reqs'[x], s)
                     PROVE  marks'[s] # NoMark
          BY DEF HeldRowsExist, Has
        <4>1. CASE x = r
          <5>1. s \in q.found /\ s \notin q.gone /\ s \notin Deletes(q)
            BY <4>1, <3>1, <3>2, <3>6 DEF StillThere, Same
          <5> QED BY <5>1, <1>a, <3>3 DEF StillThere, Has
        <4>2. CASE x # r
          <5>1. reqs[x] # Idle  BY <4>2, <3>5
          <5>2. s \in reqs[x].found /\ s \notin reqs[x].gone /\ s \notin Deletes(q)
            BY <4>2, <5>1, <3>4 DEF StillThere
          <5>3. Has(s)  BY <5>1, <5>2, HeldBy DEF StillThere
          <5> QED BY <5>2, <5>3, <3>3 DEF Has
        <4> QED BY <4>1, <4>2
      <3>10. HandlersWellFormed'
        <4>1. Pending(p) = {}
          BY <1>0, <1>2, <1>a DEF SaveDelete, At, WellFormed, Pending, Loses, Request, p
        <4>2. Sound(FromCreate(p))  BY <3>1, <4>1, FromSound
        <4>3. \A x \in Requests \ {r} : reqs[x] # Idle => WellFormed(reqs'[x])
          BY <3>3, LosesKeeps DEF HandlersWellFormed, IInv, TypeOK
        <4> QED BY <3>5, <3>6, <4>2, <4>3 DEF HandlersWellFormed, Sound
      <3> QED BY <3>8, <3>9, <3>10 DEF IInv
    <2>2. CASE ~(\A s \in Deletes(q) : StillThere(q, s))
      BY <1>2, <1>b, <2>2, IdleIsSound, OneMovesMarksStay DEF SaveDelete, Ends
    <2> QED BY <2>1, <2>2
  <1>3. CASE SaveCreate(r)
    <2>1. CASE \E s \in Creates(q) : Has(s)
      BY <1>3, <1>b, <2>1, IdleIsSound, OneMovesMarksStay DEF SaveCreate, Ends
    <2>2. CASE ~(\E s \in Creates(q) : Has(s))
      <3> DEFINE p == [q EXCEPT !.step = "auditNew"]
      <3>1. p \in Request /\ p.op = "save" /\ p.found = q.found /\ p.gone = q.gone
            /\ WellFormed(p)
        BY <1>0, <1>3, <1>a DEF Request, Steps, SaveCreate, At, WellFormed, Pending
      <3>2. \A s \in Creates(q) :
               [value |-> q.entry[s], status |-> "DRAFT", by |-> q.user] \in Mark
        BY <1>c DEF Creates, Mark, Statuses
      <3>3. /\ marks' = [s \in Students |->
                  IF s \in Creates(q)
                  THEN [value |-> q.entry[s], status |-> "DRAFT", by |-> q.user]
                  ELSE marks[s]]
            /\ Becomes(r, p) /\ UNCHANGED <<trail, access, pastDeadline>>
        BY <1>3, <2>2 DEF SaveCreate
      <3>4. marks' \in [Students -> Mark \cup {NoMark}]
        BY <1>b, <3>2, <3>3
      <3>5. \A s \in Students : Has(s) => marks'[s] # NoMark
        BY <3>2, <3>3, Distinguished DEF Has
      <3>6. Sound(p) /\ \A s \in Students : StillThere(p, s) => marks'[s] # NoMark
        BY <1>a, <3>1, <3>5 DEF Sound, StillThere
      <3> HIDE DEF p
      <3> QED BY <1>b, <3>3, <3>4, <3>5, <3>6, OneMoves
    <2> QED BY <2>1, <2>2
  <1>4. CASE SaveAuditCreated(r)
    <2>1. CASE \A s \in Creates(q) : Has(s)
      <3>1. Audits(Creates(q), q.entry) /\ Becomes(r, FromUpdate(q))
            /\ UNCHANGED <<marks, access, pastDeadline>>
        BY <1>4, <2>1 DEF SaveAuditCreated
      <3>2. trail' \in [Students -> SUBSET Scores]
        BY <3>1, AuditsType DEF Creates, IInv
      <3>3. Sound(FromUpdate(q))
        BY <1>0, <1>4, <1>a, FromSound DEF SaveAuditCreated, At, WellFormed, Pending
      <3>4. FromUpdate(q) # Idle =>
              \A s \in Students : StillThere(FromUpdate(q), s) => Has(s)
        BY <1>0, <1>a, FromType DEF Same, StillThere
      <3> QED BY <1>b, <3>1, <3>2, <3>3, <3>4, OneMovesMarksStay
    <2>2. CASE ~(\A s \in Creates(q) : Has(s))
      BY <1>4, <1>b, <2>2, IdleIsSound, OneMovesMarksStay DEF SaveAuditCreated, Ends
    <2> QED BY <2>1, <2>2
  <1>5. CASE SaveUpdate(r)
    <2>1. PICK s \in q.todo :
            LET ok == StillThere(q, s)
                next == [q EXCEPT !.todo = @ \ {s}, !.failed = @ \/ ~ok]
            IN  /\ marks' = [marks EXCEPT ![s] =
                       IF ok THEN [value |-> q.entry[s], status |-> "DRAFT", by |-> q.user] ELSE @]
                /\ Becomes(r, IF next.todo # {} THEN next
                              ELSE IF next.failed THEN Idle
                              ELSE [next EXCEPT !.step = "auditOld"])
      BY <1>5 DEF SaveUpdate
    <2> DEFINE next == [q EXCEPT !.todo = @ \ {s}, !.failed = @ \/ ~StillThere(q, s)]
               p == IF next.todo # {} THEN next
                    ELSE IF next.failed THEN Idle ELSE [next EXCEPT !.step = "auditOld"]
    <2>2. s \in Students /\ q.entry[s] \in Values
      BY <1>0, <1>a DEF Request, WellFormed, Pending
    <2>3. p # Idle => /\ p \in Request /\ p.op = "save" /\ p.found = q.found
                      /\ p.gone = q.gone /\ WellFormed(p)
      BY <1>0, <1>5, <1>a DEF Request, Steps, WellFormed, Pending, SaveUpdate, At
    <2>4. Becomes(r, p) /\ UNCHANGED <<trail, access, pastDeadline>>
      BY <1>5, <2>1 DEF SaveUpdate
    <2> HIDE DEF p
    <2>5. marks' = [marks EXCEPT ![s] =
                      IF StillThere(q, s)
                      THEN [value |-> q.entry[s], status |-> "DRAFT", by |-> q.user] ELSE @]
      BY <2>1
    <2>6. [value |-> q.entry[s], status |-> "DRAFT", by |-> q.user] \in Mark
      BY <1>c, <2>2 DEF Mark, Statuses
    <2>7. marks' \in [Students -> Mark \cup {NoMark}]
      BY <1>b, <2>2, <2>5, <2>6
    <2>8. \A x \in Students : Has(x) => marks'[x] # NoMark
      BY <1>b, <2>2, <2>5, <2>6, Distinguished DEF Has
    <2>9. Sound(p) /\ (p # Idle => \A x \in Students : StillThere(p, x) => marks'[x] # NoMark)
      BY <1>a, <2>3, <2>8 DEF Sound, StillThere
    <2> QED BY <1>b, <2>4, <2>7, <2>8, <2>9, OneMoves
  <1>6. CASE SaveAuditUpdated(r)
    <2>1. trail' \in [Students -> SUBSET Scores]
      BY <1>6, <1>b, AuditsType DEF SaveAuditUpdated, Updates, IInv
    <2> QED BY <1>6, <1>b, <2>1, IdleIsSound, OneMovesMarksStay DEF SaveAuditUpdated, Ends
  <1> QED BY <1>1, <1>2, <1>3, <1>4, <1>5, <1>6 DEF SaveStep

-----------------------------------------------------------------------------
LEMMA UploadRestSound ==
  ASSUME NEW q, Sound(q)
  PROVE  Sound(UploadRest(q)) /\ (UploadRest(q) # Idle => UploadRest(q) = q)
  BY IdleIsSound DEF UploadRest

LEMMA UploadInv ==
  ASSUME IInv, NEW r \in Requests, UploadStep(r)
  PROVE  IInv'
  <1> DEFINE q == reqs[r]
  <1>0. q \in Request /\ q # Idle /\ q.op = "upload"
    BY ActiveIsRequest DEF IInv, Ops, UploadStep, UploadCheck, UploadFind, UploadWrite, UploadAudit, At
  <1>a. /\ \A s \in Students : StillThere(q, s) => Has(s)
        /\ WellFormed(q)
    BY <1>0, HeldBy, ActiveIsSound
  <1>b. /\ marks \in [Students -> Mark \cup {NoMark}]
        /\ trail \in [Students -> SUBSET Scores]
        /\ access \in [Teachers -> [Kinds -> {"NONE", "PENDING", "APPROVED", "REJECTED"}]]
        /\ pastDeadline \in BOOLEAN
    BY DEF IInv, TypeOK
  <1>1. CASE UploadCheck(r)
    <2> DEFINE cells == {s \in Students : q.entry[s] # Skip}
               p == [q EXCEPT !.step = "items", !.todo = cells,
                              !.found = {}, !.locked = {}, !.gone = {}]
    <2>1. CASE \E s \in cells : MutateBlocked(q.user, s \in q.locked)
      BY <1>1, <1>b, <2>1, IdleIsSound, OneMovesMarksStay DEF UploadCheck
    <2>2. CASE ~(\E s \in cells : MutateBlocked(q.user, s \in q.locked))
      <3>1. p \in Request /\ p.op = "upload" /\ p.found = {} /\ p.entry = q.entry
            /\ Pending(p) = cells \cup q.ready \cup q.written
        BY <1>0 DEF Request, Steps, Pending
      <3>a. \A s \in cells \cup q.ready \cup q.written : q.entry[s] \in Values
        BY <1>0, <1>a DEF Request, WellFormed, Pending
      <3>2. \A s \in Pending(p) : p.entry[s] \in Values
        BY <3>1, <3>a
      <3>3. Sound(p) /\ \A s \in Students : StillThere(p, s) => Has(s)
        BY <1>0, <1>a, <3>1, <3>2 DEF Sound, WellFormed, StillThere
      <3>4. Becomes(r, p)  BY <1>1, <2>2 DEF UploadCheck
      <3> HIDE DEF p
      <3> QED BY <1>1, <1>b, <3>3, <3>4, OneMovesMarksStay DEF UploadCheck
    <2> QED BY <2>1, <2>2
  <1>2. CASE UploadFind(r)
    <2>1. PICK s \in q.todo :
              Becomes(r, [q EXCEPT !.todo = @ \ {s}, !.ready = @ \cup {s},
                                   !.found = IF Has(s) THEN @ \cup {s} ELSE @])
      BY <1>2 DEF UploadFind
    <2> DEFINE p == [q EXCEPT !.todo = @ \ {s}, !.ready = @ \cup {s},
                              !.found = IF Has(s) THEN @ \cup {s} ELSE @]
    <2>2. /\ p \in Request /\ p.op = "upload" /\ p.entry = q.entry /\ p.gone = q.gone
          /\ p.found = IF Has(s) THEN q.found \cup {s} ELSE q.found
          /\ Pending(p) = Pending(q)
      BY <1>0 DEF Request, Pending
    <2>3. Sound(p) /\ \A x \in Students : StillThere(p, x) => Has(x)
      BY <1>0, <1>a, <2>2 DEF Sound, WellFormed, StillThere
    <2>4. Becomes(r, p)  BY <2>1
    <2> HIDE DEF p
    <2> QED BY <1>2, <1>b, <2>3, <2>4, OneMovesMarksStay DEF UploadFind
  <1>3. CASE UploadWrite(r)
    <2>1. PICK s \in q.ready :
            LET ok == IF s \in q.found THEN StillThere(q, s) ELSE ~Has(s)
                put == Put(s, q.entry[s], UploadStatus(q.user), q.user)
            IN  /\ marks' = [marks EXCEPT ![s] = IF ok THEN put ELSE @]
                /\ Becomes(r, UploadRest(
                       [q EXCEPT !.ready = @ \ {s},
                                 !.written = IF ok THEN @ \cup {s} ELSE @,
                                 !.found = IF ok THEN @ \cup {s} ELSE @]))
      BY <1>3 DEF UploadWrite
    <2> DEFINE ok == IF s \in q.found THEN StillThere(q, s) ELSE ~Has(s)
               put == Put(s, q.entry[s], UploadStatus(q.user), q.user)
               p == [q EXCEPT !.ready = @ \ {s},
                              !.written = IF ok THEN @ \cup {s} ELSE @,
                              !.found = IF ok THEN @ \cup {s} ELSE @]
    <2>2. s \in Students /\ q.entry[s] \in Values
      BY <1>0, <1>a DEF Request, WellFormed, Pending
    <2>3. put \in Mark
      BY <1>0, <2>2, PutType DEF IInv, Statuses, UploadStatus, Request
    <2>4. /\ p \in Request /\ p.op = "upload" /\ p.entry = q.entry /\ p.gone = q.gone
          /\ p.found = IF ok THEN q.found \cup {s} ELSE q.found
          /\ Pending(p) \subseteq Pending(q)
      BY <1>0, <2>2 DEF Request, Pending
    <2>5. marks' = [marks EXCEPT ![s] = IF ok THEN put ELSE @] /\ Becomes(r, UploadRest(p))
      BY <2>1
    <2> HIDE DEF p, put, ok
    <2>6. marks' \in [Students -> Mark \cup {NoMark}]
      BY <1>b, <2>2, <2>3, <2>5
    <2>7. \A x \in Students : Has(x) => marks'[x] # NoMark
      BY <1>b, <2>2, <2>3, <2>5, Distinguished DEF Has
    <2>8. ok => marks'[s] # NoMark
      BY <1>b, <2>2, <2>3, <2>5, Distinguished
    <2>9. Sound(p) /\ \A x \in Students : StillThere(p, x) => marks'[x] # NoMark
      BY <1>0, <1>a, <2>4, <2>7, <2>8 DEF Sound, WellFormed, StillThere
    <2>10. /\ Sound(UploadRest(p))
           /\ UploadRest(p) # Idle =>
                 \A x \in Students : StillThere(UploadRest(p), x) => marks'[x] # NoMark
      BY <2>9, UploadRestSound
    <2> QED BY <1>3, <1>b, <2>5, <2>6, <2>7, <2>10, OneMoves DEF UploadWrite
  <1>4. CASE UploadAudit(r)
    <2>1. PICK s \in q.written :
              /\ IF StillThere(q, s) THEN Audits({s}, q.entry) ELSE UNCHANGED trail
              /\ Becomes(r, UploadRest([q EXCEPT !.written = @ \ {s}]))
      BY <1>4 DEF UploadAudit
    <2> DEFINE p == [q EXCEPT !.written = @ \ {s}]
    <2>2. s \in Students /\ q.entry[s] \in Values
      BY <1>0, <1>a DEF Request, WellFormed, Pending
    <2>3. trail' \in [Students -> SUBSET Scores]
      BY <1>b, <2>1, <2>2, AuditsType DEF IInv
    <2>4. /\ p \in Request /\ p.op = "upload" /\ p.entry = q.entry /\ p.gone = q.gone
          /\ p.found = q.found /\ Pending(p) \subseteq Pending(q)
      BY <1>0 DEF Request, Pending
    <2>5. Becomes(r, UploadRest(p))  BY <2>1
    <2> HIDE DEF p
    <2>6. Sound(p) /\ \A x \in Students : StillThere(p, x) => Has(x)
      BY <1>0, <1>a, <2>4 DEF Sound, WellFormed, StillThere
    <2>7. /\ Sound(UploadRest(p))
          /\ UploadRest(p) # Idle =>
                \A x \in Students : StillThere(UploadRest(p), x) => Has(x)
      BY <2>6, UploadRestSound
    <2> QED BY <1>4, <1>b, <2>3, <2>5, <2>7, OneMovesMarksStay DEF UploadAudit
  <1> QED BY <1>1, <1>2, <1>3, <1>4 DEF UploadStep

-----------------------------------------------------------------------------
LEMMA SubmitInv ==
  ASSUME IInv, NEW r \in Requests, SubmitStep(r)
  PROVE  IInv'
  <1> DEFINE q == reqs[r]
  <1>0. q \in Request /\ q # Idle /\ q.op = "submit"
    BY ActiveIsRequest DEF IInv, Ops, SubmitStep, SubmitRead, SubmitLock, SubmitClearGrant, At
  <1>a. /\ \A s \in Students : StillThere(q, s) => Has(s)
        /\ WellFormed(q)
    BY <1>0, HeldBy, ActiveIsSound
  <1>b. /\ marks \in [Students -> Mark \cup {NoMark}]
        /\ trail \in [Students -> SUBSET Scores]
        /\ access \in [Teachers -> [Kinds -> {"NONE", "PENDING", "APPROVED", "REJECTED"}]]
        /\ pastDeadline \in BOOLEAN
    BY DEF IInv, TypeOK
  <1>1. CASE SubmitRead(r)
    <2> DEFINE drafts == {s \in Students : Has(s) /\ marks[s].status = "DRAFT"
                                                  /\ marks[s].by = q.owner}
               p == [q EXCEPT !.step = "lock", !.found = drafts]
    <2>1. /\ p \in Request /\ p.op = "submit" /\ p.entry = q.entry
          /\ p.found = drafts /\ Pending(p) = Pending(q)
      BY <1>0 DEF Request, Steps, Pending
    <2>2. Sound(p) /\ \A s \in Students : StillThere(p, s) => Has(s)
      BY <1>0, <1>a, <2>1 DEF Sound, WellFormed, StillThere
    <2>3. Becomes(r, IF drafts = {} THEN Idle ELSE p)
      BY <1>1 DEF SubmitRead
    <2> HIDE DEF p
    <2>4. CASE drafts = {}
      BY <1>1, <1>b, <2>3, <2>4, IdleIsSound, OneMovesMarksStay DEF SubmitRead
    <2>5. CASE drafts # {}
      BY <1>1, <1>b, <2>2, <2>3, <2>5, OneMovesMarksStay DEF SubmitRead
    <2> QED BY <2>4, <2>5
  <1>2. CASE SubmitLock(r)
    <2> DEFINE p == [q EXCEPT !.step = "clear", !.found = {}, !.gone = {}]
    <2>1. /\ p \in Request /\ p.op = "submit" /\ p.entry = q.entry
          /\ p.found = {} /\ Pending(p) = Pending(q)
      BY <1>0 DEF Request, Steps, Pending
    <2>2. Sound(p) /\ \A s \in Students : ~StillThere(p, s)
      BY <1>0, <1>a, <2>1 DEF Sound, WellFormed, StillThere
    <2>3. Becomes(r, p) /\ UNCHANGED <<trail, access, pastDeadline>>
      BY <1>2 DEF SubmitLock
    <2>4. \A s \in Students : StillThere(q, s) =>
             [marks[s] EXCEPT !.status = "SUBMITTED"] \in Mark
      BY <1>a, <1>b DEF Has, Mark, Statuses
    <2>5. marks' = [s \in Students |-> IF StillThere(q, s)
                                        THEN [marks[s] EXCEPT !.status = "SUBMITTED"]
                                        ELSE marks[s]]
      BY <1>2 DEF SubmitLock
    <2>6. marks' \in [Students -> Mark \cup {NoMark}]
      BY <1>b, <2>4, <2>5
    <2>7. \A s \in Students : Has(s) => marks'[s] # NoMark
      BY <2>4, <2>5, Distinguished DEF Has
    <2> HIDE DEF p
    <2> QED BY <1>b, <2>2, <2>3, <2>6, <2>7, OneMoves
  <1>3. CASE SubmitClearGrant(r)
    <2> DEFINE owner == q.owner
               loses(x) == /\ reqs[x].op = "ask" /\ reqs[x].owner = owner
                           /\ reqs[x].kind = "EDIT" /\ reqs[x].row = "held"
    <2>1. CASE owner \in Teachers /\ Granted(owner, "EDIT")
      <3>1. /\ access' = [access EXCEPT ![owner]["EDIT"] = "NONE"]
            /\ reqs' = [x \in Requests |-> IF x = r THEN Idle
                                           ELSE IF loses(x) THEN [reqs[x] EXCEPT !.row = "gone"]
                                           ELSE reqs[x]]
            /\ UNCHANGED <<marks, trail, pastDeadline>>
        BY <1>3, <2>1 DEF SubmitClearGrant
      <3>2. \A x \in Requests : loses(x) => reqs[x] \in Request /\ WellFormed(reqs[x])
        BY ActiveIsRequest, ActiveIsSound DEF IInv, Ops
      <3>3. \A x \in Requests : loses(x) =>
              LET p == [reqs[x] EXCEPT !.row = "gone"]
              IN  /\ p \in Request /\ p.op = "ask" /\ p.entry = reqs[x].entry
                  /\ p.found = reqs[x].found /\ p.gone = reqs[x].gone
                  /\ Pending(p) = Pending(reqs[x])
        BY <3>2 DEF Request, Pending
      <3>4. \A x \in Requests : loses(x) => WellFormed([reqs[x] EXCEPT !.row = "gone"])
        BY <3>2, <3>3 DEF WellFormed
      <3>5. reqs' \in [Requests -> Request \cup {Idle}]
        BY <3>1, <3>3 DEF IInv, TypeOK
      <3>6. TypeOK'
        BY <1>b, <3>1, <3>5 DEF TypeOK
      <3>7. HeldRowsExist'
        BY <3>1, <3>3 DEF IInv, HeldRowsExist, Has, StillThere, Idle, Request
      <3>8. HandlersWellFormed'
        BY <3>1, <3>4 DEF IInv, HandlersWellFormed, Idle
      <3> QED BY <3>6, <3>7, <3>8 DEF IInv
    <2>2. CASE ~(owner \in Teachers /\ Granted(owner, "EDIT"))
      BY <1>3, <1>b, <2>2, IdleIsSound, OneMovesMarksStay DEF SubmitClearGrant, Ends
    <2> QED BY <2>1, <2>2
  <1> QED BY <1>1, <1>2, <1>3 DEF SubmitStep

-----------------------------------------------------------------------------
LEMMA ModerateInv ==
  ASSUME IInv, NEW r \in Requests, ModerateStep(r)
  PROVE  IInv'
  <1> DEFINE q == reqs[r]
  <1>0. q \in Request /\ q # Idle /\ q.op = "moderate"
    BY ActiveIsRequest DEF IInv, Ops, ModerateStep, ModerateWrite, ModerateAudit, At
  <1>a. /\ \A s \in Students : StillThere(q, s) => Has(s)
        /\ WellFormed(q)
    BY <1>0, HeldBy, ActiveIsSound
  <1>b. /\ marks \in [Students -> Mark \cup {NoMark}]
        /\ trail \in [Students -> SUBSET Scores]
        /\ access \in [Teachers -> [Kinds -> {"NONE", "PENDING", "APPROVED", "REJECTED"}]]
        /\ pastDeadline \in BOOLEAN
    BY DEF IInv, TypeOK
  <1>1. CASE ModerateWrite(r)
    <2>1. PICK s \in q.todo :
            LET ok == IF s \in q.found THEN StillThere(q, s) ELSE ~Has(s)
                put == Put(s, q.entry[s], "APPROVED", q.owner)
            IN  /\ marks' = [marks EXCEPT ![s] = IF ok THEN put ELSE @]
                /\ Becomes(r, IF ok THEN [q EXCEPT !.step = "audit", !.found = {s}] ELSE Idle)
      BY <1>1 DEF ModerateWrite
    <2> DEFINE ok == IF s \in q.found THEN StillThere(q, s) ELSE ~Has(s)
               put == Put(s, q.entry[s], "APPROVED", q.owner)
               p == [q EXCEPT !.step = "audit", !.found = {s}]
    <2>2. s \in Students /\ q.entry[s] \in Values
      BY <1>0, <1>a DEF Request, WellFormed, Pending
    <2>3. put \in Mark
      BY <1>0, <2>2, PutType DEF IInv, Statuses, Request
    <2>4. /\ p \in Request /\ p.op = q.op /\ p.user = q.user /\ p.entry = q.entry
          /\ p.found = {s} /\ Pending(p) = Pending(q)
      BY <1>0, <2>2 DEF Request, Steps, Pending
    <2>5. /\ marks' = [marks EXCEPT ![s] = IF ok THEN put ELSE @]
          /\ Becomes(r, IF ok THEN p ELSE Idle)
          /\ UNCHANGED <<trail, access, pastDeadline>>
      BY <1>1, <2>1 DEF ModerateWrite
    <2> HIDE DEF p, put, ok
    <2>6. marks' \in [Students -> Mark \cup {NoMark}]
      BY <1>b, <2>2, <2>3, <2>5
    <2>7. \A x \in Students : Has(x) => marks'[x] # NoMark
      BY <1>b, <2>2, <2>3, <2>5, Distinguished DEF Has
    <2>8. ok => marks'[s] # NoMark
      BY <1>b, <2>2, <2>3, <2>5, Distinguished
    <2>9. Sound(p) /\ (ok => \A x \in Students : StillThere(p, x) => marks'[x] # NoMark)
      BY <1>0, <1>a, <2>4, <2>8 DEF Sound, WellFormed, StillThere
    <2>10. CASE ok
      BY <1>b, <2>5, <2>6, <2>7, <2>9, <2>10, OneMoves
    <2>11. CASE ~ok
      BY <1>b, <2>5, <2>6, <2>7, <2>11, OneMoves, IdleIsSound
    <2> QED BY <2>10, <2>11
  <1>2. CASE ModerateAudit(r)
    <2>1. trail' \in [Students -> SUBSET Scores]
      BY <1>2, <1>a, AuditsType DEF ModerateAudit, IInv, WellFormed, Pending
    <2> QED BY <1>2, <1>b, <2>1, IdleIsSound, OneMovesMarksStay DEF ModerateAudit, Ends
  <1> QED BY <1>1, <1>2 DEF ModerateStep

-----------------------------------------------------------------------------
LEMMA AccessInv ==
  ASSUME IInv, NEW r \in Requests, AskWrite(r) \/ ReviewReopen(r)
  PROVE  IInv'
  <1>a. /\ marks \in [Students -> Mark \cup {NoMark}]
        /\ trail \in [Students -> SUBSET Scores]
        /\ access \in [Teachers -> [Kinds -> {"NONE", "PENDING", "APPROVED", "REJECTED"}]]
        /\ pastDeadline \in BOOLEAN
    BY DEF IInv, TypeOK
  <1>1. CASE AskWrite(r)
    <2>1. access' \in [Teachers -> [Kinds -> {"NONE", "PENDING", "APPROVED", "REJECTED"}]]
      BY <1>1, <1>a DEF AskWrite
    <2> QED BY <1>1, <1>a, <2>1, IdleIsSound, OneMovesMarksStay DEF AskWrite, Ends
  <1>2. CASE ReviewReopen(r)
    <2> DEFINE opens(s) == Locked(s) /\ marks[s].by = reqs[r].owner
    <2>1. marks' = [s \in Students |-> IF opens(s) THEN [marks[s] EXCEPT !.status = "DRAFT"]
                                        ELSE marks[s]]
      BY <1>2 DEF ReviewReopen
    <2>2. \A s \in Students : opens(s) => [marks[s] EXCEPT !.status = "DRAFT"] \in Mark
      BY <1>a DEF Locked, Has, Mark, Statuses
    <2> HIDE DEF opens
    <2>3. marks' \in [Students -> Mark \cup {NoMark}]
      BY <1>a, <2>1, <2>2
    <2>4. \A s \in Students : Has(s) => marks'[s] # NoMark
      BY <2>1, <2>2, Distinguished DEF Has
    <2> QED BY <1>2, <1>a, <2>3, <2>4, IdleIsSound, OneMoves DEF ReviewReopen, Ends
  <1> QED BY <1>1, <1>2

LEMMA MoveStatusInv ==
  ASSUME IInv, NEW owner, NEW from, NEW to \in Statuses, MoveStatus(owner, from, to)
  PROVE  IInv'
  <1> DEFINE moves(s) == Has(s) /\ marks[s].by = owner /\ marks[s].status = from
  <1>1. marks' = [s \in Students |-> IF moves(s) THEN [marks[s] EXCEPT !.status = to]
                                     ELSE marks[s]]
        /\ UNCHANGED <<trail, access, pastDeadline, reqs>>
    BY DEF MoveStatus
  <1>2. \A s \in Students : moves(s) => [marks[s] EXCEPT !.status = to] \in Mark
    BY DEF IInv, TypeOK, Has, Mark
  <1> HIDE DEF moves
  <1>3. TypeOK'
    BY <1>1, <1>2 DEF IInv, TypeOK
  <1>4. \A s \in Students : Has(s) => marks'[s] # NoMark
    BY <1>1, <1>2, Distinguished DEF Has
  <1>5. HeldRowsExist'
    BY <1>1, <1>4 DEF IInv, HeldRowsExist, StillThere, Has
  <1>6. HandlersWellFormed'
    BY <1>1 DEF IInv, HandlersWellFormed
  <1> QED BY <1>3, <1>5, <1>6 DEF IInv

\* IInv is inductive.
LEMMA Inductive == IInv /\ [Next]_vars => IInv'
  <1> SUFFICES ASSUME IInv, [Next]_vars PROVE IInv'
    OBVIOUS
  <1>1. ASSUME NEW r \in Requests, Arrives(r) PROVE IInv'
    BY <1>1, ArrivesInv
  <1>2. ASSUME NEW r \in Requests, Step(r) PROVE IInv'
    BY <1>2, SaveInv, UploadInv, SubmitInv, ModerateInv, AccessInv DEF Step
  <1>3. ASSUME NEW r \in Requests, RequestFails(r) PROVE IInv'
    BY <1>3, IdleIsSound, OneMovesMarksStay DEF RequestFails, Ends, IInv, TypeOK
  <1>4. ASSUME NEW owner \in Staff, Approve(owner) \/ Unapprove(owner) PROVE IInv'
    BY <1>4, MoveStatusInv DEF Approve, Unapprove, Statuses
  <1>5. CASE DeadlineMoves
    BY <1>5 DEF DeadlineMoves, IInv, TypeOK, HeldRowsExist, StillThere, Has,
       HandlersWellFormed
  <1>6. CASE UNCHANGED vars
    BY <1>6 DEF vars, IInv, TypeOK, HeldRowsExist, StillThere, Has, HandlersWellFormed
  <1> QED BY <1>1, <1>2, <1>3, <1>4, <1>5, <1>6 DEF Next

LEMMA Initially == Init => IInv
  <1> SUFFICES ASSUME Init PROVE IInv
    OBVIOUS
  <1>1. TypeOK  BY DEF Init, TypeOK
  <1>2. HeldRowsExist /\ HandlersWellFormed
    BY DEF Init, HeldRowsExist, HandlersWellFormed
  <1> QED BY <1>1, <1>2 DEF IInv

\* In every register the variables keep their types, no handler still holds a row
\* that is gone without having lost it, and every handler in flight is well formed.
THEOREM Invariance == Spec => []IInv
  <1>1. Init => IInv  BY Initially
  <1>2. IInv /\ [Next]_vars => IInv'  BY Inductive
  <1> QED BY <1>1, <1>2, PTL DEF Spec

-----------------------------------------------------------------------------
(***************************************************************************)
(* What a step can do to the marks.                                        *)
(***************************************************************************)
Kept(s) == marks'[s] = marks[s]
Draft(s) == marks'[s] \in Mark /\ marks'[s].status = "DRAFT"
Moved(s, status) == Has(s) /\ marks'[s] = [marks[s] EXCEPT !.status = status]

LEMMA StepEffect ==
  ASSUME IInv, NEW r \in Requests, Step(r)
  PROVE  /\ reqs[r] # Idle
         /\ \/ UNCHANGED marks
            \/ SaveDelete(r) /\ \A s \in Students : Kept(s) \/ marks'[s] = NoMark
            \/ \A s \in Students : Kept(s) \/ Draft(s)
            \/ /\ reqs[r].user \in Leaders
               /\ \E s \in Students :
                     /\ marks'[s] \in Mark /\ marks'[s].status = "APPROVED"
                     /\ \A x \in Students \ {s} : Kept(x)
            \/ \A s \in Students : Kept(s) \/ Moved(s, "SUBMITTED")
            \/ \A s \in Students : Kept(s) \/ (Locked(s) /\ Moved(s, "DRAFT"))
  <1> DEFINE q == reqs[r]
  <1>0. q \in Request /\ q # Idle
    BY ActiveIsRequest DEF IInv, Ops, Step, SaveStep, SavePlan, SaveDelete, SaveCreate,
       SaveAuditCreated, SaveUpdate, SaveAuditUpdated, UploadStep, UploadCheck, UploadFind,
       UploadWrite, UploadAudit, SubmitStep, SubmitRead, SubmitLock, SubmitClearGrant,
       ModerateStep, ModerateWrite, ModerateAudit, AskWrite, ReviewReopen, At
  <1>a. marks \in [Students -> Mark \cup {NoMark}] /\ WellFormed(q)
        /\ \A s \in Students : StillThere(q, s) => Has(s)
    BY <1>0, ActiveIsSound, HeldBy DEF IInv, TypeOK
  <1>1. CASE UNCHANGED marks
    BY <1>0, <1>1 DEF Kept
  <1>2. CASE SaveDelete(r)
    <2>1. \A s \in Students : Kept(s) \/ marks'[s] = NoMark
      BY <1>2, <1>a DEF SaveDelete, Kept
    <2> QED BY <1>0, <1>2, <2>1
  <1>3. CASE SaveCreate(r)
    <2>1. \A s \in Creates(q) :
             [value |-> q.entry[s], status |-> "DRAFT", by |-> q.user] \in Mark
      BY <1>0 DEF Creates, Mark, Statuses, Request
    <2>2. \A s \in Students : Kept(s) \/ Draft(s)
      BY <1>3, <1>a, <2>1 DEF SaveCreate, Kept, Draft
    <2> QED BY <1>0, <2>2
  <1>4. CASE SaveUpdate(r)
    <2>1. \A s \in q.todo :
             [value |-> q.entry[s], status |-> "DRAFT", by |-> q.user] \in Mark
      BY <1>0, <1>a DEF WellFormed, Pending, Mark, Statuses, Request
    <2>2. \A s \in Students : Kept(s) \/ Draft(s)
      BY <1>4, <1>a, <2>1 DEF SaveUpdate, Kept, Draft
    <2> QED BY <1>0, <2>2
  <1>5. CASE UploadWrite(r)
    <2>1. PICK s \in q.ready :
            LET ok == IF s \in q.found THEN StillThere(q, s) ELSE ~Has(s)
                put == Put(s, q.entry[s], UploadStatus(q.user), q.user)
            IN  marks' = [marks EXCEPT ![s] = IF ok THEN put ELSE @]
      BY <1>5 DEF UploadWrite
    <2> DEFINE put == Put(s, q.entry[s], UploadStatus(q.user), q.user)
    <2>2. s \in Students /\ put \in Mark /\ put.status = UploadStatus(q.user)
      BY <1>0, <1>a, PutType DEF IInv, WellFormed, Pending, Statuses, Request, UploadStatus
    <2>3. marks'[s] = marks[s] \/ marks'[s] = put
      BY <1>a, <2>1, <2>2
    <2>4. \A x \in Students \ {s} : Kept(x)
      BY <1>a, <2>1 DEF Kept
    <2> HIDE DEF put
    <2>5. CASE q.user \in Leaders
      BY <1>0, <2>2, <2>3, <2>4, <2>5 DEF UploadStatus, Kept
    <2>6. CASE q.user \notin Leaders
      BY <1>0, <2>2, <2>3, <2>4, <2>6 DEF UploadStatus, Kept, Draft
    <2> QED BY <2>5, <2>6
  <1>6. CASE SubmitLock(r)
    <2>1. \A s \in Students : Kept(s) \/ Moved(s, "SUBMITTED")
      BY <1>6, <1>a DEF SubmitLock, Kept, Moved
    <2> QED BY <1>0, <2>1
  <1>7. CASE ModerateWrite(r)
    <2>1. PICK s \in q.todo :
            LET ok == IF s \in q.found THEN StillThere(q, s) ELSE ~Has(s)
                put == Put(s, q.entry[s], "APPROVED", q.owner)
            IN  marks' = [marks EXCEPT ![s] = IF ok THEN put ELSE @]
      BY <1>7 DEF ModerateWrite
    <2> DEFINE put == Put(s, q.entry[s], "APPROVED", q.owner)
    <2>2. s \in Students /\ put \in Mark /\ put.status = "APPROVED"
      BY <1>0, <1>a, PutType DEF IInv, WellFormed, Pending, Statuses, Request
    <2>3. marks'[s] = marks[s] \/ marks'[s] = put
      BY <1>a, <2>1, <2>2
    <2>4. \A x \in Students \ {s} : Kept(x)
      BY <1>a, <2>1 DEF Kept
    <2>5. q.user \in Leaders
      BY <1>7, <1>a DEF ModerateWrite, At, WellFormed
    <2> HIDE DEF put
    <2> QED BY <1>0, <2>2, <2>3, <2>4, <2>5 DEF Kept
  <1>8. CASE ReviewReopen(r)
    <2>1. \A s \in Students : Kept(s) \/ (Locked(s) /\ Moved(s, "DRAFT"))
      BY <1>8, <1>a DEF ReviewReopen, Kept, Moved, Locked
    <2> QED BY <1>0, <2>1
  <1> QED BY <1>1, <1>2, <1>3, <1>4, <1>5, <1>6, <1>7, <1>8
      DEF Step, SaveStep, SavePlan, SaveAuditCreated, SaveAuditUpdated,
          UploadStep, UploadCheck, UploadFind, UploadAudit,
          SubmitStep, SubmitRead, SubmitClearGrant, ModerateStep, ModerateAudit, AskWrite

\* The other actions leave the marks alone, or move statuses in one statement.
LEMMA OtherEffect ==
  ASSUME IInv, [Next]_vars, \A r \in Requests : ~Step(r)
  PROVE  \/ UNCHANGED marks
         \/ \E owner \in Staff :
               /\ Approve(owner)
               /\ \A s \in Students : Kept(s) \/ (Has(s) /\ marks[s].status = "SUBMITTED"
                                                  /\ Moved(s, "APPROVED"))
         \/ \A s \in Students : Kept(s) \/ Moved(s, "SUBMITTED")
  <1>a. marks \in [Students -> Mark \cup {NoMark}]
    BY DEF IInv, TypeOK
  <1>1. ASSUME NEW r \in Requests, Arrives(r) PROVE UNCHANGED marks
    BY <1>1 DEF Arrives, SaveRead, UploadRead, SubmitCheck, ModerateRead, AskRead, ReviewWrite
  <1>2. ASSUME NEW r \in Requests, RequestFails(r) PROVE UNCHANGED marks
    BY <1>2 DEF RequestFails
  <1>3. ASSUME NEW owner \in Staff, Approve(owner)
        PROVE  \A s \in Students : Kept(s) \/ (Has(s) /\ marks[s].status = "SUBMITTED"
                                                  /\ Moved(s, "APPROVED"))
    BY <1>3, <1>a DEF Approve, MoveStatus, Kept, Moved
  <1>4. ASSUME NEW owner \in Staff, Unapprove(owner)
        PROVE  \A s \in Students : Kept(s) \/ Moved(s, "SUBMITTED")
    BY <1>4, <1>a DEF Unapprove, MoveStatus, Kept, Moved
  <1>5. DeadlineMoves \/ UNCHANGED vars => UNCHANGED marks
    BY DEF DeadlineMoves, vars
  <1> QED BY <1>1, <1>2, <1>3, <1>4, <1>5 DEF Next

\* Only a save's deletes make rows go away.
LEMMA RowsStay ==
  ASSUME IInv, [Next]_vars, NEW s \in Students, Has(s),
         \/ \A r \in Requests : ~Step(r)
         \/ \E r \in Requests : Step(r) /\ ~SaveDelete(r)
  PROVE  Has(s)'
  <1>1. marks[s] \in Mark
    BY DEF Has, IInv, TypeOK
  <1>2. \A status \in Statuses : Moved(s, status) => marks'[s] \in Mark
    BY <1>1 DEF Moved, Mark
  <1>3. Kept(s) \/ marks'[s] \in Mark => Has(s)'
    BY <1>1, Distinguished DEF Kept, Has
  <1>4. ASSUME NEW r \in Requests, Step(r), ~SaveDelete(r) PROVE Has(s)'
    <2>1. Kept(s) \/ Draft(s) \/ marks'[s] \in Mark \/ Moved(s, "SUBMITTED") \/ Moved(s, "DRAFT")
      BY <1>4, StepEffect DEF Kept
    <2> QED BY <1>2, <1>3, <2>1 DEF Draft, Statuses
  <1>5. CASE \A r \in Requests : ~Step(r)
    <2>1. Kept(s) \/ Moved(s, "SUBMITTED") \/ Moved(s, "APPROVED")
      BY <1>5, OtherEffect DEF Kept
    <2> QED BY <1>2, <1>3, <2>1 DEF Statuses
  <1> QED BY <1>4, <1>5

-----------------------------------------------------------------------------
LEMMA ApprovalStep ==
  ASSUME IInv, [Next]_vars, NEW s \in Students,
         Has(s)', marks'[s].status = "APPROVED", marks'[s] # marks[s]
  PROVE  \/ \E owner \in Staff : Approve(owner)
         \/ \E r \in Requests : reqs[r] # Idle /\ reqs[r].user \in Leaders /\ Step(r)
  <1>1. Has(s) => marks[s] \in Mark
    BY DEF Has, IInv, TypeOK
  <1>2. ~Moved(s, "SUBMITTED") /\ ~Moved(s, "DRAFT")
    BY <1>1 DEF Moved, Mark
  <1>3. ~Kept(s) /\ ~Draft(s) /\ marks'[s] # NoMark
    BY DEF Kept, Draft, Has
  <1>4. ASSUME NEW r \in Requests, Step(r)
        PROVE  reqs[r] # Idle /\ reqs[r].user \in Leaders
    BY <1>2, <1>3, <1>4, StepEffect
  <1>5. CASE \A r \in Requests : ~Step(r)
    BY <1>2, <1>3, <1>5, OtherEffect DEF Kept
  <1> QED BY <1>4, <1>5

\* A mark comes to stand as approved, or gets another value while it does, only by
\* leadership's approval or a leader's own handler: no interleaving of teachers'
\* saves, uploads and submissions publishes a mark.
THEOREM ApprovalIsLeaderships == Spec => ApprovedOnlyByLeadership
  <1>1. IInv /\ [Next]_vars =>
          [\A s \in Students :
             (Has(s)' /\ marks'[s].status = "APPROVED" /\ marks'[s] # marks[s]) =>
                 \/ \E owner \in Staff : Approve(owner)
                 \/ \E r \in Requests :
                       reqs[r] # Idle /\ reqs[r].user \in Leaders /\ Step(r)]_vars
    BY ApprovalStep
  <1> QED BY <1>1, Invariance, PTL DEF Spec, ApprovedOnlyByLeadership

-----------------------------------------------------------------------------
LEMMA AuditsStep ==
  ASSUME NEW cells, NEW entry, Audits(cells, entry), NoOrphanAudits,
         \A s \in Students : s \in cells => Has(s), UNCHANGED marks
  PROVE  NoOrphanAudits'
  BY DEF Audits, NoOrphanAudits, Has

\* No interleaving leaves an audit row of a mark that does not exist.
THEOREM NoOrphans == Spec => []NoOrphanAudits
  <1>1. Init => NoOrphanAudits
    BY DEF Init, NoOrphanAudits
  <1>2. IInv /\ NoOrphanAudits /\ [Next]_vars => NoOrphanAudits'
    <2> SUFFICES ASSUME IInv, NoOrphanAudits, [Next]_vars PROVE NoOrphanAudits'
      OBVIOUS
    <2>1. ASSUME UNCHANGED trail, \A s \in Students : Has(s) => Has(s)' PROVE NoOrphanAudits'
      BY <2>1 DEF NoOrphanAudits
    <2>2. ASSUME UNCHANGED <<marks, trail>> PROVE NoOrphanAudits'
      BY <2>2 DEF NoOrphanAudits, Has
    <2>3. ASSUME NEW r \in Requests, Step(r) PROVE NoOrphanAudits'
      <3> DEFINE q == reqs[r]
      <3>0. reqs[r] # Idle
        BY <2>3, StepEffect
      <3>1. \A s \in Students : StillThere(q, s) => Has(s)
        BY <3>0, HeldBy
      <3>2. q \in Request /\ WellFormed(q) /\ IInv'
        BY <3>0, ActiveIsSound, Inductive
      <3>3. CASE SaveDelete(r)
        BY <3>3 DEF SaveDelete, NoOrphanAudits, Has
      <3>4. CASE SaveAuditCreated(r)
        BY <3>4, <2>2, AuditsStep DEF SaveAuditCreated
      <3>5. CASE SaveAuditUpdated(r)
        BY <3>1, <3>5, <2>2, AuditsStep DEF SaveAuditUpdated, Updates
      <3>6. CASE UploadAudit(r)
        BY <3>1, <3>6, <2>2, AuditsStep DEF UploadAudit
      <3>7. CASE ModerateAudit(r)
        BY <3>1, <3>7, AuditsStep DEF ModerateAudit
      <3>8. CASE UNCHANGED <<marks, trail>>
        BY <2>2, <3>8
      <3>9. CASE SaveCreate(r) \/ SaveUpdate(r) \/ UploadWrite(r) \/ SubmitLock(r)
                 \/ ModerateWrite(r) \/ ReviewReopen(r)
        <4>1. UNCHANGED trail
          BY <3>9 DEF SaveCreate, SaveUpdate, UploadWrite, SubmitLock, ModerateWrite,
                      ReviewReopen
        <4>2. ~SaveDelete(r)
          BY <3>9 DEF SaveDelete, SaveCreate, SaveUpdate, UploadWrite, SubmitLock,
                      ModerateWrite, ReviewReopen, At
        <4> QED BY <2>1, <2>3, <4>1, <4>2, RowsStay
      <3> QED BY <2>3, <3>3, <3>4, <3>5, <3>6, <3>7, <3>8, <3>9
          DEF Step, SaveStep, SavePlan, UploadStep, UploadCheck, UploadFind,
              SubmitStep, SubmitRead, SubmitClearGrant, ModerateStep, AskWrite
    <2>4. CASE \A r \in Requests : ~Step(r)
      <3>1. UNCHANGED trail
        BY <2>4 DEF Next, Arrives, SaveRead, UploadRead, SubmitCheck, ModerateRead, AskRead,
           ReviewWrite, RequestFails, Approve, Unapprove, MoveStatus, DeadlineMoves, vars
      <3> QED BY <2>1, <2>4, <3>1, RowsStay
    <2> QED BY <2>3, <2>4
  <1> QED BY <1>1, <1>2, Invariance, PTL DEF Spec

-----------------------------------------------------------------------------
(***************************************************************************)
(* The register implements MarkLifecycle.                                  *)
(***************************************************************************)
LEMMA CellsType == IInv => Cells \in [Students -> Lifecycle!Cell]
  BY DEF IInv, TypeOK, Cells, Has, Mark, Statuses, Lifecycle!Cell, Lifecycle!Statuses

LEMMA CellsTypeNext == IInv' => Cells' \in [Students -> Lifecycle!Cell]
  BY DEF IInv, TypeOK, Cells, Has, Mark, Statuses, Lifecycle!Cell, Lifecycle!Statuses

\* What happens to a mark is seen in its cell.
LEMMA CellSteps ==
  ASSUME IInv, IInv', NEW s \in Students
  PROVE  /\ Kept(s) => Lifecycle!Stays(s)
         /\ Draft(s) => Lifecycle!Drafted(s)
         /\ marks'[s] = NoMark => Lifecycle!Erased(s)
         /\ Moved(s, "SUBMITTED") => Lifecycle!Moved(s, Lifecycle!Statuses, "SUBMITTED")
         /\ Locked(s) /\ Moved(s, "DRAFT")
               => Lifecycle!Moved(s, {"SUBMITTED", "APPROVED"}, "DRAFT")
         /\ Has(s) /\ marks[s].status = "SUBMITTED" /\ Moved(s, "APPROVED")
               => Lifecycle!Moved(s, {"SUBMITTED"}, "APPROVED")
         /\ Leading /\ marks'[s] \in Mark /\ marks'[s].status = "APPROVED"
               => Lifecycle!Published(s)
  <1>1. /\ Cells[s] = IF Has(s) THEN [value |-> marks[s].value, status |-> marks[s].status]
                                ELSE NoMark
        /\ Cells'[s] = IF marks'[s] # NoMark
                       THEN [value |-> marks'[s].value, status |-> marks'[s].status]
                       ELSE NoMark
    BY DEF Cells, Has
  <1>2. /\ marks[s] = NoMark \/ marks[s] \in Mark
        /\ marks'[s] = NoMark \/ marks'[s] \in Mark
    BY DEF IInv, TypeOK
  <1>3. Kept(s) => Lifecycle!Stays(s)
    BY <1>1 DEF Kept, Lifecycle!Stays, Has
  <1>4. Draft(s) => Lifecycle!Drafted(s)
    BY <1>1, <1>2, Distinguished DEF Draft, Lifecycle!Drafted, Mark
  <1>5. marks'[s] = NoMark => Lifecycle!Erased(s)
    BY <1>1 DEF Lifecycle!Erased
  <1>6. ASSUME NEW status \in Statuses, Has(s), Moved(s, status)
        PROVE  /\ Cells[s] # NoMark /\ Cells[s].status = marks[s].status
               /\ Cells'[s] = [value |-> Cells[s].value, status |-> status]
    <2>1. /\ marks[s] \in Mark /\ marks'[s] \in Mark /\ marks'[s] # NoMark
          /\ marks'[s].value = marks[s].value /\ marks'[s].status = status
      BY <1>2, <1>6, Distinguished DEF Moved, Has, Mark
    <2>2. Cells[s] = [value |-> marks[s].value, status |-> marks[s].status]
      BY <1>1, <1>6
    <2>3. Cells[s] # NoMark
      BY <2>1, <2>2, Distinguished DEF Mark
    <2>4. Cells'[s] = [value |-> marks[s].value, status |-> status]
      BY <1>1, <2>1
    <2> QED BY <2>2, <2>3, <2>4
  <1>7. Leading /\ marks'[s] \in Mark /\ marks'[s].status = "APPROVED"
               => Lifecycle!Published(s)
    BY <1>1, Distinguished DEF Lifecycle!Published, Mark
  <1>8. Moved(s, "SUBMITTED") => Lifecycle!Moved(s, Lifecycle!Statuses, "SUBMITTED")
    <2> SUFFICES ASSUME Moved(s, "SUBMITTED")
                 PROVE  Lifecycle!Moved(s, Lifecycle!Statuses, "SUBMITTED")
      OBVIOUS
    <2>1. Has(s) /\ marks[s].status \in Statuses
      BY <1>2 DEF Moved, Has, Mark
    <2> QED BY <1>6, <2>1 DEF Statuses, Lifecycle!Moved, Lifecycle!Has, Lifecycle!Statuses
  <1>9. Locked(s) /\ Moved(s, "DRAFT") => Lifecycle!Moved(s, {"SUBMITTED", "APPROVED"}, "DRAFT")
    BY <1>6 DEF Locked, Statuses, Lifecycle!Moved, Lifecycle!Has
  <1>10. Has(s) /\ marks[s].status = "SUBMITTED" /\ Moved(s, "APPROVED")
               => Lifecycle!Moved(s, {"SUBMITTED"}, "APPROVED")
    BY <1>6 DEF Statuses, Lifecycle!Moved, Lifecycle!Has
  <1> QED BY <1>3, <1>4, <1>5, <1>7, <1>8, <1>9, <1>10

LEMMA RefinesStep ==
  ASSUME IInv, IInv', [Next]_vars
  PROVE  [Lifecycle!Next]_<<Cells, Leading>>
  <1>1. Cells' \in [Students -> Lifecycle!Cell]
    BY CellsType, CellsTypeNext
  <1>2. Leading' \in BOOLEAN
    BY DEF Leading
  <1>3. SUFFICES Lifecycle!Enter \/ Lifecycle!Erase \/ Lifecycle!Submit \/ Lifecycle!Approve
                   \/ Lifecycle!Reopen \/ Lifecycle!Publish
    BY <1>1, <1>2 DEF Lifecycle!Next
  <1>4. CASE UNCHANGED marks
    BY <1>4, CellSteps DEF Kept, Lifecycle!Enter
  <1>5. ASSUME NEW r \in Requests, Step(r), marks' # marks
        PROVE  \/ Lifecycle!Enter \/ Lifecycle!Erase \/ Lifecycle!Submit
               \/ Lifecycle!Reopen \/ Lifecycle!Publish
    <2>1. CASE \A s \in Students : Kept(s) \/ marks'[s] = NoMark
      BY <2>1, CellSteps DEF Lifecycle!Erase
    <2>2. CASE \A s \in Students : Kept(s) \/ Draft(s)
      BY <2>2, CellSteps DEF Lifecycle!Enter
    <2>3. CASE /\ reqs[r].user \in Leaders
               /\ \E s \in Students :
                     /\ marks'[s] \in Mark /\ marks'[s].status = "APPROVED"
                     /\ \A x \in Students \ {s} : Kept(x)
      <3>1. Leading
        BY <1>5, <2>3, StepEffect DEF Leading
      <3> QED BY <2>3, <3>1, CellSteps DEF Lifecycle!Publish
    <2>4. CASE \A s \in Students : Kept(s) \/ Moved(s, "SUBMITTED")
      BY <2>4, CellSteps DEF Lifecycle!Submit
    <2>5. CASE \A s \in Students : Kept(s) \/ (Locked(s) /\ Moved(s, "DRAFT"))
      BY <2>5, CellSteps DEF Lifecycle!Reopen
    <2> QED BY <1>5, <2>1, <2>2, <2>3, <2>4, <2>5, StepEffect
  <1>6. CASE \A r \in Requests : ~Step(r)
    <2>1. CASE \A s \in Students : Kept(s) \/ Moved(s, "SUBMITTED")
      BY <2>1, CellSteps DEF Lifecycle!Submit
    <2>2. CASE \A s \in Students : Kept(s) \/ (Has(s) /\ marks[s].status = "SUBMITTED"
                                                  /\ Moved(s, "APPROVED"))
      BY <2>2, CellSteps DEF Lifecycle!Approve
    <2> QED BY <1>4, <1>6, <2>1, <2>2, OtherEffect
  <1> QED BY <1>4, <1>5, <1>6

\* Whatever handlers interleave, a mark lives the life of MarkLifecycle: written, it
\* is a draft again or a leader's; submitted, approved or reopened, it keeps its
\* value; only what was submitted is approved as it stands.
THEOREM Refinement == Spec => LifecycleSpec
  <1>1. Init => Lifecycle!Init
    BY DEF Init, Lifecycle!Init, Cells, Has, Leading
  <1>2. IInv /\ IInv' /\ [Next]_vars => [Lifecycle!Next]_<<Cells, Leading>>
    BY RefinesStep
  <1> QED BY <1>1, <1>2, Invariance, PTL DEF Spec, LifecycleSpec, Lifecycle!Spec

-----------------------------------------------------------------------------
(***************************************************************************)
(* The audit trail.  A handler that has written a mark owes the trail its  *)
(* value, and pays unless it fails: for this, what a handler knows of the  *)
(* rows that were lost under it has to be right.                           *)
(***************************************************************************)
Careful(q) ==
    /\ q.gone \subseteq q.found
    /\ q.op = "save" =>
          /\ q.failed => /\ q.step = "update"
                         /\ \E s \in Students : q.entry[s] \in Values /\ s \in q.gone
          /\ q.step = "update" => q.todo \subseteq Updates(q)
    /\ q.op = "upload" /\ q.step = "check" => q.written = {}
    /\ q.op = "submit" /\ q.step = "read" => q.found = {}
    /\ q.op = "moderate" => q.found \subseteq q.todo /\ \A x, y \in q.todo : x = y

CInv == \A r \in Requests : reqs[r] # Idle => Careful(reqs[r])

LEMMA LosesCareful ==
  ASSUME NEW q \in Request, NEW cells, Careful(q)
  PROVE  Careful(Loses(q, cells))
  BY DEF Careful, Loses, Request, Updates

\* The steps of applyMarkPlans are careful if they start without a failure.
LEMMA FromCareful ==
  ASSUME NEW q \in Request, Careful(q), ~q.failed, q.op = "save"
  PROVE  /\ FromUpdate(q) # Idle => Careful(FromUpdate(q))
         /\ FromCreate(q) # Idle => Careful(FromCreate(q))
         /\ FromDelete(q) # Idle => Careful(FromDelete(q))
  <1>1. FromUpdate(q) # Idle => Careful(FromUpdate(q))
    BY DEF Careful, FromUpdate, Updates, Request
  <1>2. Careful([q EXCEPT !.step = "create"]) /\ Careful([q EXCEPT !.step = "delete"])
    BY DEF Careful, Updates, Request
  <1>3. FromCreate(q) # Idle => Careful(FromCreate(q))
    BY <1>1, <1>2 DEF FromCreate
  <1>4. FromDelete(q) # Idle => Careful(FromDelete(q))
    BY <1>2, <1>3 DEF FromDelete
  <1> QED BY <1>1, <1>3, <1>4

\* What a step of one handler does to another: nothing, or it takes rows from under it.
LosesRows(r, x) ==
    /\ SaveDelete(r) /\ reqs[x] # Idle
    /\ reqs'[x] = Loses(reqs[x], Deletes(reqs[r]))
    /\ \A s \in Deletes(reqs[r]) : marks'[s] = NoMark
LosesGrant(x) == reqs[x].op = "ask" /\ reqs'[x] = [reqs[x] EXCEPT !.row = "gone"]

LEMMA OthersRest ==
  ASSUME IInv, NEW r \in Requests, Step(r) \/ Arrives(r) \/ RequestFails(r),
         NEW x \in Requests \ {r}
  PROVE  reqs'[x] = reqs[x] \/ LosesRows(r, x) \/ LosesGrant(x)
  <1>a. reqs \in [Requests -> Request \cup {Idle}]
    BY DEF IInv, TypeOK
  <1>1. ASSUME NEW q, reqs' = [reqs EXCEPT ![r] = q] PROVE reqs'[x] = reqs[x]
    BY <1>1, <1>a
  <1>2. ASSUME NEW q, Becomes(r, q) PROVE reqs'[x] = reqs[x]
    BY <1>1, <1>2 DEF Becomes
  <1>3. CASE SaveDelete(r)
    <2>1. CASE \A s \in Deletes(reqs[r]) : StillThere(reqs[r], s)
      <3>1. \A s \in Deletes(reqs[r]) : marks'[s] = NoMark
        BY <1>3, <2>1 DEF SaveDelete, Deletes
      <3>2. reqs'[x] = IF reqs[x] = Idle THEN Idle ELSE Loses(reqs[x], Deletes(reqs[r]))
        BY <1>3, <2>1 DEF SaveDelete
      <3> QED BY <1>3, <3>1, <3>2 DEF LosesRows
    <2>2. CASE ~(\A s \in Deletes(reqs[r]) : StillThere(reqs[r], s))
      BY <1>2, <1>3, <2>2 DEF SaveDelete, Ends
    <2> QED BY <2>1, <2>2
  <1>4. CASE SubmitClearGrant(r)
    BY <1>2, <1>4 DEF SubmitClearGrant, LosesGrant, Ends
  <1>5. CASE Arrives(r)
    BY <1>1, <1>5 DEF Arrives, SaveRead, UploadRead, SubmitCheck, ModerateRead, AskRead,
       ReviewWrite, Start
  <1>6. CASE RequestFails(r)
    BY <1>2, <1>6 DEF RequestFails, Ends
  <1>7. CASE Step(r) /\ ~SaveDelete(r) /\ ~SubmitClearGrant(r)
    <2>1. CASE SaveStep(r)
      BY <1>2, <1>7, <2>1 DEF SaveStep, SavePlan, SaveCreate, SaveAuditCreated, SaveUpdate,
         SaveAuditUpdated, Ends
    <2>2. CASE ~SaveStep(r)
      BY <1>2, <1>7, <2>2 DEF Step, UploadStep, UploadCheck, UploadFind, UploadWrite,
         UploadAudit, SubmitStep, SubmitRead, SubmitLock, ModerateStep, ModerateWrite,
         ModerateAudit, AskWrite, ReviewReopen, Ends
    <2> QED BY <2>1, <2>2
  <1> QED BY <1>3, <1>4, <1>5, <1>6, <1>7

LEMMA ArrivesCareful ==
  ASSUME IInv, NEW r \in Requests, Arrives(r), reqs'[r] # Idle
  PROVE  Careful(reqs'[r])
  <1>a. reqs \in [Requests -> Request \cup {Idle}]
    BY DEF IInv, TypeOK
  <1>b. ASSUME NEW q, Start(r, q) PROVE reqs'[r] = q
    BY <1>a, <1>b DEF Start
  <1>1. ASSUME NEW u \in Writers, SaveRead(r, u) PROVE Careful(reqs'[r])
    <2>1. PICK e \in Entries : Start(r, Reads("save", u, "plan", e))
      BY <1>1 DEF SaveRead
    <2>2. reqs'[r] = Reads("save", u, "plan", e)  BY <2>1, <1>b
    <2> QED BY <2>2 DEF Careful, Reads, NewRequest
  <1>2. ASSUME NEW u \in Writers, UploadRead(r, u) PROVE Careful(reqs'[r])
    <2>1. PICK e \in [Students -> Values \cup {Skip}] : Start(r, Reads("upload", u, "check", e))
      BY <1>2, PlainType DEF UploadRead
    <2>2. reqs'[r] = Reads("upload", u, "check", e)  BY <2>1, <1>b
    <2> QED BY <2>2 DEF Careful, Reads, NewRequest
  <1>3. ASSUME NEW u \in Writers, NEW owner \in Staff, SubmitCheck(r, u, owner)
        PROVE  Careful(reqs'[r])
    BY <1>3, <1>b DEF SubmitCheck, Careful, NewRequest
  <1>4. ASSUME NEW l \in Leaders, ModerateRead(r, l) PROVE Careful(reqs'[r])
    <2>1. PICK s \in Students, v \in Values :
            reqs'[r] = [NewRequest("moderate", l, "write") EXCEPT
                          !.entry[s] = v, !.todo = {s}, !.found = {x \in {s} : Has(x)},
                          !.owner = IF Has(s) THEN marks[s].by ELSE l]
      BY <1>4, <1>b, PlainType DEF ModerateRead
    <2>2. /\ reqs'[r].op = "moderate" /\ reqs'[r].gone = {}
          /\ reqs'[r].todo = {s} /\ reqs'[r].found = {x \in {s} : Has(x)}
      BY <2>1 DEF NewRequest
    <2> QED BY <2>2 DEF Careful
  <1>5. ASSUME NEW t \in Teachers, NEW k \in Kinds, AskRead(r, t, k) PROVE Careful(reqs'[r])
    BY <1>5, <1>b DEF AskRead, Careful, NewRequest
  <1>6. ASSUME NEW l \in Leaders, NEW t \in Teachers, NEW k \in Kinds,
               NEW verdict \in {"APPROVED", "REJECTED"}, ReviewWrite(r, l, t, k, verdict)
        PROVE  Careful(reqs'[r])
    BY <1>6, <1>b DEF ReviewWrite, Careful, NewRequest
  <1> QED BY <1>1, <1>2, <1>3, <1>4, <1>5, <1>6 DEF Arrives

LEMMA StepCareful ==
  ASSUME IInv, CInv, NEW r \in Requests, Step(r), reqs'[r] # Idle
  PROVE  Careful(reqs'[r])
  <1> DEFINE q == reqs[r]
  <1>a. reqs \in [Requests -> Request \cup {Idle}] /\ q # Idle
    BY StepEffect DEF IInv, TypeOK
  <1>b. q \in Request /\ Careful(q) /\ WellFormed(q)
    BY <1>a, ActiveIsSound DEF CInv
  <1>c. ASSUME NEW p, Becomes(r, p) PROVE reqs'[r] = p
    BY <1>a, <1>c DEF Becomes
  <1>d. ASSUME Ends(r) PROVE FALSE
    BY <1>c, <1>d DEF Ends
  <1>1. CASE SavePlan(r)
    <2>1. PICK plan \in [Students -> Values \cup {Blank, Skip}] :
            reqs'[r] = FromDelete([q EXCEPT !.entry = plan, !.locked = {}])
      <3> DEFINE plan == [s \in Students |-> IF MutateBlocked(q.user, s \in q.locked) THEN Skip
                                             ELSE q.entry[s]]
      <3>1. plan \in [Students -> Values \cup {Blank, Skip}]
        BY <1>b DEF Request
      <3> QED BY <1>1, <1>c, <3>1 DEF SavePlan
    <2> DEFINE p == [q EXCEPT !.entry = plan, !.locked = {}]
    <2>2. p \in Request /\ p.op = "save" /\ p.step = "plan" /\ ~p.failed
          /\ p.gone = q.gone /\ p.found = q.found
      BY <1>1, <1>b DEF SavePlan, At, Request, Careful
    <2>3. Careful(p)
      BY <1>b, <2>2 DEF Careful
    <2> HIDE DEF p
    <2> QED BY <2>1, <2>2, <2>3, FromCareful DEF p
  <1>2. CASE SaveDelete(r)
    <2> DEFINE p == Loses(q, Deletes(q))
    <2>1. reqs'[r] = FromCreate(p)
      BY <1>2, <1>d DEF SaveDelete
    <2>2. p \in Request /\ Careful(p)
      BY <1>b, LosesType, LosesCareful
    <2>3. p.op = "save" /\ ~p.failed
      BY <1>2, <1>b DEF SaveDelete, At, Careful, Loses, Request
    <2> HIDE DEF p
    <2> QED BY <2>1, <2>2, <2>3, FromCareful
  <1>3. CASE SaveCreate(r)
    <2>1. reqs'[r] = [q EXCEPT !.step = "auditNew"] /\ q.op = "save" /\ q.step = "create"
      BY <1>3, <1>c, <1>d DEF SaveCreate, At
    <2> QED BY <1>b, <2>1 DEF Careful, Request
  <1>4. CASE SaveAuditCreated(r)
    <2>1. reqs'[r] = FromUpdate(q) /\ q.op = "save" /\ q.step = "auditNew"
      BY <1>4, <1>c, <1>d DEF SaveAuditCreated, At
    <2>2. ~q.failed
      BY <1>b, <2>1 DEF Careful
    <2> QED BY <1>b, <2>1, <2>2, FromCareful
  <1>5. CASE SaveUpdate(r)
    <2>1. PICK s \in q.todo :
            LET ok == StillThere(q, s)
                next == [q EXCEPT !.todo = @ \ {s}, !.failed = @ \/ ~ok]
            IN  Becomes(r, IF next.todo # {} THEN next
                              ELSE IF next.failed THEN Idle
                              ELSE [next EXCEPT !.step = "auditOld"])
      BY <1>5 DEF SaveUpdate
    <2>2. q.op = "save" /\ q.step = "update"
      BY <1>5 DEF SaveUpdate, At
    <2> DEFINE next == [q EXCEPT !.todo = @ \ {s}, !.failed = @ \/ ~StillThere(q, s)]
    <2>3. s \in Students /\ q.entry[s] \in Values /\ s \in q.found
      BY <1>b, <2>2 DEF Careful, Updates, Request
    <2>4. /\ next \in Request
          /\ next.op = "save" /\ next.step = "update" /\ next.todo = q.todo \ {s}
          /\ next.entry = q.entry /\ next.found = q.found /\ next.gone = q.gone
          /\ next.failed = (q.failed \/ ~StillThere(q, s))
      BY <1>b, <2>2 DEF Request
    <2>5. next.failed => \E x \in Students : next.entry[x] \in Values /\ x \in next.gone
      <3>1. CASE q.failed  BY <1>b, <2>2, <2>4, <3>1 DEF Careful
      <3>2. CASE ~StillThere(q, s)  BY <2>3, <2>4, <3>2 DEF StillThere
      <3> QED BY <2>4, <3>1, <3>2
    <2>6. next.todo \subseteq Updates(next)
      BY <1>b, <2>2, <2>4 DEF Careful, Updates
    <2>7. Careful(next)
      BY <1>b, <2>4, <2>5, <2>6 DEF Careful
    <2>8. Becomes(r, IF next.todo # {} THEN next ELSE IF next.failed THEN Idle
                     ELSE [next EXCEPT !.step = "auditOld"])
      BY <2>1
    <2> HIDE DEF next
    <2>9. ~next.failed => Careful([next EXCEPT !.step = "auditOld"])
      BY <2>4, <2>7 DEF Careful, Request
    <2> QED BY <1>c, <2>7, <2>8, <2>9
  <1>6. CASE SaveAuditUpdated(r)
    BY <1>6, <1>d DEF SaveAuditUpdated
  <1>7. CASE UploadCheck(r)
    <2>1. reqs'[r] = [q EXCEPT !.step = "items", !.todo = {s \in Students : q.entry[s] # Skip},
                               !.found = {}, !.locked = {}, !.gone = {}]
      BY <1>7, <1>c DEF UploadCheck
    <2>2. q.op = "upload"  BY <1>7 DEF UploadCheck, At
    <2> QED BY <1>b, <2>1, <2>2 DEF Careful, Request
  <1>8. CASE UploadFind(r)
    <2>1. PICK s \in q.todo :
            reqs'[r] = [q EXCEPT !.todo = @ \ {s}, !.ready = @ \cup {s},
                                 !.found = IF Has(s) THEN @ \cup {s} ELSE @]
      BY <1>8, <1>c DEF UploadFind
    <2>2. q.op = "upload" /\ q.step = "items"  BY <1>8 DEF UploadFind, At
    <2> QED BY <1>b, <2>1, <2>2 DEF Careful, Request
  <1>9. CASE UploadWrite(r)
    <2>1. PICK s \in q.ready, ok \in BOOLEAN :
            Becomes(r, UploadRest([q EXCEPT !.ready = @ \ {s},
                                 !.written = IF ok THEN @ \cup {s} ELSE @,
                                 !.found = IF ok THEN @ \cup {s} ELSE @]))
      BY <1>9 DEF UploadWrite, StillThere, Has
    <2>2. q.op = "upload" /\ q.step = "items"  BY <1>9 DEF UploadWrite, At
    <2>3. reqs'[r] = [q EXCEPT !.ready = @ \ {s},
                               !.written = IF ok THEN @ \cup {s} ELSE @,
                               !.found = IF ok THEN @ \cup {s} ELSE @]
      BY <1>c, <2>1 DEF UploadRest
    <2> QED BY <1>b, <2>2, <2>3 DEF Careful, Request
  <1>10. CASE UploadAudit(r)
    <2>1. PICK s \in q.written : Becomes(r, UploadRest([q EXCEPT !.written = @ \ {s}]))
      BY <1>10 DEF UploadAudit
    <2>2. q.op = "upload" /\ q.step = "items"  BY <1>10 DEF UploadAudit, At
    <2>3. reqs'[r] = [q EXCEPT !.written = @ \ {s}]
      BY <1>c, <2>1 DEF UploadRest
    <2> QED BY <1>b, <2>2, <2>3 DEF Careful, Request
  <1>11. CASE ModerateWrite(r)
    <2>1. PICK s \in q.todo, ok \in BOOLEAN :
            Becomes(r, IF ok THEN [q EXCEPT !.step = "audit", !.found = {s}] ELSE Idle)
            /\ (ok => IF s \in q.found THEN StillThere(q, s) ELSE ~Has(s))
      BY <1>11 DEF ModerateWrite, StillThere, Has
    <2>2. reqs'[r] = [q EXCEPT !.step = "audit", !.found = {s}] /\ ok
      BY <1>c, <2>1
    <2>3. q.op = "moderate"  BY <1>11 DEF ModerateWrite, At
    <2>4. q.gone = {} /\ q.todo = {s}
      BY <1>b, <2>1, <2>2, <2>3 DEF Careful, StillThere
    <2>5. /\ reqs'[r].op = "moderate" /\ reqs'[r].gone = {}
          /\ reqs'[r].todo = {s} /\ reqs'[r].found = {s}
      BY <1>b, <2>2, <2>3, <2>4 DEF Request
    <2> QED BY <2>5 DEF Careful
  <1>12. CASE SubmitStep(r)
    <2>1. q.op = "submit"  BY <1>12 DEF SubmitStep, SubmitRead, SubmitLock, SubmitClearGrant, At
    <2>2. CASE SubmitRead(r)
      <3>1. PICK drafts \in SUBSET Students :
              reqs'[r] = [q EXCEPT !.step = "lock", !.found = drafts]
        BY <1>c, <1>d, <2>2 DEF SubmitRead, Ends
      <3>2. q.gone = {}
        BY <1>b, <2>1, <2>2 DEF SubmitRead, At, Careful
      <3> QED BY <1>b, <2>1, <3>1, <3>2 DEF Careful, Request
    <2>3. CASE SubmitLock(r)
      <3>1. reqs'[r] = [q EXCEPT !.step = "clear", !.found = {}, !.gone = {}]
        BY <1>c, <2>3 DEF SubmitLock
      <3> QED BY <1>b, <2>1, <3>1 DEF Careful, Request
    <2>4. CASE SubmitClearGrant(r)
      BY <1>d, <2>4 DEF SubmitClearGrant
    <2> QED BY <1>12, <2>2, <2>3, <2>4 DEF SubmitStep
  <1>13. CASE ModerateAudit(r) \/ AskWrite(r) \/ ReviewReopen(r)
    BY <1>13, <1>d DEF ModerateAudit, AskWrite, ReviewReopen
  <1> QED BY <1>1, <1>2, <1>3, <1>4, <1>5, <1>6, <1>7, <1>8, <1>9, <1>10, <1>11, <1>12, <1>13
      DEF Step, SaveStep, UploadStep, ModerateStep

LEMMA CarefulInv ==
  ASSUME IInv, CInv, [Next]_vars
  PROVE  CInv'
  <1> SUFFICES ASSUME NEW x \in Requests, reqs'[x] # Idle PROVE Careful(reqs'[x])
    BY DEF CInv
  <1>1. ASSUME reqs'[x] = reqs[x] PROVE Careful(reqs'[x])
    BY <1>1 DEF CInv
  <1>2. ASSUME NEW r \in Requests, Step(r) \/ Arrives(r) \/ RequestFails(r)
        PROVE  Careful(reqs'[x])
    <2>1. CASE x = r
      <3>1. RequestFails(r) => reqs'[r] = Idle
        BY DEF RequestFails, Ends, Becomes, IInv, TypeOK
      <3> QED BY <1>2, <2>1, <3>1, StepCareful, ArrivesCareful
    <2>2. CASE LosesRows(r, x)
      BY <2>2, LosesCareful DEF LosesRows, CInv, IInv, TypeOK
    <2>3. CASE LosesGrant(x)
      <3>1. reqs[x] \in Request /\ Careful(reqs[x])
        BY <2>3 DEF LosesGrant, CInv, IInv, TypeOK, Idle
      <3> QED BY <2>3, <3>1 DEF LosesGrant, Careful, Request
    <2> QED BY <1>1, <1>2, <2>1, <2>2, <2>3, OthersRest
  <1>3. ASSUME NEW owner \in Staff, Approve(owner) \/ Unapprove(owner) PROVE Careful(reqs'[x])
    BY <1>1, <1>3 DEF Approve, Unapprove, MoveStatus
  <1>4. CASE DeadlineMoves \/ UNCHANGED vars
    BY <1>1, <1>4 DEF DeadlineMoves, vars
  <1> QED BY <1>2, <1>3, <1>4 DEF Next

LEMMA CarefulAlways == Spec => []CInv
  <1>1. Init => CInv
    BY DEF Init, CInv
  <1>2. IInv /\ CInv /\ [Next]_vars => CInv'
    BY CarefulInv
  <1> QED BY <1>1, <1>2, Invariance, PTL DEF Spec

LEMMA TrailGrows ==
  ASSUME IInv, [Next]_vars, NEW s \in Students, Has(s)'
  PROVE  trail[s] \subseteq trail'[s]
  <1>a. trail \in [Students -> SUBSET Scores]
    BY DEF IInv, TypeOK
  <1>b. ASSUME NEW cells, NEW entry, Audits(cells, entry) PROVE trail[s] \subseteq trail'[s]
    BY <1>a, <1>b DEF Audits
  <1>1. ASSUME NEW r \in Requests, Step(r) PROVE trail[s] \subseteq trail'[s]
    <2>1. CASE SaveDelete(r)
      BY <1>a, <2>1 DEF SaveDelete, Has
    <2>2. CASE SaveAuditCreated(r) \/ SaveAuditUpdated(r)
      BY <1>b, <2>2 DEF SaveAuditCreated, SaveAuditUpdated
    <2>3. CASE UploadAudit(r) \/ ModerateAudit(r)
      BY <1>b, <2>3 DEF UploadAudit, ModerateAudit
    <2>4. CASE SavePlan(r) \/ SaveCreate(r) \/ SaveUpdate(r) \/ UploadCheck(r) \/ UploadFind(r)
               \/ UploadWrite(r)
      BY <2>4 DEF SavePlan, SaveCreate, SaveUpdate, UploadCheck, UploadFind, UploadWrite
    <2>5. CASE SubmitStep(r) \/ ModerateWrite(r) \/ AskWrite(r) \/ ReviewReopen(r)
      BY <2>5 DEF SubmitStep, SubmitRead, SubmitLock, SubmitClearGrant, ModerateWrite, AskWrite,
         ReviewReopen
    <2> QED BY <1>1, <2>1, <2>2, <2>3, <2>4, <2>5 DEF Step, SaveStep, UploadStep, ModerateStep
  <1>2. ASSUME NEW r \in Requests, Arrives(r) PROVE trail[s] \subseteq trail'[s]
    BY <1>2 DEF Arrives, SaveRead, UploadRead, SubmitCheck, ModerateRead, AskRead, ReviewWrite
  <1>3. CASE \E r \in Requests : RequestFails(r)
    BY <1>3 DEF RequestFails
  <1>4. CASE \E owner \in Staff : Approve(owner) \/ Unapprove(owner)
    BY <1>4 DEF Approve, Unapprove, MoveStatus
  <1>5. CASE DeadlineMoves \/ UNCHANGED vars
    BY <1>5 DEF DeadlineMoves, vars
  <1> QED BY <1>1, <1>2, <1>3, <1>4, <1>5 DEF Next

\* A handler at rest goes on owing what it owes, as long as the mark keeps its value.
LEMMA OthersOwe ==
  ASSUME IInv, NEW r \in Requests, Step(r) \/ Arrives(r) \/ RequestFails(r),
         NEW x \in Requests \ {r}, NEW s \in Students, reqs[x] # Idle, Owes(reqs[x], s),
         Has(s)', marks'[s].value.score = marks[s].value.score
  PROVE  reqs'[x] # Idle /\ Owes(reqs[x], s)'
  <1>1. CASE reqs'[x] = reqs[x]
    BY <1>1 DEF Owes, Creates, Updates, StillThere
  <1>2. CASE LosesRows(r, x)
    <2>1. reqs[x] \in Request /\ s \notin Deletes(reqs[r])
      BY <1>2 DEF LosesRows, IInv, TypeOK, Has
    <2>2. /\ reqs'[x] \in Request /\ reqs'[x].op = reqs[x].op /\ reqs'[x].step = reqs[x].step
          /\ reqs'[x].entry = reqs[x].entry /\ reqs'[x].found = reqs[x].found
          /\ reqs'[x].todo = reqs[x].todo /\ reqs'[x].written = reqs[x].written
          /\ reqs'[x].gone = reqs[x].gone \cup (Deletes(reqs[r]) \cap reqs[x].found)
      BY <1>2, <2>1 DEF LosesRows, Loses, Request
    <2>3. reqs'[x] # Idle  BY <2>2, IdleIsNoRequest
    <2>4. StillThere(reqs[x], s) => StillThere(reqs'[x], s)
      BY <2>1, <2>2 DEF StillThere
    <2>5. Creates(reqs'[x]) = Creates(reqs[x]) /\ Updates(reqs'[x]) = Updates(reqs[x])
      BY <2>2 DEF Creates, Updates
    <2> QED BY <2>2, <2>3, <2>4, <2>5 DEF Owes, Creates, Updates, StillThere
  <1>3. CASE LosesGrant(x)
    BY <1>3 DEF LosesGrant, Owes
  <1> QED BY <1>1, <1>2, <1>3, OthersRest

LEMMA UpdateNext ==
  ASSUME IInv, CInv, NEW r \in Requests, SaveUpdate(r), ~SaveThrows(r)
  PROVE  \E s \in reqs[r].todo :
           /\ marks' = [marks EXCEPT ![s] =
                 IF StillThere(reqs[r], s)
                 THEN [value |-> reqs[r].entry[s], status |-> "DRAFT", by |-> reqs[r].user] ELSE @]
           /\ reqs'[r] # Idle /\ reqs'[r].op = "save"
           /\ reqs'[r].step \in {"update", "auditOld"}
           /\ reqs'[r].todo = reqs[r].todo \ {s}
           /\ reqs'[r].entry = reqs[r].entry
           /\ reqs'[r].found = reqs[r].found /\ reqs'[r].gone = reqs[r].gone
  <1> DEFINE q == reqs[r]
  <1>1. q \in Request /\ q # Idle /\ q.op = "save" /\ q.step = "update" /\ Careful(q)
        /\ reqs \in [Requests -> Request \cup {Idle}]
    BY ActiveIsRequest DEF SaveUpdate, At, Ops, IInv, CInv, TypeOK
  <1>2. PICK s \in q.todo :
            LET ok == StillThere(q, s)
                next == [q EXCEPT !.todo = @ \ {s}, !.failed = @ \/ ~ok]
            IN  /\ marks' = [marks EXCEPT ![s] =
                       IF ok THEN [value |-> q.entry[s], status |-> "DRAFT", by |-> q.user] ELSE @]
                /\ Becomes(r, IF next.todo # {} THEN next
                              ELSE IF next.failed THEN Idle
                              ELSE [next EXCEPT !.step = "auditOld"])
    BY DEF SaveUpdate
  <1> DEFINE next == [q EXCEPT !.todo = @ \ {s}, !.failed = @ \/ ~StillThere(q, s)]
  <1>3. /\ next \in Request /\ next.op = "save" /\ next.step = "update"
        /\ next.todo = q.todo \ {s} /\ next.entry = q.entry /\ next.found = q.found
        /\ next.gone = q.gone /\ next.failed = (q.failed \/ ~StillThere(q, s))
    BY <1>1 DEF Request
  <1>4. reqs'[r] = IF next.todo # {} THEN next ELSE IF next.failed THEN Idle
                   ELSE [next EXCEPT !.step = "auditOld"]
    BY <1>1, <1>2 DEF Becomes
  <1>5. s \in q.found /\ s \in Students /\ q.entry[s] \in Values
    BY <1>1 DEF Careful, Updates
  <1>6. next.failed => \E x \in Students : q.entry[x] \in Values /\ x \in q.gone
    <2>1. CASE q.failed  BY <1>1, <2>1 DEF Careful
    <2>2. CASE ~StillThere(q, s)  BY <1>5, <2>2 DEF StillThere
    <2> QED BY <1>3, <2>1, <2>2
  <1>7. reqs'[r] = Idle => ~next.failed
    BY <1>1, <1>6 DEF SaveThrows
  <1> HIDE DEF next
  <1>8. next # Idle /\ [next EXCEPT !.step = "auditOld"] # Idle
    <2>1. [next EXCEPT !.step = "auditOld"] \in Request  BY <1>3 DEF Request, Steps
    <2> QED BY <1>3, <2>1, IdleIsNoRequest
  <1>9. \/ reqs'[r] = next
        \/ reqs'[r] = [next EXCEPT !.step = "auditOld"]
    BY <1>4, <1>7, <1>8
  <1>10. /\ reqs'[r] # Idle /\ reqs'[r].op = "save"
         /\ reqs'[r].step \in {"update", "auditOld"}
         /\ reqs'[r].todo = q.todo \ {s} /\ reqs'[r].entry = q.entry
         /\ reqs'[r].found = q.found /\ reqs'[r].gone = q.gone
    BY <1>3, <1>8, <1>9 DEF Request
  <1> QED BY <1>2, <1>10

\* The step of a handler that writes a mark, or owes the trail its value, pays or owes it then.
LEMMA OwnPays ==
  ASSUME IInv, CInv, NEW r \in Requests, Step(r), ~SaveThrows(r), NEW s \in Students, Has(s)',
         \/ ~Has(s)
         \/ marks'[s].value.score # marks[s].value.score
         \/ Owes(reqs[r], s)
  PROVE  marks'[s].value.score \in trail'[s] \/ (reqs'[r] # Idle /\ Owes(reqs[r], s)')
  <1> DEFINE q == reqs[r]
             paid == marks'[s].value.score \in trail'[s]
             owed == reqs'[r] # Idle /\ Owes(reqs[r], s)'
             same == Has(s) /\ marks'[s].value.score = marks[s].value.score
  <1>a. /\ reqs \in [Requests -> Request \cup {Idle}] /\ q # Idle
        /\ marks \in [Students -> Mark \cup {NoMark}] /\ trail \in [Students -> SUBSET Scores]
    BY StepEffect DEF IInv, TypeOK
  <1>b. q \in Request /\ Careful(q) /\ WellFormed(q)
        /\ \A x \in Students : StillThere(q, x) => Has(x)
    BY <1>a, ActiveIsSound, HeldBy DEF CInv
  <1>c. ASSUME NEW p, Becomes(r, p) PROVE reqs'[r] = p
    BY <1>a, <1>c DEF Becomes
  <1>d. ASSUME same PROVE Owes(q, s)
    BY <1>d
  <1>e. ASSUME UNCHANGED marks PROVE same
    BY <1>e DEF Has
  <1>f. ASSUME NEW cells, NEW entry, Audits(cells, entry), s \in cells, entry[s].score = marks'[s].value.score
        PROVE  paid
    BY <1>a, <1>f DEF Audits
  <1>1. CASE SavePlan(r)
    BY <1>1, <1>d, <1>e DEF SavePlan, At, Owes
  <1>2. CASE SaveDelete(r)
    <2>1. same
      BY <1>2 DEF SaveDelete, Has
    <2> QED BY <1>2, <1>d, <2>1 DEF SaveDelete, At, Owes
  <1>3. CASE SaveCreate(r)
    <2>1. ~Owes(q, s)
      BY <1>3 DEF SaveCreate, At, Owes
    <2>2. \A x \in Creates(q) : ~Has(x)
      BY <1>3, <1>d, <1>e, <2>1 DEF SaveCreate
    <2>3. /\ marks' = [x \in Students |->
                 IF x \in Creates(q) THEN [value |-> q.entry[x], status |-> "DRAFT", by |-> q.user]
                 ELSE marks[x]]
          /\ reqs'[r] = [q EXCEPT !.step = "auditNew"]
      BY <1>3, <1>c, <2>2 DEF SaveCreate
    <2>4. s \in Creates(q) /\ marks'[s].value.score = q.entry[s].score
      BY <1>d, <2>1, <2>3 DEF Has
    <2>5. /\ reqs'[r] \in Request /\ reqs'[r].op = "save" /\ reqs'[r].step = "auditNew"
          /\ reqs'[r].entry = q.entry /\ reqs'[r].found = q.found
      BY <1>3, <1>b, <2>3 DEF SaveCreate, At, Request, Steps
    <2>6. Creates(q)' = Creates(q) /\ reqs'[r] # Idle
      BY <2>5, IdleIsNoRequest DEF Creates
    <2> QED BY <2>4, <2>5, <2>6 DEF Owes
  <1>4. CASE SaveAuditCreated(r)
    <2>1. same /\ Owes(q, s)
      BY <1>4, <1>d, <1>e DEF SaveAuditCreated
    <2>2. s \in Creates(q) /\ q.entry[s].score = marks'[s].value.score
      BY <1>4, <2>1 DEF SaveAuditCreated, At, Owes
    <2>3. CASE \A x \in Creates(q) : Has(x)
      BY <1>4, <1>f, <2>2, <2>3 DEF SaveAuditCreated
    <2>4. CASE ~(\A x \in Creates(q) : Has(x))
      <3>1. reqs'[r] = Idle /\ q.op = "save"
        BY <1>4, <1>c, <2>4 DEF SaveAuditCreated, Ends, At
      <3> QED BY <2>4, <3>1 DEF SaveThrows, Creates
    <2> QED BY <2>3, <2>4
  <1>5. CASE SaveUpdate(r)
    <2>1. PICK x \in q.todo :
           /\ marks' = [marks EXCEPT ![x] =
                 IF StillThere(q, x)
                 THEN [value |-> q.entry[x], status |-> "DRAFT", by |-> q.user] ELSE @]
           /\ reqs'[r] # Idle /\ reqs'[r].op = "save"
           /\ reqs'[r].step \in {"update", "auditOld"}
           /\ reqs'[r].todo = q.todo \ {x} /\ reqs'[r].entry = q.entry
           /\ reqs'[r].found = q.found /\ reqs'[r].gone = q.gone
      BY <1>5, UpdateNext
    <2>2. q.op = "save" /\ q.step = "update" /\ q.todo \subseteq Updates(q)
      BY <1>5, <1>b DEF SaveUpdate, At, Careful
    <2>3. Updates(q)' = Updates(q) /\ \A y \in Students : StillThere(q, y)' = StillThere(q, y)
      BY <2>1 DEF Updates, StillThere
    <2>4. CASE s = x /\ StillThere(q, x)
      <3>1. marks'[s].value.score = q.entry[s].score
        BY <1>a, <2>1, <2>4
      <3>2. s \in Updates(q) /\ s \notin reqs'[r].todo
        BY <2>1, <2>2, <2>4
      <3> QED BY <2>1, <2>3, <2>4, <3>1, <3>2 DEF Owes
    <2>5. CASE ~(s = x /\ StillThere(q, x))
      <3>1. marks'[s] = marks[s]
        BY <1>a, <2>1, <2>5
      <3>2. Owes(q, s)
        BY <1>d, <3>1 DEF Has
      <3>3. /\ q.entry[s].score = marks[s].value.score /\ s \in Updates(q) \ q.todo /\ StillThere(q, s)
        BY <2>2, <3>2 DEF Owes
      <3> QED BY <2>1, <2>3, <3>1, <3>3 DEF Owes
    <2> QED BY <2>4, <2>5
  <1>6. CASE SaveAuditUpdated(r)
    <2>1. same /\ Owes(q, s)
      BY <1>6, <1>d, <1>e DEF SaveAuditUpdated
    <2>2. s \in Updates(q) /\ q.entry[s].score = marks'[s].value.score /\ q.op = "save"
      BY <1>6, <2>1 DEF SaveAuditUpdated, At, Owes
    <2>3. CASE \A x \in Updates(q) : StillThere(q, x)
      BY <1>6, <1>f, <2>2, <2>3 DEF SaveAuditUpdated
    <2>4. CASE ~(\A x \in Updates(q) : StillThere(q, x))
      <3>1. reqs'[r] = Idle
        BY <1>6, <1>c DEF SaveAuditUpdated, Ends
      <3> QED BY <2>2, <2>4, <3>1 DEF SaveThrows, Updates, StillThere
    <2> QED BY <2>3, <2>4
  <1>7. CASE UploadCheck(r)
    <2>1. Owes(q, s)
      BY <1>7, <1>d, <1>e DEF UploadCheck
    <2> QED BY <1>7, <1>b, <2>1 DEF UploadCheck, At, Owes, Careful
  <1>8. CASE UploadFind(r)
    <2>1. same /\ Owes(q, s)
      BY <1>8, <1>d, <1>e DEF UploadFind
    <2>2. PICK x \in q.todo :
            reqs'[r] = [q EXCEPT !.todo = @ \ {x}, !.ready = @ \cup {x},
                                 !.found = IF Has(x) THEN @ \cup {x} ELSE @]
      BY <1>8, <1>c DEF UploadFind
    <2>3. q.op = "upload"  BY <1>8 DEF UploadFind, At
    <2>4. /\ reqs'[r].op = "upload" /\ reqs'[r].entry = q.entry /\ reqs'[r].written = q.written
          /\ q.found \subseteq reqs'[r].found /\ reqs'[r].gone = q.gone
      BY <1>b, <2>2, <2>3 DEF Request
    <2> QED BY <2>1, <2>3, <2>4 DEF Owes, StillThere, Idle
  <1>9. CASE UploadWrite(r)
    <2>1. PICK x \in q.ready :
            LET ok == IF x \in q.found THEN StillThere(q, x) ELSE ~Has(x)
                put == Put(x, q.entry[x], UploadStatus(q.user), q.user)
            IN  /\ marks' = [marks EXCEPT ![x] = IF ok THEN put ELSE @]
                /\ Becomes(r, UploadRest(
                       [q EXCEPT !.ready = @ \ {x},
                                 !.written = IF ok THEN @ \cup {x} ELSE @,
                                 !.found = IF ok THEN @ \cup {x} ELSE @]))
      BY <1>9 DEF UploadWrite
    <2> DEFINE ok == IF x \in q.found THEN StillThere(q, x) ELSE ~Has(x)
               p == [q EXCEPT !.ready = @ \ {x}, !.written = IF ok THEN @ \cup {x} ELSE @,
                              !.found = IF ok THEN @ \cup {x} ELSE @]
    <2>2. q.op = "upload" /\ x \in Students
      BY <1>9, <1>b DEF UploadWrite, At, Request
    <2>3. /\ p.op = "upload" /\ p.entry = q.entry /\ p.gone = q.gone
          /\ p.todo = q.todo /\ p.ready = q.ready \ {x}
          /\ p.written = (IF ok THEN q.written \cup {x} ELSE q.written)
          /\ p.found = (IF ok THEN q.found \cup {x} ELSE q.found)
      BY <1>b, <2>2 DEF Request
    <2>4. marks' = [marks EXCEPT ![x] = IF ok THEN Put(x, q.entry[x], UploadStatus(q.user), q.user)
                                        ELSE @]
          /\ reqs'[r] = UploadRest(p)
      BY <1>c, <2>1
    <2>5. ok => x \notin q.gone
      BY <1>b DEF StillThere, Careful
    <2> HIDE DEF p, ok
    <2>6. CASE s = x /\ ok
      <3>1. marks'[s].value.score = q.entry[s].score
        <4>1. q.entry[x] \in Values /\ UploadStatus(q.user) \in Statuses /\ q.user \in Staff
          BY <1>b DEF WellFormed, Pending, UploadStatus, Statuses, Request
        <4>2. Put(x, q.entry[x], UploadStatus(q.user), q.user).value.score = q.entry[x].score
          BY <2>2, <4>1, PutType DEF IInv
        <4> QED BY <1>a, <2>2, <2>4, <2>6, <4>2
      <3>2. s \in p.written /\ s \in p.found /\ s \notin p.gone
        BY <2>3, <2>5, <2>6
      <3>3. reqs'[r] = p /\ p # Idle
        BY <2>3, <2>4, <3>2 DEF UploadRest, Idle
      <3> QED BY <2>3, <3>1, <3>2, <3>3 DEF Owes, StillThere
    <2>7. CASE ~(s = x /\ ok)
      <3>1. marks'[s] = marks[s]
        BY <1>a, <2>2, <2>4, <2>7
      <3>2. Owes(q, s)
        BY <1>d, <3>1 DEF Has
      <3>3. q.entry[s].score = marks[s].value.score /\ s \in q.written /\ StillThere(q, s)
        BY <2>2, <3>2 DEF Owes
      <3>4. s \in p.written /\ s \in p.found /\ s \notin p.gone
        BY <2>3, <3>3 DEF StillThere
      <3>5. reqs'[r] = p /\ p # Idle
        BY <2>3, <2>4, <3>4 DEF UploadRest, Idle
      <3> QED BY <2>3, <3>1, <3>3, <3>4, <3>5 DEF Owes, StillThere
    <2> QED BY <2>6, <2>7
  <1>10. CASE UploadAudit(r)
    <2>1. same /\ Owes(q, s)
      BY <1>10, <1>d, <1>e DEF UploadAudit
    <2>2. PICK x \in q.written :
            /\ IF StillThere(q, x) THEN Audits({x}, q.entry) ELSE UNCHANGED trail
            /\ Becomes(r, UploadRest([q EXCEPT !.written = @ \ {x}]))
      BY <1>10 DEF UploadAudit
    <2>3. q.op = "upload"  BY <1>10 DEF UploadAudit, At
    <2>4. q.entry[s].score = marks'[s].value.score /\ s \in q.written /\ StillThere(q, s)
      BY <2>1, <2>3 DEF Owes
    <2>5. CASE s = x
      BY <1>f, <2>2, <2>4, <2>5
    <2>6. CASE s # x
      <3> DEFINE p == [q EXCEPT !.written = @ \ {x}]
      <3>1. /\ p.op = "upload" /\ p.entry = q.entry /\ p.gone = q.gone /\ p.found = q.found
            /\ p.written = q.written \ {x} /\ p.todo = q.todo /\ p.ready = q.ready
        BY <1>b, <2>3 DEF Request
      <3>2. reqs'[r] = UploadRest(p)  BY <1>c, <2>2
      <3> HIDE DEF p
      <3>3. reqs'[r] = p /\ p # Idle
        BY <2>4, <2>6, <3>1, <3>2 DEF UploadRest, Idle
      <3> QED BY <2>4, <2>6, <3>1, <3>3 DEF Owes, StillThere
    <2> QED BY <2>5, <2>6
  <1>11. CASE ModerateWrite(r)
    <2>1. PICK x \in q.todo :
            LET ok == IF x \in q.found THEN StillThere(q, x) ELSE ~Has(x)
                put == Put(x, q.entry[x], "APPROVED", q.owner)
            IN  /\ marks' = [marks EXCEPT ![x] = IF ok THEN put ELSE @]
                /\ Becomes(r, IF ok THEN [q EXCEPT !.step = "audit", !.found = {x}] ELSE Idle)
      BY <1>11 DEF ModerateWrite
    <2> DEFINE ok == IF x \in q.found THEN StillThere(q, x) ELSE ~Has(x)
    <2>2. q.op = "moderate" /\ q.step = "write" /\ x \in Students
      BY <1>11, <1>b DEF ModerateWrite, At, Request
    <2>3. ~Owes(q, s)  BY <2>2 DEF Owes
    <2>4. ok /\ s = x
      BY <1>a, <1>d, <2>1, <2>2, <2>3 DEF Has
    <2>5. marks'[s].value.score = q.entry[s].score
      <3>1. q.entry[x] \in Values /\ "APPROVED" \in Statuses /\ q.owner \in Staff
        BY <1>b DEF WellFormed, Pending, Statuses, Request
      <3>2. Put(x, q.entry[x], "APPROVED", q.owner).value.score = q.entry[x].score
        BY <2>2, <3>1, PutType DEF IInv
      <3> QED BY <1>a, <2>1, <2>2, <2>4, <3>2
    <2>6. reqs'[r] = [q EXCEPT !.step = "audit", !.found = {x}]
      BY <1>c, <2>1, <2>4
    <2>7. x \notin q.gone
      BY <1>b, <2>4 DEF Careful, StillThere
    <2>8. /\ reqs'[r].op = "moderate" /\ reqs'[r].step = "audit" /\ reqs'[r].entry = q.entry
          /\ reqs'[r].found = {x} /\ reqs'[r].gone = q.gone
      BY <1>b, <2>2, <2>6 DEF Request
    <2> QED BY <2>4, <2>5, <2>7, <2>8 DEF Owes, StillThere, Idle
  <1>12. CASE ModerateAudit(r)
    <2>1. same /\ Owes(q, s)
      BY <1>12, <1>d, <1>e DEF ModerateAudit
    <2>2. q.entry[s].score = marks'[s].value.score /\ StillThere(q, s) /\ q.op = "moderate"
      BY <1>12, <2>1 DEF ModerateAudit, At, Owes
    <2>3. s \in q.todo
      BY <1>b, <2>2 DEF Careful, StillThere
    <2> QED BY <1>12, <1>f, <2>2, <2>3 DEF ModerateAudit
  <1>13. CASE SubmitStep(r) \/ AskWrite(r) \/ ReviewReopen(r)
    <2>1. ~Owes(q, s)
      BY <1>13 DEF SubmitStep, SubmitRead, SubmitLock, SubmitClearGrant, AskWrite, ReviewReopen,
         At, Owes
    <2>2. CASE SubmitRead(r) \/ SubmitClearGrant(r) \/ AskWrite(r)
      BY <2>1, <2>2, <1>d, <1>e DEF SubmitRead, SubmitClearGrant, AskWrite
    <2>3. CASE SubmitLock(r)
      <3>1. Has(s)  BY <1>b, <2>3 DEF SubmitLock, Has
      <3>2. marks[s] \in Mark  BY <1>a, <3>1 DEF Has
      <3>3. same  BY <2>3, <3>1, <3>2 DEF SubmitLock, Mark
      <3> QED BY <1>d, <2>1, <3>3
    <2>4. CASE ReviewReopen(r)
      <3>1. Has(s)  BY <2>4 DEF ReviewReopen, Has, Locked
      <3>2. marks[s] \in Mark  BY <1>a, <3>1 DEF Has
      <3>3. same  BY <2>4, <3>1, <3>2 DEF ReviewReopen, Mark
      <3> QED BY <1>d, <2>1, <3>3
    <2> QED BY <1>13, <2>2, <2>3, <2>4 DEF SubmitStep
  <1> QED BY <1>1, <1>2, <1>3, <1>4, <1>5, <1>6, <1>7, <1>8, <1>9, <1>10, <1>11, <1>12, <1>13
      DEF Step, SaveStep, UploadStep, ModerateStep

LEMMA AccountedStep ==
  ASSUME IInv, CInv, [Next]_vars, NEW s \in Students, Accounted(s),
         \A r \in Requests : ~RequestFails(r) /\ ~SaveThrows(r)
  PROVE  Accounted(s)'
  <1> SUFFICES ASSUME Has(s)'
               PROVE  \/ marks'[s].value.score \in trail'[s]
                      \/ \E r \in Requests : reqs'[r] # Idle /\ Owes(reqs[r], s)'
    BY DEF Accounted
  <1> DEFINE same == Has(s) /\ marks'[s].value.score = marks[s].value.score
  <1>a. same => marks[s].value.score \in trail[s] \/ \E x \in Requests : reqs[x] # Idle /\ Owes(reqs[x], s)
    BY DEF Accounted
  <1>b. marks[s].value.score \in trail[s] /\ same => marks'[s].value.score \in trail'[s]
    BY TrailGrows
  <1>1. ASSUME NEW r \in Requests, Step(r) PROVE \/ marks'[s].value.score \in trail'[s]
                      \/ \E x \in Requests : reqs'[x] # Idle /\ Owes(reqs[x], s)'
    <2>1. CASE ~same
      BY <1>1, <2>1, OwnPays
    <2>2. CASE same
      <3>1. ASSUME NEW x \in Requests, reqs[x] # Idle, Owes(reqs[x], s)
            PROVE  marks'[s].value.score \in trail'[s] \/ (reqs'[x] # Idle /\ Owes(reqs[x], s)')
        BY <1>1, <2>2, <3>1, OwnPays, OthersOwe
      <3> QED BY <1>a, <1>b, <2>2, <3>1
    <2> QED BY <2>1, <2>2
  <1>2. ASSUME NEW r \in Requests, Arrives(r) PROVE \/ marks'[s].value.score \in trail'[s]
                      \/ \E x \in Requests : reqs'[x] # Idle /\ Owes(reqs[x], s)'
    <2>1. same
      BY <1>2 DEF Arrives, SaveRead, UploadRead, SubmitCheck, ModerateRead, AskRead, ReviewWrite,
         Has
    <2>2. ASSUME reqs[r] # Idle PROVE FALSE
      BY <1>2, <2>2 DEF Arrives, SaveRead, UploadRead, SubmitCheck, ModerateRead, AskRead,
         ReviewWrite, Start
    <2>3. ASSUME NEW x \in Requests, reqs[x] # Idle, Owes(reqs[x], s)
          PROVE  reqs'[x] # Idle /\ Owes(reqs[x], s)'
      BY <1>2, <2>1, <2>2, <2>3, OthersOwe
    <2> QED BY <1>a, <1>b, <2>1, <2>3
  <1>3. ASSUME UNCHANGED reqs, same PROVE \/ marks'[s].value.score \in trail'[s]
                      \/ \E x \in Requests : reqs'[x] # Idle /\ Owes(reqs[x], s)'
    BY <1>3, <1>a, <1>b DEF Owes, Creates, Updates, StillThere
  <1>4. ASSUME NEW owner \in Staff, Approve(owner) \/ Unapprove(owner)
        PROVE  UNCHANGED reqs /\ same
    <2>1. Has(s) /\ marks[s] \in Mark
      BY <1>4 DEF Approve, Unapprove, MoveStatus, Has, IInv, TypeOK
    <2> QED BY <1>4, <2>1 DEF Approve, Unapprove, MoveStatus, Mark
  <1>5. DeadlineMoves \/ UNCHANGED vars => UNCHANGED reqs /\ same
    BY DEF DeadlineMoves, vars, Has
  <1> QED BY <1>1, <1>2, <1>3, <1>4, <1>5 DEF Next

\* However saves, uploads and moderations overlap and take rows from under one another, a
\* score or an outcome written into the register reaches the trail unless the handler that
\* owes it fails (practical marks are in no audit row).
THEOREM AuditsFollow == Spec => AuditLostOnlyByFailure
  <1>1. IInv /\ CInv /\ [Next]_vars =>
          [\A s \in Students :
             (Accounted(s) /\ ~Accounted(s)') =>
                 \E r \in Requests : RequestFails(r) \/ SaveThrows(r)]_vars
    BY AccountedStep
  <1> QED BY <1>1, Invariance, CarefulAlways, PTL DEF Spec, AuditLostOnlyByFailure

-----------------------------------------------------------------------------
(***************************************************************************)
(* The lock, as long as handlers are served one by one.                    *)
(***************************************************************************)
OneByOne == \A x, y \in Requests : x = y

\* What a handler has read of locks and drafts is still true: nobody was served since.
Unlocked(q, cells) == \A s \in cells : Locked(s) => Granted(q.user, "EDIT")
Touches(q) == {s \in Students : q.entry[s] # Skip}

Informed(q) ==
    /\ q.op = "review" => q.user \in Leaders
    /\ q.op \in {"save", "upload"} /\ q.step \in {"plan", "check"} =>
          \A s \in Touches(q) : Locked(s) => s \in q.locked
    /\ q.op = "save" /\ q.user \in Teachers =>
          /\ q.step # "plan" => Unlocked(q, Touches(q))
          /\ q.todo \subseteq Touches(q)
    /\ q.op = "upload" /\ q.user \in Teachers =>
          /\ q.step = "items" => Unlocked(q, q.todo \cup q.ready)
          /\ q.step = "check" => q.todo \cup q.ready = {}
    /\ q.op = "submit" =>
          /\ q.step = "lock" => \A s \in Students : StillThere(q, s) => ~Locked(s)
          
LInv == \A r \in Requests : reqs[r] # Idle => Informed(reqs[r])

LEMMA ArrivesInformed ==
  ASSUME IInv, NEW r \in Requests, Arrives(r), reqs'[r] # Idle, reqs'[r] # reqs[r]
  PROVE  Informed(reqs[r])'
  <1>a. reqs \in [Requests -> Request \cup {Idle}]
    BY DEF IInv, TypeOK
  <1>b. ASSUME NEW q, Start(r, q) PROVE reqs'[r] = q
    BY <1>a, <1>b DEF Start
  <1>c. ASSUME UNCHANGED marks PROVE \A s \in Students : Locked(s)' = Locked(s)
    BY <1>c DEF Locked, Has
  <1>1. ASSUME NEW u \in Writers, NEW e \in [Students -> Values \cup {Blank, Skip}],
               NEW op \in {"save", "upload"}, NEW step \in {"plan", "check"},
               <<op, step>> \in {<<"save", "plan">>, <<"upload", "check">>},
               UNCHANGED marks, Start(r, Reads(op, u, step, e))
        PROVE  Informed(reqs[r])'
    <2>1. reqs'[r] = Reads(op, u, step, e)  BY <1>1, <1>b
    <2>2. /\ reqs'[r].op = op /\ reqs'[r].step = step /\ reqs'[r].entry = e
          /\ reqs'[r].todo = {} /\ reqs'[r].ready = {}
          /\ reqs'[r].locked = {s \in Touches(reqs[r])' : Locked(s)}
      BY <2>1 DEF Reads, NewRequest, Touches
    <2>3. \A s \in Touches(reqs[r])' : Locked(s)' => s \in reqs'[r].locked
      BY <1>1, <1>c, <2>2 DEF Touches
    <2> QED BY <1>1, <2>2, <2>3 DEF Informed
  <1>2. ASSUME NEW u \in Writers, SaveRead(r, u) \/ UploadRead(r, u) PROVE Informed(reqs[r])'
    BY <1>1, <1>2, PlainType DEF SaveRead, UploadRead, Entries
  <1>3. ASSUME NEW u \in Writers, NEW owner \in Staff, SubmitCheck(r, u, owner)
        PROVE  Informed(reqs[r])'
    <2>1. reqs'[r].op = "submit" /\ reqs'[r].step = "read"
      BY <1>3, <1>b DEF SubmitCheck, NewRequest
    <2> QED BY <2>1 DEF Informed
  <1>4. ASSUME NEW l \in Leaders, ModerateRead(r, l) PROVE Informed(reqs[r])'
    <2>1. reqs'[r].op = "moderate"
      BY <1>4, <1>b DEF ModerateRead, NewRequest
    <2> QED BY <2>1 DEF Informed
  <1>5. ASSUME NEW t \in Teachers, NEW k \in Kinds, AskRead(r, t, k) PROVE Informed(reqs[r])'
    <2>1. reqs'[r].op = "ask"
      BY <1>5, <1>b DEF AskRead, NewRequest
    <2> QED BY <2>1 DEF Informed
  <1>6. ASSUME NEW l \in Leaders, NEW t \in Teachers, NEW k \in Kinds,
               NEW verdict \in {"APPROVED", "REJECTED"}, ReviewWrite(r, l, t, k, verdict)
        PROVE  Informed(reqs[r])'
    <2>1. reqs'[r].op = "review" /\ reqs'[r].user = l
      BY <1>6, <1>b DEF ReviewWrite, NewRequest
    <2> QED BY <2>1 DEF Informed
  <1> QED BY <1>2, <1>3, <1>4, <1>5, <1>6 DEF Arrives

\* A teacher's handler that may touch a locked cell holds the grant.
LEMMA NotBlocked ==
  ASSUME NEW u \in Teachers, NEW b \in BOOLEAN, ~MutateBlocked(u, b), b
  PROVE  Granted(u, "EDIT")
  BY DEF MutateBlocked

LEMMA StepInformed ==
  ASSUME IInv, CInv, LInv, NEW r \in Requests, Step(r), reqs'[r] # Idle
  PROVE  Informed(reqs[r])'
  <1> DEFINE q == reqs[r]
  <1>a. reqs \in [Requests -> Request \cup {Idle}] /\ q # Idle
        /\ marks \in [Students -> Mark \cup {NoMark}]
    BY StepEffect DEF IInv, TypeOK
  <1>b. q \in Request /\ Careful(q) /\ WellFormed(q) /\ Informed(q)
    BY <1>a, ActiveIsSound DEF CInv, LInv
  <1>c. ASSUME NEW p, Becomes(r, p) PROVE reqs'[r] = p
    BY <1>a, <1>c DEF Becomes
  <1>d. ASSUME Ends(r) PROVE FALSE
    BY <1>c, <1>d DEF Ends
  <1>e. ASSUME UNCHANGED marks PROVE \A s \in Students : Locked(s)' = Locked(s)
    BY <1>e DEF Locked, Has
  <1>f. ASSUME UNCHANGED access, NEW t PROVE Granted(t, "EDIT")' = Granted(t, "EDIT")
    BY <1>f DEF Granted
  \* A save goes on: it touches what it touched, and no more of it is locked.
  <1>g. ASSUME q.op = "save", q.step # "plan", UNCHANGED access, NEW p \in Request,
               p.op = "save", p.entry = q.entry, p.user = q.user, p.step \notin {"plan", "check"},
               p.todo \subseteq Touches(p), reqs'[r] = p,
               \A s \in Touches(q) : Locked(s)' => Locked(s)
        PROVE  Informed(reqs[r])'
    <2>1. Touches(p) = Touches(q)  BY <1>g DEF Touches
    <2>2. p.user \in Teachers => \A s \in Touches(p) : Locked(s)' => Granted(p.user, "EDIT")'
      BY <1>b, <1>f, <1>g, <2>1 DEF Informed, Unlocked
    <2> QED BY <1>b, <1>g, <2>1, <2>2 DEF Informed, Unlocked, Touches
  <1>h. q.user \in Staff /\ q.entry \in [Students -> Values \cup {Blank, Skip}]
    BY <1>b DEF Request
  <1>1. CASE SavePlan(r)
    <2> DEFINE plan == [s \in Students |-> IF MutateBlocked(q.user, s \in q.locked) THEN Skip
                                           ELSE q.entry[s]]
               p == [q EXCEPT !.entry = plan, !.locked = {}]
    <2>1. reqs'[r] = FromDelete(p) /\ q.op = "save" /\ q.step = "plan" /\ UNCHANGED <<marks, access>>
      BY <1>1, <1>c DEF SavePlan, At
    <2>2. p \in Request /\ p.entry = plan /\ p.op = "save" /\ p.user = q.user /\ p.todo = q.todo
      BY <1>b, <1>h, <2>1 DEF Request
    <2>3. q.todo = {}
      BY <1>b, <2>1 DEF WellFormed
    <2>4. q.user \in Teachers => \A s \in Touches(p) : Locked(s) => Granted(q.user, "EDIT")
      <3> SUFFICES ASSUME q.user \in Teachers, NEW s \in Touches(p), Locked(s)
                   PROVE  Granted(q.user, "EDIT")
        OBVIOUS
      <3>1. s \in Touches(q) /\ ~MutateBlocked(q.user, s \in q.locked)
        BY <2>2 DEF Touches
      <3>2. s \in q.locked
        BY <1>b, <2>1, <3>1 DEF Informed
      <3> QED BY <3>1, <3>2, NotBlocked
    <2> HIDE DEF p
    <2>5. /\ reqs'[r] \in Request /\ reqs'[r].op = "save" /\ reqs'[r].user = q.user
          /\ reqs'[r].entry = p.entry
      BY <2>1, <2>2, FromType DEF Same
    <2>6. reqs'[r].step \notin {"plan", "check"}
          /\ (reqs'[r].todo = {} \/ reqs'[r].todo = Updates(p))
      BY <2>1, <2>2, <2>3 DEF FromDelete, FromCreate, FromUpdate, Request
    <2>7. Touches(reqs[r])' = Touches(p) /\ Updates(p) \subseteq Touches(p)
      BY <2>5, Distinguished DEF Touches, Updates
    <2>8. q.user \in Teachers => \A s \in Touches(p) : Locked(s)' => Granted(q.user, "EDIT")'
      <3>1. \A s \in Students : Locked(s)' = Locked(s)  BY <1>e, <2>1
      <3>2. Granted(reqs[r].user, "EDIT")' = Granted(reqs[r].user, "EDIT")
        BY <2>1, <2>5 DEF Granted
      <3>3. Touches(p) \subseteq Students  BY DEF Touches
      <3> QED BY <2>4, <2>5, <3>1, <3>2, <3>3
    <2> QED BY <2>5, <2>6, <2>7, <2>8 DEF Informed, Unlocked
  <1>2. CASE SaveDelete(r)
    <2> DEFINE p == Loses(q, Deletes(q))
    <2>1. /\ reqs'[r] = FromCreate(p) /\ q.op = "save" /\ q.step = "delete" /\ UNCHANGED access
          /\ \A s \in Students : Locked(s)' => Locked(s)
      BY <1>2, <1>d DEF SaveDelete, At, Locked, Has
    <2>2. p \in Request /\ p.entry = q.entry /\ p.op = "save" /\ p.user = q.user /\ p.todo = q.todo
      BY <1>b, <2>1, LosesType DEF Loses, Request
    <2>3. q.todo = {}
      BY <1>b, <2>1 DEF WellFormed
    <2> HIDE DEF p
    <2>5. /\ reqs'[r] \in Request /\ reqs'[r].op = "save" /\ reqs'[r].user = q.user
          /\ reqs'[r].entry = q.entry
      BY <2>1, <2>2, FromType DEF Same
    <2>6. reqs'[r].step \notin {"plan", "check"}
          /\ (reqs'[r].todo = {} \/ reqs'[r].todo = Updates(p))
      BY <2>1, <2>2, <2>3 DEF FromCreate, FromUpdate, Request
    <2>7. Updates(p) \subseteq Touches(reqs'[r])
      BY <2>2, <2>5, Distinguished DEF Touches, Updates
    <2>8. \A s \in Touches(q) : Locked(s)' => Locked(s)
      BY <2>1 DEF Touches
    <2> QED BY <1>g, <2>1, <2>5, <2>6, <2>7, <2>8
  <1>3. CASE SaveCreate(r)
    <2>1. /\ reqs'[r] = [q EXCEPT !.step = "auditNew"] /\ q.op = "save" /\ q.step = "create"
          /\ UNCHANGED access /\ \A s \in Students : Locked(s)' => Locked(s)
      BY <1>3, <1>c, <1>d DEF SaveCreate, At, Locked, Has
    <2>2. /\ reqs'[r] \in Request /\ reqs'[r].op = "save" /\ reqs'[r].user = q.user
          /\ reqs'[r].entry = q.entry /\ reqs'[r].step = "auditNew" /\ reqs'[r].todo = q.todo
      BY <1>b, <2>1 DEF Request, Steps
    <2>3. reqs'[r].todo \subseteq Touches(reqs'[r])
      BY <1>b, <2>1, <2>2 DEF WellFormed
    <2> QED BY <1>g, <2>1, <2>2, <2>3 DEF Touches
  <1>4. CASE SaveAuditCreated(r)
    <2>1. /\ reqs'[r] = FromUpdate(q) /\ q.op = "save" /\ q.step = "auditNew"
          /\ UNCHANGED access /\ \A s \in Students : Locked(s)' => Locked(s)
      BY <1>4, <1>c, <1>d, <1>e DEF SaveAuditCreated, At
    <2>2. /\ reqs'[r] \in Request /\ reqs'[r].op = "save" /\ reqs'[r].user = q.user
          /\ reqs'[r].entry = q.entry
      BY <1>b, <2>1, FromType DEF Same
    <2>3. reqs'[r].step = "update" /\ reqs'[r].todo = Updates(q)
      BY <1>b, <2>1 DEF FromUpdate, Request
    <2>4. reqs'[r].todo \subseteq Touches(reqs'[r])
      BY <2>2, <2>3, Distinguished DEF Touches, Updates
    <2> QED BY <1>g, <2>1, <2>2, <2>3, <2>4 DEF Touches
  <1>5. CASE SaveUpdate(r)
    <2>1. PICK s \in q.todo, failed \in BOOLEAN, step \in {"update", "auditOld"} :
            /\ marks' = [marks EXCEPT ![s] =
                 IF StillThere(q, s)
                 THEN [value |-> q.entry[s], status |-> "DRAFT", by |-> q.user] ELSE @]
            /\ reqs'[r] = [q EXCEPT !.todo = @ \ {s}, !.failed = failed, !.step = step]
      <3>1. PICK s \in q.todo :
            LET ok == StillThere(q, s)
                next == [q EXCEPT !.todo = @ \ {s}, !.failed = @ \/ ~ok]
            IN  /\ marks' = [marks EXCEPT ![s] =
                       IF ok THEN [value |-> q.entry[s], status |-> "DRAFT", by |-> q.user] ELSE @]
                /\ reqs'[r] = IF next.todo # {} THEN next
                              ELSE IF next.failed THEN Idle
                              ELSE [next EXCEPT !.step = "auditOld"]
        BY <1>5, <1>c DEF SaveUpdate
      <3> DEFINE next == [q EXCEPT !.todo = @ \ {s}, !.failed = @ \/ ~StillThere(q, s)]
                 fails == q.failed \/ ~StillThere(q, s)
      <3>2. q.step = "update"  BY <1>5 DEF SaveUpdate, At
      <3>3. next = [q EXCEPT !.todo = @ \ {s}, !.failed = fails, !.step = "update"]
        BY <1>b, <3>2 DEF Request
      <3>4. [next EXCEPT !.step = "auditOld"]
               = [q EXCEPT !.todo = @ \ {s}, !.failed = fails, !.step = "auditOld"]
        OBVIOUS
      <3>5. fails \in BOOLEAN
        BY <1>b DEF Request, StillThere
      <3>6. reqs'[r] = next \/ reqs'[r] = [next EXCEPT !.step = "auditOld"]
        BY <3>1
      <3> HIDE DEF next, fails
      <3> QED BY <3>1, <3>3, <3>4, <3>5, <3>6
    <2>2. q.op = "save" /\ q.step = "update" /\ UNCHANGED access /\ s \in Students
      BY <1>5, <1>b DEF SaveUpdate, At, Request
    <2>3. \A x \in Students : Locked(x)' => Locked(x)
      BY <1>a, <2>1, <2>2 DEF Locked, Has
    <2>4. /\ reqs'[r] \in Request /\ reqs'[r].op = "save" /\ reqs'[r].user = q.user
          /\ reqs'[r].entry = q.entry /\ reqs'[r].step = step /\ reqs'[r].todo = q.todo \ {s}
      BY <1>b, <2>1, <2>2 DEF Request, Steps
    <2>5. q.todo \subseteq Touches(q)
      BY <1>b, <2>2, Distinguished DEF Careful, Updates, Touches
    <2>6. reqs'[r].todo \subseteq Touches(reqs'[r])
      BY <2>4, <2>5 DEF Touches
    <2> QED BY <1>g, <2>2, <2>3, <2>4, <2>6 DEF Touches
  <1>6. CASE SaveAuditUpdated(r)
    BY <1>6, <1>d DEF SaveAuditUpdated
  <1>7. CASE UploadCheck(r)
    <2> DEFINE cells == {s \in Students : q.entry[s] # Skip}
    <2>1. /\ q.op = "upload" /\ q.step = "check" /\ UNCHANGED <<marks, access>>
          /\ \A s \in cells : ~MutateBlocked(q.user, s \in q.locked)
          /\ reqs'[r] = [q EXCEPT !.step = "items", !.todo = cells,
                                  !.found = {}, !.locked = {}, !.gone = {}]
      BY <1>7, <1>c DEF UploadCheck, At
    <2>2. /\ reqs'[r].op = "upload" /\ reqs'[r].step = "items" /\ reqs'[r].user = q.user
          /\ reqs'[r].todo = cells /\ reqs'[r].ready = q.ready
      BY <1>b, <2>1 DEF Request
    <2>3. q.user \in Teachers => \A s \in cells : Locked(s) => Granted(q.user, "EDIT")
      BY <1>b, <2>1, NotBlocked DEF Informed, Touches
    <2>4. q.user \in Teachers => q.ready = {}
      BY <1>b, <2>1 DEF Informed
    <2> QED BY <1>e, <1>f, <2>1, <2>2, <2>3, <2>4 DEF Informed, Unlocked
  <1>8. CASE UploadFind(r)
    <2>1. PICK s \in q.todo :
            reqs'[r] = [q EXCEPT !.todo = @ \ {s}, !.ready = @ \cup {s},
                                 !.found = IF Has(s) THEN @ \cup {s} ELSE @]
      BY <1>8, <1>c DEF UploadFind
    <2>2. q.op = "upload" /\ q.step = "items" /\ UNCHANGED <<marks, access>>
      BY <1>8 DEF UploadFind, At
    <2>3. /\ reqs'[r].op = "upload" /\ reqs'[r].step = "items" /\ reqs'[r].user = q.user
          /\ reqs'[r].todo = q.todo \ {s} /\ reqs'[r].ready = q.ready \cup {s}
      BY <1>b, <2>1, <2>2 DEF Request
    <2>4. q.todo \cup q.ready \subseteq Students  BY <1>b DEF Request
    <2> QED BY <1>b, <1>e, <1>f, <2>2, <2>3, <2>4 DEF Informed, Unlocked
  <1>9. CASE UploadWrite(r)
    <2>1. PICK s \in q.ready, ok \in BOOLEAN :
            /\ marks' = [marks EXCEPT ![s] =
                 IF ok THEN Put(s, q.entry[s], UploadStatus(q.user), q.user) ELSE @]
            /\ Becomes(r, UploadRest([q EXCEPT !.ready = @ \ {s},
                                 !.written = IF ok THEN @ \cup {s} ELSE @,
                                 !.found = IF ok THEN @ \cup {s} ELSE @]))
      BY <1>9 DEF UploadWrite, StillThere, Has
    <2>2. q.op = "upload" /\ q.step = "items" /\ UNCHANGED access /\ s \in Students
      BY <1>9, <1>b DEF UploadWrite, At, Request
    <2>3. reqs'[r] = [q EXCEPT !.ready = @ \ {s},
                               !.written = IF ok THEN @ \cup {s} ELSE @,
                               !.found = IF ok THEN @ \cup {s} ELSE @]
      BY <1>c, <2>1 DEF UploadRest
    <2>4. /\ reqs'[r].op = "upload" /\ reqs'[r].step = "items" /\ reqs'[r].user = q.user
          /\ reqs'[r].todo = q.todo /\ reqs'[r].ready = q.ready \ {s}
      BY <1>b, <2>2, <2>3 DEF Request
    <2>5. q.user \in Teachers => \A x \in Students : Locked(x)' => Locked(x)
      BY <1>a, <2>1, <2>2, RolesDisjoint DEF Locked, Has, UploadStatus, Put
    <2>6. q.todo \cup q.ready \subseteq Students  BY <1>b DEF Request
    <2> QED BY <1>b, <1>f, <2>2, <2>4, <2>5, <2>6 DEF Informed, Unlocked
  <1>10. CASE UploadAudit(r)
    <2>1. PICK s \in q.written : Becomes(r, UploadRest([q EXCEPT !.written = @ \ {s}]))
      BY <1>10 DEF UploadAudit
    <2>2. q.op = "upload" /\ q.step = "items" /\ UNCHANGED <<marks, access>>
      BY <1>10 DEF UploadAudit, At
    <2>3. reqs'[r] = [q EXCEPT !.written = @ \ {s}]
      BY <1>c, <2>1 DEF UploadRest
    <2>4. /\ reqs'[r].op = "upload" /\ reqs'[r].step = "items" /\ reqs'[r].user = q.user
          /\ reqs'[r].todo = q.todo /\ reqs'[r].ready = q.ready
      BY <1>b, <2>2, <2>3 DEF Request
    <2>6. q.todo \cup q.ready \subseteq Students  BY <1>b DEF Request
    <2> QED BY <1>b, <1>e, <1>f, <2>2, <2>4, <2>6 DEF Informed, Unlocked
  <1>11. CASE SubmitRead(r)
    <2> DEFINE drafts == {s \in Students : Has(s) /\ marks[s].status = "DRAFT" /\ marks[s].by = q.owner}
    <2>1. /\ reqs'[r] = [q EXCEPT !.step = "lock", !.found = drafts]
          /\ q.op = "submit" /\ UNCHANGED marks
      BY <1>11, <1>c DEF SubmitRead, At
    <2>2. reqs'[r].op = "submit" /\ reqs'[r].found = drafts
      BY <1>b, <2>1 DEF Request
    <2>3. \A s \in drafts : ~Locked(s)
      BY DEF Locked
    <2> QED BY <1>e, <2>1, <2>2, <2>3 DEF Informed, StillThere
  <1>12. CASE SubmitLock(r)
    <2>1. reqs'[r] = [q EXCEPT !.step = "clear", !.found = {}, !.gone = {}] /\ q.op = "submit"
      BY <1>12, <1>c DEF SubmitLock, At
    <2>2. reqs'[r].op = "submit" /\ reqs'[r].step = "clear"
      BY <1>b, <2>1 DEF Request
    <2> QED BY <2>2 DEF Informed
  <1>13. CASE ModerateWrite(r)
    <2>1. PICK x \in q.todo : reqs'[r] = [q EXCEPT !.step = "audit", !.found = {x}]
      BY <1>13, <1>c DEF ModerateWrite
    <2>2. reqs'[r].op = "moderate"
      BY <1>13, <1>b, <2>1 DEF ModerateWrite, At, Request
    <2> QED BY <2>2 DEF Informed
  <1>14. CASE SubmitClearGrant(r) \/ ModerateAudit(r) \/ AskWrite(r) \/ ReviewReopen(r)
    <2>1. CASE SubmitClearGrant(r)
      BY <1>d, <2>1 DEF SubmitClearGrant
    <2> QED BY <1>14, <1>d, <2>1 DEF ModerateAudit, AskWrite, ReviewReopen
  <1> QED BY <1>1, <1>2, <1>3, <1>4, <1>5, <1>6, <1>7, <1>8, <1>9, <1>10, <1>11, <1>12, <1>13, <1>14
      DEF Step, SaveStep, UploadStep, SubmitStep, ModerateStep

\* Leadership's bulk approvals, the deadline and failures leave what is locked locked
\* and the grants alone; and with one slot nobody else reviews meanwhile.
LEMMA RestInformed ==
  ASSUME IInv, LInv, NEW r \in Requests, reqs[r] # Idle, reqs'[r] = reqs[r],
         UNCHANGED access, \A s \in Students : Locked(s)' = Locked(s)
  PROVE  Informed(reqs[r])'
  <1>1. Informed(reqs[r])
    BY DEF LInv
  <1>2. \A t : Granted(t, "EDIT")' = Granted(t, "EDIT")
    BY DEF Granted
  <1>3. reqs[r] \in Request
    BY ActiveIsSound
  <1>4. (reqs[r].todo \cup reqs[r].ready) \subseteq Students
    BY <1>3 DEF Request
  <1>5. \A cells \in SUBSET Students : Unlocked(reqs[r], cells) => Unlocked(reqs[r], cells)'
    BY <1>2 DEF Unlocked
  <1> QED BY <1>1, <1>4, <1>5 DEF Informed, Touches, StillThere

LEMMA InformedInv == OneByOne /\ IInv /\ CInv /\ LInv /\ [Next]_vars => LInv'
  <1> SUFFICES ASSUME OneByOne, IInv, CInv, LInv, [Next]_vars,
                      NEW r \in Requests, reqs'[r] # Idle
               PROVE  Informed(reqs[r])'
    BY DEF LInv
  <1>a. \A x \in Requests : x = r
    BY DEF OneByOne
  <1>b. marks \in [Students -> Mark \cup {NoMark}]
    BY DEF IInv, TypeOK
  <1>1. ASSUME Arrives(r) PROVE Informed(reqs[r])'
    <2>1. reqs[r] = Idle
      BY <1>1 DEF Arrives, SaveRead, UploadRead, SubmitCheck, ModerateRead, AskRead,
                  ReviewWrite, Start
    <2> QED BY <1>1, <2>1, ArrivesInformed
  <1>2. ASSUME Step(r) PROVE Informed(reqs[r])'
    BY <1>2, StepInformed
  <1>3. ASSUME RequestFails(r) PROVE FALSE
    BY <1>3 DEF RequestFails, Ends, Becomes, IInv, TypeOK
  <1>4. ASSUME NEW owner \in Staff, Approve(owner) \/ Unapprove(owner)
        PROVE  Informed(reqs[r])'
    <2>1. UNCHANGED <<access, reqs>>
      BY <1>4 DEF Approve, Unapprove, MoveStatus
    <2>2. \A s \in Students : Kept(s)
                              \/ (Locked(s) /\ (Moved(s, "SUBMITTED") \/ Moved(s, "APPROVED")))
      BY <1>4, <1>b DEF Approve, Unapprove, MoveStatus, Kept, Moved, Locked
    <2>3. \A s \in Students : Locked(s)' = Locked(s)
      <3> TAKE s \in Students
      <3>1. CASE Kept(s)  BY <3>1 DEF Kept, Locked, Has
      <3>2. CASE Locked(s) /\ (Moved(s, "SUBMITTED") \/ Moved(s, "APPROVED"))
        <4>1. marks[s] \in Mark  BY <1>b, <3>2 DEF Locked, Has
        <4>2. marks'[s] \in Mark /\ marks'[s].status \in {"SUBMITTED", "APPROVED"}
          BY <3>2, <4>1 DEF Moved, Mark, Statuses
        <4> QED BY <3>2, <4>2, Distinguished DEF Locked, Has
      <3> QED BY <2>2, <3>1, <3>2
    <2> QED BY <2>1, <2>3, RestInformed
  <1>5. CASE DeadlineMoves \/ UNCHANGED vars
    <2>1. UNCHANGED <<access, reqs>> /\ \A s \in Students : Locked(s)' = Locked(s)
      BY <1>5 DEF DeadlineMoves, vars, Locked, Has
    <2> QED BY <2>1, RestInformed
  <1> QED BY <1>a, <1>1, <1>2, <1>3, <1>4, <1>5 DEF Next

LEMMA LockStep ==
  ASSUME OneByOne, IInv, CInv, LInv, NEW r \in Requests, reqs[r] # Idle, Step(r),
         reqs[r].user \in Teachers, ~Granted(reqs[r].user, "EDIT"),
         NEW s \in Students, Locked(s)
  PROVE  marks'[s] = marks[s]
  <1> DEFINE q == reqs[r]
  <1>a. /\ q \in Request /\ WellFormed(q) /\ Careful(q) /\ Informed(q)
        /\ marks \in [Students -> Mark \cup {NoMark}]
        /\ q.user \notin Leaders
    BY ActiveIsSound, RolesDisjoint DEF IInv, TypeOK, CInv, LInv
  <1>1. CASE SaveDelete(r)
    <2>1. s \notin Deletes(q)
      BY <1>a, <1>1, Distinguished DEF SaveDelete, At, Informed, Unlocked, Touches, Deletes
    <2> QED BY <1>1, <2>1 DEF SaveDelete
  <1>2. CASE SaveCreate(r)
    BY <1>2 DEF SaveCreate, Locked
  <1>3. CASE SaveUpdate(r)
    <2>1. s \notin q.todo
      BY <1>a, <1>3 DEF SaveUpdate, At, Informed, Unlocked
    <2> QED BY <1>a, <1>3, <2>1 DEF SaveUpdate
  <1>4. CASE UploadWrite(r)
    <2>1. s \notin q.ready
      BY <1>a, <1>4 DEF UploadWrite, At, Informed, Unlocked
    <2> QED BY <1>a, <1>4, <2>1 DEF UploadWrite
  <1>5. CASE SubmitLock(r)
    BY <1>a, <1>5 DEF SubmitLock, At, Informed
  <1>6. CASE ModerateWrite(r) \/ ReviewReopen(r)
    BY <1>a, <1>6 DEF ModerateWrite, ReviewReopen, At, WellFormed, Informed
  <1> QED BY <1>1, <1>2, <1>3, <1>4, <1>5, <1>6
      DEF Step, SaveStep, SavePlan, SaveAuditCreated, SaveAuditUpdated,
          UploadStep, UploadCheck, UploadFind, UploadAudit,
          SubmitStep, SubmitRead, SubmitClearGrant, ModerateStep, ModerateAudit, AskWrite

\* The lock (MarksEntry.jsx:679) as long as no two handlers overlap: what a handler
\* has read of locks, drafts and grants is then still so when it writes, whatever
\* leadership approves in one statement and whenever the deadline moves.
THEOREM LockHoldsOneByOne == OneByOne => (Spec => LockHolds)
  <1> SUFFICES ASSUME OneByOne PROVE Spec => LockHolds
    OBVIOUS
  <1>1. Init => LInv
    BY DEF Init, LInv
  <1>2. IInv /\ CInv /\ LInv /\ [Next]_vars => LInv'
    BY InformedInv
  <1>3. IInv /\ CInv /\ LInv /\ [Next]_vars =>
          [\A r \in Requests :
             (reqs[r] # Idle /\ Step(r) /\ reqs[r].user \in Teachers
                 /\ ~Granted(reqs[r].user, "EDIT")) =>
             \A s \in Students : Locked(s) => marks'[s] = marks[s]]_vars
    BY LockStep
  <1>4. Spec => []CInv
    BY CarefulAlways
  <1> QED BY <1>1, <1>2, <1>3, <1>4, Invariance, PTL DEF Spec, LockHolds

=============================================================================
