-------------------------- MODULE ExamDesksProofs --------------------------
(***************************************************************************)
(* What holds of an exam for any papers, dates and number of handlers: the *)
(* inductive invariant, and from it that the exam date follows the papers, *)
(* that a schedule nobody crossed is saved as asked, and that the ceiling  *)
(* of a locked exam is moved by early handlers alone.                      *)
(*                                                                         *)
(* A step is quiet when it leaves the papers alone and loud when it        *)
(* changes them: a loud step makes every handler at its papers crossed.    *)
(*                                                                         *)
(* Then the other desks, each for itself: the releases, the revaluations,  *)
(* with the promise of MarkLifecycle, and the consolidated lists.  At the  *)
(* end the office that they are the desks of.                              *)
(***************************************************************************)
EXTENDS ExamOffice, FiniteSetTheorems, WellFoundedInduction, NaturalsInduction,
        SequenceTheorems, TLAPS

AnyRequest == Request \cup {Idle}

LEMMA IdleFacts ==
    /\ Idle.step = "idle" /\ Idle.op = "none"
    /\ ~WillList(Idle) /\ Shape(Idle) /\ Progress(Idle) /\ Current(Idle)
    /\ \A q \in Request : q # Idle /\ q.step \in Steps /\ q.op \in Ops
<1>1. Idle.step = "idle" /\ Idle.op = "none"
  BY DEF Idle
<1>2. \A q \in Request : q # Idle /\ q.step \in Steps /\ q.op \in Ops
  BY <1>1 DEF Request, Ops, Idle
<1> QED BY <1>1, <1>2 DEF WillList, Shape, Progress, Current

LEMMA NewRequestTyped ==
    ASSUME NEW op \in Ops, NEW step \in Steps
    PROVE  NewRequest(op, step) \in Request
BY DEF NewRequest, Request, Empty, Row

LEMMA KeysOfTyped == \A p : KeysOf(p) \subseteq Keys
BY DEF KeysOf

LEMMA KeysOfEmpty == KeysOf(Empty) = {}
BY DEF KeysOf, Empty

LEMMA NextPaperFacts ==
    ASSUME NEW q \in Request
    PROVE  /\ NextPaper(q) \in Request
           /\ NextPaper(q).step = IF q.todo = {} THEN "list" ELSE "find"
           /\ NextPaper(q).todo = q.todo /\ NextPaper(q).asked = q.asked
           /\ NextPaper(q).op = q.op /\ NextPaper(q).replace = q.replace
           /\ NextPaper(q).gone = {} /\ NextPaper(q).ceiling = q.ceiling
           /\ WillList(NextPaper(q))
BY DEF NextPaper, Request, Steps, WillList

LEMMA ToPapersFacts ==
    ASSUME NEW q \in Request
    PROVE  /\ ToPapers(q) \in Request
           /\ ToPapers(q).step = IF q.replace THEN "scan"
                                 ELSE IF q.todo = {} THEN "list" ELSE "find"
           /\ ToPapers(q).todo = q.todo /\ ToPapers(q).asked = q.asked
           /\ ToPapers(q).op = q.op /\ ToPapers(q).replace = q.replace
           /\ ToPapers(q).gone = IF q.replace THEN q.gone ELSE {}
           /\ ToPapers(q).ceiling = q.ceiling
           /\ WillList(ToPapers(q))
<1>1. CASE q.replace
  BY <1>1 DEF ToPapers, Request, Steps, WillList
<1>2. CASE ~q.replace
  BY <1>2, NextPaperFacts DEF ToPapers
<1> QED BY <1>1, <1>2

LEMMA LosesFacts ==
    ASSUME NEW q \in AnyRequest, NEW ks \in SUBSET Keys
    PROVE  /\ Loses(q, ks) \in AnyRequest
           /\ Loses(q, ks).step = q.step
           /\ q \in Request => Loses(q, ks).ceiling = q.ceiling
           /\ WillList(Loses(q, ks)) <=> WillList(q)
           /\ Shape(q) => Shape(Loses(q, ks))
<1>1. CASE q = Idle
  BY <1>1, IdleFacts DEF Loses, AnyRequest
<1>2. CASE q \in Request
  <2> DEFINE p == [q EXCEPT !.gone = @ \cup (ks \cap q.held)]
  <2>1. Loses(q, ks) = p
    BY <1>2, IdleFacts DEF Loses
  <2>2. p \in Request /\ p.step = q.step /\ p.ceiling = q.ceiling /\ p.papers = q.papers
    BY <1>2 DEF Request
  <2>3. p.todo = q.todo /\ p.at = q.at /\ p.op = q.op /\ p.replace = q.replace
        /\ p.asked = q.asked /\ p.held = q.held /\ p.gone = q.gone \cup (ks \cap q.held)
    BY <1>2 DEF Request
  <2> HIDE DEF p
  <2>4. WillList(p) <=> WillList(q)
    BY <2>2 DEF WillList
  <2>5. Shape(q) => Shape(p)
    BY <2>2, <2>3, <2>4 DEF Shape
  <2> QED BY <2>1, <2>2, <2>4, <2>5 DEF AnyRequest
<1> QED BY <1>1, <1>2 DEF AnyRequest

-----------------------------------------------------------------------------
(***************************************************************************)
(* Quiet and loud steps.                                                   *)
(***************************************************************************)
LEMMA QuietStep ==
    ASSUME TypeOK, RequestShape, UncrossedKnows,
           NEW r \in Requests, NEW q \in AnyRequest,
           reqs' = [reqs EXCEPT ![r] = q], papers' = papers,
           crossed' \in {crossed, crossed \ {r}},
           Shape(q), r \notin crossed' => Progress(q) /\ Current(q)
    PROVE  /\ reqs' \in [Requests -> AnyRequest] /\ crossed' \subseteq Requests
           /\ RequestShape' /\ UncrossedKnows'
           /\ \A s \in Requests : reqs'[s] = IF s = r THEN q ELSE reqs[s]
<1>1. \A s \in Requests : reqs'[s] = IF s = r THEN q ELSE reqs[s]
  BY DEF TypeOK, AnyRequest
<1>2. reqs' \in [Requests -> AnyRequest] /\ crossed' \subseteq Requests
  BY DEF TypeOK, AnyRequest
<1>3. ASSUME NEW s \in Requests PROVE Shape(reqs[s])'
  BY <1>1 DEF RequestShape, Shape, WillList, KeysOf
<1>4. ASSUME NEW s \in Requests, s \notin crossed'
      PROVE  Progress(reqs[s])' /\ Current(reqs[s])'
  <2>1. CASE s = r
    BY <1>1, <1>4, <2>1 DEF Progress, Current, WillList, KeysOf, Earliest
  <2>2. CASE s # r
    <3>1. s \notin crossed /\ reqs'[s] = reqs[s]
      BY <1>1, <1>4, <2>2
    <3>2. Progress(reqs[s]) /\ Current(reqs[s])
      BY <3>1 DEF UncrossedKnows
    <3> QED BY <3>1, <3>2 DEF Progress, Current, WillList, KeysOf, Earliest
  <2> QED BY <2>1, <2>2
<1>5. RequestShape'
  BY <1>3 DEF RequestShape
<1>6. UncrossedKnows'
  BY <1>4 DEF UncrossedKnows
<1> QED BY <1>1, <1>2, <1>5, <1>6

\* With rows and handlers as they were, what is known of them still is.
LEMMA KnowsStill ==
    ASSUME UncrossedKnows, UNCHANGED <<papers, reqs, crossed>>
    PROVE  UncrossedKnows'
<1> SUFFICES ASSUME NEW s \in Requests, s \notin crossed
             PROVE  Progress(reqs[s])' /\ Current(reqs[s])'
  BY DEF UncrossedKnows
<1>1. Progress(reqs[s]) /\ Current(reqs[s])
  BY DEF UncrossedKnows
<1> QED BY <1>1 DEF Progress, Current, WillList, KeysOf, Earliest

\* The others go on as they were, but for rows that they have lost.
LEMMA LoudStep ==
    ASSUME TypeOK, RequestShape, UncrossedKnows,
           NEW r \in Requests, NEW q \in AnyRequest, NEW ks \in SUBSET Keys,
           reqs' = [s \in Requests |-> IF s = r THEN q ELSE Loses(reqs[s], ks)],
           crossed' \subseteq Requests, Others(r) \subseteq crossed',
           Shape(q), r \notin crossed' => Progress(q)' /\ Current(q)'
    PROVE  /\ reqs' \in [Requests -> AnyRequest]
           /\ RequestShape' /\ UncrossedKnows'
           /\ reqs'[r] = q
           /\ \A s \in Requests \ {r} : reqs'[s] = Loses(reqs[s], ks)
<1>1. /\ reqs'[r] = q
      /\ \A s \in Requests \ {r} : reqs'[s] = Loses(reqs[s], ks)
  OBVIOUS
<1>2. reqs' \in [Requests -> AnyRequest]
  BY LosesFacts DEF TypeOK, AnyRequest
<1>3. ASSUME NEW s \in Requests PROVE Shape(reqs'[s])
  BY <1>1, LosesFacts DEF RequestShape, TypeOK, AnyRequest
<1>4. ASSUME NEW s \in Requests, s \notin crossed'
      PROVE  Progress(reqs[s])' /\ Current(reqs[s])'
  <2>1. CASE s = r
    BY <1>1, <1>4, <2>1 DEF Progress, Current, WillList, KeysOf, Earliest
  <2>2. CASE s # r
    <3>1. ~WillList(reqs[s])
      BY <1>4, <2>2 DEF Others
    <3>2. ~WillList(reqs'[s])
      BY <1>1, <2>2, <3>1, LosesFacts DEF TypeOK, AnyRequest
    <3> QED BY <3>2 DEF Progress, Current, WillList
  <2> QED BY <2>1, <2>2
<1>5. RequestShape'
  BY <1>3 DEF RequestShape, Shape, WillList, KeysOf
<1>6. UncrossedKnows'
  BY <1>4 DEF UncrossedKnows
<1> QED BY <1>1, <1>2, <1>5, <1>6

-----------------------------------------------------------------------------
(***************************************************************************)
(* Dates.                                                                  *)
(***************************************************************************)
LEMMA EarliestTyped ==
    ASSUME NEW p \in [Keys -> Row]
    PROVE  Earliest(p) \in Row
<1>1. CASE p = Empty
  BY <1>1 DEF Earliest, Row
<1>2. CASE p # Empty
  <2> DEFINE D == {p[k] : k \in KeysOf(p)}
  <2>1. D \subseteq Dates
    BY DEF KeysOf, Row
  <2>2. PICK k \in Keys : p[k] # NoDate
    BY <1>2 DEF Empty
  <2>3. D # {}
    BY <2>2 DEF KeysOf
  <2>4. PICK d \in D : \A e \in D : d <= e
    BY <2>1, <2>3, DatesHaveAFirst
  <2>5. Earliest(p) = CHOOSE d_1 \in D : \A k_1 \in KeysOf(p) : d_1 <= p[k_1]
    BY <1>2 DEF Earliest
  <2>6. \A k_1 \in KeysOf(p) : d <= p[k_1]
    BY <2>4
  <2>7. Earliest(p) \in D
    BY <2>5, <2>6
  <2> QED BY <2>1, <2>7 DEF Row
<1> QED BY <1>1, <1>2

-----------------------------------------------------------------------------
(***************************************************************************)
(* A handler that reads, or writes nothing but the ceiling and the date,   *)
(* moves from one step to the next.                                        *)
(***************************************************************************)
LEMMA OneMoves ==
    ASSUME IInv, NEW r \in Requests, NEW q \in AnyRequest,
           reqs' = [reqs EXCEPT ![r] = q],
           UNCHANGED <<life, subjects, papers, locked>>,
           crossed' \in {crossed, crossed \ {r}},
           date' \in Row, ceiling' \in Ceilings, parted' \in BOOLEAN,
           early' \subseteq Requests, early \ {r} \subseteq early',
           q.step = "write" => early' = early,
           q.step = "write" /\ q # Idle /\ q.ceiling # Keep => ~locked,
           Shape(q), r \notin crossed' => Progress(q) /\ Current(q),
           \/ WillList(q) \/ parted' \/ papers = Empty \/ date' = Earliest(papers)
           \/ date' = date /\ ~WillList(reqs[r]) /\ ~parted
    PROVE  IInv'
<1> USE DEF IInv
<1>1. /\ reqs' \in [Requests -> AnyRequest] /\ crossed' \subseteq Requests
      /\ RequestShape' /\ UncrossedKnows'
      /\ \A s \in Requests : reqs'[s] = IF s = r THEN q ELSE reqs[s]
  BY QuietStep
<1>2. TypeOK'
  BY <1>1 DEF TypeOK, AnyRequest
<1>3. PapersNeedExam'
  BY DEF PapersNeedExam, There
<1>4. DateFollowsPapers'
  <2> SUFFICES ASSUME There', papers' # Empty, date' # Earliest(papers'),
                      \A s \in Requests : ~WillList(reqs'[s])
               PROVE  parted'
    BY DEF DateFollowsPapers, WillList
  <2>1. ~WillList(q) /\ date' # Earliest(papers) /\ papers # Empty
    BY <1>1
  <2>2. ASSUME date' = date, ~WillList(reqs[r]), ~parted PROVE FALSE
    <3>1. \A s \in Requests : ~WillList(reqs[s])
      BY <1>1, <2>2
    <3> QED BY <3>1, <2>1, <2>2 DEF DateFollowsPapers, There
  <2> QED BY <2>1, <2>2
<1>5. PendingCeilingIsEarly'
  <2> SUFFICES ASSUME NEW s \in Requests, locked, reqs'[s].step = "write",
                      reqs'[s].ceiling # Keep
               PROVE  s \in early'
    BY DEF PendingCeilingIsEarly, At
  <2>1. CASE s = r
    BY <1>1, <2>1, IdleFacts
  <2>2. CASE s # r
    BY <1>1, <2>2 DEF PendingCeilingIsEarly, At
  <2> QED BY <2>1, <2>2
<1> QED BY <1>1, <1>2, <1>3, <1>4, <1>5

-----------------------------------------------------------------------------
(***************************************************************************)
(* A handler changes rows: it goes on to its list, or the exam is parted   *)
(* from its papers, or gone.                                               *)
(***************************************************************************)
LEMMA LosesNothing == \A q \in AnyRequest : Loses(q, {}) = q
<1>1. Loses(Idle, {}) = Idle
  BY DEF Loses
<1>2. ASSUME NEW q \in Request PROVE [q EXCEPT !.gone = @ \cup ({} \cap q.held)] = q
  BY DEF Request
<1>3. ASSUME NEW q \in Request PROVE Loses(q, {}) = q
  BY <1>2, IdleFacts DEF Loses
<1> QED BY <1>1, <1>3 DEF AnyRequest

LEMMA OneChanges ==
    ASSUME IInv, NEW r \in Requests, NEW q \in AnyRequest, NEW ks \in SUBSET Keys,
           reqs' = [s \in Requests |-> IF s = r THEN q ELSE Loses(reqs[s], ks)],
           UNCHANGED <<subjects, ceiling>>, locked' => locked,
           locked' \in BOOLEAN, life' \in {"none", "there", "deleted"},
           date' \in Row, papers' \in [Keys -> Row], parted' \in BOOLEAN,
           crossed' \subseteq Requests, Others(r) \subseteq crossed',
           early' \subseteq Requests, early \ {r} \subseteq early',
           q.step # "write", ~There' => papers' = Empty,
           Shape(q), r \notin crossed' => Progress(q)' /\ Current(q)',
           WillList(q) \/ parted' \/ ~There'
    PROVE  IInv'
<1> USE DEF IInv
<1>1. /\ reqs' \in [Requests -> AnyRequest]
      /\ RequestShape' /\ UncrossedKnows'
      /\ reqs'[r] = q
      /\ \A s \in Requests \ {r} : reqs'[s] = Loses(reqs[s], ks)
  BY LoudStep
<1>2. TypeOK'
  BY <1>1 DEF TypeOK, AnyRequest
<1>3. PapersNeedExam'
  BY DEF PapersNeedExam
<1>4. DateFollowsPapers'
  BY <1>1 DEF DateFollowsPapers, WillList
<1>5. PendingCeilingIsEarly'
  <2> SUFFICES ASSUME NEW s \in Requests, locked', reqs'[s].step = "write",
                      reqs'[s].ceiling # Keep
               PROVE  s \in early'
    BY DEF PendingCeilingIsEarly, At
  <2>1. s # r /\ reqs'[s] = Loses(reqs[s], ks)
    BY <1>1
  <2>2. reqs[s] \in AnyRequest /\ reqs[s].step = "write"
    BY <2>1, LosesFacts DEF TypeOK, AnyRequest
  <2>3. reqs[s].ceiling # Keep
    BY <2>1, <2>2, IdleFacts, LosesFacts DEF AnyRequest
  <2>4. locked
    OBVIOUS
  <2> QED BY <2>1, <2>2, <2>3, <2>4 DEF PendingCeilingIsEarly, At
<1> QED BY <1>1, <1>2, <1>3, <1>4, <1>5

LEMMA DeletesOnlyKeys ==
    ASSUME TypeOK, NEW ks \in SUBSET Keys
    PROVE  LET p == [k \in Keys |-> IF k \in ks THEN NoDate ELSE papers[k]]
           IN  /\ p \in [Keys -> Row]
               /\ KeysOf(p) = KeysOf(papers) \ ks
               /\ ks = {} => p = papers
BY DEF TypeOK, KeysOf, Row

\* The delete of rows, of some or of none, by a handler that goes on to its list or ends.
LEMMA DeletesPreserves ==
    ASSUME IInv, NEW r \in Requests, NEW q \in AnyRequest, NEW ks \in SUBSET Keys,
           Deletes(r, ks, q), UNCHANGED exam, parted' \in BOOLEAN,
           q.step # "write", Shape(q), WillList(q) \/ parted',
           r \notin crossed' => Progress(q)' /\ Current(q)'
    PROVE  IInv'
<1> USE DEF IInv
<1>1. papers' = [k \in Keys |-> IF k \in ks THEN NoDate ELSE papers[k]]
  BY DEF Deletes
<1>2. papers' \in [Keys -> Row]
  BY <1>1, DeletesOnlyKeys
<1>3. CASE ks = {}
  <2>1. papers' = papers
    BY <1>1, <1>3, DeletesOnlyKeys
  <2>2. reqs' = [reqs EXCEPT ![r] = q]
    BY <1>3, LosesNothing DEF Deletes, TypeOK, AnyRequest
  <2>3. crossed' \in {crossed, crossed \ {r}}
    BY <1>3 DEF Deletes
  <2>4. r \notin crossed' => Progress(q) /\ Current(q)
    BY <2>1 DEF Progress, Current, KeysOf, Earliest
  <2>5. early' \subseteq Requests /\ early \ {r} \subseteq early'
    BY DEF Deletes, TypeOK
  <2>6. date' \in Row /\ ceiling' \in Ceilings /\ UNCHANGED <<life, subjects, papers, locked>>
    BY <2>1 DEF TypeOK, exam
  <2> QED BY <2>1, <2>2, <2>3, <2>4, <2>5, <2>6, OneMoves
<1>4. CASE ks # {}
  <2>1. UNCHANGED <<subjects, ceiling, locked, date, life>> /\ (~There' => papers' = Empty)
    BY <1>1 DEF exam, There, PapersNeedExam, Empty
  <2>2. crossed' \subseteq Requests /\ Others(r) \subseteq crossed'
    BY <1>4 DEF Deletes, TypeOK, Others
  <2>3. early' \subseteq Requests /\ early \ {r} \subseteq early'
    BY DEF Deletes, TypeOK
  <2>4. reqs' = [s \in Requests |-> IF s = r THEN q ELSE Loses(reqs[s], ks)]
    BY DEF Deletes
  <2>5. locked' \in BOOLEAN /\ date' \in Row /\ life' \in {"none", "there", "deleted"}
    BY <2>1 DEF TypeOK
  <2> QED BY <1>2, <2>1, <2>2, <2>3, <2>4, <2>5, OneChanges
<1> QED BY <1>3, <1>4

-----------------------------------------------------------------------------
(***************************************************************************)
(* The handlers, up to their first write.                                  *)
(***************************************************************************)
LEMMA AtFacts ==
    ASSUME TypeOK, NEW r \in Requests, reqs[r].step \in Steps
    PROVE  reqs[r] \in Request
BY IdleFacts DEF TypeOK, Steps

LEMMA BringsFacts ==
    ASSUME NEW q \in Request, NEW p \in Schedules
    PROVE  /\ Brings(q, p) \in Request
           /\ Brings(q, p).asked = p /\ Brings(q, p).todo = KeysOf(p)
           /\ Brings(q, p).step = q.step /\ Brings(q, p).op = q.op
           /\ Brings(q, p).replace = q.replace /\ Brings(q, p).ceiling = q.ceiling
           /\ Brings(q, p).held = q.held /\ Brings(q, p).gone = q.gone
           /\ Brings(q, p).kept = q.kept
BY SchedulesAreSchedules DEF Brings, Request, KeysOf

LEMMA PutPapersPreserves ==
    ASSUME IInv, NEW r \in Requests, PutPapers(r)
    PROVE  IInv'
<1>1. PICK p \in Schedules, replace \in BOOLEAN :
          Start(r, ToPapers(Brings([NewRequest("put", "find") EXCEPT !.replace = replace], p)))
  BY DEF PutPapers
<1> DEFINE n == [NewRequest("put", "find") EXCEPT !.replace = replace]
           b == Brings(n, p)
           q == ToPapers(b)
<1>2. n \in Request /\ n.op = "put" /\ n.replace = replace /\ n.gone = {} /\ n.held = {}
  BY DEF NewRequest, Request, Ops, Steps, Empty, Row
<1> HIDE DEF n
<1>3. /\ b \in Request /\ b.op = "put" /\ b.replace = replace /\ b.gone = {} /\ b.held = {}
      /\ b.asked = p /\ b.todo = KeysOf(p)
  BY <1>2, BringsFacts
<1> HIDE DEF b
<1>4. /\ q \in Request /\ q.op = "put" /\ q.replace = replace /\ q.gone = {}
      /\ q.step = IF replace THEN "scan" ELSE IF b.todo = {} THEN "list" ELSE "find"
      /\ q.asked = p /\ q.todo = KeysOf(p) /\ WillList(q)
  BY <1>3, ToPapersFacts
<1>5. q.step = "scan" => q.held = {}
  BY <1>3, <1>4 DEF ToPapers, Request
<1> HIDE DEF q
<1>6. Shape(q) /\ Progress(q) /\ Current(q)
  BY <1>3, <1>4, <1>5 DEF Shape, Progress, Current
<1>7. /\ reqs' = [reqs EXCEPT ![r] = q] /\ crossed' = crossed /\ early' = early
  BY <1>1 DEF Start, q, b, n
<1>8. /\ date' \in Row /\ ceiling' \in Ceilings /\ parted' \in BOOLEAN
      /\ UNCHANGED <<life, subjects, papers, locked>> /\ early \subseteq Requests
  BY DEF PutPapers, exam, IInv, TypeOK
<1>9. q.step # "write" /\ q \in AnyRequest
  BY <1>4 DEF AnyRequest
<1> QED BY <1>4, <1>6, <1>7, <1>8, <1>9, OneMoves

LEMMA RemovePaperPreserves ==
    ASSUME IInv, NEW r \in Requests, RemovePaper(r)
    PROVE  IInv'
<1>1. PICK k \in KeysOf(papers) : Start(r, [NewRequest("remove", "drop") EXCEPT !.held = {k}])
  BY DEF RemovePaper
<1> DEFINE q == [NewRequest("remove", "drop") EXCEPT !.held = {k}]
<1>2. /\ q \in Request /\ q.step = "drop" /\ q.op = "remove" /\ q.gone = {} /\ q.todo = {}
      /\ q.asked = Empty /\ ~q.replace
  BY DEF NewRequest, Request, Ops, Steps, Empty, Row, KeysOf
<1> HIDE DEF q
<1>3. WillList(q) /\ Shape(q) /\ Progress(q) /\ Current(q)
  BY <1>2, KeysOfEmpty DEF WillList, Shape, Progress, Current
<1>4. reqs' = [reqs EXCEPT ![r] = q] /\ crossed' = crossed /\ early' = early
  BY <1>1 DEF Start, q
<1>5. /\ date' \in Row /\ ceiling' \in Ceilings /\ parted' \in BOOLEAN
      /\ UNCHANGED <<life, subjects, papers, locked>> /\ early \subseteq Requests
  BY DEF RemovePaper, exam, IInv, TypeOK
<1> QED BY <1>2, <1>3, <1>4, <1>5, OneMoves DEF AnyRequest

LEMMA CreateExamPreserves ==
    ASSUME IInv, NEW r \in Requests, CreateExam(r)
    PROVE  IInv'
<1>1. /\ life = "none" /\ life' = "there" /\ date' \in Row
      /\ UNCHANGED <<subjects, papers, ceiling, locked, parted>> /\ papers = Empty
  BY DEF CreateExam, Row, IInv, PapersNeedExam, There
<1>2. ASSUME NEW q \in AnyRequest, reqs' = [reqs EXCEPT ![r] = q], UNCHANGED <<crossed, early>>,
             Shape(q), Progress(q), Current(q), q.step # "write"
      PROVE  IInv'
  <2>1. /\ reqs' \in [Requests -> AnyRequest] /\ RequestShape' /\ UncrossedKnows'
        /\ \A s \in Requests : reqs'[s] = IF s = r THEN q ELSE reqs[s]
    BY <1>1, <1>2, QuietStep DEF IInv
  <2>2. TypeOK'
    BY <1>1, <1>2, <2>1 DEF IInv, TypeOK, AnyRequest
  <2>3. PendingCeilingIsEarly'
    BY <1>1, <1>2, <2>1 DEF IInv, PendingCeilingIsEarly, At
  <2>4. PapersNeedExam' /\ DateFollowsPapers'
    BY <1>1 DEF PapersNeedExam, DateFollowsPapers, There
  <2> QED BY <2>1, <2>2, <2>3, <2>4 DEF IInv
<1>3. CASE reqs[r] = Idle /\ UNCHANGED <<reqs, crossed, early>>
  <2>1. reqs' = [reqs EXCEPT ![r] = Idle]
    BY <1>3 DEF IInv, TypeOK
  <2> QED BY <1>2, <1>3, <2>1, IdleFacts DEF AnyRequest
<1>4. ASSUME NEW p \in Schedules,
             Start(r, Brings([NewRequest("create", "scan") EXCEPT !.replace = TRUE], p))
      PROVE  IInv'
  <2> DEFINE n == [NewRequest("create", "scan") EXCEPT !.replace = TRUE]
             q == Brings(n, p)
  <2>1. /\ n \in Request /\ n.op = "create" /\ n.step = "scan" /\ n.replace
        /\ n.gone = {} /\ n.held = {}
    BY DEF NewRequest, Request, Ops, Steps, Empty, Row
  <2> HIDE DEF n
  <2>2. /\ q \in Request /\ q.op = "create" /\ q.step = "scan" /\ q.replace
        /\ q.gone = {} /\ q.held = {} /\ q.asked = p /\ q.todo = KeysOf(p)
    BY <2>1, BringsFacts
  <2> HIDE DEF q
  <2>3. Shape(q) /\ Progress(q) /\ Current(q)
    BY <2>2 DEF Shape, Progress, Current
  <2>4. reqs' = [reqs EXCEPT ![r] = q] /\ UNCHANGED <<crossed, early>>
    BY <1>4 DEF Start, q, n
  <2> QED BY <1>2, <2>2, <2>3, <2>4 DEF AnyRequest
<1> QED BY <1>3, <1>4 DEF CreateExam

\* A handler that has read the exam and is to write its row or to lock it.
LEMMA ReadPreserves ==
    ASSUME IInv, NEW r \in Requests, NEW q \in Request, Start(r, q),
           UNCHANGED <<exam, papers, parted>>,
           q.step \in {"write", "set"}, q.ceiling # Keep => ~locked,
           q.op # "remove", q.held = {}, q.gone = {}, q.todo = KeysOf(q.asked)
    PROVE  IInv'
<1>1. Shape(q) /\ Progress(q) /\ Current(q) /\ ~WillList(q)
  BY DEF Shape, Progress, Current, WillList
<1>2. reqs' = [reqs EXCEPT ![r] = q] /\ crossed' = crossed /\ early' = early
  BY DEF Start
<1>3. /\ date' = date /\ date' \in Row /\ ceiling' \in Ceilings /\ parted' = parted
      /\ parted \in BOOLEAN /\ UNCHANGED <<life, subjects, papers, locked>> /\ early \subseteq Requests
  BY DEF exam, IInv, TypeOK
<1>4. ~WillList(reqs[r])
  BY IdleFacts DEF Start
<1>5. parted' \/ (date' = date /\ ~WillList(reqs[r]) /\ ~parted)
  BY <1>3, <1>4
<1> QED BY <1>1, <1>2, <1>3, <1>5, OneMoves DEF AnyRequest

LEMMA PatchReadPreserves ==
    ASSUME IInv, NEW r \in Requests, PatchRead(r)
    PROVE  IInv'
<1>1. PICK d \in Row, c \in Ceilings \cup {Keep}, ks \in SUBSET Keys \ {{}} :
          LET q == [NewRequest("patch", "write") EXCEPT !.dated = d, !.ceiling = c, !.kept = ks]
          IN  /\ c # Keep => ~locked
              /\ \/ Start(r, q)
                 \/ \E p \in Schedules : /\ KeysOf(p) \subseteq ks
                                         /\ Start(r, [Brings(q, p) EXCEPT !.replace = TRUE])
  BY DEF PatchRead
<1> DEFINE q == [NewRequest("patch", "write") EXCEPT !.dated = d, !.ceiling = c, !.kept = ks]
<1>2. /\ q \in Request /\ q.op = "patch" /\ q.step = "write" /\ q.ceiling = c
      /\ q.held = {} /\ q.gone = {} /\ q.todo = {} /\ q.asked = Empty
  BY DEF NewRequest, Request, Ops, Steps, Empty, Row
<1>3. c # Keep => ~locked
  BY <1>1
<1>4. \/ Start(r, q)
      \/ \E p \in Schedules : Start(r, [Brings(q, p) EXCEPT !.replace = TRUE])
  BY <1>1
<1> HIDE DEF q
<1>5. UNCHANGED <<exam, papers, parted>>
  BY DEF PatchRead
<1>6. CASE Start(r, q)
  BY <1>2, <1>3, <1>5, <1>6, KeysOfEmpty, ReadPreserves
<1>7. ASSUME NEW p \in Schedules, Start(r, [Brings(q, p) EXCEPT !.replace = TRUE])
      PROVE  IInv'
  <2> DEFINE b == Brings(q, p)
             n == [b EXCEPT !.replace = TRUE]
  <2>1. /\ b \in Request /\ b.op = "patch" /\ b.step = "write" /\ b.ceiling = c
        /\ b.held = {} /\ b.gone = {} /\ b.todo = KeysOf(p) /\ b.asked = p
    BY <1>2, BringsFacts
  <2>2. Start(r, n)
    BY <1>7
  <2> HIDE DEF b
  <2>3. /\ n \in Request /\ n.op = "patch" /\ n.step = "write" /\ n.ceiling = c
        /\ n.held = {} /\ n.gone = {} /\ n.todo = KeysOf(p) /\ n.asked = p
    BY <2>1 DEF Request
  <2> HIDE DEF n
  <2> QED BY <1>3, <1>5, <2>2, <2>3, ReadPreserves
<1> QED BY <1>4, <1>6, <1>7

LEMMA LockReadPreserves ==
    ASSUME IInv, NEW r \in Requests, LockRead(r)
    PROVE  IInv'
<1>1. PICK c \in Ceilings \cup {Keep} :
          /\ c # Keep => ~locked
          /\ Start(r, [NewRequest("lock", IF c = Keep THEN "set" ELSE "write")
                          EXCEPT !.ceiling = c])
  BY DEF LockRead
<1> DEFINE q == [NewRequest("lock", IF c = Keep THEN "set" ELSE "write") EXCEPT !.ceiling = c]
<1>2. /\ q \in Request /\ q.op = "lock" /\ q.step \in {"write", "set"} /\ q.ceiling = c
      /\ q.held = {} /\ q.gone = {} /\ q.todo = {} /\ q.asked = Empty
  BY DEF NewRequest, Request, Ops, Steps, Empty, Row
<1>3. Start(r, q) /\ (c # Keep => ~locked) /\ UNCHANGED <<exam, papers, parted>>
  BY <1>1 DEF LockRead
<1> HIDE DEF q
<1> QED BY <1>2, <1>3, KeysOfEmpty, ReadPreserves

-----------------------------------------------------------------------------
(***************************************************************************)
(* The exam row.                                                           *)
(***************************************************************************)
LEMMA AfterWriteFacts ==
    ASSUME NEW q \in Request, Shape(q), q.step = "write"
    PROVE  LET a == AfterWrite(q)
           IN  /\ a \in Request /\ a.step # "write"
               /\ Shape(a) /\ Progress(a) /\ Current(a)
<1> DEFINE p == [q EXCEPT !.ceiling = Keep]
           a == AfterWrite(q)
<1>1. /\ p \in Request /\ p.op = q.op /\ p.todo = q.todo /\ p.asked = q.asked
      /\ p.held = q.held /\ p.gone = q.gone /\ p.replace = q.replace /\ p.step = "write"
  BY DEF Request
<1>2. /\ q.todo = KeysOf(q.asked) /\ q.held = {} /\ q.gone = {}
      /\ q.op = "remove" => ~q.replace /\ KeysOf(q.asked) = {} /\ q.todo = {}
  BY DEF Shape
<1> HIDE DEF p
<1>3. ASSUME NEW st \in {"set", "prune"}, a = [p EXCEPT !.step = st]
      PROVE  a \in Request /\ a.step # "write" /\ Shape(a) /\ Progress(a) /\ Current(a)
  <2> HIDE DEF a
  <2>1. /\ a \in Request /\ a.op = q.op /\ a.todo = q.todo /\ a.asked = q.asked
        /\ a.held = {} /\ a.gone = {} /\ a.replace = q.replace /\ a.step = st
    BY <1>1, <1>2, <1>3 DEF Request, Steps
  <2> QED BY <1>2, <2>1 DEF Shape, Progress, Current
<1>4. ASSUME a = ToPapers(p)
      PROVE  a \in Request /\ a.step # "write" /\ Shape(a) /\ Progress(a) /\ Current(a)
  <2> HIDE DEF a
  <2>1. /\ a \in Request /\ a.op = q.op /\ a.todo = q.todo /\ a.asked = q.asked
        /\ a.gone = {} /\ a.replace = q.replace
        /\ a.step = IF q.replace THEN "scan" ELSE IF q.todo = {} THEN "list" ELSE "find"
    BY <1>1, <1>2, <1>4, ToPapersFacts
  <2>2. a.step = "scan" => a.held = {}
    BY <1>1, <1>2, <1>4, <2>1 DEF ToPapers, Request
  <2> QED BY <1>2, <2>1, <2>2 DEF Shape, Progress, Current
<1>5. \/ a = [p EXCEPT !.step = "set"] \/ a = [p EXCEPT !.step = "prune"]
      \/ a = ToPapers(p)
  BY DEF AfterWrite, p
<1> QED BY <1>3, <1>4, <1>5

LEMMA ExamWritePreserves ==
    ASSUME IInv, NEW r \in Requests, ExamWrite(r)
    PROVE  IInv'
<1> DEFINE q == reqs[r]
<1>1. q.step = "write" /\ q \in Request /\ ~WillList(q) /\ Shape(q)
  BY AtFacts DEF ExamWrite, At, Steps, WillList, IInv, RequestShape
<1>2. /\ date' = (IF q.dated = NoDate THEN date ELSE q.dated) /\ date' \in Row
      /\ ceiling' \in Ceilings
      /\ parted' = (parted \/ q.dated # NoDate) /\ parted' \in BOOLEAN
      /\ UNCHANGED <<life, subjects, locked, papers>>
  BY <1>1 DEF ExamWrite, IInv, TypeOK, Request
<1>3. parted' \/ (date' = date /\ ~WillList(q) /\ ~parted)
  BY <1>1, <1>2
<1>4. CASE q.op = "patch" /\ q.kept = Keys /\ ~q.papers
  <2>1. Ends(r)
    BY <1>4 DEF ExamWrite
  <2>2. /\ reqs' = [reqs EXCEPT ![r] = Idle] /\ crossed' \in {crossed, crossed \ {r}}
        /\ early' \subseteq Requests /\ early \ {r} \subseteq early'
    BY <2>1 DEF Ends, IInv, TypeOK
  <2> QED BY <1>2, <1>3, <2>2, IdleFacts, OneMoves DEF AnyRequest
<1>5. CASE ~(q.op = "patch" /\ q.kept = Keys /\ ~q.papers)
  <2>1. /\ reqs' = [reqs EXCEPT ![r] = AfterWrite(q)]
        /\ early' \subseteq Requests /\ early \ {r} \subseteq early' /\ crossed' = crossed
    BY <1>5 DEF ExamWrite, IInv, TypeOK
  <2>2. /\ AfterWrite(q) \in Request /\ AfterWrite(q).step # "write"
        /\ Shape(AfterWrite(q)) /\ Progress(AfterWrite(q)) /\ Current(AfterWrite(q))
    BY <1>1, AfterWriteFacts
  <2> QED BY <1>2, <1>3, <2>1, <2>2, OneMoves DEF AnyRequest
<1> QED BY <1>4, <1>5

LEMMA LockSetPreserves ==
    ASSUME IInv, NEW r \in Requests, LockSet(r)
    PROVE  IInv'
<1>1. /\ reqs' = [reqs EXCEPT ![r] = Idle] /\ crossed' \in {crossed, crossed \ {r}}
      /\ UNCHANGED <<life, date, ceiling, papers, parted>> /\ reqs[r].step = "set"
  BY DEF LockSet, At
<1>2. /\ reqs' \in [Requests -> AnyRequest] /\ crossed' \subseteq Requests
      /\ RequestShape' /\ UncrossedKnows'
      /\ \A s \in Requests : reqs'[s] = IF s = r THEN Idle ELSE reqs[s]
  BY <1>1, IdleFacts, QuietStep DEF IInv, AnyRequest
<1>3. TypeOK'
  BY <1>1, <1>2 DEF IInv, TypeOK, AnyRequest, LockSet
<1>4. PendingCeilingIsEarly'
  BY <1>2, IdleFacts DEF PendingCeilingIsEarly, At, LockSet
<1>5. PapersNeedExam'
  BY <1>1 DEF IInv, PapersNeedExam, There
<1>6. ~WillList(reqs[r])
  BY <1>1 DEF WillList
<1>7. DateFollowsPapers'
  <2>1. \A s \in Requests : ~WillList(reqs'[s]) => ~WillList(reqs[s])
    BY <1>2, <1>6
  <2>2. UNCHANGED Earliest(papers)
    BY <1>1 DEF Earliest, KeysOf
  <2> QED BY <1>1, <2>1, <2>2 DEF IInv, DateFollowsPapers, There, WillList
<1> QED BY <1>2, <1>3, <1>4, <1>5, <1>7 DEF IInv

LEMMA UnlockPreserves ==
    ASSUME IInv, Unlock
    PROVE  IInv'
<1> USE DEF IInv, Unlock
<1>1. TypeOK' /\ PapersNeedExam' /\ RequestShape'
  BY DEF TypeOK, PapersNeedExam, There, RequestShape, Shape, WillList, KeysOf
<1>2. UncrossedKnows'
  BY KnowsStill
<1>3. DateFollowsPapers' /\ PendingCeilingIsEarly'
  BY DEF DateFollowsPapers, There, WillList, Earliest, KeysOf, PendingCeilingIsEarly, At
<1> QED BY <1>1, <1>2, <1>3

LEMMA DeleteExamPreserves ==
    ASSUME IInv, DeleteExam
    PROVE  IInv'
<1> USE DEF IInv, DeleteExam
<1>1. Keys \in SUBSET Keys
  OBVIOUS
<1>2. /\ reqs' \in [Requests -> AnyRequest]
      /\ \A s \in Requests : reqs[s] \in AnyRequest /\ reqs'[s] = Loses(reqs[s], Keys)
  BY <1>1, LosesFacts DEF TypeOK, AnyRequest
<1>3. TypeOK'
  BY <1>2 DEF TypeOK, AnyRequest, Empty, Row
<1>4. ASSUME NEW s \in Requests PROVE Shape(reqs'[s])
  BY <1>1, <1>2, LosesFacts DEF RequestShape
<1>5. RequestShape'
  BY <1>4 DEF RequestShape, Shape, WillList, KeysOf
<1>6. ASSUME NEW s \in Requests, s \notin crossed' PROVE ~WillList(reqs'[s])
  BY <1>1, <1>2, <1>6, LosesFacts
<1>7. UncrossedKnows'
  BY <1>6 DEF UncrossedKnows, Progress, Current, WillList
<1>8. PapersNeedExam' /\ DateFollowsPapers' /\ PendingCeilingIsEarly'
  BY DEF PapersNeedExam, DateFollowsPapers, There, PendingCeilingIsEarly
<1> QED BY <1>3, <1>5, <1>7, <1>8

\* The papers of a subject that is deleted go behind the handlers' backs.
LEMMA DeleteSubjectPreserves ==
    ASSUME IInv, NEW k \in Keys, DeleteSubject(k)
    PROVE  IInv'
<1> USE DEF IInv
<1> DEFINE rows == {k} \cap KeysOf(papers)
<1>1. /\ reqs' = [s \in Requests |-> Loses(reqs[s], rows)]
      /\ papers' = [papers EXCEPT ![k] = NoDate] /\ papers' \in [Keys -> Row]
      /\ crossed' = crossed \cup {s \in Requests : rows # {} /\ WillList(reqs[s])}
      /\ parted' = (parted \/ rows # {}) /\ parted' \in BOOLEAN /\ subjects' \subseteq Keys
      /\ UNCHANGED <<life, date, ceiling, locked, early>>
  BY DEF DeleteSubject, TypeOK, Row
<1>2. rows \in SUBSET Keys
  OBVIOUS
<1> HIDE DEF rows
<1>3. /\ reqs' \in [Requests -> AnyRequest]
      /\ \A s \in Requests : reqs[s] \in AnyRequest /\ reqs'[s] = Loses(reqs[s], rows)
  BY <1>1, <1>2, LosesFacts DEF TypeOK, AnyRequest
<1>4. rows = {} => UNCHANGED <<papers, reqs, crossed, parted>>
  BY <1>1, <1>3, LosesNothing DEF TypeOK, KeysOf, rows
<1>5. TypeOK'
  BY <1>1, <1>3 DEF TypeOK, AnyRequest
<1>6. ASSUME NEW s \in Requests PROVE Shape(reqs'[s])
  BY <1>2, <1>3, LosesFacts DEF RequestShape
<1>7. RequestShape'
  BY <1>6 DEF RequestShape, Shape, WillList, KeysOf
<1>8. UncrossedKnows'
  <2>1. CASE rows # {}
    <3>1. ASSUME NEW s \in Requests, s \notin crossed' PROVE ~WillList(reqs'[s])
      BY <1>1, <1>2, <1>3, <2>1, <3>1, LosesFacts
    <3> QED BY <3>1 DEF UncrossedKnows, Progress, Current, WillList
  <2>2. CASE rows = {}
    BY <1>4, <2>2, KnowsStill
  <2> QED BY <2>1, <2>2
<1>9. PapersNeedExam'
  BY <1>1 DEF PapersNeedExam, There, Empty, TypeOK
<1>10. DateFollowsPapers'
  <2>1. CASE rows # {}
    BY <1>1, <2>1 DEF DateFollowsPapers
  <2>2. CASE rows = {}
    <3>1. DateFollowsPapers /\ UNCHANGED <<life, papers, date, reqs, parted>>
      BY <1>1, <1>4, <2>2
    <3> QED BY ONLY <3>1 DEF DateFollowsPapers, There, WillList, Earliest, KeysOf
  <2> QED BY <2>1, <2>2
<1>11. PendingCeilingIsEarly'
  <2> SUFFICES ASSUME NEW s \in Requests, locked, reqs'[s].step = "write", reqs'[s].ceiling # Keep
               PROVE  s \in early
    BY <1>1 DEF PendingCeilingIsEarly, At
  <2>1. reqs[s].step = "write" /\ reqs[s] \in Request
    BY <1>2, <1>3, LosesFacts, IdleFacts DEF AnyRequest
  <2>2. reqs[s].ceiling # Keep
    BY <1>2, <1>3, <2>1, LosesFacts
  <2> QED BY <2>1, <2>2 DEF PendingCeilingIsEarly, At
<1> QED BY <1>5, <1>7, <1>8, <1>9, <1>10, <1>11

-----------------------------------------------------------------------------
(***************************************************************************)
(* Classes dropped.                                                        *)
(***************************************************************************)
\* What every step of a handler in the papers leaves alone.
LEMMA RowsTyped ==
    IInv => /\ date \in Row /\ ceiling \in Ceilings /\ parted \in BOOLEAN
            /\ early \subseteq Requests /\ crossed \subseteq Requests
            /\ locked \in BOOLEAN /\ life \in {"none", "there", "deleted"}
            /\ papers \in [Keys -> Row]
BY DEF IInv, TypeOK

LEMMA EndsFacts ==
    ASSUME IInv, NEW r \in Requests, Ends(r)
    PROVE  /\ reqs' = [reqs EXCEPT ![r] = Idle] /\ crossed' \in {crossed, crossed \ {r}}
           /\ early' \subseteq Requests /\ early \ {r} \subseteq early'
BY RowsTyped DEF Ends

\* A handler that reads ends.
LEMMA EndsPreserves ==
    ASSUME IInv, NEW r \in Requests, Ends(r), UNCHANGED <<exam, papers>>,
           parted' \in BOOLEAN, parted => parted', WillList(reqs[r]) => parted' \/ papers = Empty
    PROVE  IInv'
<1>1. date' = date /\ date' \in Row /\ ceiling' \in Ceilings /\ UNCHANGED <<life, subjects, papers, locked>>
  BY RowsTyped DEF exam
<1>2. parted \/ ~parted
  BY RowsTyped
<1> QED BY <1>1, <1>2, EndsFacts, IdleFacts, OneMoves DEF AnyRequest

\* A handler that reads goes on in its papers.
LEMMA GoesOn ==
    ASSUME IInv, NEW r \in Requests, NEW q \in Request, Becomes(r, q),
           UNCHANGED <<exam, papers>>, parted' \in BOOLEAN, q.step # "write",
           Shape(q), r \notin crossed => Progress(q) /\ Current(q),
           WillList(q) \/ (~WillList(reqs[r]) /\ parted' = parted)
    PROVE  IInv'
<1>1. date' = date /\ date' \in Row /\ ceiling' \in Ceilings /\ UNCHANGED <<life, subjects, papers, locked>>
  BY RowsTyped DEF exam
<1>2. /\ reqs' = [reqs EXCEPT ![r] = q] /\ crossed' = crossed /\ early' = early
  BY DEF Becomes
<1>3. WillList(q) \/ parted' \/ (date' = date /\ ~WillList(reqs[r]) /\ ~parted)
  BY <1>1, RowsTyped
<1>4. early' \subseteq Requests /\ early \ {r} \subseteq early' /\ q \in AnyRequest
  BY <1>2, RowsTyped DEF AnyRequest
<1> QED BY <1>1, <1>2, <1>3, <1>4, OneMoves

LEMMA AfterPruneFacts ==
    ASSUME NEW q \in Request, Shape(q), q.step \in {"prune", "pruneDrop"}
    PROVE  LET a == AfterPrune(q)
           IN  /\ a \in Request /\ a.step # "write" /\ WillList(a)
               /\ a.step \in {"scan", "list", "find"}
               /\ a.asked = q.asked /\ a.todo = KeysOf(q.asked) /\ a.gone = {}
               /\ a.step # "scan" => ~a.replace
               /\ Shape(a)
<1> DEFINE p == [q EXCEPT !.kept = Keys, !.held = {}, !.gone = {}]
           a == ToPapers(p)
<1>1. /\ p \in Request /\ p.op = q.op /\ p.todo = q.todo /\ p.asked = q.asked
      /\ p.held = {} /\ p.gone = {} /\ p.replace = q.replace
  BY DEF Request
<1>2. /\ q.todo = KeysOf(q.asked)
      /\ q.op = "remove" => ~q.replace /\ KeysOf(q.asked) = {} /\ q.todo = {}
  BY DEF Shape
<1> HIDE DEF p
<1>3. /\ a \in Request /\ a.op = q.op /\ a.todo = q.todo /\ a.asked = q.asked
      /\ a.gone = {} /\ a.replace = q.replace /\ WillList(a)
      /\ a.step = IF q.replace THEN "scan" ELSE IF q.todo = {} THEN "list" ELSE "find"
  BY <1>1, ToPapersFacts
<1>4. a.step = "scan" => a.held = {}
  BY <1>1, <1>3 DEF ToPapers, Request
<1>5. AfterPrune(q) = a
  BY DEF AfterPrune, p
<1> HIDE DEF a
<1>6. Shape(a)
  BY <1>2, <1>3, <1>4 DEF Shape
<1> QED BY <1>2, <1>3, <1>5, <1>6

LEMMA PruneReadPreserves ==
    ASSUME IInv, NEW r \in Requests, PruneRead(r)
    PROVE  IInv'
<1> DEFINE q == reqs[r]
           out == KeysOf(papers) \ q.kept
<1>1. q.step = "prune" /\ q \in Request /\ Shape(q) /\ out \in SUBSET Keys
  BY AtFacts DEF PruneRead, At, Steps, IInv, RequestShape, KeysOf
<1>2. UNCHANGED <<exam, papers, parted>> /\ parted \in BOOLEAN
  BY RowsTyped DEF PruneRead
<1>3. CASE out # {}
  <2> DEFINE n == [q EXCEPT !.step = "pruneDrop", !.held = out]
  <2>1. /\ n \in Request /\ n.step = "pruneDrop" /\ n.papers = q.papers /\ n.gone = q.gone
        /\ n.op = q.op /\ n.replace = q.replace /\ n.asked = q.asked /\ n.todo = q.todo
    BY <1>1 DEF Request, Steps
  <2>2. Becomes(r, n)
    BY <1>3 DEF PruneRead
  <2> HIDE DEF n
  <2>3. Shape(n) /\ Progress(n) /\ Current(n)
    BY <1>1, <2>1 DEF Shape, Progress, Current
  <2>4. WillList(n) \/ ~WillList(q)
    BY <1>1, <2>1 DEF WillList
  <2> QED BY <1>2, <2>1, <2>2, <2>3, <2>4, GoesOn
<1>4. CASE out = {} /\ q.papers
  <2>1. Becomes(r, AfterPrune(q))
    BY <1>4 DEF PruneRead
  <2> DEFINE a == AfterPrune(q)
  <2>2. /\ a \in Request /\ a.step # "write" /\ WillList(a)
        /\ a.step \in {"scan", "list", "find"}
        /\ a.asked = q.asked /\ a.todo = KeysOf(q.asked) /\ a.gone = {}
        /\ a.step # "scan" => ~a.replace
        /\ Shape(a)
    BY <1>1, AfterPruneFacts
  <2> HIDE DEF a
  <2>3. Progress(a) /\ Current(a)
    BY <2>2 DEF Progress, Current
  <2> QED BY <1>2, <2>1, <2>2, <2>3, GoesOn DEF a
<1>5. CASE out = {} /\ ~q.papers
  <2>1. Ends(r)
    BY <1>5 DEF PruneRead
  <2>2. ~WillList(q)
    BY <1>1, <1>5 DEF WillList
  <2> QED BY <1>2, <2>1, <2>2, EndsPreserves
<1> QED BY <1>3, <1>4, <1>5

LEMMA PruneDropPreserves ==
    ASSUME IInv, NEW r \in Requests, PruneDrop(r)
    PROVE  IInv'
<1> DEFINE q == reqs[r]
           ks == q.held \ q.gone
<1>1. q.step = "pruneDrop" /\ q \in Request /\ Shape(q) /\ ks \in SUBSET Keys
  BY AtFacts DEF PruneDrop, At, Steps, IInv, RequestShape, Request
<1> PICK a \in Request : a = AfterPrune(q)
  BY <1>1, AfterPruneFacts
<1>2. /\ a \in Request /\ a.step # "write" /\ WillList(a)
      /\ a.step \in {"scan", "list", "find"}
      /\ a.asked = q.asked /\ a.todo = KeysOf(q.asked) /\ a.gone = {}
      /\ a.step # "scan" => ~a.replace
      /\ Shape(a)
  BY <1>1, AfterPruneFacts
<1> PICK d \in AnyRequest : d = IF q.papers THEN a ELSE Idle
  BY DEF AnyRequest
<1>3. /\ Deletes(r, ks, d) /\ UNCHANGED exam
      /\ parted' \in BOOLEAN
      /\ ~q.papers => parted'
  BY <1>1, RowsTyped DEF PruneDrop
<1>4. Shape(d) /\ d.step # "write" /\ (WillList(d) \/ parted')
  <2>1. CASE q.papers
    BY <1>2, <2>1
  <2>2. CASE ~q.papers
    BY <1>3, <2>2, IdleFacts
  <2> QED BY <2>1, <2>2
<1>5. Progress(d)' /\ Current(d)'
  <2>1. CASE q.papers
    BY <1>2, <2>1 DEF Progress, Current, KeysOf, WillList
  <2>2. CASE ~q.papers
    BY <2>2, IdleFacts DEF Progress, Current, WillList
  <2> QED BY <2>1, <2>2
<1> QED BY <1>1, <1>3, <1>4, <1>5, DeletesPreserves

-----------------------------------------------------------------------------
(***************************************************************************)
(* The papers.                                                             *)
(***************************************************************************)
\* A handler in its papers: what the invariant says of it.
LEMMA InPapers ==
    ASSUME IInv, NEW r \in Requests,
           reqs[r].step \in {"scan", "drop", "find", "save", "list", "sync", "undo"}
    PROVE  /\ reqs[r] \in Request /\ WillList(reqs[r]) /\ Shape(reqs[r])
           /\ r \notin crossed => Progress(reqs[r]) /\ Current(reqs[r])
BY AtFacts DEF Steps, IInv, RequestShape, UncrossedKnows, WillList

LEMMA ScanPreserves ==
    ASSUME IInv, NEW r \in Requests, Scan(r)
    PROVE  IInv'
<1> DEFINE q == reqs[r]
           out == KeysOf(papers) \ KeysOf(q.asked)
<1>1. /\ q.step = "scan" /\ q \in Request /\ Shape(q) /\ out \in SUBSET Keys
  BY InPapers DEF Scan, At, KeysOf
<1>2. UNCHANGED <<exam, papers, parted>> /\ parted' \in BOOLEAN
  BY RowsTyped DEF Scan
<1>3. /\ q.todo = KeysOf(q.asked) /\ q.gone = {}
      /\ q.op = "remove" => ~q.replace /\ KeysOf(q.asked) = {} /\ q.todo = {}
      /\ q.op # "remove" => q.replace
  BY <1>1 DEF Shape
<1>4. CASE out = {}
  <2> DEFINE n == NextPaper(q)
  <2>1. /\ n \in Request /\ n.step = (IF q.todo = {} THEN "list" ELSE "find")
        /\ n.todo = q.todo /\ n.asked = q.asked /\ n.op = q.op /\ n.replace = q.replace
        /\ n.gone = {} /\ WillList(n)
    BY <1>1, NextPaperFacts
  <2>2. Becomes(r, n)
    BY <1>4 DEF Scan
  <2> HIDE DEF n
  <2>3. Shape(n) /\ Progress(n) /\ Current(n)
    BY <1>3, <1>4, <2>1 DEF Shape, Progress, Current
  <2>4. n.step # "write"
    BY <2>1
  <2> QED BY <1>2, <2>1, <2>2, <2>3, <2>4, GoesOn
<1>5. CASE out # {}
  <2> DEFINE n == [q EXCEPT !.step = "drop", !.held = out]
  <2>1. /\ n \in Request /\ n.step = "drop" /\ n.held = out /\ n.gone = q.gone
        /\ n.op = q.op /\ n.replace = q.replace /\ n.asked = q.asked /\ n.todo = q.todo
    BY <1>1 DEF Request, Steps
  <2>2. Becomes(r, n)
    BY <1>5 DEF Scan
  <2> HIDE DEF n
  <2>3. WillList(n) /\ Shape(n) /\ Progress(n) /\ Current(n)
    BY <1>3, <2>1 DEF Shape, Progress, Current, WillList
  <2> QED BY <1>2, <2>1, <2>2, <2>3, GoesOn
<1> QED BY <1>4, <1>5

LEMMA DropPreserves ==
    ASSUME IInv, NEW r \in Requests, Drop(r)
    PROVE  IInv'
<1> DEFINE q == reqs[r]
           ks == q.held \ q.gone
<1>1. /\ q.step = "drop" /\ q \in Request /\ Shape(q) /\ ks \in SUBSET Keys
      /\ r \notin crossed => Current(q) /\ WillList(q)
  BY InPapers DEF Drop, At, Request
<1> PICK n \in Request : n = NextPaper(q)
  BY <1>1, NextPaperFacts
<1>2. /\ Deletes(r, ks, n) /\ UNCHANGED exam /\ parted' \in BOOLEAN
  BY RowsTyped DEF Drop
<1>3. /\ n \in Request /\ n.step = (IF q.todo = {} THEN "list" ELSE "find")
      /\ n.todo = q.todo /\ n.asked = q.asked /\ n.op = q.op /\ n.replace = q.replace
      /\ n.gone = {} /\ WillList(n)
  BY <1>1, NextPaperFacts
<1>4. /\ q.todo = KeysOf(q.asked)
      /\ q.op = "remove" => ~q.replace /\ KeysOf(q.asked) = {} /\ q.todo = {}
      /\ q.op # "remove" => q.replace
  BY <1>1 DEF Shape
<1>5. Shape(n) /\ n.step # "write" /\ n # Idle
  BY <1>3, <1>4, IdleFacts DEF Shape
<1>6. ASSUME r \notin crossed' PROVE Progress(n)' /\ Current(n)'
  <2>1. r \notin crossed
    BY <1>2, <1>5, <1>6 DEF Deletes
  <2>2. q.gone = {} /\ (q.op # "remove" => q.held = KeysOf(papers) \ KeysOf(q.asked))
    BY <1>1, <2>1 DEF Current
  <2>3. KeysOf(papers') = KeysOf(papers) \ ks
    BY <1>1, <1>2, DeletesOnlyKeys DEF Deletes, IInv
  <2>4. q.replace => KeysOf(papers') \subseteq KeysOf(q.asked)
    BY <1>4, <2>2, <2>3
  <2>5. Progress(n)'
    BY <1>3, <1>4, <2>4 DEF Progress, KeysOf
  <2> QED BY <1>3, <2>5 DEF Current, WillList, KeysOf
<1> QED BY <1>1, <1>2, <1>3, <1>5, <1>6, DeletesPreserves DEF AnyRequest

LEMMA FindPaperPreserves ==
    ASSUME IInv, NEW r \in Requests, FindPaper(r)
    PROVE  IInv'
<1> DEFINE q == reqs[r]
<1>1. PICK k \in q.todo :
          Becomes(r, [q EXCEPT !.step = "save", !.at = {k}, !.held = {k} \cap KeysOf(papers)])
  BY DEF FindPaper
<1>2. /\ q.step = "find" /\ q \in Request /\ Shape(q) /\ WillList(q)
      /\ r \notin crossed => Progress(q) /\ Current(q)
  BY InPapers DEF FindPaper, At
<1> DEFINE n == [q EXCEPT !.step = "save", !.at = {k}, !.held = {k} \cap KeysOf(papers)]
<1>3. /\ n \in Request /\ n.step = "save" /\ n.at = {k} /\ n.gone = q.gone
      /\ n.op = q.op /\ n.replace = q.replace /\ n.asked = q.asked /\ n.todo = q.todo
  BY <1>2 DEF Request, Steps
<1>4. Becomes(r, n)
  BY <1>1
<1> HIDE DEF n
<1>5. WillList(n) /\ Shape(n)
  BY <1>2, <1>3 DEF Shape, WillList
<1>6. r \notin crossed => Progress(n) /\ Current(n)
  BY <1>2, <1>3, <1>5 DEF Progress, Current
<1>7. UNCHANGED <<exam, papers, parted>> /\ parted' \in BOOLEAN /\ n.step # "write"
  BY <1>3, RowsTyped DEF FindPaper
<1> QED BY <1>3, <1>4, <1>5, <1>6, <1>7, GoesOn

LEMMA RefusePreserves ==
    ASSUME IInv, NEW r \in Requests, Refuse(r)
    PROVE  IInv'
<1> DEFINE q == reqs[r]
<1>1. /\ q.step = "find" /\ q \in Request /\ Shape(q)
      /\ r \notin crossed => Current(q) /\ WillList(q)
      /\ UNCHANGED <<exam, papers>>
  BY InPapers DEF Refuse, At
<1>2. CASE q.op = "create"
  <2> DEFINE n == [q EXCEPT !.step = "undo"]
  <2>1. /\ n \in Request /\ n.step = "undo" /\ n.gone = q.gone /\ n.op = "create"
        /\ n.asked = q.asked /\ n.todo = q.todo
    BY <1>1, <1>2 DEF Request, Steps
  <2>2. Becomes(r, n) /\ parted' \in BOOLEAN
    BY <1>2, RowsTyped DEF Refuse
  <2> HIDE DEF n
  <2>3. WillList(n) /\ Shape(n) /\ Progress(n)
    BY <1>1, <2>1 DEF Shape, WillList, Progress
  <2>4. r \notin crossed => Current(n)
    BY <1>1, <2>1 DEF Current
  <2>5. n.step # "write"
    BY <2>1
  <2> QED BY <1>1, <2>1, <2>2, <2>3, <2>4, <2>5, GoesOn
<1>3. CASE q.op # "create"
  BY <1>1, <1>3, EndsPreserves DEF Refuse
<1> QED BY <1>2, <1>3

LEMMA SavePaperPreserves ==
    ASSUME IInv, NEW r \in Requests, SavePaper(r)
    PROVE  IInv'
<1> DEFINE q == reqs[r]
           p == [q EXCEPT !.todo = @ \ q.at]
<1>1. /\ q.step = "save" /\ q \in Request /\ Shape(q) /\ WillList(q) /\ There
      /\ r \notin crossed => Progress(q) /\ Current(q)
  BY InPapers DEF SavePaper, At
<1>2. /\ q.at \subseteq q.todo /\ q.todo \subseteq KeysOf(q.asked)
      /\ q.op = "remove" => ~q.replace /\ KeysOf(q.asked) = {} /\ q.todo = {}
  BY <1>1 DEF Shape
<1>3. /\ p \in Request /\ p.todo = q.todo \ q.at /\ p.asked = q.asked
      /\ p.op = q.op /\ p.replace = q.replace
  BY <1>1 DEF Request
<1> PICK n \in Request : n = NextPaper(p)
  BY <1>3, NextPaperFacts
<1>4. /\ papers' = [k \in Keys |-> IF k \in q.at THEN q.asked[k] ELSE papers[k]]
      /\ reqs' = [reqs EXCEPT ![r] = n] /\ crossed' = crossed \cup Others(r)
      /\ UNCHANGED <<exam, early, parted>>
  BY DEF SavePaper
<1> HIDE DEF p
<1>5. /\ n \in Request /\ n.step = (IF p.todo = {} THEN "list" ELSE "find")
      /\ n.todo = q.todo \ q.at /\ n.asked = q.asked /\ n.op = q.op /\ n.replace = q.replace
      /\ n.gone = {} /\ WillList(n)
  BY <1>3, NextPaperFacts
<1>6. Shape(n) /\ n.step # "write"
  BY <1>2, <1>3, <1>5 DEF Shape
<1>7. q.asked \in [Keys -> Row]
  BY <1>1 DEF Request
<1>8. papers' \in [Keys -> Row]
  BY <1>4, <1>7, RowsTyped
<1>9. ASSUME r \notin crossed' PROVE Progress(n)' /\ Current(n)'
  <2>1. Progress(q)
    BY <1>1, <1>4, <1>9
  <2>2. \A k \in KeysOf(q.asked) \ n.todo : papers'[k] = q.asked[k]
    BY <1>1, <1>4, <1>5, <2>1 DEF Progress, KeysOf
  <2>3. q.replace => KeysOf(papers') \subseteq KeysOf(q.asked)
    BY <1>1, <1>2, <1>4, <2>1 DEF Progress, KeysOf
  <2> QED BY <1>5, <2>2, <2>3 DEF Progress, Current, WillList, KeysOf
<1>10. reqs' = [s \in Requests |-> IF s = r THEN n ELSE Loses(reqs[s], {})]
  BY <1>4, LosesNothing DEF IInv, TypeOK, AnyRequest
<1>11. /\ UNCHANGED <<subjects, ceiling, locked, date, life>>
       /\ early' = early /\ parted' = parted /\ There'
  BY <1>1, <1>4 DEF exam, There
<1>12. /\ crossed' \subseteq Requests /\ Others(r) \subseteq crossed'
       /\ early' \subseteq Requests /\ early \ {r} \subseteq early'
       /\ locked' \in BOOLEAN /\ life' \in {"none", "there", "deleted"}
       /\ date' \in Row /\ parted' \in BOOLEAN
  BY <1>4, <1>11, RowsTyped DEF Others
<1>13. {} \in SUBSET Keys /\ n \in AnyRequest
  BY <1>5 DEF AnyRequest
<1> QED BY <1>5, <1>6, <1>8, <1>9, <1>10, <1>11, <1>12, <1>13, OneChanges

LEMMA ListPapersPreserves ==
    ASSUME IInv, NEW r \in Requests, ListPapers(r)
    PROVE  IInv'
<1> DEFINE q == reqs[r]
           n == [q EXCEPT !.step = "sync", !.first = Earliest(papers)]
<1>1. /\ q.step = "list" /\ q \in Request /\ Shape(q) /\ WillList(q)
      /\ r \notin crossed => Progress(q) /\ Current(q)
      /\ UNCHANGED <<exam, papers>> /\ parted' \in BOOLEAN
      /\ parted' = (parted \/ (q.op = "patch" /\ q.dated # NoDate))
  BY InPapers, RowsTyped DEF ListPapers, At
<1>2. CASE papers = Empty \/ (q.op = "patch" /\ q.dated # NoDate)
  BY <1>1, <1>2, EndsPreserves DEF ListPapers
<1>3. CASE ~(papers = Empty \/ (q.op = "patch" /\ q.dated # NoDate))
  <2>1. Becomes(r, n)
    BY <1>3 DEF ListPapers
  <2>2. /\ n \in Request /\ n.step = "sync" /\ n.gone = q.gone /\ n.first = Earliest(papers)
        /\ n.op = q.op /\ n.replace = q.replace /\ n.asked = q.asked /\ n.todo = q.todo
    BY <1>1, RowsTyped, EarliestTyped DEF Request, Steps
  <2> HIDE DEF n
  <2>3. WillList(n) /\ Shape(n)
    BY <1>1, <2>2 DEF Shape, WillList
  <2>4. r \notin crossed => Progress(n) /\ Current(n)
    BY <1>1, <2>2 DEF Progress, Current
  <2> QED BY <1>1, <2>1, <2>2, <2>3, <2>4, GoesOn
<1> QED BY <1>2, <1>3

LEMMA SyncDatePreserves ==
    ASSUME IInv, NEW r \in Requests, SyncDate(r)
    PROVE  IInv'
<1> DEFINE q == reqs[r]
<1>1. /\ q.step = "sync" /\ q \in Request
      /\ r \notin crossed => Current(q)
  BY InPapers DEF SyncDate, At
<1>2. /\ date' = q.first /\ parted' = (r \in crossed) /\ Ends(r)
      /\ UNCHANGED <<life, subjects, ceiling, locked, papers>>
  BY DEF SyncDate
<1>3. date' \in Row /\ ceiling' \in Ceilings /\ parted' \in BOOLEAN
  BY <1>1, <1>2, RowsTyped DEF Request
<1>4. parted' \/ date' = Earliest(papers)
  BY <1>1, <1>2 DEF Current
<1> QED BY <1>2, <1>3, <1>4, EndsFacts, IdleFacts, OneMoves DEF AnyRequest

LEMMA UndoCreatePreserves ==
    ASSUME IInv, NEW r \in Requests, UndoCreate(r)
    PROVE  IInv'
<1>1. /\ reqs' = [s \in Requests |-> IF s = r THEN Idle ELSE Loses(reqs[s], Keys)]
      /\ papers' = [k \in Keys |-> NoDate] /\ early' = early \ {r}
      /\ crossed' = (crossed \cup IF Keys = {} THEN {} ELSE Others(r)) \ {r}
  BY DEF UndoCreate, Deletes
<1>2. /\ life' = "deleted" /\ date' = NoDate /\ ~locked' /\ locked' \in BOOLEAN
      /\ UNCHANGED <<subjects, ceiling, parted>>
  BY DEF UndoCreate
<1>3. papers' = Empty /\ papers' \in [Keys -> Row] /\ date' \in Row
  BY <1>1, <1>2 DEF Empty, Row
<1>4. /\ crossed' \subseteq Requests /\ early' \subseteq Requests /\ early \ {r} \subseteq early'
      /\ parted' \in BOOLEAN
  BY <1>1, <1>2, RowsTyped DEF Others
<1>5. Shape(Idle) /\ Idle.step # "write" /\ Progress(Idle)' /\ Current(Idle)'
  BY IdleFacts DEF Progress, Current, WillList
<1>6. Keys \in SUBSET Keys /\ Idle \in AnyRequest /\ ~There'
  BY <1>2 DEF AnyRequest, There
<1>7. CASE Keys # {}
  <2>1. Others(r) \subseteq crossed'
    BY <1>1, <1>7 DEF Others
  <2> QED BY <1>1, <1>2, <1>3, <1>4, <1>5, <1>6, <2>1, OneChanges
<1>8. CASE Keys = {}
  <2>1. reqs' = [reqs EXCEPT ![r] = Idle]
    BY <1>1, <1>8, LosesNothing DEF IInv, TypeOK, AnyRequest
  <2>2. papers = Empty /\ papers' = papers
    BY <1>3, <1>8, RowsTyped DEF Empty
  <2>3. crossed' = crossed \ {r}
    BY <1>1, <1>8
  <2>4. /\ reqs' \in [Requests -> AnyRequest] /\ RequestShape' /\ UncrossedKnows'
        /\ \A s \in Requests : reqs'[s] = IF s = r THEN Idle ELSE reqs[s]
    BY <1>6, <2>1, <2>2, <2>3, IdleFacts, QuietStep DEF IInv
  <2>5. TypeOK'
    BY <1>2, <1>3, <1>4, <2>4 DEF IInv, TypeOK, AnyRequest
  <2> QED BY <1>2, <1>3, <2>4, <2>5
          DEF IInv, PapersNeedExam, DateFollowsPapers, PendingCeilingIsEarly, There
<1> QED BY <1>7, <1>8

LEMMA RequestFailsPreserves ==
    ASSUME IInv, NEW r \in Requests, RequestFails(r)
    PROVE  IInv'
<1>1. /\ Ends(r) /\ UNCHANGED <<exam, papers>> /\ parted' = (parted \/ WillList(reqs[r]))
      /\ parted' \in BOOLEAN
  BY RowsTyped DEF RequestFails
<1> QED BY <1>1, EndsPreserves

-----------------------------------------------------------------------------
(***************************************************************************)
(* The theorems.                                                           *)
(***************************************************************************)
LEMMA InitInv == Init => IInv
<1> SUFFICES ASSUME Init PROVE IInv
  OBVIOUS
<1>1. \A r \in Requests : reqs[r] = Idle
  BY DEF Init
<1>2. TypeOK
  BY DEF Init, TypeOK, Row, Empty
<1>3. RequestShape /\ UncrossedKnows
  BY <1>1, IdleFacts DEF RequestShape, UncrossedKnows
<1>4. PapersNeedExam /\ DateFollowsPapers /\ PendingCeilingIsEarly
  BY DEF Init, PapersNeedExam, DateFollowsPapers, There, PendingCeilingIsEarly
<1> QED BY <1>2, <1>3, <1>4 DEF IInv

LEMMA NextInv == IInv /\ [Next]_vars => IInv'
<1> SUFFICES ASSUME IInv, [Next]_vars PROVE IInv'
  OBVIOUS
<1>1. ASSUME NEW r \in Requests, Handle(r) PROVE IInv'
  BY <1>1, PutPapersPreserves, RemovePaperPreserves, CreateExamPreserves, PatchReadPreserves,
     LockReadPreserves, ExamWritePreserves, LockSetPreserves, PruneReadPreserves,
     PruneDropPreserves, ScanPreserves, DropPreserves, FindPaperPreserves, RefusePreserves,
     SavePaperPreserves, ListPapersPreserves, SyncDatePreserves, UndoCreatePreserves,
     RequestFailsPreserves DEF Handle
<1>2. CASE UNCHANGED vars
  <2>1. TypeOK' /\ PapersNeedExam' /\ RequestShape'
    BY <1>2 DEF IInv, vars, exam, TypeOK, PapersNeedExam, There, RequestShape, Shape, WillList, KeysOf
  <2>2. UncrossedKnows'
    BY <1>2, KnowsStill DEF IInv, vars
  <2>3. DateFollowsPapers' /\ PendingCeilingIsEarly'
    BY <1>2 DEF IInv, vars, exam, DateFollowsPapers, There, WillList, Earliest, KeysOf,
                PendingCeilingIsEarly, At
  <2> QED BY <2>1, <2>2, <2>3 DEF IInv
<1> QED BY <1>1, <1>2, UnlockPreserves, DeleteExamPreserves, DeleteSubjectPreserves DEF Next

\* The rows and handlers of an exam keep their types, and a handler that nobody crossed
\* knows what there is.
THEOREM Invariance == Spec => []IInv
<1> QED BY InitInv, NextInv, PTL DEF Spec

\* The date of an exam is that of its first paper, but for the ways it is parted from it.
THEOREM DateFollows == Spec => []DateFollowsPapers
<1>1. IInv => DateFollowsPapers
  BY DEF IInv
<1> QED BY <1>1, Invariance, PTL

\* A schedule saved with no handler crossing it is the one asked for.
THEOREM SavedSchedule == Spec => []SavedAsAsked
<1>1. ASSUME IInv PROVE SavedAsAsked
  <2> SUFFICES ASSUME NEW r \in Requests \ crossed, reqs[r].step \in {"list", "sync"}
               PROVE  /\ \A k \in KeysOf(reqs[r].asked) : papers[k] = reqs[r].asked[k]
                      /\ reqs[r].replace => papers = reqs[r].asked
    BY DEF SavedAsAsked
  <2>1. /\ reqs[r] \in Request /\ Shape(reqs[r]) /\ Progress(reqs[r])
        /\ papers \in [Keys -> Row] /\ reqs[r].asked \in [Keys -> Row]
    BY <1>1, InPapers, RowsTyped DEF Request
  <2>2. reqs[r].todo = {}
    BY <2>1 DEF Shape
  <2>3. \A k \in KeysOf(reqs[r].asked) : papers[k] = reqs[r].asked[k]
    BY <2>1, <2>2 DEF Progress
  <2>4. ASSUME reqs[r].replace PROVE papers = reqs[r].asked
    <3>1. KeysOf(papers) \subseteq KeysOf(reqs[r].asked)
      BY <2>1, <2>4 DEF Progress
    <3>2. \A k \in Keys : papers[k] = reqs[r].asked[k]
      BY <2>3, <3>1 DEF KeysOf
    <3> QED BY <2>1, <3>2
  <2> QED BY <2>3, <2>4
<1> QED BY <1>1, Invariance, PTL

\* A locked ceiling is moved by a handler at work since before the lock, and no other.
THEOREM LockedCeiling == Spec => LockedCeilingMovesEarlyOnly
<1>1. ASSUME IInv, [Next]_vars, locked, ceiling' # ceiling
      PROVE  \E r \in early : At(r, "write") /\ reqs[r].ceiling # Keep
  <2>1. ~UNCHANGED vars /\ ~Unlock /\ ~DeleteExam /\ \A k \in Keys : ~DeleteSubject(k)
    BY <1>1 DEF vars, exam, Unlock, DeleteExam, DeleteSubject
  <2>2. PICK r \in Requests : Handle(r)
    BY <1>1, <2>1 DEF Next
  <2>3. ExamWrite(r)
    BY <1>1, <2>2 DEF Handle, PutPapers, RemovePaper, CreateExam, PatchRead, LockRead, LockSet,
                      PruneRead, PruneDrop, Scan, Drop, FindPaper, Refuse, SavePaper, ListPapers,
                      SyncDate, UndoCreate, RequestFails, exam
  <2>4. At(r, "write") /\ reqs[r].ceiling # Keep
    BY <1>1, <2>3 DEF ExamWrite
  <2> QED BY <1>1, <2>4 DEF IInv, PendingCeilingIsEarly
<1>2. IInv /\ [Next]_vars => [locked /\ ceiling' # ceiling =>
          \E r \in early : At(r, "write") /\ reqs[r].ceiling # Keep]_vars
  BY <1>1
<1> QED BY <1>2, Invariance, PTL DEF Spec, LockedCeilingMovesEarlyOnly

-----------------------------------------------------------------------------
(***************************************************************************)
(* Releases: a handler that is to stamp has no one left to mail, and while *)
(* a class is being notified whoever has no mail is on a list.             *)
(***************************************************************************)
LEMMA NoticeTyped ==
    ASSUME Releases!TypeOK, NEW r \in Requests
    PROVE  /\ notices[r] \in Releases!Handler \cup {Releases!Idle}
           /\ notices[r] = Releases!Idle <=> notices[r].step = "idle"
BY DEF Releases!TypeOK, Releases!Handler, Releases!Idle

\* A handler that opens or fails is not notifying.
LEMMA NoticeRests ==
    ASSUME Releases!IInv, UNCHANGED <<release, reachable, mails, late>>, NEW r \in Requests,
           NEW q \in Releases!Handler \cup {Releases!Idle}, q.step \notin {"queue", "stamp"},
           notices' = [notices EXCEPT ![r] = q],
           q # Releases!Idle /\ (q.step = "publish" => q.found) /\ ~q.lost => release # NoRelease
    PROVE  Releases!IInv'
<1>1. Releases!TypeOK'
  BY DEF Releases!IInv, Releases!TypeOK
<1>2. \A s \in Requests : notices'[s] = IF s = r THEN q ELSE notices[s]
  BY DEF Releases!IInv, Releases!TypeOK
<1>3. Releases!ListedOrQueued' /\ Releases!StampIsLast'
  BY <1>2 DEF Releases!IInv, Releases!ListedOrQueued, Releases!Notifying, Releases!StampIsLast,
              Releases!At
<1>4. Releases!RowIsThere' /\ Releases!NotifiedMeansQueued'
  BY <1>2 DEF Releases!IInv, Releases!RowIsThere, Releases!Knows, Releases!At,
              Releases!NotifiedMeansQueued
<1> QED BY <1>1, <1>3, <1>4 DEF Releases!IInv

LEMMA ReleaseReads ==
    ASSUME Releases!IInv, NEW r \in Requests,
           \/ Releases!PublishRead(r) \/ Releases!SignRead(r) \/ Releases!NotifyRead(r)
           \/ Releases!RequestFails(r)
    PROVE  Releases!IInv'
<1>1. CASE Releases!RequestFails(r)
  BY <1>1, NoticeRests DEF Releases!RequestFails, Releases!Ends, Releases!Idle
<1>2. ASSUME NEW step \in {"publish", "sign", "list"}, Releases!Opens(r, step),
             step # "publish" => release # NoRelease,
             UNCHANGED <<release, reachable, mails, late>>
      PROVE  Releases!IInv'
  <2> DEFINE q == [step |-> step, found |-> release # NoRelease, todo |-> {}, lost |-> FALSE]
  <2>1. /\ q \in Releases!Handler /\ q.step \notin {"queue", "stamp"}
        /\ notices' = [notices EXCEPT ![r] = q]
        /\ (q.step = "publish" => q.found) => release # NoRelease
    BY <1>2 DEF Releases!Opens, Releases!Handler
  <2> QED BY <1>2, <2>1, NoticeRests
<1> QED BY <1>1, <1>2 DEF Releases!PublishRead, Releases!SignRead, Releases!NotifyRead

LEMMA ReleaseWritten ==
    ASSUME Releases!IInv, NEW r \in Requests, Releases!Ends(r), UNCHANGED <<reachable, mails, late>>,
           release' \in Releases!Row, release' # NoRelease,
           release'.notified => release # NoRelease /\ release.notified
    PROVE  Releases!IInv'
<1>1. Releases!TypeOK'
  BY DEF Releases!IInv, Releases!TypeOK, Releases!Ends
<1>2. \A s \in Requests : notices'[s] = IF s = r THEN Releases!Idle ELSE notices[s]
  BY DEF Releases!IInv, Releases!TypeOK, Releases!Ends
<1>3. Releases!ListedOrQueued' /\ Releases!StampIsLast' /\ Releases!RowIsThere'
  BY <1>2 DEF Releases!IInv, Releases!ListedOrQueued, Releases!Notifying, Releases!At,
                    Releases!StampIsLast, Releases!Idle, Releases!RowIsThere, Releases!Knows
<1>4. Releases!NotifiedMeansQueued'
  BY DEF Releases!IInv, Releases!NotifiedMeansQueued
<1> QED BY <1>1, <1>3, <1>4 DEF Releases!IInv

LEMMA ReleaseWrites ==
    ASSUME Releases!IInv, NEW r \in Requests, Releases!PublishWrite(r) \/ Releases!SignWrite(r)
    PROVE  Releases!IInv'
<1>1. /\ Releases!Ends(r) /\ UNCHANGED <<reachable, mails, late>>
      /\ notices[r] \in Releases!Handler
  BY NoticeTyped DEF Releases!IInv, Releases!PublishWrite, Releases!SignWrite, Releases!At
<1>2. CASE release = NoRelease /\ release' = [status |-> "PUBLISHED", signed |-> FALSE, notified |-> FALSE]
  <2>1. release' \in Releases!Row
    BY <1>2 DEF Releases!Row
  <2>2. ~release'.notified
    BY <1>2
  <2> QED BY <1>1, <2>1, <2>2, DeskMarkers, ReleaseWritten
<1>3. CASE release # NoRelease /\ (\/ release' = [release EXCEPT !.status = "PUBLISHED"]
                                 \/ release' = [release EXCEPT !.status = "SIGNED_OFF", !.signed = TRUE])
  <2>1. release \in Releases!Row
    BY <1>3 DEF Releases!IInv, Releases!TypeOK
  <2>2. release' \in Releases!Row /\ release'.notified = release.notified
    BY <1>3, <2>1 DEF Releases!Row
  <2> QED BY <1>1, <1>3, <2>2, DeskMarkers, ReleaseWritten
<1>4. ~notices[r].lost /\ (Releases!At(r, "publish") => notices[r].found) => release # NoRelease
  BY <1>1 DEF Releases!IInv, Releases!RowIsThere, Releases!Knows, Releases!Handler, Releases!Idle
<1> QED BY <1>2, <1>3, <1>4 DEF Releases!PublishWrite, Releases!SignWrite, Releases!At

LEMMA NotifyListPreserves ==
    ASSUME Releases!IInv, NEW r \in Requests, Releases!NotifyList(r)
    PROVE  Releases!IInv'
<1> DEFINE q == [notices[r] EXCEPT !.step = Releases!After(reachable), !.todo = reachable]
<1>1. /\ notices[r] \in Releases!Handler /\ notices[r].step = "list"
      /\ UNCHANGED <<release, reachable, mails, late>>
      /\ notices' = [notices EXCEPT ![r] = q]
  BY NoticeTyped DEF Releases!IInv, Releases!NotifyList, Releases!At
<1>2. /\ q \in Releases!Handler /\ q.step \in {"queue", "stamp"} /\ q.todo = reachable
      /\ q.step = "stamp" => reachable = {}
      /\ q.lost = notices[r].lost
  BY <1>1 DEF Releases!IInv, Releases!TypeOK, Releases!Handler, Releases!After
<1>3. \A s \in Requests : notices'[s] = IF s = r THEN q ELSE notices[s]
  BY <1>1 DEF Releases!IInv, Releases!TypeOK
<1>4. Releases!TypeOK'
  BY <1>1, <1>2 DEF Releases!IInv, Releases!TypeOK
<1> HIDE DEF q
<1>5. Releases!ListedOrQueued' /\ Releases!StampIsLast'
  BY <1>1, <1>2, <1>3 DEF Releases!IInv, Releases!ListedOrQueued, Releases!Notifying, Releases!StampIsLast,
                    Releases!At
<1>6. Releases!RowIsThere' /\ Releases!NotifiedMeansQueued'
  BY <1>1, <1>2, <1>3, NoticeTyped DEF Releases!IInv, Releases!RowIsThere, Releases!Knows, Releases!At,
                    Releases!NotifiedMeansQueued
<1> QED BY <1>4, <1>5, <1>6 DEF Releases!IInv

LEMMA NotifyQueuePreserves ==
    ASSUME Releases!IInv, NEW r \in Requests, Releases!NotifyQueue(r)
    PROVE  Releases!IInv'
<1>1. PICK s \in notices[r].todo :
          LET rest == notices[r].todo \ {s}
          IN  /\ mails[s] < MaxMails
              /\ mails' = Releases!Queued(r, s)
              /\ late' = IF notices[r].lost THEN late ELSE late \ {s}
              /\ notices' = [notices EXCEPT ![r].step = Releases!After(rest), ![r].todo = rest]
  BY DEF Releases!NotifyQueue
<1> DEFINE rest == notices[r].todo \ {s}
           q == [notices[r] EXCEPT !.step = Releases!After(rest), !.todo = rest]
<1>2. /\ notices[r] \in Releases!Handler /\ notices[r].step = "queue"
      /\ s \in Students /\ UNCHANGED <<release, reachable>>
      /\ notices' = [notices EXCEPT ![r] = q]
  BY <1>1, NoticeTyped DEF Releases!IInv, Releases!NotifyQueue, Releases!At, Releases!Handler
<1>3. /\ q \in Releases!Handler /\ q.step \in {"queue", "stamp"} /\ q.todo = rest
      /\ q.step = "stamp" => rest = {}
      /\ q.lost = notices[r].lost
  BY <1>2 DEF Releases!Handler, Releases!After
<1>4. \A t \in Requests : notices'[t] = IF t = r THEN q ELSE notices[t]
  BY <1>2 DEF Releases!IInv, Releases!TypeOK
<1>5. /\ mails' \in [Students -> 0..MaxMails]
      /\ late' \subseteq late
      /\ \A t \in Students : mails[t] > 0 => mails'[t] > 0
      /\ ~notices[r].lost => mails'[s] > 0
      /\ \A t \in Students : t \in late /\ t \notin late' => t = s /\ ~notices[r].lost
  BY <1>1, <1>2, DeskMarkers DEF Releases!IInv, Releases!TypeOK, Releases!Queued
<1>6. Releases!TypeOK'
  BY <1>2, <1>3, <1>5 DEF Releases!IInv, Releases!TypeOK
<1> HIDE DEF q
<1>7. Releases!ListedOrQueued'
  BY <1>2, <1>3, <1>4, <1>5 DEF Releases!IInv, Releases!TypeOK, Releases!ListedOrQueued, Releases!Notifying
<1>8. Releases!StampIsLast' /\ Releases!RowIsThere'
  BY <1>2, <1>3, <1>4, NoticeTyped DEF Releases!IInv, Releases!StampIsLast, Releases!RowIsThere,
                    Releases!Knows, Releases!At
<1>9. Releases!NotifiedMeansQueued'
  BY <1>2, <1>5 DEF Releases!IInv, Releases!TypeOK, Releases!NotifiedMeansQueued
<1> QED BY <1>6, <1>7, <1>8, <1>9 DEF Releases!IInv

LEMMA NotifyStampPreserves ==
    ASSUME Releases!IInv, NEW r \in Requests, Releases!NotifyStamp(r)
    PROVE  Releases!IInv'
<1>1. /\ Releases!Ends(r) /\ UNCHANGED <<reachable, mails, late>>
      /\ notices[r] \in Releases!Handler /\ notices[r].todo = {} /\ ~notices[r].lost
      /\ r \in Releases!Notifying /\ notices[r].step = "stamp"
  BY NoticeTyped DEF Releases!IInv, Releases!NotifyStamp, Releases!At, Releases!StampIsLast,
                     Releases!Notifying
<1>2. release # NoRelease /\ release \in Releases!Row
  BY <1>1, NoticeTyped DEF Releases!IInv, Releases!TypeOK, Releases!RowIsThere, Releases!Knows, Releases!At
<1>3. release' \in Releases!Row /\ release' # NoRelease
  BY <1>2, DeskMarkers DEF Releases!NotifyStamp, Releases!Row
<1>4. \A s \in Requests : notices'[s] = IF s = r THEN Releases!Idle ELSE notices[s]
  BY <1>1 DEF Releases!IInv, Releases!TypeOK, Releases!Ends
<1>5. Releases!TypeOK'
  BY <1>1, <1>3 DEF Releases!IInv, Releases!TypeOK, Releases!Ends
<1>6. Releases!ListedOrQueued' /\ Releases!StampIsLast' /\ Releases!RowIsThere'
  BY <1>1, <1>3, <1>4 DEF Releases!IInv, Releases!ListedOrQueued, Releases!Notifying, Releases!At,
                    Releases!StampIsLast, Releases!Idle, Releases!RowIsThere, Releases!Knows
<1>7. Releases!NotifiedMeansQueued'
  BY <1>1 DEF Releases!IInv, Releases!NotifiedMeansQueued, Releases!ListedOrQueued
<1> QED BY <1>5, <1>6, <1>7 DEF Releases!IInv

LEMMA ReachPreserves ==
    ASSUME Releases!IInv, NEW s \in Students,
           Releases!ComesInReach(s) \/ Releases!GoesOutOfReach(s)
    PROVE  Releases!IInv'
<1>1. /\ UNCHANGED <<release, mails, notices>>
      /\ reachable' \subseteq Students /\ late' \subseteq Students
      /\ Releases!Notifying' = Releases!Notifying
  BY DEF Releases!IInv, Releases!TypeOK, Releases!ComesInReach, Releases!GoesOutOfReach,
         Releases!Notifying
<1>2. Releases!Notifying # {} \/ (release # NoRelease /\ release.notified) =>
          reachable' \ late' \subseteq reachable \ late
  BY DEF Releases!ComesInReach, Releases!GoesOutOfReach
<1>3. Releases!TypeOK' /\ Releases!StampIsLast' /\ Releases!RowIsThere'
  BY <1>1 DEF Releases!IInv, Releases!TypeOK, Releases!StampIsLast, Releases!RowIsThere,
              Releases!Knows, Releases!At
<1>4. Releases!ListedOrQueued' /\ Releases!NotifiedMeansQueued'
  BY <1>1, <1>2 DEF Releases!IInv, Releases!ListedOrQueued, Releases!NotifiedMeansQueued
<1> QED BY <1>3, <1>4 DEF Releases!IInv

LEMMA ReleaseDeletedPreserves ==
    ASSUME Releases!IInv, Releases!ReleaseDeleted
    PROVE  Releases!IInv'
<1>1. \A r \in Requests :
          notices'[r] = IF Releases!Knows(r) THEN [notices[r] EXCEPT !.lost = TRUE] ELSE notices[r]
  BY DEF Releases!ReleaseDeleted
<1>2. \A r \in Requests :
          /\ notices[r] \in Releases!Handler \cup {Releases!Idle}
          /\ Releases!Knows(r) => notices[r] # Releases!Idle
  BY NoticeTyped DEF Releases!IInv, Releases!Knows
<1>3. \A r \in Requests :
          /\ notices'[r] \in Releases!Handler \cup {Releases!Idle}
          /\ notices'[r].step = notices[r].step
          /\ notices'[r] # Releases!Idle =>
               /\ notices'[r].todo = notices[r].todo
               /\ notices'[r].found = notices[r].found
          /\ Releases!Knows(r) => notices'[r].lost
          /\ notices[r] = Releases!Idle => notices'[r] = Releases!Idle
  BY <1>1, <1>2 DEF Releases!Handler, Releases!Idle
<1>4. Releases!TypeOK'
  <2>1. notices' = [r \in Requests |-> notices'[r]]
    BY DEF Releases!ReleaseDeleted
  <2>2. mails' \in [Students -> 0..MaxMails]
    BY DeskMarkers DEF Releases!ReleaseDeleted
  <2> QED BY <1>3, <2>1, <2>2 DEF Releases!IInv, Releases!TypeOK, Releases!ReleaseDeleted
<1>5. \A r \in Requests : notices[r].step \in {"queue", "stamp"} => Releases!Knows(r)
  BY DEF Releases!Knows, Releases!At, Releases!Idle
<1>6. Releases!ListedOrQueued' /\ Releases!StampIsLast'
  <2>1. Releases!Notifying' = {}
    BY <1>3, <1>5 DEF Releases!Notifying
  <2>2. \A r \in Requests : Releases!At(r, "stamp")' => notices'[r].todo = {}
    BY <1>2, <1>3, <1>5 DEF Releases!IInv, Releases!StampIsLast, Releases!At, Releases!Idle
  <2> QED BY <2>1, <2>2 DEF Releases!ListedOrQueued, Releases!StampIsLast
<1>7. Releases!RowIsThere' /\ Releases!NotifiedMeansQueued'
  BY <1>3 DEF Releases!RowIsThere, Releases!Knows, Releases!At,
              Releases!NotifiedMeansQueued, Releases!ReleaseDeleted
<1> QED BY <1>4, <1>6, <1>7 DEF Releases!IInv

\* The releases of any class keep their invariant.
THEOREM ReleaseInvariance == Releases!Spec => []Releases!IInv
<1>1. Releases!Init => Releases!IInv
  BY DeskMarkers DEF Releases!Init, Releases!IInv, Releases!TypeOK, Releases!ListedOrQueued, Releases!Notifying,
                     Releases!StampIsLast, Releases!At, Releases!RowIsThere, Releases!Knows,
                     Releases!NotifiedMeansQueued, Releases!Idle
<1>2. Releases!IInv /\ [Releases!Next]_(Releases!vars) => Releases!IInv'
  <2> SUFFICES ASSUME Releases!IInv, [Releases!Next]_(Releases!vars) PROVE Releases!IInv'
    OBVIOUS
  <2>1. CASE UNCHANGED Releases!vars
    BY <2>1 DEF Releases!vars, Releases!IInv, Releases!TypeOK, Releases!ListedOrQueued,
                Releases!Notifying, Releases!StampIsLast, Releases!At, Releases!RowIsThere,
                Releases!Knows, Releases!NotifiedMeansQueued
  <2> QED BY <2>1, ReleaseReads, ReleaseWrites, NotifyListPreserves, NotifyQueuePreserves,
             NotifyStampPreserves, ReachPreserves, ReleaseDeletedPreserves
          DEF Releases!Next, Releases!Handle
<1> QED BY <1>1, <1>2, PTL DEF Releases!Spec

\* A release that says its parents were notified has a mail queued for every guardian who
\* was in reach.
THEOREM NotifiedQueued == Releases!Spec => []NotifiedMeansQueued
<1>1. Releases!IInv => NotifiedMeansQueued
  BY DEF Releases!IInv, NotifiedMeansQueued
<1> QED BY <1>1, ReleaseInvariance, PTL

-----------------------------------------------------------------------------
(***************************************************************************)
(* Revaluations: a review on its way that is not outdated carries what the *)
(* request says, so what it writes is what a completed request promises.   *)
(***************************************************************************)
LEMMA ReviewTyped ==
    ASSUME Revaluations!TypeOK, NEW r \in Requests
    PROVE  /\ reviews[r] \in Revaluations!Handler \cup {Revaluations!Idle}
           /\ reviews[r] = Revaluations!Idle <=> reviews[r].step = "idle"
BY DEF Revaluations!TypeOK, Revaluations!Handler, Revaluations!Idle

LEMMA Turns ==
    ASSUME Revaluations!TypeOK, NEW r \in Requests,
           NEW q \in Revaluations!Handler \cup {Revaluations!Idle}, Revaluations!Becomes(r, q)
    PROVE  /\ reviews' \in [Requests -> Revaluations!Handler \cup {Revaluations!Idle}]
           /\ \A s \in Requests : reviews'[s] = IF s = r THEN q ELSE reviews[s]
           /\ outdated' \subseteq outdated
           /\ \A s \in Requests \ {r} : s \in outdated' <=> s \in outdated
           /\ r \in outdated => r \in outdated' \/ q = Revaluations!Idle
BY DEF Revaluations!TypeOK, Revaluations!Becomes

\* A handler that goes on, or ends, and writes nothing.
LEMMA ReviewGoesOn ==
    ASSUME Revaluations!IInv, UNCHANGED <<mark, reval>>, NEW r \in Requests,
           NEW q \in Revaluations!Handler \cup {Revaluations!Idle}, Revaluations!Becomes(r, q),
           shifted' \in BOOLEAN, shifted => shifted',
           q.step \in {"find", "apply"} =>
               reviews[r].step \in {"find", "apply"} /\ q.revised = reviews[r].revised,
           q.step = "apply" => mark # NoMark \/ q.lost,
           q.step = "update" => reval # NoRequest \/ q.lost,
           reviews[r].step \in {"find", "apply"} /\ q.step \notin {"find", "apply"} =>
               shifted' \/ mark = NoMark
    PROVE  Revaluations!IInv'
<1>1. Revaluations!TypeOK'
  BY Turns DEF Revaluations!IInv, Revaluations!TypeOK
<1>2. Revaluations!CarriesTheRequest'
  BY Turns DEF Revaluations!IInv, Revaluations!CarriesTheRequest, Revaluations!Applying, Revaluations!Idle
<1>3. Revaluations!FoundIsThere' /\ Revaluations!ReadIsThere' /\ Revaluations!AppliesValues'
  BY Turns DEF Revaluations!IInv, Revaluations!FoundIsThere, Revaluations!ReadIsThere,
               Revaluations!AppliesValues, Revaluations!Applying, Revaluations!At
<1>4. Revaluations!CompletedMarkStands'
  BY Turns DEF Revaluations!IInv, Revaluations!CompletedMarkStands, Revaluations!Applying
<1> QED BY <1>1, <1>2, <1>3, <1>4 DEF Revaluations!IInv

LEMMA ReviewReads ==
    ASSUME Revaluations!IInv, NEW r \in Requests,
           \/ Revaluations!AskFind(r) \/ Revaluations!AskReadMark(r) \/ Revaluations!ReviewRead(r)
           \/ Revaluations!FindMark(r) \/ Revaluations!RequestFails(r)
    PROVE  Revaluations!IInv'
<1> USE DEF Revaluations!At
<1>1. shifted \in BOOLEAN /\ mark \in Revaluations!Mark \cup {NoMark}
  BY DEF Revaluations!IInv, Revaluations!TypeOK
<1>2. ASSUME NEW step \in {"readMark", "update"}, NEW status \in Revaluations!Statuses \cup {None},
             NEW revised \in Values \cup {None}, reviews[r] = Revaluations!Idle,
             Revaluations!Becomes(r, Revaluations!Opens(step, status, revised)),
             step = "update" => reval # NoRequest, UNCHANGED <<mark, reval, shifted>>
      PROVE  Revaluations!IInv'
  <2>1. /\ Revaluations!Opens(step, status, revised) \in Revaluations!Handler
        /\ Revaluations!Opens(step, status, revised).step = step
    BY DEF Revaluations!Opens, Revaluations!Handler
  <2> QED BY <1>1, <1>2, <2>1, ReviewGoesOn DEF Revaluations!Idle
<1>3. CASE Revaluations!AskFind(r) \/ Revaluations!ReviewRead(r)
  BY <1>2, <1>3 DEF Revaluations!AskFind, Revaluations!ReviewRead
<1>4. CASE Revaluations!AskReadMark(r)
  <2> DEFINE q == [reviews[r] EXCEPT !.step = "create",
                                     !.original = IF mark = NoMark THEN None ELSE mark.value]
  <2>1. reviews[r] \in Revaluations!Handler /\ reviews[r].step = "readMark"
    BY <1>4, ReviewTyped DEF Revaluations!IInv, Revaluations!AskReadMark
  <2>2. q \in Revaluations!Handler /\ q.step = "create"
    BY <1>1, <2>1 DEF Revaluations!Handler, Revaluations!Mark
  <2>3. Revaluations!Becomes(r, q) /\ UNCHANGED <<mark, reval, shifted>>
    BY <1>4 DEF Revaluations!AskReadMark
  <2> HIDE DEF q
  <2> QED BY <1>1, <2>1, <2>2, <2>3, ReviewGoesOn
<1>5. CASE Revaluations!FindMark(r)
  <2> DEFINE q == [reviews[r] EXCEPT !.step = "apply"]
  <2>1. reviews[r] \in Revaluations!Handler /\ reviews[r].step = "find"
    BY <1>5, ReviewTyped DEF Revaluations!IInv, Revaluations!FindMark
  <2>2. q \in Revaluations!Handler /\ q.step = "apply" /\ q.revised = reviews[r].revised
    BY <2>1 DEF Revaluations!Handler
  <2>3. UNCHANGED <<mark, reval, shifted>>
    BY <1>5 DEF Revaluations!FindMark
  <2>4. CASE mark = NoMark /\ Revaluations!Becomes(r, Revaluations!Idle)
    BY <1>1, <2>3, <2>4, ReviewGoesOn DEF Revaluations!Idle
  <2>5. CASE mark # NoMark /\ Revaluations!Becomes(r, q)
    <3> HIDE DEF q
    <3> QED BY <1>1, <2>1, <2>2, <2>3, <2>5, ReviewGoesOn
  <2> QED BY <1>5, <2>4, <2>5 DEF Revaluations!FindMark
<1>6. CASE Revaluations!RequestFails(r)
  <2>1. /\ Revaluations!Becomes(r, Revaluations!Idle) /\ UNCHANGED <<mark, reval>>
        /\ shifted' = (shifted \/ reviews[r].step \in {"find", "apply"})
    BY <1>6 DEF Revaluations!RequestFails, Revaluations!Applying
  <2> QED BY <1>1, <2>1, ReviewGoesOn DEF Revaluations!Idle
<1> QED BY <1>3, <1>4, <1>5, <1>6

LEMMA AskCreatePreserves ==
    ASSUME Revaluations!IInv, NEW r \in Requests, Revaluations!AskCreate(r)
    PROVE  Revaluations!IInv'
<1>1. /\ reviews[r] \in Revaluations!Handler /\ reval = NoRequest
      /\ Revaluations!Becomes(r, Revaluations!Idle) /\ UNCHANGED <<mark, shifted>>
  BY ReviewTyped DEF Revaluations!IInv, Revaluations!AskCreate, Revaluations!At
<1>2. reval' \in Revaluations!Row /\ reval'.status = "PENDING" /\ reval' # NoRequest
  BY <1>1, DeskMarkers DEF Revaluations!AskCreate, Revaluations!Row, Revaluations!Statuses,
                           Revaluations!Handler
<1>3. Revaluations!TypeOK'
  BY <1>1, <1>2, Turns DEF Revaluations!IInv, Revaluations!TypeOK
<1>4. Revaluations!CarriesTheRequest'
  BY <1>1, Turns DEF Revaluations!IInv, Revaluations!CarriesTheRequest, Revaluations!Applying,
                     Revaluations!Idle
<1>5. Revaluations!FoundIsThere' /\ Revaluations!ReadIsThere' /\ Revaluations!AppliesValues'
  BY <1>1, <1>2, Turns DEF Revaluations!IInv, Revaluations!FoundIsThere, Revaluations!ReadIsThere,
                     Revaluations!AppliesValues, Revaluations!Applying, Revaluations!At,
                     Revaluations!Idle
<1>6. Revaluations!CompletedMarkStands'
  BY <1>2 DEF Revaluations!CompletedMarkStands
<1> QED BY <1>3, <1>4, <1>5, <1>6 DEF Revaluations!IInv

LEMMA ReviewUpdatePreserves ==
    ASSUME Revaluations!IInv, NEW r \in Requests, Revaluations!ReviewUpdate(r)
    PROVE  Revaluations!IInv'
<1> DEFINE q == reviews[r]
           row == [reval EXCEPT !.status = IF q.status = None THEN @ ELSE q.status,
                                !.revised = IF q.revised = None THEN @ ELSE q.revised]
           due == row.status = "COMPLETED" /\ row.revised # None
           next == IF due THEN [q EXCEPT !.step = "find", !.revised = row.revised]
                   ELSE Revaluations!Idle
<1>1. /\ q \in Revaluations!Handler /\ q.step = "update" /\ ~q.lost
      /\ reval' = row /\ reviews' = [reviews EXCEPT ![r] = next]
      /\ outdated' = {s \in Requests \ {r} : Revaluations!Applying(reviews[s])}
      /\ UNCHANGED <<mark, shifted>>
  BY ReviewTyped DEF Revaluations!IInv, Revaluations!ReviewUpdate, Revaluations!At
<1>2. reval \in Revaluations!Row
  BY <1>1 DEF Revaluations!IInv, Revaluations!TypeOK, Revaluations!ReadIsThere, Revaluations!At
<1>3. row \in Revaluations!Row
  BY <1>1, <1>2 DEF Revaluations!Row, Revaluations!Handler
<1>4. /\ next \in Revaluations!Handler \cup {Revaluations!Idle}
      /\ due => next.step = "find" /\ next.revised = row.revised /\ row.revised \in Values
      /\ ~due => next.step = "idle"
  BY <1>1, <1>3 DEF Revaluations!Handler, Revaluations!Row, Revaluations!Idle
<1> HIDE DEF row, next
<1>5. reval' # NoRequest /\ reval' \in Revaluations!Row
  BY <1>1, <1>3, DeskMarkers
<1>6. /\ reviews' \in [Requests -> Revaluations!Handler \cup {Revaluations!Idle}]
      /\ \A s \in Requests : reviews'[s] = IF s = r THEN next ELSE reviews[s]
  BY <1>1, <1>4 DEF Revaluations!IInv, Revaluations!TypeOK
<1>7. Revaluations!TypeOK'
  BY <1>1, <1>5, <1>6 DEF Revaluations!IInv, Revaluations!TypeOK
<1>8. Revaluations!CarriesTheRequest' /\ Revaluations!CompletedMarkStands'
  <2>1. \A s \in Requests \ outdated' : Revaluations!Applying(reviews'[s]) => s = r /\ due
    BY <1>1, <1>4, <1>6 DEF Revaluations!Applying
  <2>2. due => Revaluations!Applying(reviews'[r])
    BY <1>4, <1>6 DEF Revaluations!Applying
  <2> QED BY <1>1, <1>4, <1>5, <1>6, <2>1, <2>2
          DEF Revaluations!CarriesTheRequest, Revaluations!CompletedMarkStands
<1>9. Revaluations!FoundIsThere' /\ Revaluations!ReadIsThere' /\ Revaluations!AppliesValues'
  BY <1>1, <1>4, <1>5, <1>6 DEF Revaluations!IInv, Revaluations!FoundIsThere,
     Revaluations!ReadIsThere, Revaluations!AppliesValues, Revaluations!Applying, Revaluations!At
<1> QED BY <1>7, <1>8, <1>9 DEF Revaluations!IInv

LEMMA ApplyMarkPreserves ==
    ASSUME Revaluations!IInv, NEW r \in Requests, Revaluations!ApplyMark(r)
    PROVE  Revaluations!IInv'
<1>1. /\ reviews[r] \in Revaluations!Handler /\ Revaluations!Applying(reviews[r])
      /\ reviews[r].revised \in Values
      /\ mark' = [value |-> reviews[r].revised, status |-> "APPROVED"]
      /\ shifted' = (r \in outdated)
      /\ Revaluations!Becomes(r, Revaluations!Idle) /\ UNCHANGED reval
  BY ReviewTyped DEF Revaluations!IInv, Revaluations!ApplyMark, Revaluations!At,
                     Revaluations!Applying, Revaluations!AppliesValues
<1>2. mark' \in Revaluations!Mark /\ mark' # NoMark
  BY <1>1, DeskMarkers DEF Revaluations!Mark
<1>3. Revaluations!TypeOK'
  BY <1>1, <1>2, Turns DEF Revaluations!IInv, Revaluations!TypeOK
<1>4. Revaluations!CarriesTheRequest'
  BY <1>1, Turns DEF Revaluations!IInv, Revaluations!CarriesTheRequest, Revaluations!Applying,
                     Revaluations!Idle
<1>5. Revaluations!FoundIsThere' /\ Revaluations!ReadIsThere' /\ Revaluations!AppliesValues'
  BY <1>1, <1>2, Turns DEF Revaluations!IInv, Revaluations!FoundIsThere, Revaluations!ReadIsThere,
                     Revaluations!AppliesValues, Revaluations!Applying, Revaluations!At,
                     Revaluations!Idle
<1>6. Revaluations!CompletedMarkStands'
  BY <1>1 DEF Revaluations!IInv, Revaluations!CarriesTheRequest, Revaluations!CompletedMarkStands
<1> QED BY <1>3, <1>4, <1>5, <1>6 DEF Revaluations!IInv

\* What the register and the administration do to the mark and to the request.
LEMMA AroundPreserves ==
    ASSUME Revaluations!IInv,
           Revaluations!RegisterMoves \/ Revaluations!MarkDeleted \/ Revaluations!RequestDeleted
    PROVE  Revaluations!IInv'
<1>1. CASE Revaluations!RegisterMoves
  <2>1. mark' \in Revaluations!Mark /\ shifted' = TRUE /\ UNCHANGED <<reval, reviews, outdated>>
    BY <1>1 DEF Revaluations!IInv, Revaluations!TypeOK, Revaluations!RegisterMoves, Revaluations!Mark
  <2> QED BY <2>1, DeskMarkers
          DEF Revaluations!IInv, Revaluations!TypeOK, Revaluations!CarriesTheRequest,
              Revaluations!FoundIsThere, Revaluations!ReadIsThere, Revaluations!AppliesValues,
              Revaluations!CompletedMarkStands, Revaluations!Applying, Revaluations!At
<1>2. ASSUME NEW steps \in {{"apply"}, {"update"}}, reviews' = Revaluations!Lose(steps)
      PROVE  /\ reviews' \in [Requests -> Revaluations!Handler \cup {Revaluations!Idle}]
             /\ \A r \in Requests :
                   /\ reviews'[r].step = reviews[r].step
                   /\ reviews[r].step # "idle" => reviews'[r].revised = reviews[r].revised
                   /\ reviews[r].step \in steps => reviews'[r].lost
                   /\ reviews[r].step \notin steps => reviews'[r] = reviews[r]
  <2>1. \A r \in Requests :
            /\ reviews[r] \in Revaluations!Handler \cup {Revaluations!Idle}
            /\ reviews'[r] = IF reviews[r].step \in steps THEN [reviews[r] EXCEPT !.lost = TRUE]
                             ELSE reviews[r]
    BY <1>2, ReviewTyped DEF Revaluations!IInv, Revaluations!Lose
  <2>2. \A r \in Requests : reviews[r].step \in steps =>
            /\ [reviews[r] EXCEPT !.lost = TRUE] \in Revaluations!Handler
            /\ [reviews[r] EXCEPT !.lost = TRUE].step = reviews[r].step
            /\ [reviews[r] EXCEPT !.lost = TRUE].revised = reviews[r].revised
            /\ [reviews[r] EXCEPT !.lost = TRUE].lost
    <3>1. \A q \in Revaluations!Handler :
              LET p == [q EXCEPT !.lost = TRUE]
              IN  p \in Revaluations!Handler /\ p.step = q.step /\ p.revised = q.revised /\ p.lost
      BY DEF Revaluations!Handler
    <3>2. \A r \in Requests : reviews[r].step \in steps => reviews[r] \in Revaluations!Handler
      <4>1. "idle" \notin steps
        OBVIOUS
      <4>2. \A r \in Requests : reviews[r] \in Revaluations!Handler \/ reviews[r].step = "idle"
        BY ReviewTyped DEF Revaluations!IInv
      <4> QED BY <4>1, <4>2
    <3> QED BY <3>1, <3>2
  <2>3. reviews' = [r \in Requests |-> reviews'[r]]
    BY <1>2 DEF Revaluations!Lose
  <2> QED BY <2>1, <2>2, <2>3
<1>3. CASE Revaluations!MarkDeleted
  <2>1. /\ reviews' = Revaluations!Lose({"apply"}) /\ mark' = NoMark /\ shifted' = TRUE
        /\ UNCHANGED <<reval, outdated>>
    BY <1>3 DEF Revaluations!MarkDeleted
  <2> QED BY <1>2, <2>1
          DEF Revaluations!IInv, Revaluations!TypeOK, Revaluations!CarriesTheRequest,
              Revaluations!FoundIsThere, Revaluations!ReadIsThere, Revaluations!AppliesValues,
              Revaluations!CompletedMarkStands, Revaluations!Applying, Revaluations!At
<1>4. CASE Revaluations!RequestDeleted
  <2>1. /\ reviews' = Revaluations!Lose({"update"}) /\ reval' = NoRequest
        /\ outdated' = outdated \cup {r \in Requests : Revaluations!Applying(reviews[r])}
        /\ UNCHANGED <<mark, shifted>>
    BY <1>4 DEF Revaluations!RequestDeleted
  <2> QED BY <1>2, <2>1
          DEF Revaluations!IInv, Revaluations!TypeOK, Revaluations!CarriesTheRequest,
              Revaluations!FoundIsThere, Revaluations!ReadIsThere, Revaluations!AppliesValues,
              Revaluations!CompletedMarkStands, Revaluations!Applying, Revaluations!At
<1> QED BY <1>1, <1>3, <1>4

\* The revaluation of any mark keeps its invariant.
THEOREM RevaluationInvariance == Revaluations!Spec => []Revaluations!IInv
<1>1. Revaluations!Init => Revaluations!IInv
  <2> SUFFICES ASSUME Revaluations!Init PROVE Revaluations!IInv
    OBVIOUS
  <2>1. \A r \in Requests : reviews[r].step = "idle"
    BY DEF Revaluations!Init, Revaluations!Idle
  <2>2. Revaluations!TypeOK
    BY DEF Revaluations!Init, Revaluations!TypeOK
  <2> QED BY <2>1, <2>2
          DEF Revaluations!Init, Revaluations!IInv, Revaluations!CarriesTheRequest,
              Revaluations!FoundIsThere, Revaluations!ReadIsThere, Revaluations!AppliesValues,
              Revaluations!CompletedMarkStands, Revaluations!Applying, Revaluations!At
<1>2. Revaluations!IInv /\ [Revaluations!Next]_(Revaluations!vars) => Revaluations!IInv'
  <2> SUFFICES ASSUME Revaluations!IInv, [Revaluations!Next]_(Revaluations!vars)
               PROVE  Revaluations!IInv'
    OBVIOUS
  <2>1. CASE UNCHANGED Revaluations!vars
    BY <2>1 DEF Revaluations!vars, Revaluations!IInv, Revaluations!TypeOK,
         Revaluations!CarriesTheRequest, Revaluations!FoundIsThere, Revaluations!ReadIsThere,
         Revaluations!AppliesValues, Revaluations!CompletedMarkStands, Revaluations!Applying,
         Revaluations!At
  <2> QED BY <2>1, ReviewReads, AskCreatePreserves, ReviewUpdatePreserves, ApplyMarkPreserves,
             AroundPreserves DEF Revaluations!Next, Revaluations!Handle
<1> QED BY <1>1, <1>2, PTL DEF Revaluations!Spec

\* A completed revaluation stands in the register, but for the ways its mark is shifted.
THEOREM CompletedStands == Revaluations!Spec => []CompletedMarkStands
<1>1. Revaluations!IInv => CompletedMarkStands
  BY DEF Revaluations!IInv, CompletedMarkStands
<1> QED BY <1>1, RevaluationInvariance, PTL

\* What each step does to the mark.
LEMMA MarkMoves ==
    ASSUME Revaluations!IInv, [Revaluations!Next]_(Revaluations!vars)
    PROVE  \/ mark' = mark
           \/ mark' = NoMark
           \/ mark' \in [value : Values, status : {"DRAFT"}]
           \/ /\ mark' \in [value : Values, status : {"APPROVED"}]
              /\ \E r \in Requests : reviews[r] # Revaluations!Idle
           \/ /\ mark \in Revaluations!Mark
              /\ \/ mark' = [value |-> mark.value, status |-> "SUBMITTED"]
                 \/ mark' = [value |-> mark.value, status |-> "DRAFT"] /\ mark.status # "DRAFT"
                 \/ mark' = [value |-> mark.value, status |-> "APPROVED"] /\ mark.status = "SUBMITTED"
<1>1. ASSUME NEW r \in Requests, Revaluations!ApplyMark(r)
      PROVE  /\ mark' \in [value : Values, status : {"APPROVED"}]
             /\ reviews[r] # Revaluations!Idle
  BY <1>1 DEF Revaluations!ApplyMark, Revaluations!IInv, Revaluations!AppliesValues, Revaluations!Applying,
              Revaluations!At, Revaluations!Idle
<1>2. ASSUME NEW r \in Requests, Revaluations!Handle(r), ~Revaluations!ApplyMark(r)
      PROVE  mark' = mark
  BY <1>2 DEF Revaluations!Handle, Revaluations!AskFind, Revaluations!AskReadMark, Revaluations!AskCreate,
              Revaluations!ReviewRead, Revaluations!ReviewUpdate, Revaluations!FindMark,
              Revaluations!RequestFails
<1>3. CASE Revaluations!RegisterMoves
  <2>1. CASE mark' \in [value : Values, status : {"DRAFT"}]
    BY <2>1
  <2>2. CASE mark # NoMark /\ \E s \in {"SUBMITTED", "DRAFT", "APPROVED"} :
                 /\ mark' = [mark EXCEPT !.status = s]
                 /\ s = "APPROVED" => mark.status = "SUBMITTED"
    <3>1. mark \in Revaluations!Mark
      BY <2>2 DEF Revaluations!IInv, Revaluations!TypeOK
    <3>2. \A s \in {"SUBMITTED", "DRAFT", "APPROVED"} :
              [mark EXCEPT !.status = s] = [value |-> mark.value, status |-> s]
      BY <3>1 DEF Revaluations!Mark
    <3>3. mark.status = "DRAFT" => mark = [value |-> mark.value, status |-> "DRAFT"]
      BY <3>1 DEF Revaluations!Mark
    <3> QED BY <2>2, <3>1, <3>2, <3>3
  <2> QED BY <1>3, <2>1, <2>2 DEF Revaluations!RegisterMoves
<1>4. CASE Revaluations!MarkDeleted \/ Revaluations!RequestDeleted \/ UNCHANGED Revaluations!vars
  BY <1>4 DEF Revaluations!MarkDeleted, Revaluations!RequestDeleted, Revaluations!vars
<1> QED BY <1>1, <1>2, <1>3, <1>4 DEF Revaluations!Next

LEMMA RegisterStep ==
    ASSUME Revaluations!IInv, Revaluations!IInv', [Revaluations!Next]_(Revaluations!vars)
    PROVE  Revaluations!Register!Next
<1> USE DEF Revaluations!Register!Stays
<1> DEFINE c == [s \in {"student"} |-> mark]
<1>1. /\ mark \in Revaluations!Mark \cup {NoMark} /\ mark' \in Revaluations!Mark \cup {NoMark}
      /\ c["student"] = mark /\ c'["student"] = mark'
      /\ NoMark \notin Revaluations!Mark
  BY DeskMarkers DEF Revaluations!IInv, Revaluations!TypeOK
<1>2. Revaluations!Mark = [value : Values, status : Revaluations!Register!Statuses]
  BY DEF Revaluations!Mark, Revaluations!Register!Statuses
<1>3. c' \in [{"student"} -> Revaluations!Register!Cell]
  BY <1>1, <1>2 DEF Revaluations!Register!Cell
<1>4. (\E r \in Requests : reviews[r] # Revaluations!Idle)' \in BOOLEAN
  OBVIOUS
<1>5. CASE mark' = mark \/ mark' \in [value : Values, status : {"DRAFT"}]
  BY <1>1, <1>3, <1>4, <1>5
     DEF Revaluations!Register!Next, Revaluations!Register!Enter, Revaluations!Register!Drafted
<1>6. CASE mark' = NoMark
  BY <1>1, <1>3, <1>4, <1>6
     DEF Revaluations!Register!Next, Revaluations!Register!Erase, Revaluations!Register!Erased
<1>7. CASE /\ mark' \in [value : Values, status : {"APPROVED"}]
           /\ \E r \in Requests : reviews[r] # Revaluations!Idle
  BY <1>1, <1>3, <1>4, <1>7
     DEF Revaluations!Register!Next, Revaluations!Register!Publish, Revaluations!Register!Published
<1>8. CASE /\ mark \in Revaluations!Mark
           /\ \/ mark' = [value |-> mark.value, status |-> "SUBMITTED"]
              \/ mark' = [value |-> mark.value, status |-> "DRAFT"] /\ mark.status # "DRAFT"
              \/ mark' = [value |-> mark.value, status |-> "APPROVED"] /\ mark.status = "SUBMITTED"
  <2>1. mark # NoMark /\ mark.status \in {"DRAFT", "SUBMITTED", "APPROVED"}
    BY <1>1, <1>8 DEF Revaluations!Mark
  <2> QED BY <1>1, <1>3, <1>4, <1>8, <2>1
          DEF Revaluations!Register!Next, Revaluations!Register!Submit, Revaluations!Register!Approve,
              Revaluations!Register!Reopen, Revaluations!Register!Moved, Revaluations!Register!Has,
              Revaluations!Register!Statuses
<1> QED BY <1>5, <1>6, <1>7, <1>8, MarkMoves

\* What a revaluation and the register do to one mark are steps of the life of a mark.
THEOREM LivesByTheRegister == Revaluations!Spec => LifecycleSpec
<1>1. Revaluations!Init => Revaluations!Register!Init
  BY DEF Revaluations!Init, Revaluations!Register!Init, Revaluations!Idle
<1>2. Revaluations!IInv /\ Revaluations!IInv' /\ [Revaluations!Next]_(Revaluations!vars)
        => [Revaluations!Register!Next]_<<[s \in {"student"} |-> mark],
                                         \E r \in Requests : reviews[r] # Revaluations!Idle>>
  BY RegisterStep
<1> QED BY <1>1, <1>2, RevaluationInvariance, PTL
        DEF Revaluations!Spec, LifecycleSpec, Revaluations!LifecycleSpec, Revaluations!Register!Spec

-----------------------------------------------------------------------------
(***************************************************************************)
(* The consolidated lists.  A sum over a set, a sorted list and the ranks  *)
(* down it are all what an induction over numbers says.  Here induction is *)
(* about a set of numbers, and rests on every such set having a least one. *)
(***************************************************************************)
LEMMA LeastNumber ==
    ASSUME NEW T \in SUBSET Nat, T # {}
    PROVE  \E n \in T : \A m \in T : n <= m
<1>1. PICK n \in T : \A m \in T : <<m, n>> \notin OpToRel(<, Nat)
  BY NatLessThanWellFounded, WFMin
<1>2. \A m \in T : ~(m < n)
  BY <1>1 DEF OpToRel
<1> QED BY <1>2

LEMMA Induction ==
    ASSUME NEW T \in SUBSET Nat, 0 \in T, \A n \in T : n + 1 \in T
    PROVE  T = Nat
<1> SUFFICES ASSUME T # Nat PROVE FALSE
  OBVIOUS
<1>1. PICK n \in Nat \ T : \A m \in Nat \ T : n <= m
  <2>1. Nat \ T \in SUBSET Nat /\ Nat \ T # {}
    OBVIOUS
  <2> QED BY <2>1, LeastNumber
<1>2. n - 1 \in Nat /\ n - 1 \notin T
  BY <1>1
<1> QED BY <1>1, <1>2

\* Sum is the function that adds up F over the subsets of a set, as the fold does.
AddsUp(sum, S, F) ==
    sum = [T \in SUBSET S |->
             IF T = {} THEN 0
             ELSE LET x == CHOOSE x \in T : TRUE IN F[x] + sum[T \ {x}]]

LEMMA SumExists ==
    ASSUME NEW S, IsFiniteSet(S), NEW F \in [S -> Nat]
    PROVE  \E sum : AddsUp(sum, S, F)
<1> DEFINE Small(n) == {T \in SUBSET S : Cardinality(T) <= n}
           any(T) == CHOOSE x \in T : TRUE
           Sums(g, n) == g = [T \in Small(n) |->
                                IF T = {} THEN 0 ELSE F[any(T)] + g[T \ {any(T)}]]
           good == {n \in Nat : \E g : Sums(g, n)}
<1>1. \A T \in SUBSET S : /\ IsFiniteSet(T) /\ Cardinality(T) \in Nat
                          /\ Cardinality(T) <= Cardinality(S)
                          /\ Cardinality(T) = 0 <=> T = {}
  BY FS_Subset, FS_CardinalityType, FS_EmptySet
<1>2. \A T \in SUBSET S : T # {} =>
        any(T) \in T /\ Cardinality(T \ {any(T)}) = Cardinality(T) - 1
  BY <1>1, FS_RemoveElement
<1> HIDE DEF any
<1>3. 0 \in good
  <2> DEFINE g == [T \in Small(0) |-> 0]
  <2>1. \A T \in Small(0) : T = {}
    BY <1>1
  <2>2. Sums(g, 0)
    BY <2>1
  <2> QED BY <2>2
<1>4. ASSUME NEW n \in good PROVE n + 1 \in good
  <2>1. PICK g : Sums(g, n)
    OBVIOUS
  <2> DEFINE h == [T \in Small(n + 1) |-> IF T = {} THEN 0 ELSE F[any(T)] + g[T \ {any(T)}]]
  <2>2. ASSUME NEW T \in Small(n + 1), T # {} PROVE h[T \ {any(T)}] = g[T \ {any(T)}]
    <3> DEFINE U == T \ {any(T)}
    <3>1. U \in Small(n) /\ U \in Small(n + 1)
      BY <1>1, <1>2, <2>2
    <3>2. g[U] = IF U = {} THEN 0 ELSE F[any(U)] + g[U \ {any(U)}]
      BY <2>1, <3>1
    <3> QED BY <3>1, <3>2
  <2> DEFINE k == [T \in Small(n + 1) |-> IF T = {} THEN 0 ELSE F[any(T)] + h[T \ {any(T)}]]
  <2>3. \A T \in Small(n + 1) : h[T] = k[T]
    BY <2>2
  <2>4. h = k
    BY <2>3
  <2>5. Sums(h, n + 1)
    BY <2>4
  <2> HIDE DEF Sums, h
  <2> QED BY <2>5
<1>5. Cardinality(S) \in good
  BY <1>1, <1>3, <1>4, Induction
<1>6. Small(Cardinality(S)) = SUBSET S
  BY <1>1
<1> QED BY <1>5, <1>6 DEF AddsUp, any

\* A sum of numbers is a number, and grows with what it adds up.
LEMMA SumGrows ==
    ASSUME NEW S, IsFiniteSet(S), NEW F \in [S -> Nat], NEW G \in [S -> Nat],
           \A x \in S : F[x] <= G[x],
           NEW f, AddsUp(f, S, F), NEW g, AddsUp(g, S, G)
    PROVE  f[S] \in Nat /\ g[S] \in Nat /\ f[S] <= g[S]
<1> DEFINE any(T) == CHOOSE x \in T : TRUE
           Grown(T) == f[T] \in Nat /\ g[T] \in Nat /\ f[T] <= g[T]
           good == {n \in Nat : \A T \in SUBSET S : Cardinality(T) = n => Grown(T)}
<1>1. \A T \in SUBSET S : /\ IsFiniteSet(T) /\ Cardinality(T) \in Nat
                          /\ Cardinality(T) = 0 <=> T = {}
  BY FS_Subset, FS_CardinalityType, FS_EmptySet
<1>2. \A T \in SUBSET S : T # {} =>
        any(T) \in T /\ Cardinality(T \ {any(T)}) = Cardinality(T) - 1
  BY <1>1, FS_RemoveElement
<1>3. \A T \in SUBSET S :
        /\ f[T] = IF T = {} THEN 0 ELSE F[any(T)] + f[T \ {any(T)}]
        /\ g[T] = IF T = {} THEN 0 ELSE G[any(T)] + g[T \ {any(T)}]
  BY DEF AddsUp
<1> HIDE DEF any
<1>4. 0 \in good
  BY <1>1, <1>3
<1>5. ASSUME NEW n \in good PROVE n + 1 \in good
  <2> SUFFICES ASSUME NEW T \in SUBSET S, Cardinality(T) = n + 1 PROVE Grown(T)
    OBVIOUS
  <2>1. T # {}
    BY <1>1
  <2>2. any(T) \in S /\ Grown(T \ {any(T)})
    BY <1>2, <2>1
  <2>3. F[any(T)] \in Nat /\ G[any(T)] \in Nat /\ F[any(T)] <= G[any(T)]
    BY <2>2
  <2>4. f[T] = F[any(T)] + f[T \ {any(T)}] /\ g[T] = G[any(T)] + g[T \ {any(T)}]
    BY <1>3, <2>1
  <2> QED BY <2>2, <2>3, <2>4
<1> HIDE DEF Grown
<1>6. good = Nat
  BY <1>4, <1>5, Induction
<1>7. Grown(S)
  BY <1>1, <1>6
<1> QED BY <1>7 DEF Grown

\* Finitely many rows can be sorted by a number that each has.
LEMMA SortExists ==
    ASSUME NEW S, IsFiniteSet(S), NEW p \in [S -> Int], \A x \in S : p[x] >= -1
    PROVE  \E row \in [1..Cardinality(S) -> S] :
              \A i, j \in 1..Cardinality(S) :
                 i < j => row[i] # row[j] /\ p[row[i]] >= p[row[j]]
<1> DEFINE Sorts(row, T, n) ==
             /\ row \in [1..n -> T]
             /\ \A i, j \in 1..n : i < j => row[i] # row[j] /\ p[row[i]] >= p[row[j]]
           good == {n \in Nat : \A T \in SUBSET S : Cardinality(T) = n => \E row : Sorts(row, T, n)}
<1>1. \A T \in SUBSET S : /\ IsFiniteSet(T) /\ Cardinality(T) \in Nat
                          /\ Cardinality(T) = 0 <=> T = {}
  BY FS_Subset, FS_CardinalityType, FS_EmptySet
<1>2. 0 \in good
  <2> SUFFICES ASSUME NEW T \in SUBSET S PROVE \E row : Sorts(row, T, 0)
    OBVIOUS
  <2>1. Sorts([i \in 1..0 |-> 0], T, 0)
    OBVIOUS
  <2> HIDE DEF Sorts
  <2> QED BY <2>1
<1>3. ASSUME NEW n \in good PROVE n + 1 \in good
  <2> SUFFICES ASSUME NEW T \in SUBSET S, Cardinality(T) = n + 1 PROVE \E row : Sorts(row, T, n + 1)
    OBVIOUS
  <2> DEFINE scores == {p[x] + 1 : x \in T}
  <2>1. scores \in SUBSET Nat /\ scores # {}
    BY <1>1
  <2>2. PICK y \in scores : \A x \in scores : y <= x
    BY <2>1, LeastNumber
  <2>3. PICK last \in T : y = p[last] + 1
    OBVIOUS
  <2>4. \A x \in T : p[last] <= p[x]
    <3> TAKE x \in T
    <3>1. p[x] \in Int /\ p[last] \in Int
      OBVIOUS
    <3>2. y <= p[x] + 1
      BY <2>2
    <3> QED BY <2>3, <3>1, <3>2
  <2>5. Cardinality(T \ {last}) = n /\ T \ {last} \in SUBSET S
    <3>1. IsFiniteSet(T) /\ last \in T
      BY <1>1
    <3>2. Cardinality(T \ {last}) = (n + 1) - 1
      BY <3>1, FS_RemoveElement
    <3> QED BY <3>2
  <2>6. PICK row : Sorts(row, T \ {last}, n)
    BY <2>5
  <2> DEFINE longer == [i \in 1..(n + 1) |-> IF i = n + 1 THEN last ELSE row[i]]
  <2>7. ASSUME NEW i \in 1..(n + 1)
        PROVE  /\ i # n + 1 => i \in 1..n /\ longer[i] = row[i] /\ row[i] \in T \ {last}
               /\ i = n + 1 => longer[i] = last
    BY <2>6
  <2>8. longer \in [1..(n + 1) -> T]
    BY <2>3, <2>7
  <2>9. ASSUME NEW i \in 1..(n + 1), NEW j \in 1..(n + 1), i < j
        PROVE  longer[i] # longer[j] /\ p[longer[i]] >= p[longer[j]]
    <3>1. i \in 1..n /\ longer[i] = row[i] /\ row[i] \in T \ {last}
      BY <2>7, <2>9
    <3>2. CASE j = n + 1
      BY <2>4, <2>7, <3>1, <3>2
    <3>3. CASE j # n + 1
      BY <2>6, <2>7, <2>9, <3>1, <3>3
    <3> QED BY <3>2, <3>3
  <2>10. Sorts(longer, T, n + 1)
    BY <2>8, <2>9
  <2> HIDE DEF Sorts, longer
  <2> QED BY <2>10
<1> HIDE DEF Sorts
<1>4. good = Nat
  BY <1>2, <1>3, Induction
<1>5. \E row : Sorts(row, S, Cardinality(S))
  BY <1>1, <1>4
<1> QED BY <1>5 DEF Sorts

\* One more than the number of better percents above.
PlaceOf(P, n, i) ==
    IF P[i] = Lists!NoScore THEN Lists!NoScore ELSE 1 + Cardinality({j \in 1..n : P[j] > P[i]})

\* Down a sorted list, the places that a tie repeats are those with the better ones above.
LEMMA RanksDown ==
    ASSUME NEW n \in Nat, NEW P \in [1..n -> Int],
           \A i, j \in 1..n : i < j => P[i] >= P[j], \A i \in 1..n : P[i] >= -1
    PROVE  \A i \in 1..n : Lists!RankedAt(P)[i] = PlaceOf(P, n, i)
<1> DEFINE Tied(rank) == [i \in 1..n |->
             IF P[i] = Lists!NoScore THEN Lists!NoScore
             ELSE IF i > 1 /\ P[i] = P[i - 1] THEN rank[i - 1] ELSE i]
           better(i) == {j \in 1..n : P[j] > P[i]}
           ranks == [i \in 1..n |-> PlaceOf(P, n, i)]
<1>1. Len(P) = n
  <2>1. P \in Seq(Int)
    BY SeqDef
  <2> QED BY <2>1, LenProperties
<1>2. \A i \in 1..n : P[i] \in Int
  OBVIOUS
<1>3. ASSUME NEW i \in 1..n, i = 1 \/ P[i] # P[i - 1]
      PROVE  better(i) = 1..(i - 1) /\ Cardinality(better(i)) = i - 1
  <2>1. ASSUME i # 1 PROVE i - 1 \in 1..n /\ P[i - 1] > P[i]
    BY <1>2, <1>3, <2>1
  <2>2. \A j \in 1..n : j < i => P[j] > P[i]
    <3> SUFFICES ASSUME NEW j \in 1..n, j < i PROVE P[j] > P[i]
      OBVIOUS
    <3>1. i - 1 \in 1..n /\ P[i - 1] > P[i] /\ j <= i - 1
      BY <2>1
    <3>2. P[j] >= P[i - 1]
      BY <1>2, <3>1
    <3> QED BY <1>2, <3>1, <3>2
  <2>3. \A j \in 1..n : j >= i => ~(P[j] > P[i])
    BY <1>2
  <2>4. better(i) = 1..(i - 1)
    BY <2>2, <2>3
  <2>5. Cardinality(1..(i - 1)) = IF 1 > i - 1 THEN 0 ELSE (i - 1) - 1 + 1
    BY FS_Interval
  <2>6. Cardinality(1..(i - 1)) = i - 1
    BY <2>5
  <2> HIDE DEF better
  <2> QED BY <2>4, <2>6
<1>4. ASSUME NEW i \in 1..n, i > 1, P[i] = P[i - 1] PROVE better(i) = better(i - 1)
  BY <1>4
<1> HIDE DEF better
<1>5. \A i \in 1..n : ranks[i] = IF P[i] = Lists!NoScore THEN Lists!NoScore ELSE 1 + Cardinality(better(i))
  BY DEF PlaceOf, better
<1>6. ASSUME NEW i \in 1..n PROVE ranks[i] = Tied(ranks)[i]
  <2>1. CASE P[i] = Lists!NoScore
    BY <1>5, <2>1
  <2>2. CASE P[i] # Lists!NoScore /\ i > 1 /\ P[i] = P[i - 1]
    <3>1. i - 1 \in 1..n
      BY <2>2
    <3> QED BY <1>4, <1>5, <2>2, <3>1
  <2>3. CASE P[i] # Lists!NoScore /\ ~(i > 1 /\ P[i] = P[i - 1])
    <3>1. Cardinality(better(i)) = i - 1
      BY <1>3, <2>3
    <3> QED BY <1>5, <2>3, <3>1
  <2> QED BY <2>1, <2>2, <2>3
<1>7. ranks = Tied(ranks)
  BY <1>6
<1> DEFINE chosen == CHOOSE rank : rank = Tied(rank)
<1>8. chosen = Tied(chosen)
  BY <1>7
<1>9. Lists!RankedAt(P) = chosen
  BY <1>1 DEF Lists!RankedAt
<1> HIDE DEF ranks, chosen
<1> DEFINE good == {i \in Nat : i \in 1..n => chosen[i] = ranks[i]}
<1>10. 0 \in good
  OBVIOUS
<1>11. ASSUME NEW i \in good PROVE i + 1 \in good
  <2> SUFFICES ASSUME i + 1 \in 1..n PROVE chosen[i + 1] = ranks[i + 1]
    OBVIOUS
  <2>1. CASE i = 0
    BY <1>7, <1>8, <2>1
  <2>2. CASE i # 0
    <3>1. i \in 1..n /\ chosen[i] = ranks[i]
      BY <2>2
    <3> QED BY <1>7, <1>8, <3>1
  <2> QED BY <2>1, <2>2
<1>12. good = Nat
  BY <1>10, <1>11, Induction
<1>13. \A i \in 1..n : i \in good
  BY <1>12
<1>14. \A i \in 1..n : ranks[i] = PlaceOf(P, n, i)
  BY DEF ranks
<1> QED BY <1>9, <1>13, <1>14

\* The lists, and what they are read from.
LEMMA SameCardinality == \A S : Lists!Cardinality(S) = Cardinality(S)
BY DEF Cardinality, Lists!Cardinality

LEMMA Quotients ==
    ASSUME NEW a \in Nat, NEW b \in Nat, NEW c \in Nat \ {0}
    PROVE  a \div c \in Nat /\ (a <= b => a \div c <= b \div c)
OBVIOUS

LEMMA TenthsGrow ==
    ASSUME NEW a \in Nat, NEW b \in Nat, NEW c \in Nat \ {0}
    PROVE  Lists!Tenths(a, c) \in Nat /\ (a <= b => Lists!Tenths(a, c) <= Lists!Tenths(b, c))
<1>1. 20 * a + c \in Nat /\ 20 * b + c \in Nat /\ 2 * c \in Nat \ {0}
  OBVIOUS
<1>2. a <= b => 20 * a + c <= 20 * b + c
  OBVIOUS
<1> QED BY <1>1, <1>2, Quotients DEF Lists!Tenths

\* Marks and enrolments are of the students and subjects that there are, whatever the
\* register and the records do with them.
THEOREM ListInvariance == Lists!Spec => []Lists!TypeOK
<1>1. Lists!Init => Lists!TypeOK
  BY ListAssumption DEF Lists!Init, Lists!TypeOK, Lists!Subjects
<1>2. Lists!TypeOK /\ [Lists!Next]_(Lists!vars) => Lists!TypeOK'
  <2> SUFFICES ASSUME Lists!TypeOK, [Lists!Next]_(Lists!vars) PROVE Lists!TypeOK'
    OBVIOUS
  <2> USE DEF Lists!TypeOK
  <2>1. CASE UNCHANGED Lists!vars
    BY <2>1 DEF Lists!vars
  <2>2. ASSUME NEW s \in section.students, NEW sub \in section.subjects, Lists!Enter(s, sub)
        PROVE  Lists!TypeOK'
    BY <2>2 DEF Lists!Enter, Lists!Mark
  <2>3. ASSUME NEW s \in section.students, NEW sub \in section.subjects, Lists!Erase(s, sub)
        PROVE  Lists!TypeOK'
    BY <2>3 DEF Lists!Erase
  <2>4. ASSUME NEW sub \in section.subjects, NEW from, NEW to \in {"DRAFT", "SUBMITTED", "APPROVED"},
               Lists!Moves(sub, from, to)
        PROVE  Lists!TypeOK'
    <3>1. ASSUME NEW s \in Lists!WithStatus(Pupils, sub, from)
          PROVE  [marks[s] EXCEPT ![sub].status = to] \in [Lists!Subjects -> Lists!Mark \cup {NoMark}]
      <4>1. marks[s][sub] \in Lists!Mark
        BY DEF Lists!WithStatus, Lists!Has
      <4>2. [marks[s][sub] EXCEPT !.status = to] \in Lists!Mark
        BY <4>1 DEF Lists!Mark
      <4> QED BY <4>2 DEF Lists!WithStatus
    <3> QED BY <2>4, <3>1 DEF Lists!Moves
  <2>5. ASSUME NEW sub \in Electives \cap section.subjects, Lists!Enrol(sub)
        PROVE  Lists!TypeOK'
    BY <2>5 DEF Lists!Enrol
  <2> QED BY <2>1, <2>2, <2>3, <2>4, <2>5 DEF Lists!Next
<1> QED BY <1>1, <1>2, PTL DEF Lists!Spec

\* A list that is ready lacks no mark and has none that leadership has not approved.
THEOREM ReadyIsApproved == Lists!Spec => []ReadyMeansApproved
<1>1. Lists!TypeOK => ReadyMeansApproved
  <2> SUFFICES ASSUME Lists!TypeOK, Lists!Ready, NEW s \in section.students,
                      NEW sub \in section.subjects, Lists!Takes(s, sub)
               PROVE  Lists!Has(s, sub) /\ marks[s][sub].status = "APPROVED"
    BY DEF ReadyMeansApproved, Lists!ReadyMeansApproved
  <2> DEFINE expected == Lists!Expected(sub)
             approved == Lists!WithStatus(expected, sub, "APPROVED")
  <2>1. IsFiniteSet(expected)
    <3>1. expected \in SUBSET Pupils
      BY DEF Lists!Expected, Lists!TypeOK
    <3> QED BY <3>1, ListAssumption, FS_Subset
  <2>2. approved \in SUBSET expected
    BY DEF Lists!WithStatus
  <2>3. Cardinality(approved) = Cardinality(expected)
    BY SameCardinality DEF Lists!Ready, Lists!Complete, Lists!Approved
  <2>4. approved = expected
    BY <2>1, <2>2, <2>3, FS_Subset
  <2> QED BY <2>4 DEF Lists!Expected, Lists!WithStatus
<1> QED BY <1>1, ListInvariance, PTL

-----------------------------------------------------------------------------
\* What a student's papers count for, and their sum.
Papers(s) == [sub \in Lists!Counted(s) |-> Lists!Scaled(s, sub)]
Obtained(s) == Lists!MapThenSumSet(LAMBDA sub : Lists!Scaled(s, sub), Lists!Counted(s))
OutOf(s) == Ceiling * Cardinality(Lists!Counted(s))

Totalled(s) ==
    \E sum : AddsUp(sum, Lists!Counted(s), Papers(s)) /\ Obtained(s) = sum[Lists!Counted(s)]

Added(s) ==
    /\ IsFiniteSet(Lists!Counted(s)) /\ OutOf(s) \in Nat
    /\ Papers(s) \in [Lists!Counted(s) -> Nat]
    /\ Totalled(s)
    /\ Obtained(s) \in Nat
    /\ Lists!Percent(s) \in Int /\ -1 <= Lists!Percent(s) /\ Lists!Percent(s) <= 1000
    /\ Lists!Percent(s) = IF OutOf(s) = 0 THEN -1
                          ELSE Lists!AtMost(Lists!Tenths(10 * Obtained(s), OutOf(s)), 1000)

AllAdded == \A s \in section.students : Added(s)

LEMMA PercentsAdded == Lists!TypeOK => AllAdded
<1> SUFFICES ASSUME Lists!TypeOK, NEW s \in section.students PROVE Added(s)
  BY DEF AllAdded
<1> DEFINE counted == Lists!Counted(s)
<1>1. counted \in SUBSET (Core \cup Electives) /\ s \in Pupils
  BY DEF Lists!Counted, Lists!TypeOK, Lists!Subjects
<1>2. IsFiniteSet(counted) /\ Cardinality(counted) \in Nat
  BY <1>1, ListAssumption, FS_Subset, FS_CardinalityType
<1>3. OutOf(s) \in Nat
  BY <1>2, ListAssumption DEF OutOf
<1>4. ASSUME NEW sub \in counted PROVE Lists!Scaled(s, sub) \in Nat
  <2>1. marks[s][sub] \in Lists!Mark /\ marks[s][sub].score # Lists!NoScore
    BY <1>1 DEF Lists!Counted, Lists!Has, Lists!TypeOK, Lists!Subjects
  <2>2. marks[s][sub].score \in Nat
    BY <2>1, ListAssumption DEF Lists!Mark
  <2>3. marks[s][sub].score * Ceiling \in Nat /\ EntryMax[sub] \in Nat \ {0} /\ 10 * Ceiling \in Nat
    BY <1>1, <2>2, ListAssumption
  <2>4. Lists!Tenths(marks[s][sub].score * Ceiling, EntryMax[sub]) \in Nat
    BY <2>3, TenthsGrow
  <2> QED BY <2>3, <2>4 DEF Lists!Scaled, Lists!AtMost
<1>5. Papers(s) \in [counted -> Nat]
  BY <1>4 DEF Papers
<1> DEFINE Scales(sum) == [T \in SUBSET counted |->
                             IF T = {} THEN 0
                             ELSE LET x == CHOOSE x \in T : TRUE
                                  IN  Lists!Scaled(s, x) + sum[T \ {x}]]
           Sums(sum) == sum = Scales(sum)
<1>6. ASSUME NEW sum PROVE Sums(sum) <=> AddsUp(sum, counted, Papers(s))
  <2>1. ASSUME NEW T \in SUBSET counted, T # {}
        PROVE  Papers(s)[CHOOSE x \in T : TRUE] = Lists!Scaled(s, CHOOSE x \in T : TRUE)
    <3>1. (CHOOSE x \in T : TRUE) \in counted
      BY <2>1
    <3> QED BY <3>1 DEF Papers
  <2> DEFINE adds == [T \in SUBSET counted |->
                        IF T = {} THEN 0
                        ELSE LET x == CHOOSE x \in T : TRUE
                             IN  Papers(s)[x] + sum[T \ {x}]]
  <2>2. \A T \in SUBSET counted : Scales(sum)[T] = adds[T]
    BY <2>1
  <2>3. Scales(sum) = adds
    BY <2>2
  <2>4. AddsUp(sum, counted, Papers(s)) <=> sum = adds
    BY DEF AddsUp
  <2> HIDE DEF Scales, adds
  <2> QED BY <2>3, <2>4
<1>7. \E sum : Sums(sum)
  <2>1. PICK sum : AddsUp(sum, counted, Papers(s))
    BY <1>2, <1>5, SumExists
  <2> HIDE DEF Sums
  <2> QED BY <1>6, <2>1
<1> DEFINE chosen == CHOOSE sum : Sums(sum)
<1>8. Sums(chosen)
  BY <1>7
<1>9. Obtained(s) = chosen[counted]
  BY DEF Obtained, Lists!MapThenSumSet, Lists!MapThenFoldSet
<1> HIDE DEF chosen, Sums
<1>10. AddsUp(chosen, counted, Papers(s))
  BY <1>6, <1>8
<1>11. Obtained(s) \in Nat
  <2>1. \A x \in counted : Papers(s)[x] <= Papers(s)[x]
    BY <1>5
  <2> QED BY <1>2, <1>5, <1>9, <1>10, <2>1, SumGrows
<1>12. Lists!Percent(s) = IF OutOf(s) = 0 THEN -1
                          ELSE Lists!AtMost(Lists!Tenths(10 * Obtained(s), OutOf(s)), 1000)
  BY SameCardinality DEF Lists!Percent, Obtained, OutOf, Lists!NoScore
<1>13. OutOf(s) # 0 => Lists!Tenths(10 * Obtained(s), OutOf(s)) \in Nat
  BY <1>3, <1>11, TenthsGrow
<1>14. Lists!Percent(s) \in Int /\ -1 <= Lists!Percent(s) /\ Lists!Percent(s) <= 1000
  BY <1>12, <1>13 DEF Lists!AtMost
<1>15. Totalled(s)
  BY <1>9, <1>10 DEF Totalled
<1> QED BY <1>2, <1>3, <1>5, <1>11, <1>12, <1>14, <1>15 DEF Added

Better(s) == {t \in section.students : Lists!Percent(t) > Lists!Percent(s)}

\* A student's rank is one more than the number of students with a higher percent.
LEMMA RanksCount == Lists!TypeOK => RanksAsDefined
<1> SUFFICES ASSUME Lists!TypeOK PROVE RanksAsDefined
  OBVIOUS
<1> DEFINE S == section.students
           n == Lists!Cardinality(S)
           percent == [s \in S |-> Lists!Percent(s)]
           Sorted(row) == \A i, j \in 1..n :
                             i < j => row[i] # row[j] /\ percent[row[i]] >= percent[row[j]]
           sorted == CHOOSE row \in [1..n -> S] : Sorted(row)
           down == [i \in 1..n |-> percent[sorted[i]]]
<1>1. IsFiniteSet(S) /\ n = Cardinality(S) /\ n \in Nat
  <2>1. S \in SUBSET Pupils
    BY DEF Lists!TypeOK
  <2> QED BY <2>1, ListAssumption, FS_Subset, FS_CardinalityType, SameCardinality
<1> HIDE DEF n
<1>2. percent \in [S -> Int] /\ \A s \in S : percent[s] >= -1
  BY PercentsAdded DEF AllAdded, Added
<1> HIDE DEF percent
<1>3. \E row \in [1..n -> S] : Sorted(row)
  BY <1>1, <1>2, SortExists
<1> HIDE DEF Sorted
<1>4. sorted \in [1..n -> S] /\ Sorted(sorted)
  BY <1>3
<1> HIDE DEF sorted
<1>5. down \in [1..n -> Int] /\ \A i \in 1..n : down[i] = percent[sorted[i]] /\ down[i] >= -1
  BY <1>2, <1>4
<1>6. \A i, j \in 1..n : i < j => down[i] >= down[j]
  BY <1>4, <1>5 DEF Sorted
<1> HIDE DEF down
<1>7. \A i \in 1..n : Lists!RankedAt(down)[i] = PlaceOf(down, n, i)
  BY <1>1, <1>5, <1>6, RanksDown
<1>8. Lists!Ranks = [s \in S |-> Lists!RankedAt(down)[CHOOSE i \in 1..n : sorted[i] = s]]
  BY DEF Lists!Ranks, n, percent, Sorted, sorted, down
<1>9. sorted \in Bijection(1..n, S)
  <2>1. \A i, j \in 1..n : i # j => sorted[i] # sorted[j]
    <3> SUFFICES ASSUME NEW i \in 1..n, NEW j \in 1..n, i # j PROVE sorted[i] # sorted[j]
      OBVIOUS
    <3>1. i < j \/ j < i
      OBVIOUS
    <3> QED BY <1>4, <3>1 DEF Sorted
  <2>2. sorted \in Injection(1..n, S)
    BY <1>4, <2>1 DEF Injection, IsInjective
  <2>3. IsFiniteSet(1..n) /\ Cardinality(1..n) = n
    BY <1>1, FS_Interval
  <2>4. sorted \in Surjection(1..n, S)
    BY <1>1, <2>2, <2>3, FS_Injection
  <2> QED BY <2>2, <2>4 DEF Bijection
<1>10. ASSUME NEW s \in S
       PROVE  Lists!Ranks[s] = IF percent[s] = Lists!NoScore THEN Lists!NoScore
                               ELSE 1 + Cardinality({t \in S : percent[t] > percent[s]})
  <2>1. PICK i \in 1..n : sorted[i] = s /\ Lists!Ranks[s] = Lists!RankedAt(down)[i]
    <3>1. \E i \in 1..n : sorted[i] = s
      BY <1>9 DEF Bijection, Surjection
    <3> QED BY <1>8, <3>1
  <2> DEFINE above == {j \in 1..n : down[j] > down[i]}
             better == {t \in S : percent[t] > percent[s]}
             among == [j \in above |-> sorted[j]]
  <2>2. IsFiniteSet(1..n)
    BY <1>1, FS_Interval
  <2>3. IsFiniteSet(above)
    BY <2>2, FS_Subset
  <2>4. \A j \in above : sorted[j] \in better
    BY <1>4, <1>5, <2>1
  <2>5. \A t \in better : \E j \in above : sorted[j] = t
    BY <1>5, <1>9, <2>1 DEF Bijection, Surjection
  <2>6. \A j, k \in above : sorted[j] = sorted[k] => j = k
    BY <1>9 DEF Bijection, Injection, IsInjective
  <2>7. among \in Bijection(above, better)
    BY <2>4, <2>5, <2>6 DEF Bijection, Injection, Surjection, IsInjective
  <2>8. Cardinality(above) = Cardinality(better)
    BY <2>3, <2>7, FS_Bijection DEF ExistsBijection
  <2> QED BY <1>5, <1>7, <2>1, <2>8 DEF PlaceOf
<1> QED BY <1>10, SameCardinality DEF percent, RanksAsDefined, Lists!RanksAsDefined

\* Whatever marks are entered, a rank on the list is one more than the number of students
\* with a higher percent, ties share it, and nobody without a percent has one.
THEOREM RanksDefined == Lists!Spec => []RanksAsDefined
BY ListInvariance, RanksCount, PTL

-----------------------------------------------------------------------------
\* The place of a percent's grade in the bands, or 0 when there is no percent.
GradeOf(p) ==
    IF p >= 900 THEN 1 ELSE IF p >= 800 THEN 2 ELSE IF p >= 700 THEN 3
    ELSE IF p >= 600 THEN 4 ELSE IF p >= 500 THEN 5 ELSE IF p >= 0 THEN 6 ELSE 0

LEMMA GradesAreOf == Lists!TypeOK => \A s \in section.students : Lists!Grade(s) = GradeOf(Lists!Percent(s))
<1> SUFFICES ASSUME Lists!TypeOK, NEW s \in section.students PROVE Lists!Grade(s) = GradeOf(Lists!Percent(s))
  OBVIOUS
<1> DEFINE p == Lists!Percent(s)
           bands == Lists!GradeBands
           met == {i \in 1..Len(bands) : p >= bands[i]}
           k == GradeOf(p)
<1>1. p \in Int /\ -1 <= p
  BY PercentsAdded DEF AllAdded, Added
<1>2. Lists!Grade(s) = IF met # {} THEN Lists!Min(met) ELSE 0
  BY DEF Lists!Grade, Lists!SelectInSeq
<1> HIDE DEF p
<1>3. /\ Len(bands) = 6
      /\ bands[1] = 900 /\ bands[2] = 800 /\ bands[3] = 700
      /\ bands[4] = 600 /\ bands[5] = 500 /\ bands[6] = 0
  BY DEF Lists!GradeBands
<1> HIDE DEF bands
<1>4. k \in 0..6 /\ (k = 0 <=> p < 0)
  BY <1>1 DEF GradeOf
<1>5. ASSUME NEW i \in 1..6 PROVE p >= bands[i] <=> k # 0 /\ k <= i
  <2>1. i = 1 \/ i = 2 \/ i = 3 \/ i = 4 \/ i = 5 \/ i = 6
    OBVIOUS
  <2> QED BY <1>1, <1>3, <2>1 DEF GradeOf
<1> HIDE DEF k
<1>6. met = IF k = 0 THEN {} ELSE k..6
  BY <1>3, <1>4, <1>5
<1>7. k # 0 => Lists!Min(k..6) = k
  BY <1>4 DEF Lists!Min
<1>8. k # 0 => k \in k..6
  BY <1>4
<1> QED BY <1>2, <1>6, <1>7, <1>8 DEF k, p

\* With the same papers counted, and none for less, a percent does not fall.
LEMMA PercentGrows ==
    ASSUME NEW s, Added(s), Added(s)', Lists!Counted(s)' = Lists!Counted(s)
    PROVE  /\ (\A x \in Lists!Counted(s) : Papers(s)[x] <= Papers(s)'[x]) =>
                 Lists!Percent(s) <= Lists!Percent(s)'
           /\ (\A x \in Lists!Counted(s) : Papers(s)'[x] <= Papers(s)[x]) =>
                 Lists!Percent(s)' <= Lists!Percent(s)
           /\ Lists!Percent(s) = -1 <=> Lists!Percent(s)' = -1
<1> DEFINE S == Lists!Counted(s)
           out == OutOf(s)
           Scored(n) == IF out = 0 THEN -1 ELSE Lists!AtMost(Lists!Tenths(10 * n, out), 1000)
<1>1. ASSUME NEW a \in Nat, NEW b \in Nat
      PROVE  (a <= b => Scored(a) <= Scored(b)) /\ (Scored(a) = -1 <=> out = 0)
  <2>1. CASE out = 0
    BY <2>1
  <2>2. CASE out # 0
    <3>1. out \in Nat \ {0} /\ 10 * a \in Nat /\ 10 * b \in Nat /\ (a <= b => 10 * a <= 10 * b)
      BY <2>2 DEF Added
    <3>2. /\ Lists!Tenths(10 * a, out) \in Nat /\ Lists!Tenths(10 * b, out) \in Nat
          /\ a <= b => Lists!Tenths(10 * a, out) <= Lists!Tenths(10 * b, out)
      BY <3>1, TenthsGrow
    <3> QED BY <2>2, <3>2 DEF Lists!AtMost
  <2> QED BY <2>1, <2>2
<1>2. out' = out
  BY DEF OutOf
<1>3. /\ Obtained(s) \in Nat /\ Obtained(s)' \in Nat
      /\ Lists!Percent(s) = Scored(Obtained(s)) /\ Lists!Percent(s)' = Scored(Obtained(s)')
  BY <1>2 DEF Added
<1>4. PICK f, g : /\ AddsUp(f, S, Papers(s)) /\ Obtained(s) = f[S]
                  /\ AddsUp(g, S, Papers(s)') /\ Obtained(s)' = g[S]
  <2>1. Totalled(s) /\ Totalled(s)'
    BY DEF Added
  <2>2. PICK f : AddsUp(f, S, Papers(s)) /\ Obtained(s) = f[S]
    BY <2>1 DEF Totalled
  <2>3. PICK g : AddsUp(g, S, Papers(s)') /\ Obtained(s)' = g[S]
    BY <2>1 DEF Totalled, AddsUp
  <2> QED BY <2>2, <2>3
<1>5. IsFiniteSet(S) /\ Papers(s) \in [S -> Nat] /\ Papers(s)' \in [S -> Nat]
  BY DEF Added
<1>6. (\A x \in S : Papers(s)[x] <= Papers(s)'[x]) => Obtained(s) <= Obtained(s)'
  BY <1>4, <1>5, SumGrows
<1>7. (\A x \in S : Papers(s)'[x] <= Papers(s)[x]) => Obtained(s)' <= Obtained(s)
  BY <1>4, <1>5, SumGrows
<1> HIDE DEF Scored, S
<1> QED BY <1>1, <1>3, <1>6, <1>7 DEF S

\* A step in which a score rises is the entry of that mark, and changes no other.
LEMMA RaiseIsEntry ==
    ASSUME Lists!TypeOK, Lists!Next, NEW s \in section.students, NEW sub \in section.subjects,
           Lists!Has(s, sub), marks[s][sub].score # Lists!NoScore,
           marks'[s][sub] # NoMark, marks'[s][sub].score > marks[s][sub].score
    PROVE  /\ section' = section
           /\ \A t \in Pupils, x \in Core \cup Electives :
                 <<t, x>> # <<s, sub>> => marks'[t][x] = marks[t][x]
<1>1. marks[s][sub] \in Lists!Mark /\ marks[s][sub].score \in Nat
  <2>1. marks[s][sub] \in Lists!Mark
    BY DEF Lists!Has, Lists!TypeOK, Lists!Subjects
  <2> QED BY <2>1, ListAssumption DEF Lists!Mark
<1>2. ~(marks'[s][sub].score = marks[s][sub].score)
  BY <1>1
<1>3. ASSUME NEW t \in section.students, NEW x \in section.subjects, Lists!Enter(t, x)
      PROVE  /\ section' = section
             /\ \A u \in Pupils, y \in Core \cup Electives :
                   <<u, y>> # <<s, sub>> => marks'[u][y] = marks[u][y]
  <2>1. \A u \in Pupils, y \in Core \cup Electives :
           <<u, y>> # <<t, x>> => marks'[u][y] = marks[u][y]
    BY <1>3 DEF Lists!Enter, Lists!TypeOK, Lists!Subjects
  <2>2. s \in Pupils /\ sub \in Core \cup Electives
    BY DEF Lists!TypeOK, Lists!Subjects
  <2>3. t = s /\ x = sub
    BY <1>2, <2>1, <2>2
  <2> QED BY <1>3, <2>1, <2>3 DEF Lists!Enter
<1>4. ASSUME NEW t \in section.students, NEW x \in section.subjects, Lists!Erase(t, x) PROVE FALSE
  BY <1>2, <1>4 DEF Lists!Erase, Lists!TypeOK, Lists!Subjects
<1>5. ASSUME NEW x \in section.subjects, NEW from, NEW to, Lists!Moves(x, from, to) PROVE FALSE
  <2>1. s \in Pupils
    BY DEF Lists!TypeOK
  <2>2. marks'[s] = IF s \in Lists!WithStatus(Pupils, x, from)
                    THEN [marks[s] EXCEPT ![x].status = to] ELSE marks[s]
    BY <1>5, <2>1 DEF Lists!Moves
  <2>3. marks[s] \in [Lists!Subjects -> Lists!Mark \cup {NoMark}] /\ sub \in Lists!Subjects
    BY <2>1 DEF Lists!TypeOK
  <2>4. [marks[s][sub] EXCEPT !.status = to].score = marks[s][sub].score
    BY <1>1 DEF Lists!Mark
  <2> QED BY <1>2, <2>2, <2>3, <2>4
<1>6. ASSUME NEW x, Lists!Enrol(x) PROVE FALSE
  BY <1>2, <1>6 DEF Lists!Enrol
<1> QED BY <1>3, <1>4, <1>5, <1>6 DEF Lists!Next

\* What the list says of everyone, when one score has risen.
LEMMA RaisedPercents ==
    ASSUME Lists!TypeOK, Lists!TypeOK', Lists!Next,
           NEW s \in section.students, NEW sub \in section.subjects,
           Lists!Has(s, sub), marks[s][sub].score # Lists!NoScore,
           marks'[s][sub] # NoMark, marks'[s][sub].score > marks[s][sub].score,
           enrolled' = enrolled
    PROVE  /\ Lists!Percent(s) <= Lists!Percent(s)'
           /\ Lists!Percent(s) = -1 <=> Lists!Percent(s)' = -1
           /\ \A t \in section.students \ {s} : Lists!Percent(t)' = Lists!Percent(t)
<1>1. /\ section' = section
      /\ \A t \in Pupils, x \in Core \cup Electives :
            <<t, x>> # <<s, sub>> => marks'[t][x] = marks[t][x]
  BY RaiseIsEntry
<1>2. section.students \subseteq Pupils /\ section.subjects \subseteq Core \cup Electives
  BY DEF Lists!TypeOK, Lists!Subjects
<1>3. /\ marks[s][sub] \in Lists!Mark /\ marks[s][sub].score \in Nat
      /\ marks'[s][sub] \in Lists!Mark /\ marks'[s][sub].score \in Nat
  <2>1. marks[s][sub] \in Lists!Mark /\ marks'[s][sub] \in Lists!Mark
    BY <1>1, <1>2 DEF Lists!Has, Lists!TypeOK, Lists!Subjects
  <2>2. marks[s][sub].score \in Nat
    BY <2>1, ListAssumption DEF Lists!Mark
  <2>3. marks'[s][sub].score \in Nat \cup {-1}
    BY <2>1, ListAssumption DEF Lists!Mark, Lists!NoScore
  <2> QED BY <2>1, <2>2, <2>3
<1>4. AllAdded'
  BY PercentsAdded, PTL
<1>5. \A t \in section.students : Added(t) /\ Added(t)'
  BY <1>1, <1>4, PercentsAdded DEF AllAdded
<1>6. \A t \in section.students : Lists!Counted(t)' = Lists!Counted(t)
  <2> SUFFICES ASSUME NEW t \in section.students, NEW x \in section.subjects
               PROVE  /\ Lists!Takes(t, x)' <=> Lists!Takes(t, x)
                      /\ Lists!Has(t, x)' /\ marks'[t][x].score # Lists!NoScore <=>
                         Lists!Has(t, x) /\ marks[t][x].score # Lists!NoScore
    BY <1>1 DEF Lists!Counted
  <2>1. Lists!Takes(t, x)' <=> Lists!Takes(t, x)
    BY DEF Lists!Takes
  <2>2. CASE <<t, x>> = <<s, sub>>
    BY <1>3, <2>1, <2>2 DEF Lists!Has, Lists!NoScore
  <2>3. CASE <<t, x>> # <<s, sub>>
    BY <1>1, <1>2, <2>1, <2>3 DEF Lists!Has
  <2> QED BY <2>2, <2>3, <2>1
<1>7. ASSUME NEW t \in section.students, NEW x \in Lists!Counted(t)
      PROVE  /\ Papers(t)[x] = Lists!Scaled(t, x) /\ Papers(t)'[x] = Lists!Scaled(t, x)'
             /\ <<t, x>> # <<s, sub>> => Lists!Scaled(t, x)' = Lists!Scaled(t, x)
  <2>1. x \in Core \cup Electives /\ t \in Pupils
    BY <1>2 DEF Lists!Counted
  <2>2. Papers(t)[x] = Lists!Scaled(t, x)
    BY DEF Papers
  <2>3. Papers(t)'[x] = Lists!Scaled(t, x)'
    BY <1>6 DEF Papers
  <2>4. <<t, x>> # <<s, sub>> => marks'[t][x] = marks[t][x]
    BY <1>1, <2>1
  <2> QED BY <2>2, <2>3, <2>4 DEF Lists!Scaled
<1>8. Lists!Scaled(s, sub) <= Lists!Scaled(s, sub)'
  <2> DEFINE a == marks[s][sub].score * Ceiling
             b == marks'[s][sub].score * Ceiling
  <2>1. a \in Nat /\ b \in Nat /\ a <= b /\ EntryMax[sub] \in Nat \ {0} /\ 10 * Ceiling \in Nat
    BY <1>2, <1>3, ListAssumption
  <2> HIDE DEF a, b
  <2>2. /\ Lists!Tenths(a, EntryMax[sub]) \in Nat /\ Lists!Tenths(b, EntryMax[sub]) \in Nat
        /\ Lists!Tenths(a, EntryMax[sub]) <= Lists!Tenths(b, EntryMax[sub])
    BY <2>1, TenthsGrow
  <2>3. /\ Lists!Scaled(s, sub) = Lists!AtMost(Lists!Tenths(a, EntryMax[sub]), 10 * Ceiling)
        /\ Lists!Scaled(s, sub)' = Lists!AtMost(Lists!Tenths(b, EntryMax[sub]), 10 * Ceiling)
    BY DEF Lists!Scaled, a, b
  <2> QED BY <2>1, <2>2, <2>3 DEF Lists!AtMost
<1>9. \A t \in section.students : \A x \in Lists!Counted(t) : Papers(t)[x] \in Nat /\ Papers(t)'[x] \in Nat
  BY <1>5, <1>6 DEF Added
<1>10. \A x \in Lists!Counted(s) : Papers(s)[x] <= Papers(s)'[x]
  BY <1>7, <1>8, <1>9
<1>11. \A t \in section.students \ {s} : \A x \in Lists!Counted(t) : Papers(t)[x] = Papers(t)'[x]
  BY <1>7
<1>12. Lists!Percent(s) <= Lists!Percent(s)' /\ (Lists!Percent(s) = -1 <=> Lists!Percent(s)' = -1)
  BY <1>5, <1>6, <1>10, PercentGrows
<1>13. ASSUME NEW t \in section.students \ {s} PROVE Lists!Percent(t)' = Lists!Percent(t)
  <2>1. Lists!Percent(t) <= Lists!Percent(t)' /\ Lists!Percent(t)' <= Lists!Percent(t)
    BY <1>5, <1>6, <1>9, <1>11, PercentGrows
  <2>2. Lists!Percent(t) \in Int
    BY <1>5 DEF Added
  <2>3. Lists!Percent(t)' \in Int
    BY <1>5 DEF Added
  <2>4. \A p, q \in Int : p <= q /\ q <= p => q = p
    OBVIOUS
  <2> QED BY <2>1, <2>2, <2>3, <2>4
<1> QED BY <1>12, <1>13

Graded == \A s \in section.students : Lists!Grade(s) = GradeOf(Lists!Percent(s))
Ranked == \A s \in section.students :
             Lists!Ranks[s] = IF Lists!Percent(s) = -1 THEN -1 ELSE 1 + Cardinality(Better(s))

LEMMA ListsSay == Lists!TypeOK => AllAdded /\ Graded /\ Ranked
<1>1. RanksAsDefined => Ranked
  BY SameCardinality DEF RanksAsDefined, Lists!RanksAsDefined, Ranked, Better, Lists!NoScore
<1> QED BY <1>1, PercentsAdded, GradesAreOf, RanksCount DEF Graded

\* A better score in one paper never costs its student a percent, a grade or a rank.
THEOREM RaiseHurtsNobody == Lists!Spec => RaiseNeverHurts
<1> DEFINE Raised(s, sub) == /\ Lists!Has(s, sub) /\ marks[s][sub].score # Lists!NoScore
                             /\ marks'[s][sub] # NoMark /\ marks'[s][sub].score > marks[s][sub].score
                             /\ enrolled' = enrolled
           Unhurt(s) == /\ Lists!Percent(s)' \in Lists!Percent(s)..1000
                        /\ Lists!Grade(s)' <= Lists!Grade(s)
                        /\ Lists!Ranks'[s] <= Lists!Ranks[s]
<1>1. Lists!TypeOK /\ Lists!TypeOK' /\ [Lists!Next]_(Lists!vars) =>
        [\A s \in section.students, sub \in section.subjects :
            Raised(s, sub) => Unhurt(s)]_(Lists!vars)
  <2> SUFFICES ASSUME Lists!TypeOK, Lists!TypeOK', Lists!Next,
                      NEW s \in section.students, NEW sub \in section.subjects, Raised(s, sub)
               PROVE  Unhurt(s)
    OBVIOUS
  <2>1. AllAdded /\ Graded /\ Ranked
    BY ListsSay
  <2>2. AllAdded' /\ Graded' /\ Ranked'
    BY ListsSay, PTL
  <2>3. section' = section
    BY RaiseIsEntry
  <2>4. /\ Lists!Percent(s) <= Lists!Percent(s)'
        /\ Lists!Percent(s) = -1 <=> Lists!Percent(s)' = -1
        /\ \A t \in section.students \ {s} : Lists!Percent(t)' = Lists!Percent(t)
    BY RaisedPercents
  <2> HIDE DEF Raised
  <2>5. /\ Lists!Percent(s) \in Int /\ -1 <= Lists!Percent(s)
        /\ Lists!Percent(s)' \in Int /\ Lists!Percent(s)' <= 1000
    BY <2>1, <2>2, <2>3 DEF AllAdded, Added
  <2>6. Lists!Percent(s)' \in Lists!Percent(s)..1000
    BY <2>4, <2>5
  <2>7. Lists!Grade(s)' <= Lists!Grade(s)
    <3>1. Lists!Grade(s) = GradeOf(Lists!Percent(s)) /\ Lists!Grade(s)' = GradeOf(Lists!Percent(s)')
      BY <2>1, <2>2, <2>3 DEF Graded, GradeOf
    <3>2. \A p, q \in Int : p <= q /\ (p = -1 <=> q = -1) /\ -1 <= p => GradeOf(q) <= GradeOf(p)
      BY DEF GradeOf
    <3> QED BY <2>4, <2>5, <3>1, <3>2
  <2>8. Lists!Ranks'[s] <= Lists!Ranks[s]
    <3>1. Better(s)' \in SUBSET Better(s)
      <4> SUFFICES ASSUME NEW t \in section.students, Lists!Percent(t)' > Lists!Percent(s)'
                   PROVE  Lists!Percent(t) > Lists!Percent(s)
        BY <2>3 DEF Better
      <4>1. t # s
        BY <2>5
      <4>2. Lists!Percent(t)' = Lists!Percent(t) /\ Lists!Percent(t) \in Int
        BY <2>1, <2>4, <4>1 DEF AllAdded, Added
      <4> QED BY <2>4, <2>5, <4>2
    <3>2. Better(s) \in SUBSET Pupils
      BY DEF Better, Lists!TypeOK
    <3>3. IsFiniteSet(Better(s))
      BY <3>2, ListAssumption, FS_Subset
    <3>4. /\ Cardinality(Better(s)') <= Cardinality(Better(s))
          /\ Cardinality(Better(s)) \in Nat /\ Cardinality(Better(s)') \in Nat
      BY <3>1, <3>3, FS_Subset, FS_CardinalityType
    <3>5. Lists!Ranks'[s] = IF Lists!Percent(s)' = -1 THEN -1 ELSE 1 + Cardinality(Better(s)')
      BY <2>2, <2>3 DEF Ranked
    <3>6. Lists!Ranks[s] = IF Lists!Percent(s) = -1 THEN -1 ELSE 1 + Cardinality(Better(s))
      BY <2>1 DEF Ranked
    <3> QED BY <2>4, <3>4, <3>5, <3>6
  <2> QED BY <2>6, <2>7, <2>8
<1> QED BY <1>1, ListInvariance, PTL DEF Lists!Spec, RaiseNeverHurts, Lists!RaiseNeverHurts

-----------------------------------------------------------------------------
\* The office as a whole keeps what each desk keeps: no desk writes what is another's.
THEOREM ExamOfficeKeeps ==
    OfficeSpec => /\ []DateFollowsPapers /\ []SavedAsAsked /\ LockedCeilingMovesEarlyOnly
                  /\ []NotifiedMeansQueued /\ []CompletedMarkStands /\ LifecycleSpec
                  /\ []RanksAsDefined /\ []ReadyMeansApproved /\ RaiseNeverHurts
<1>1. OfficeInit => Init /\ Releases!Init /\ Revaluations!Init /\ Lists!Init
  BY DEF OfficeInit
<1>2. [OfficeNext]_<<desk, vars, releaseVars, revaluationVars, listVars>> =>
        /\ [Next]_vars /\ [Releases!Next]_(Releases!vars)
        /\ [Revaluations!Next]_(Revaluations!vars) /\ [Lists!Next]_(Lists!vars)
  BY DEF OfficeNext, SetupStep, ReleaseStep, RevaluationStep, ListStep, releaseVars,
         revaluationVars, listVars, Releases!vars, Revaluations!vars, Lists!vars
<1>3. OfficeSpec => Spec /\ Releases!Spec /\ Revaluations!Spec /\ Lists!Spec
  BY <1>1, <1>2, PTL DEF OfficeSpec, Spec, Releases!Spec, Revaluations!Spec, Lists!Spec
<1> QED BY <1>3, DateFollows, SavedSchedule, LockedCeiling, NotifiedQueued, CompletedStands,
           LivesByTheRegister, RanksDefined, ReadyIsApproved, RaiseHurtsNobody

=============================================================================
