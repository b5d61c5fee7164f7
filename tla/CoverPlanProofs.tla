-------------------------- MODULE CoverPlanProofs --------------------------
(***************************************************************************)
(* The timetable, for any number of periods, classes and requests and any  *)
(* list of slots.                                                          *)
(*                                                                         *)
(* First the planner: what it promises of every pick that no uncovered     *)
(* slot before it misled, and that nothing else misleads one.  A pick is   *)
(* never taken back, so what it was chosen by stays true of the first      *)
(* picks of the plan (Covers with their number).  That nobody can take an  *)
(* uncovered slot stays true because a teacher's covers only grow, and     *)
(* their number with them.                                                 *)
(*                                                                         *)
(* Then the editor: where a class in a break comes from, and what a seed   *)
(* and a save do to the bell schedule.                                     *)
(***************************************************************************)
EXTENDS TimetableOffice, FiniteSetTheorems, TLAPS

\* The number of picks is that of the slots gone through and not left uncovered.
PicksCounted == Len(plan) = Cardinality((1..(next - 1)) \ uncovered)

\* A pick looked at its own day, or a slot at its place or before was left uncovered.
DaysFollow == \A j \in DOMAIN plan : RightDay(j) \/ \E i \in uncovered : i <= j

IInv == TypeOK /\ PicksCounted /\ DaysFollow

-----------------------------------------------------------------------------
LEMMA MaxPerDayNat == MaxPerDay \in Nat
  BY PlanAssumption DEF MaxPerDay

\* The covers of a day are periods, and so there are finitely many.
LEMMA CoversFinite ==
  ASSUME TypeOK, NEW t \in Teachers, NEW d \in Dates, NEW n \in 0..Len(plan)
  PROVE  /\ Covers(t, d, n) \subseteq Periods
         /\ IsFiniteSet(Covers(t, d, n))
         /\ IsFiniteSet(Does(t, d, "class"))
         /\ Cardinality(Covers(t, d, n)) \in Nat
         /\ Cardinality(Does(t, d, "class")) \in Nat
<1>1. \A j \in 1..n : plan[j] \in Pick
  BY DEF TypeOK
<1>2. Covers(t, d, n) \subseteq Periods
  BY <1>1 DEF Covers, Does, Pick, Slot
<1>3. Does(t, d, "class") \subseteq Periods
  BY DEF Does
<1>4. IsFiniteSet(Covers(t, d, n)) /\ IsFiniteSet(Does(t, d, "class"))
  BY <1>2, <1>3, PlanAssumption, FS_Subset
<1>. QED
  BY <1>2, <1>4, FS_CardinalityType

\* The slot that the context is built for is on the list.
LEMMA ContextOnList ==
  ASSUME IInv, next <= Len(slots)
  PROVE  /\ Len(plan) \in 0..(next - 1)
         /\ slots \in Seq(Slot)
         /\ ContextDate \in Dates
<1>1. slots \in Seq(Slot)
  BY PlanAssumption DEF IInv, TypeOK
<1>2. next \in Nat \ {0} /\ next - 1 \in Nat
  BY <1>1 DEF IInv, TypeOK
<1>3. IsFiniteSet(1..(next - 1)) /\ Cardinality(1..(next - 1)) = next - 1
  BY <1>2, FS_Interval
<1>4. Cardinality((1..(next - 1)) \ uncovered) <= next - 1
  BY <1>3, FS_Subset
<1>5. Len(plan) \in 0..(next - 1)
  <2>1. Len(plan) \in Nat
    BY DEF IInv, TypeOK
  <2>. QED
    BY <1>2, <1>4, <2>1 DEF IInv, PicksCounted
<1>6. Len(plan) + 1 \in 1..Len(slots)
  BY <1>1, <1>2, <1>5
<1>7. slots[Len(plan) + 1] \in Slot
  BY <1>1, <1>6
<1>. QED
  BY <1>1, <1>5, <1>7 DEF ContextDate, Slot

\* A step either leaves the slot at hand uncovered or adds a pick for it.
LEMMA Steps ==
  ASSUME IInv, PlanSlot
  PROVE  /\ slots[next] \in Slot
         /\ next \in 1..Len(slots) /\ next' = next + 1 /\ UNCHANGED <<diary, slots>>
         /\ \/ /\ Pool(slots[next].period, ContextDate, Len(plan)) = {}
               /\ uncovered' = uncovered \cup {next} /\ plan' = plan
            \/ \E t \in Pool(slots[next].period, ContextDate, Len(plan)) :
                 /\ t \in Teachers /\ uncovered' = uncovered
                 /\ plan' = Append(plan, [slot |-> slots[next], sub |-> t])
<1>1. slots \in Seq(Slot)
  BY PlanAssumption DEF IInv, TypeOK
<1>2. next \in 1..Len(slots)
  BY <1>1 DEF IInv, TypeOK, PlanSlot
<1>3. Pool(slots[next].period, ContextDate, Len(plan)) \subseteq Teachers
  BY DEF Pool
<1>4. slots[next] \in Slot
  BY <1>1, <1>2
<1>. HIDE DEF Pool, ContextDate
<1>5. CASE Pool(slots[next].period, ContextDate, Len(plan)) = {}
  BY <1>2, <1>4, <1>5 DEF PlanSlot
<1>6. CASE Pool(slots[next].period, ContextDate, Len(plan)) # {}
  BY <1>2, <1>3, <1>4, <1>6 DEF PlanSlot
<1>. QED
  BY <1>5, <1>6

\* The first picks of the plan stay, and so do the covers counted with them.
LEMMA PrefixStays ==
  ASSUME IInv, PlanSlot, NEW n \in 0..Len(plan)
  PROVE  /\ Len(plan') \in {Len(plan), Len(plan) + 1}
         /\ \A j \in 1..n : plan'[j] = plan[j]
         /\ \A t \in Teachers, d \in Dates : Covers(t, d, n)' = Covers(t, d, n)
         /\ \A t \in Teachers, d \in Dates, p \in Periods :
              Eligible(t, p, d, n)' <=> Eligible(t, p, d, n)
<1>1. /\ Len(plan') \in {Len(plan), Len(plan) + 1}
      /\ \A j \in 1..Len(plan) : plan'[j] = plan[j]
  <2>1. plan \in Seq(Pick)
    BY DEF IInv, TypeOK
  <2>2. CASE plan' = plan
    BY <2>1, <2>2
  <2>3. CASE \E t \in Teachers : plan' = Append(plan, [slot |-> slots[next], sub |-> t])
    <3>1. PICK t \in Teachers : plan' = Append(plan, [slot |-> slots[next], sub |-> t])
      BY <2>3
    <3>2. [slot |-> slots[next], sub |-> t] \in Pick
      BY Steps DEF Pick
    <3>. QED
      BY <2>1, <3>1, <3>2
  <2>. QED
    BY <2>2, <2>3, Steps
<1>2. \A j \in 1..n : plan'[j] = plan[j]
  BY <1>1 DEF IInv, TypeOK
<1>3. diary' = diary
  BY Steps
<1>4. \A t \in Teachers, d \in Dates : Covers(t, d, n)' = Covers(t, d, n)
  BY <1>2, <1>3 DEF Covers, Does
<1>5. \A t \in Teachers, d \in Dates, p \in Periods :
        Eligible(t, p, d, n)' <=> Eligible(t, p, d, n)
  BY <1>3, <1>4 DEF Eligible, OnLeave, Does
<1>. QED
  BY <1>1, <1>2, <1>4, <1>5

-----------------------------------------------------------------------------
\* Every step of the planner keeps the invariant.
LEMMA InvariantStep == IInv /\ [Next]_vars => IInv'
<1>. SUFFICES ASSUME IInv, [Next]_vars PROVE IInv'
  OBVIOUS
<1>1. CASE UNCHANGED vars
  BY <1>1 DEF IInv, TypeOK, PicksCounted, DaysFollow, RightDay, vars
<1>2. CASE PlanSlot
  <2>. USE <1>2
  <2>1. next \in Nat \ {0}
    BY Steps
  <2>2. DEFINE done == (1..(next - 1)) \ uncovered
  <2>3. IsFiniteSet(done) /\ next \notin done
    <3>1. IsFiniteSet(1..(next - 1))
      BY <2>1, FS_Interval
    <3>2. IsFiniteSet(done)
      BY <3>1, FS_Subset
    <3>. QED
      BY <2>1, <3>2
  <2>4. 1..next = 1..(next - 1) \cup {next}
    BY <2>1
  <2>5. uncovered \subseteq 1..(next - 1)
    BY DEF IInv, TypeOK
  <2>6. CASE uncovered' = uncovered \cup {next} /\ plan' = plan
    <3>1. (1..(next' - 1)) \ uncovered' = done
      BY <2>1, <2>4, <2>5, <2>6, Steps
    <3>2. TypeOK'
      BY <2>1, <2>5, <2>6, Steps DEF IInv, TypeOK
    <3>3. DaysFollow'
      BY <2>6, Steps DEF IInv, DaysFollow, RightDay
    <3>. QED
      BY <2>6, <3>1, <3>2, <3>3 DEF IInv, PicksCounted
  <2>7. CASE /\ uncovered' = uncovered
             /\ \E t \in Teachers : plan' = Append(plan, [slot |-> slots[next], sub |-> t])
    <3>1. PICK t \in Teachers : plan' = Append(plan, [slot |-> slots[next], sub |-> t])
      BY <2>7
    <3>2. [slot |-> slots[next], sub |-> t] \in Pick
      BY Steps DEF Pick
    <3>3. plan' \in Seq(Pick) /\ Len(plan') = Len(plan) + 1
      BY <3>1, <3>2 DEF IInv, TypeOK
    <3>4. (1..(next' - 1)) \ uncovered' = done \cup {next}
      BY <2>1, <2>4, <2>5, <2>7, Steps
    <3>5. Cardinality(done \cup {next}) = Cardinality(done) + 1
      BY <2>3, FS_AddElement
    <3>6. TypeOK'
      BY <2>1, <2>5, <2>7, <3>3, Steps DEF IInv, TypeOK
    <3>7. DaysFollow'
      <4>. SUFFICES ASSUME NEW j \in DOMAIN plan'
                    PROVE  RightDay(j)' \/ \E i \in uncovered' : i <= j
        BY DEF DaysFollow
      <4>1. plan \in Seq(Pick) /\ slots' = slots /\ Len(plan) = Cardinality(done)
        BY Steps DEF IInv, TypeOK, PicksCounted
      <4>2. CASE j \in DOMAIN plan
        <5>1. plan'[j] = plan[j]
          BY <3>1, <4>1, <4>2
        <5>. QED
          BY <2>7, <4>1, <4>2, <5>1 DEF IInv, DaysFollow, RightDay
      <4>3. CASE j = next
        <5>1. j \notin DOMAIN plan => plan'[j].slot = slots[j]
          BY <3>1, <3>3, <4>1, <4>3
        <5>. QED
          BY <4>1, <4>2, <5>1 DEF RightDay
      <4>4. CASE j = Len(plan) + 1 /\ j # next
        <5>1. j \in Nat /\ 1..j \subseteq 1..(next - 1)
          <6>1. Len(plan) \in 0..(next - 1)
            BY ContextOnList, Steps, <2>1 DEF IInv, TypeOK, PlanSlot
          <6>. QED
            BY <2>1, <4>4, <6>1
        <5>2. ASSUME \A i \in uncovered : ~(i <= j) PROVE FALSE
          <6>1. 1..j \subseteq done
            BY <2>5, <5>1, <5>2
          <6>2. IsFiniteSet(1..j) /\ Cardinality(1..j) = j
            BY <5>1, FS_Interval
          <6>3. Cardinality(1..j) <= Cardinality(done)
            BY <2>3, <6>1, FS_Subset, Zenon
          <6>. QED
            BY <4>1, <4>4, <5>1, <6>2, <6>3
        <5>. QED
          BY <2>7, <5>2
      <4>5. j \in DOMAIN plan \/ j = Len(plan) + 1
        BY <3>1, <3>3, <4>1
      <4>. QED
        BY <4>2, <4>3, <4>4, <4>5
    <3>. QED
      BY <3>3, <3>4, <3>5, <3>6, <3>7 DEF IInv, PicksCounted
  <2>. QED
    BY <2>6, <2>7, Steps
<1>. QED
  BY <1>1, <1>2 DEF Next

\* Every value of the planner is of its type; the context it builds is always that of a slot
\* on the list, and of the day of the slot at hand until a slot was left uncovered
\* (buildContext, lib/teacherLeave.js:456-459).
THEOREM Invariance == Spec => []IInv
<1>1. Init => IInv
  <2>. SUFFICES ASSUME Init PROVE IInv
    OBVIOUS
  <2>1. slots \in Seq(Slot)
    BY PlanAssumption DEF Init
  <2>2. TypeOK
    BY <2>1 DEF Init, TypeOK
  <2>3. (1..(next - 1)) \ uncovered = {}
    BY DEF Init
  <2>. QED
    BY <2>2, <2>3, FS_EmptySet DEF Init, IInv, PicksCounted, DaysFollow
<1>. QED
  BY <1>1, InvariantStep, PTL DEF Spec

-----------------------------------------------------------------------------
\* What the pool holds: teachers who can take the slot, and none with a cover that day
\* unless all who can have one.
LEMMA PoolEligible ==
  ASSUME NEW p, NEW d, NEW n, NEW t \in Pool(p, d, n)
  PROVE  /\ t \in Teachers /\ Eligible(t, p, d, n)
         /\ Covers(t, d, n) # {} =>
              \A s \in Teachers : Eligible(s, p, d, n) => Covers(s, d, n) # {}
<1>. HIDE DEF Eligible, Covers
<1>. QED
  BY DEF Pool

\* Nobody is in the pool only when nobody can take the slot.
LEMMA PoolEmpty ==
  ASSUME NEW p, NEW d, NEW n, Pool(p, d, n) = {}
  PROVE  \A t \in Teachers : ~Eligible(t, p, d, n)
BY DEF Pool

\* The pick a step adds is from the pool of its context, and the picks before it stay.
LEMMA NewPick ==
  ASSUME IInv, PlanSlot, plan' # plan
  PROVE  \E t \in Pool(slots[next].period, ContextDate, Len(plan)) :
           /\ t \in Teachers
           /\ Len(plan') = Len(plan) + 1
           /\ plan'[Len(plan) + 1] = [slot |-> slots[next], sub |-> t]
<1>1. PICK t \in Pool(slots[next].period, ContextDate, Len(plan)) :
         t \in Teachers /\ plan' = Append(plan, [slot |-> slots[next], sub |-> t])
  BY Steps
<1>2. [slot |-> slots[next], sub |-> t] \in Pick
  BY <1>1, Steps DEF Pick
<1>. QED
  BY <1>1, <1>2 DEF IInv, TypeOK

\* The properties, pick by pick.
FreePick(j) ==
    RightDay(j) =>
        /\ Free(plan[j].sub, plan[j].slot.date, plan[j].slot.period)
        /\ \A i \in 1..(j - 1) :
             plan[i].sub = plan[j].sub /\ plan[i].slot.date = plan[j].slot.date
               => plan[i].slot.period # plan[j].slot.period

\* That u is taken for slot s, after the first n picks, of need.
OfNeed(u, s, n) ==
    Covers(u, s.date, n) # {} =>
        \A t \in Teachers : Eligible(t, s.period, s.date, n) => Covers(t, s.date, n) # {}

LEMMA PickByPick ==
  ASSUME IInv
  PROVE  /\ PickedAreFree <=> \A j \in DOMAIN plan : FreePick(j)
         /\ ReusedOnlyOfNeed <=>
              \A j \in DOMAIN plan : RightDay(j) => OfNeed(plan[j].sub, plan[j].slot, j - 1)
<1>1. \A j \in DOMAIN plan : Misled(j) <=> ~RightDay(j)
  BY DEF Misled, IInv, DaysFollow
<1>. HIDE DEF Covers, Eligible, Free, RightDay, Misled
<1>. QED
  BY <1>1 DEF PickedAreFree, ReusedOnlyOfNeed, FreePick, OfNeed

LEMMA PickByPickNext ==
  ASSUME IInv'
  PROVE  /\ PickedAreFree' <=> \A j \in DOMAIN plan' : FreePick(j)'
         /\ ReusedOnlyOfNeed' <=>
              \A j \in DOMAIN plan' : RightDay(j)' => OfNeed(plan[j].sub, plan[j].slot, j - 1)'
<1>1. \A j \in DOMAIN plan' : Misled(j)' <=> ~RightDay(j)'
  BY DEF Misled, IInv, DaysFollow
<1>2. PickedAreFree' <=> \A j \in DOMAIN plan' : FreePick(j)'
  BY <1>1 DEF PickedAreFree, FreePick
<1>3. ReusedOnlyOfNeed' <=>
        \A j \in DOMAIN plan' : RightDay(j)' => OfNeed(plan[j].sub, plan[j].slot, j - 1)'
  BY <1>1 DEF ReusedOnlyOfNeed, OfNeed
<1>. QED
  BY <1>2, <1>3

\* Whether a teacher is taken of need is settled by the picks before.
LEMMA NeedStays ==
  ASSUME IInv, PlanSlot, NEW n \in 0..Len(plan), NEW u \in Teachers, NEW s \in Slot
  PROVE  OfNeed(u, s, n)' <=> OfNeed(u, s, n)
<1>1. s.date \in Dates /\ s.period \in Periods
  BY DEF Slot
<1>2. \A t \in Teachers : Covers(t, s.date, n)' = Covers(t, s.date, n)
  BY <1>1, PrefixStays
<1>3. \A t \in Teachers : Eligible(t, s.period, s.date, n)' <=> Eligible(t, s.period, s.date, n)
  BY <1>1, PrefixStays
<1>. QED
  BY <1>2, <1>3 DEF OfNeed

\* A step keeps the picks and the days they looked at, and the one it adds is from the pool
\* of its context.
LEMMA PicksAfter ==
  ASSUME IInv, PlanSlot, NEW j \in DOMAIN plan'
  PROVE  /\ diary' = diary /\ slots' = slots /\ j \in Nat /\ j - 1 \in 0..Len(plan)
         /\ plan'[j].sub \in Teachers /\ plan'[j].slot \in Slot
         /\ \A i \in 1..(j - 1) : i \in 1..Len(plan) /\ plan'[i] = plan[i]
         /\ \/ j \in DOMAIN plan /\ plan'[j] = plan[j]
            \/ /\ j = Len(plan) + 1
               /\ plan'[j].sub \in Pool(plan'[j].slot.period, slots[j].date, j - 1)
<1>1. plan \in Seq(Pick) /\ plan' \in Seq(Pick)
  BY InvariantStep DEF IInv, TypeOK, Next
<1>2. Len(plan) \in Nat /\ j \in 1..Len(plan')
  BY <1>1
<1>3. Len(plan') \in {Len(plan), Len(plan) + 1} /\ \A i \in 1..Len(plan) : plan'[i] = plan[i]
  BY <1>2, PrefixStays
<1>4. j \in Nat /\ j - 1 \in 0..Len(plan)
  BY <1>2, <1>3
<1>5. diary' = diary /\ slots' = slots
  BY Steps
<1>6. plan'[j] \in Pick
  BY <1>1, <1>2
<1>7. \A i \in 1..(j - 1) : i \in 1..Len(plan) /\ plan'[i] = plan[i]
  BY <1>2, <1>3, <1>4
<1>8. CASE j \in 1..Len(plan)
  BY <1>1, <1>3, <1>4, <1>5, <1>6, <1>7, <1>8 DEF Pick
<1>9. CASE j = Len(plan) + 1
  <2>1. plan' # plan
    BY <1>2, <1>9
  <2>2. PICK t \in Pool(slots[next].period, ContextDate, Len(plan)) :
           plan'[j] = [slot |-> slots[next], sub |-> t]
    BY <1>9, <2>1, NewPick
  <2>3. ContextDate = slots[j].date /\ Len(plan) = j - 1
    BY <1>2, <1>9 DEF ContextDate
  <2>4. plan'[j].slot = slots[next] /\ plan'[j].sub = t
    BY <2>2
  <2>5. plan'[j].sub \in Pool(plan'[j].slot.period, slots[j].date, j - 1)
    BY <2>2, <2>3, <2>4
  <2>. QED
    BY <1>4, <1>5, <1>6, <1>7, <1>9, <2>5 DEF Pick
<1>. QED
  BY <1>2, <1>3, <1>8, <1>9

\* A pick is free at its slot, and in no other class of the plan before it, unless a slot
\* left uncovered made it look at another day (docs/design/teacher-leave-substitutes.md:169,
\* "Hard filters (must pass)"): every pick of a plan that covers all its slots is.
THEOREM PicksFree == Spec => []PickedAreFree
<1>1. Init => PickedAreFree
  BY DEF Init, PickedAreFree
<1>2. IInv /\ PickedAreFree /\ [Next]_vars => PickedAreFree'
  <2>. SUFFICES ASSUME IInv, PickedAreFree, [Next]_vars PROVE PickedAreFree'
    OBVIOUS
  <2>1. CASE UNCHANGED vars
    BY <2>1 DEF PickedAreFree, Misled, RightDay, Free, vars
  <2>2. CASE PlanSlot
    <3>. SUFFICES ASSUME NEW j \in DOMAIN plan' PROVE FreePick(j)'
      BY InvariantStep, PickByPickNext
    <3>1. CASE j \in DOMAIN plan /\ plan'[j] = plan[j]
      <4>1. FreePick(j)
        BY <3>1, PickByPick
      <4>. QED
        BY <2>2, <3>1, <4>1, PicksAfter DEF FreePick, RightDay, Free
    <3>2. CASE /\ slots[j].date = plan'[j].slot.date
               /\ plan'[j].sub \in Pool(plan'[j].slot.period, slots[j].date, j - 1)
      <4>. DEFINE d == slots[j].date
                  p == plan'[j].slot.period
                  t == plan'[j].sub
      <4>1. t \in Teachers /\ p \in Periods /\ d \in Dates
        BY <2>2, <3>2, PicksAfter DEF Slot
      <4>2. Eligible(t, p, d, j - 1)
        BY <3>2, PoolEligible
      <4>3. diary[t][d] \in Days
        BY <4>1 DEF IInv, TypeOK
      <4>4. diary[t][d][p] = "free"
        BY <4>1, <4>2, <4>3 DEF Eligible, OnLeave, Does, Covers, Days
      <4>5. \A i \in 1..(j - 1) : plan[i].sub = t /\ plan[i].slot.date = d => plan[i].slot.period # p
        BY <4>2 DEF Eligible, Covers
      <4>6. \A i \in 1..(j - 1) : plan'[i] = plan[i]
        BY <2>2, PicksAfter
      <4>7. diary' = diary
        BY <2>2, Steps
      <4>. QED
        BY <3>2, <4>4, <4>5, <4>6, <4>7 DEF FreePick, Free
    <3>3. CASE slots[j].date # plan'[j].slot.date
      BY <2>2, <3>3, Steps DEF FreePick, RightDay
    <3>. QED
      BY <2>2, <3>1, <3>2, <3>3, PicksAfter
  <2>. QED
    BY <2>1, <2>2 DEF Next
<1>. QED
  BY <1>1, <1>2, Invariance, PTL DEF Spec

\* A substitute who covers that day already is taken only when all who can take the slot do
\* (the design, line 205: "only reuse someone if no other eligible teacher is free"), unless
\* a slot left uncovered made the pick look at another day.
THEOREM ReuseOfNeed == Spec => []ReusedOnlyOfNeed
<1>1. Init => ReusedOnlyOfNeed
  BY DEF Init, ReusedOnlyOfNeed
<1>2. IInv /\ ReusedOnlyOfNeed /\ [Next]_vars => ReusedOnlyOfNeed'
  <2>. SUFFICES ASSUME IInv, ReusedOnlyOfNeed, [Next]_vars PROVE ReusedOnlyOfNeed'
    OBVIOUS
  <2>1. CASE UNCHANGED vars
    <3>1. diary' = diary /\ plan' = plan /\ slots' = slots
      BY <2>1 DEF vars
    <3>2. ASSUME NEW j \in DOMAIN plan', RightDay(j)'
          PROVE  OfNeed(plan[j].sub, plan[j].slot, j - 1)'
      <4>1. OfNeed(plan[j].sub, plan[j].slot, j - 1)
        BY <3>1, <3>2, PickByPick DEF RightDay
      <4>2. PICK u, s : u = plan'[j].sub /\ s = plan'[j].slot
        OBVIOUS
      <4>3. OfNeed(u, s, j - 1)
        BY <3>1, <4>1, <4>2
      <4>4. \A t, d, n : Covers(t, d, n)' = Covers(t, d, n)
        BY <3>1 DEF Covers, Does
      <4>5. \A t, p, d, n : Eligible(t, p, d, n)' <=> Eligible(t, p, d, n)
        BY <3>1, <4>4 DEF Eligible, Does, OnLeave
      <4>6. OfNeed(u, s, j - 1)'
        BY <4>3, <4>4, <4>5 DEF OfNeed
      <4>. QED
        BY <4>2, <4>6 DEF OfNeed, Covers, Eligible, Does, OnLeave
    <3>. QED
      BY <3>2, InvariantStep, PickByPickNext
  <2>2. CASE PlanSlot
    <3>. SUFFICES ASSUME NEW j \in DOMAIN plan', RightDay(j)'
                  PROVE  OfNeed(plan[j].sub, plan[j].slot, j - 1)'
      BY InvariantStep, PickByPickNext
    <3>1. PICK u \in Teachers, s \in Slot : u = plan'[j].sub /\ s = plan'[j].slot
      BY <2>2, PicksAfter
    <3>2. OfNeed(u, s, j - 1)
      <4>1. slots[j].date = s.date
        BY <2>2, <3>1, Steps DEF RightDay
      <4>2. CASE j \in DOMAIN plan /\ plan'[j] = plan[j]
        BY <3>1, <4>1, <4>2, PickByPick DEF RightDay
      <4>3. CASE u \in Pool(s.period, s.date, j - 1)
        BY <4>3, PoolEligible DEF OfNeed
      <4>. QED
        BY <2>2, <3>1, <4>1, <4>2, <4>3, PicksAfter
    <3>3. OfNeed(u, s, j - 1)'
      BY <2>2, <3>2, NeedStays, PicksAfter
    <3>. QED
      BY <3>1, <3>3 DEF OfNeed, Covers, Eligible, Does, OnLeave
  <2>. QED
    BY <2>1, <2>2 DEF Next
<1>. QED
  BY <1>1, <1>2, Invariance, PTL DEF Spec

-----------------------------------------------------------------------------
\* Covers only grow, and their number with them: who could not take a slot cannot later.
LEMMA StaysTaken ==
  ASSUME IInv, PlanSlot, NEW t \in Teachers, NEW d \in Dates, NEW p \in Periods,
         NEW n \in {Len(plan)}, NEW m \in {Len(plan')},
         ~Eligible(t, p, d, n)
  PROVE  ~Eligible(t, p, d, m)'
<1>1. diary' = diary /\ Len(plan) \in Nat
  BY Steps DEF IInv, TypeOK
<1>2. n \in 0..Len(plan) /\ n \in 0..m /\ m \in Nat /\ \A j \in 1..n : plan'[j] = plan[j]
  BY <1>1, PrefixStays
<1>3. Does(t, d, "class")' = Does(t, d, "class") /\ (OnLeave(t, d)' <=> OnLeave(t, d))
  BY <1>1 DEF Does, OnLeave
<1>4. Covers(t, d, n) \subseteq Covers(t, d, m)'
  <2>. SUFFICES ASSUME NEW x \in Covers(t, d, n) PROVE x \in Covers(t, d, m)'
    OBVIOUS
  <2>1. CASE x \in Does(t, d, "cover")
    BY <1>1, <2>1 DEF Covers, Does
  <2>2. CASE \E j \in 1..n : plan[j].sub = t /\ plan[j].slot.date = d /\ x = plan[j].slot.period
    <3>1. PICK j \in 1..n : plan[j].sub = t /\ plan[j].slot.date = d /\ x = plan[j].slot.period
      BY <2>2
    <3>2. j \in 1..m /\ plan'[j] = plan[j]
      BY <1>2, <3>1
    <3>. QED
      BY <3>1, <3>2 DEF Covers
  <2>. QED
    BY <2>1, <2>2 DEF Covers
<1>5. /\ IsFiniteSet(Covers(t, d, m)') /\ Cardinality(Covers(t, d, m)') \in Nat
      /\ Cardinality(Covers(t, d, n)) \in Nat
      /\ Cardinality(Does(t, d, "class")) \in Nat
  <2>1. IInv'
    BY InvariantStep DEF Next
  <2>2. plan \in Seq(Pick) /\ plan' \in Seq(Pick)
    BY <2>1 DEF IInv, TypeOK
  <2>3. Covers(t, d, m)' \subseteq Periods
    <3>1. \A j \in 1..m : plan'[j] \in Pick
      BY <2>2
    <3>. QED
      BY <3>1 DEF Covers, Does, Pick, Slot
  <2>4. IsFiniteSet(Covers(t, d, m)')
    BY <2>3, PlanAssumption, FS_Subset
  <2>. QED
    BY <1>2, <2>4, CoversFinite, FS_CardinalityType DEF IInv
<1>6. Cardinality(Covers(t, d, n)) <= Cardinality(Covers(t, d, m)')
  BY <1>4, <1>5, FS_Subset
<1>7. Eligible(t, p, d, m)' <=>
        /\ ~OnLeave(t, d)'
        /\ p \notin Does(t, d, "class")' \cup Covers(t, d, m)'
        /\ Cardinality(Does(t, d, "class")') + Cardinality(Covers(t, d, m)') < MaxPerDay
  BY DEF Eligible, MaxPerDay
<1>8. Eligible(t, p, d, n) <=>
        /\ ~OnLeave(t, d)
        /\ p \notin Does(t, d, "class") \cup Covers(t, d, n)
        /\ Cardinality(Does(t, d, "class")) + Cardinality(Covers(t, d, n)) < MaxPerDay
  BY DEF Eligible
<1>. QED
  BY <1>3, <1>4, <1>5, <1>6, <1>7, <1>8, MaxPerDayNat

\* Before the first slot that is left uncovered, the slots gone through are as many as the
\* picks.
LEMMA InStepBefore ==
  ASSUME NEW S \in SUBSET Nat, NEW i \in Nat \ {0}, ~\E k \in S : k < i
  PROVE  Cardinality((1..(i - 1)) \ S) + 1 = i
<1>1. (1..(i - 1)) \ S = 1..(i - 1)
  OBVIOUS
<1>2. i - 1 \in Nat /\ Cardinality(1..(i - 1)) = i - 1
  BY FS_Interval
<1>3. Cardinality((1..(i - 1)) \ S) = i - 1
  BY <1>1, <1>2, Zenon
<1>. QED
  BY <1>3

\* A slot is left uncovered because nobody could take it, and nobody can now
\* (planSubstitutesGreedy leaves a slot out only for want of a candidate), unless another one
\* before it was and another day was looked at: of the first one it holds without that.
THEOREM UncoveredSlots == Spec => []UncoveredOfNeed
<1>1. Init => UncoveredOfNeed
  BY DEF Init, UncoveredOfNeed
<1>2. IInv /\ UncoveredOfNeed /\ [Next]_vars => UncoveredOfNeed'
  <2>. SUFFICES ASSUME IInv, UncoveredOfNeed, [Next]_vars PROVE UncoveredOfNeed'
    OBVIOUS
  <2>1. CASE UNCHANGED vars
    <3>1. diary' = diary /\ plan' = plan /\ slots' = slots /\ uncovered' = uncovered
      BY <2>1 DEF vars
    <3>2. \A t, d, n : Covers(t, d, n)' = Covers(t, d, n)
      BY <3>1 DEF Covers, Does
    <3>3. \A t, p, d, n : Eligible(t, p, d, n)' <=> Eligible(t, p, d, n)
      BY <3>1, <3>2 DEF Eligible, Does, OnLeave
    <3>. SUFFICES ASSUME NEW i \in uncovered',
                         \/ slots[Cardinality((1..(i - 1)) \ uncovered') + 1].date = slots[i].date
                         \/ ~\E k \in uncovered' : k < i,
                         NEW t \in Teachers
                  PROVE  ~Eligible(t, slots[i].period, slots[i].date, Len(plan))'
      BY <3>1 DEF UncoveredOfNeed
    <3>4. ~Eligible(t, slots[i].period, slots[i].date, Len(plan))
      BY <3>1 DEF UncoveredOfNeed
    <3>5. PICK p, d, n : p = slots'[i].period /\ d = slots'[i].date /\ n = Len(plan')
      OBVIOUS
    <3>6. ~Eligible(t, p, d, n)'
      BY <3>1, <3>3, <3>4, <3>5
    <3>. QED
      BY <3>5, <3>6 DEF Eligible, Covers, Does, OnLeave
  <2>2. CASE PlanSlot
    <3>1. /\ slots' = slots /\ diary' = diary /\ next \in 1..Len(slots) /\ Len(slots) \in Nat
          /\ slots \in Seq(Slot) /\ uncovered \subseteq 1..(next - 1)
      BY <2>2, Steps, ContextOnList DEF IInv, TypeOK, PlanSlot
    <3>. SUFFICES ASSUME NEW i \in uncovered',
                         \/ slots[Cardinality((1..(i - 1)) \ uncovered') + 1].date = slots[i].date
                         \/ ~\E k \in uncovered' : k < i,
                         NEW t \in Teachers
                  PROVE  ~Eligible(t, slots[i].period, slots[i].date, Len(plan))'
      BY <3>1 DEF UncoveredOfNeed
    <3>2. i \in 1..next
      <4>1. i \in uncovered \/ i = next
        BY <2>2, Steps
      <4>2. next \in Nat /\ next \in 1..next
        BY <3>1
      <4>3. i \in uncovered => i \in 1..(next - 1)
        BY <3>1, Zenon
      <4>4. i \in 1..(next - 1) => i \in 1..next
        BY <4>2
      <4>. QED
        BY <4>1, <4>2, <4>3, <4>4
    <3>3. PICK s \in Slot : s = slots[i]
      BY <3>1, <3>2
    <3>4. s.date \in Dates /\ s.period \in Periods
      BY DEF Slot
    <3>5. (1..(i - 1)) \ uncovered' = (1..(i - 1)) \ uncovered
      <4>1. uncovered' = uncovered \/ uncovered' = uncovered \cup {next}
        BY <2>2, Steps
      <4>2. next \notin 1..(i - 1)
        BY <3>1, <3>2
      <4>. QED
        BY <4>1, <4>2
    <3>5a. slots[Cardinality((1..(i - 1)) \ uncovered) + 1].date = slots[i].date
      <4>1. CASE ~\E k \in uncovered' : k < i
        <5>1. i \in Nat \ {0} /\ next \in Nat /\ uncovered \subseteq Nat
          BY <3>1, <3>2
        <5>2. uncovered' \in SUBSET Nat
          BY <2>2, <5>1, Steps
        <5>. QED
          BY <3>5, <4>1, <5>1, <5>2, InStepBefore
      <4>. QED
        BY <3>5, <4>1
    <3>6. ~Eligible(t, s.period, s.date, Len(plan))
      <4>1. CASE i \in uncovered
        BY <3>3, <3>5a, <4>1 DEF UncoveredOfNeed
      <4>2. CASE i = next /\ Pool(slots[next].period, ContextDate, Len(plan)) = {}
        <5>1. ContextDate = s.date
          BY <3>3, <3>5a, <4>2 DEF ContextDate, IInv, PicksCounted
        <5>. QED
          BY <3>3, <4>2, <5>1, PoolEmpty
      <4>. QED
        BY <2>2, <3>1, <4>1, <4>2, Steps
    <3>7. PICK n \in {Len(plan)}, m \in {Len(plan')} : TRUE
      OBVIOUS
    <3>8. ~Eligible(t, s.period, s.date, m)'
      BY <2>2, <3>4, <3>6, <3>7, StaysTaken
    <3>. QED
      BY <3>1, <3>3, <3>7, <3>8 DEF Eligible, Covers, Does, OnLeave
  <2>. QED
    BY <2>1, <2>2 DEF Next
<1>. QED
  BY <1>1, <1>2, Invariance, PTL DEF Spec

-----------------------------------------------------------------------------
(***************************************************************************)
(* The bell schedule.  Ids are given out in order, so that a transaction   *)
(* that creates periods cannot meet an id that is known; the rows of its   *)
(* list then have ids of their own, and it turns the schedule into what    *)
(* was sent.  A period that a class or a handler has found to be one for   *)
(* classes is a break later only because a save has come upon it; a seed   *)
(* that no save has come upon finds the first default position taken.      *)
(***************************************************************************)
LEMMA SameCount == \A S : Editor!Cardinality(S) = Cardinality(S)
BY DEF Cardinality, Editor!Cardinality

LEMMA IssuedFinite ==
    ASSUME Editor!TypeOK
    PROVE  /\ IsFiniteSet(Editor!Issued) /\ Cardinality(Editor!Issued) \in Nat
           /\ Editor!Issued \subseteq 1..MaxPeriods
<1>1. Editor!Issued \in SUBSET (1..MaxPeriods)
  BY DEF Editor!Issued, Editor!PeriodIds
<1>2. IsFiniteSet(1..MaxPeriods)
  BY FS_Interval, EditorAssumption
<1> QED BY <1>1, <1>2, FS_Subset, FS_CardinalityType

\* The ranks of the members of a set of numbers.
LEMMA RanksDiffer ==
    ASSUME NEW n \in Nat, NEW S \in SUBSET (1..n), NEW i \in S
    PROVE  /\ IsFiniteSet(S) /\ Cardinality(S) \in Nat
           /\ Cardinality(S \cap 1..i) \in 1..Cardinality(S)
           /\ \A j \in S : i < j => Cardinality(S \cap 1..i) < Cardinality(S \cap 1..j)
<1>0. IsFiniteSet(1..n)
  BY FS_Interval
<1>1. IsFiniteSet(S) /\ Cardinality(S) \in Nat
  BY <1>0, FS_Subset, FS_CardinalityType
<1>2. \A T \in SUBSET S : /\ IsFiniteSet(T) /\ Cardinality(T) \in Nat
                          /\ Cardinality(T) <= Cardinality(S)
  BY <1>1, FS_Subset, FS_CardinalityType
<1>3. S \cap 1..i # {} /\ S \cap 1..i \in SUBSET S
  OBVIOUS
<1>4. Cardinality(S \cap 1..i) # 0
  BY <1>2, <1>3, FS_EmptySet
<1>5. Cardinality(S \cap 1..i) \in 1..Cardinality(S)
  BY <1>1, <1>2, <1>3, <1>4
<1>6. ASSUME NEW j \in S, i < j PROVE Cardinality(S \cap 1..i) < Cardinality(S \cap 1..j)
  <2>1. S \cap 1..i \in SUBSET (S \cap 1..j) /\ S \cap 1..j \in SUBSET S /\ S \cap 1..i # S \cap 1..j
    BY <1>6
  <2>2. IsFiniteSet(S \cap 1..j) /\ Cardinality(S \cap 1..j) \in Nat /\ Cardinality(S \cap 1..i) \in Nat
    BY <1>2, <1>3, <2>1
  <2>3. Cardinality(S \cap 1..i) <= Cardinality(S \cap 1..j) /\ Cardinality(S \cap 1..i) # Cardinality(S \cap 1..j)
    BY <2>1, <2>2, FS_Subset
  <2> QED BY <2>2, <2>3
<1> QED BY <1>1, <1>5, <1>6

EditorHandlers ==
    Editor!Put \cup Editor!Add \cup Editor!Move \cup {Editor!Seed, Editor!Idle}

LEMMA Kinds ==
    ASSUME NEW q \in EditorHandlers
    PROVE  /\ q.step = "put" => q \in Editor!Put
           /\ q.step = "add" => q \in Editor!Add
           /\ q.step = "move" => q \in Editor!Move
           /\ q.step = "seed" => q = Editor!Seed
           /\ q.step = "idle" => q = Editor!Idle
<1>1. q \in Editor!Put => q.step = "put"
  BY DEF Editor!Put
<1>2. q \in Editor!Add => q.step = "add"
  BY DEF Editor!Add
<1>3. q \in Editor!Move => q.step = "move"
  BY DEF Editor!Move
<1>4. Editor!Seed.step = "seed" /\ Editor!Idle.step = "idle"
  BY DEF Editor!Seed, Editor!Idle
<1> QED BY <1>1, <1>2, <1>3, <1>4 DEF EditorHandlers

LEMMA PutTyped ==
    ASSUME Editor!IInv, NEW r \in Requests, Editor!At(r, "put")
    PROVE  /\ reqs[r] \in Editor!Put /\ reqs[r].seen \subseteq Editor!Issued
           /\ reqs[r].seen \subseteq Editor!PeriodIds
           /\ \E n \in Nat :
                 /\ DOMAIN reqs[r].rows = 1..n
                 /\ \A i \in 1..n : /\ reqs[r].rows[i].id \in Editor!PeriodIds \cup {New}
                                    /\ reqs[r].rows[i].break \in BOOLEAN
                                    /\ reqs[r].orders[i] \in Nat
                 /\ \A i, j \in 1..n : i # j => /\ \/ reqs[r].rows[i].id # reqs[r].rows[j].id
                                                   \/ reqs[r].rows[i].id = New
                                                /\ reqs[r].orders[i] # reqs[r].orders[j]
<1>1. reqs[r] \in Editor!Put
  BY Kinds DEF Editor!IInv, Editor!TypeOK, Editor!At, EditorHandlers
<1>2. PICK o \in Numberings : /\ reqs[r].rows \in Editor!Rows(Editor!PeriodIds, o)
                              /\ reqs[r].orders = o /\ reqs[r].seen \subseteq Editor!PeriodIds
  BY <1>1 DEF Editor!Put
<1>3. reqs[r].seen \subseteq Editor!Issued
  BY DEF Editor!IInv, Editor!HandlersExplained
<1>4. /\ o \in Seq(Nat) /\ \A i, j \in DOMAIN o : i # j => o[i] # o[j]
  BY EditorAssumption
<1>5. PICK n \in Nat : DOMAIN o = 1..n /\ \A i \in 1..n : o[i] \in Nat
  BY <1>4
<1>6. /\ reqs[r].rows \in [1..n -> [id : Editor!PeriodIds \cup {New}, break : BOOLEAN]]
      /\ \A i, j \in 1..n : i # j => reqs[r].rows[i].id # reqs[r].rows[j].id \/ reqs[r].rows[i].id = New
  BY <1>2, <1>5 DEF Editor!Rows
<1> QED BY <1>1, <1>2, <1>3, <1>4, <1>5, <1>6

\* The ids that a transaction gives out are new, and each is given once.
LEMMA NewIdsFresh ==
    ASSUME Editor!IInv, NEW r \in Requests, Editor!PutWrite(r)
    PROVE  LET q == reqs[r]
           IN  /\ IsFiniteSet(Editor!Created(q)) /\ Cardinality(Editor!Created(q)) \in Nat
               /\ \A i \in Editor!Created(q) :
                     /\ Editor!NewId(q, i) \in Editor!PeriodIds \ Editor!Issued
                     /\ Editor!NewId(q, i) \in 1..(Cardinality(Editor!Issued) + Cardinality(Editor!Created(q)))
               /\ \A i, j \in Editor!Created(q) : i # j => Editor!NewId(q, i) # Editor!NewId(q, j)
<1> DEFINE q == reqs[r]
           c == Cardinality(Editor!Issued)
           S == Editor!Created(q)
<1>1. c \in Nat /\ Editor!Issued \subseteq 1..c
  BY IssuedFinite, SameCount DEF Editor!IInv, Editor!IdsInOrder
<1>2. Editor!At(r, "put") /\ \A i \in S : Editor!NewId(q, i) <= MaxPeriods
  BY DEF Editor!PutWrite
<1>3. PICK n \in Nat : DOMAIN q.rows = 1..n
  BY <1>2, PutTyped
<1>4. n \in Nat /\ S \in SUBSET (1..n)
  BY <1>3 DEF Editor!Created
<1>5. \A i : Editor!NewId(q, i) = c + Cardinality(S \cap 1..i)
  BY SameCount DEF Editor!NewId, Editor!Fresh
<1> HIDE DEF S
<1>a. IsFiniteSet(1..n)
  BY <1>4, FS_Interval
<1>6. IsFiniteSet(S) /\ Cardinality(S) \in Nat
  BY <1>4, <1>a, FS_Subset, FS_CardinalityType
<1> HIDE DEF c
<1>7. ASSUME NEW i \in S
      PROVE  /\ Editor!NewId(q, i) \in Editor!PeriodIds \ Editor!Issued
             /\ Editor!NewId(q, i) \in 1..(c + Cardinality(S))
  <2>1. Cardinality(S \cap 1..i) \in 1..Cardinality(S)
    BY <1>4, RanksDiffer
  <2>2. Editor!NewId(q, i) \in Nat /\ Editor!NewId(q, i) > c /\ Editor!NewId(q, i) <= c + Cardinality(S)
    BY <1>1, <1>5, <1>6, <2>1
  <2> QED BY <1>1, <1>2, <1>6, <2>2, EditorAssumption DEF Editor!PeriodIds
<1>8. ASSUME NEW i \in S, NEW j \in S, i # j PROVE Editor!NewId(q, i) # Editor!NewId(q, j)
  <2>1. /\ Cardinality(S \cap 1..i) \in Nat /\ Cardinality(S \cap 1..j) \in Nat
        /\ i < j => Cardinality(S \cap 1..i) < Cardinality(S \cap 1..j)
        /\ j < i => Cardinality(S \cap 1..j) < Cardinality(S \cap 1..i)
    <3>1. ASSUME NEW x \in S, NEW y \in S
          PROVE  /\ Cardinality(S \cap 1..x) \in Nat
                 /\ x < y => Cardinality(S \cap 1..x) < Cardinality(S \cap 1..y)
      <4>1. /\ Cardinality(S \cap 1..x) \in 1..Cardinality(S)
            /\ \A z \in S : x < z => Cardinality(S \cap 1..x) < Cardinality(S \cap 1..z)
        BY <1>4, RanksDiffer
      <4> QED BY <1>6, <4>1
    <3> QED BY <3>1
  <2>2. i < j \/ j < i
    BY <1>4, <1>8
  <2> QED BY <1>1, <1>5, <2>1, <2>2
<1> QED BY <1>6, <1>7, <1>8 DEF c, S

\* What the transaction makes of the schedule.
LEMMA SavedSchedule ==
    ASSUME Editor!IInv, NEW r \in Requests, Editor!PutWrite(r)
    PROVE  LET q == reqs[r]
           IN  /\ \A i \in DOMAIN q.rows :
                     /\ Editor!IdOf(q, i) \in Editor!PeriodIds
                     /\ periods'[Editor!IdOf(q, i)] = [order |-> q.orders[i], break |-> q.rows[i].break]
                     /\ Editor!IdOf(q, i) \notin Editor!Dropped(q)
               /\ \A k \in Editor!PeriodIds :
                     (\A i \in DOMAIN q.rows : Editor!IdOf(q, i) # k) =>
                         periods'[k] = IF k \in Editor!Dropped(q) THEN Gone ELSE periods[k]
<1> DEFINE q == reqs[r]
<1>1. /\ Editor!At(r, "put") /\ periods' = Editor!Saved(q)
      /\ Editor!IdsOf(q, Editor!Updated(q)) \subseteq Editor!Present
  BY DEF Editor!PutWrite, Editor!Saves, Editor!Accepted
<1>2. q \in Editor!Put /\ q.seen \subseteq Editor!Issued
  BY <1>1, PutTyped
<1>3. PICK n \in Nat :
        /\ DOMAIN q.rows = 1..n
        /\ \A i, j \in 1..n : i # j => q.rows[i].id # q.rows[j].id \/ q.rows[i].id = New
  BY <1>1, PutTyped
<1>4. q.seen \subseteq Editor!PeriodIds
  BY <1>1, PutTyped
<1>5. /\ \A i \in Editor!Created(q) : /\ Editor!NewId(q, i) \in Editor!PeriodIds \ Editor!Issued
      /\ \A i, j \in Editor!Created(q) : i # j => Editor!NewId(q, i) # Editor!NewId(q, j)
  BY NewIdsFresh
<1> HIDE DEF q
<1>6. ASSUME NEW i \in DOMAIN q.rows
      PROVE  \/ i \in Editor!Updated(q) /\ Editor!IdOf(q, i) = q.rows[i].id /\ q.rows[i].id \in q.seen
             \/ i \in Editor!Created(q) /\ Editor!IdOf(q, i) = Editor!NewId(q, i)
  BY DEF Editor!IdOf, Editor!Created, Editor!Updated
<1>7. ASSUME NEW i \in DOMAIN q.rows, NEW j \in DOMAIN q.rows, Editor!IdOf(q, i) = Editor!IdOf(q, j)
      PROVE  i = j
  <2>1. CASE i \in Editor!Updated(q) /\ j \in Editor!Updated(q)
    <3>1. q.rows[i].id = q.rows[j].id /\ q.rows[i].id # New
      BY <1>4, <1>7, <2>1, EditorAssumption DEF Editor!IdOf, Editor!Updated
    <3> QED BY <1>3, <3>1
  <2>2. CASE i \in Editor!Created(q) /\ j \in Editor!Created(q)
    BY <1>5, <1>7, <2>2 DEF Editor!IdOf, Editor!Created
  <2> QED BY <1>2, <1>5, <1>6, <1>7, <2>1, <2>2
<1>8. ASSUME NEW i \in DOMAIN q.rows
      PROVE  /\ Editor!IdOf(q, i) \in Editor!PeriodIds
             /\ periods'[Editor!IdOf(q, i)] = [order |-> q.orders[i], break |-> q.rows[i].break]
             /\ Editor!IdOf(q, i) \notin Editor!Dropped(q)
  <2>1. Editor!IdOf(q, i) \in Editor!PeriodIds
    BY <1>4, <1>5, <1>6
  <2>2. PICK k \in Editor!PeriodIds : k = Editor!IdOf(q, i)
    BY <2>1
  <2>3. (CHOOSE j \in DOMAIN q.rows : Editor!IdOf(q, j) = k) = i
    BY <1>7, <2>2
  <2>4. periods'[k] = [order |-> q.orders[i], break |-> q.rows[i].break]
    BY <1>1, <2>2, <2>3 DEF Editor!Saved
  <2>5. k \notin Editor!Dropped(q)
    BY <1>2, <1>5, <1>6, <2>2 DEF Editor!Dropped, Editor!IdsOf
  <2> QED BY <2>1, <2>2, <2>4, <2>5
<1>9. ASSUME NEW k \in Editor!PeriodIds, \A i \in DOMAIN q.rows : Editor!IdOf(q, i) # k
      PROVE  periods'[k] = IF k \in Editor!Dropped(q) THEN Gone ELSE periods[k]
  BY <1>1, <1>9 DEF Editor!Saved
<1> QED BY <1>8, <1>9 DEF q

-----------------------------------------------------------------------------
\* What a step may do to the periods that have been given out: an id is given out once.
Turns ==
    /\ periods' \in [Editor!PeriodIds -> Editor!Period \cup {Unused, Gone}]
    /\ \A k \in Editor!Issued :
          periods'[k] # Unused /\ (periods'[k] \in Editor!Period => periods[k] \in Editor!Period)

\* The periods of which the step makes breaks.
Turned == Editor!TurnedBy(periods')

LEMMA Unturned ==
    ASSUME Editor!IInv, UNCHANGED periods
    PROVE  /\ Turns /\ Turned = {} /\ Editor!IdsInOrder'
           /\ Editor!Issued' = Editor!Issued /\ Editor!Present' = Editor!Present
<1>1. Editor!Issued' = Editor!Issued /\ Editor!Present' = Editor!Present
  BY DEF Editor!Issued, Editor!Present
<1>2. Turns /\ Turned = {}
  BY DEF Turns, Turned, Editor!TurnedBy, Editor!IInv, Editor!TypeOK, Editor!Issued
<1> QED BY <1>1, <1>2 DEF Editor!IInv, Editor!IdsInOrder

LEMMA ExplainedStays ==
    ASSUME Editor!IInv, Turns, NEW k, NEW x \in Requests, Editor!Explained(k, x),
           x \in overtaken \/ k \in Turned => x \in overtaken'
    PROVE  Editor!Explained(k, x)'
<1>1. k \in Editor!PeriodIds /\ k \in Editor!Issued
      /\ (k \in Editor!Present /\ periods[k].break => x \in overtaken)
  BY DEF Editor!Explained, Editor!Issued
<1>2. k \in Editor!Issued' /\ (k \in Editor!Present' => k \in Editor!Present /\ periods'[k] \in Editor!Period)
  BY <1>1 DEF Turns, Editor!Issued, Editor!Present
<1> QED BY <1>1, <1>2 DEF Turned, Editor!TurnedBy, Editor!Explained

\* A handler ends or begins with what is explained; the others know what they knew, unless
\* a save has come upon them.
LEMMA HandlersStay ==
    ASSUME Editor!IInv, Turns, NEW r \in Requests, NEW q \in EditorHandlers, Editor!Becomes(r, q),
           \A x \in Requests \ {r} :
               \/ x \in overtaken
               \/ reqs[x].step \in {"add", "move"} /\ reqs[x].period \in Turned
               => x \in overtaken',
           q.step = "put" => q.seen \subseteq Editor!Issued,
           q.step = "add" => Editor!Explained(q.period, r)',
           q.step = "move" /\ q.period # Same => Editor!Explained(q.period, r)'
    PROVE  reqs' \in [Requests -> EditorHandlers] /\ Editor!HandlersExplained'
<1>1. /\ reqs' \in [Requests -> EditorHandlers] /\ reqs'[r] = q
      /\ \A x \in Requests \ {r} : reqs'[x] = reqs[x]
  BY DEF Editor!Becomes, Editor!IInv, Editor!TypeOK, EditorHandlers
<1>2. Editor!Issued \subseteq Editor!Issued'
  BY DEF Turns, Editor!Issued
<1>3. ASSUME NEW x \in Requests
      PROVE  /\ reqs'[x].step = "put" => reqs'[x].seen \subseteq Editor!Issued'
             /\ reqs'[x].step = "add" => Editor!Explained(reqs[x].period, x)'
             /\ reqs'[x].step = "move" /\ reqs'[x].period # Same => Editor!Explained(reqs[x].period, x)'
  <2>1. PICK k : k = reqs'[x].period
    OBVIOUS
  <2>2. Editor!Explained(k, x)' => Editor!Explained(reqs[x].period, x)'
    BY <2>1 DEF Editor!Explained
  <2>3. CASE x = r
    <3>1. k = q.period
      BY <1>1, <2>1, <2>3
    <3>2. Editor!Explained(q.period, r)' => Editor!Explained(k, x)'
      BY <2>3, <3>1 DEF Editor!Explained
    <3> QED BY <1>1, <1>2, <2>1, <2>2, <2>3, <3>1, <3>2
  <2>4. CASE x # r
    <3>1. reqs'[x] = reqs[x] /\ k = reqs[x].period
      BY <1>1, <2>1, <2>4
    <3>2. /\ reqs[x].step = "put" => reqs[x].seen \subseteq Editor!Issued
          /\ reqs[x].step = "add" => Editor!Explained(k, x)
          /\ reqs[x].step = "move" /\ k # Same => Editor!Explained(k, x)
      BY <3>1 DEF Editor!IInv, Editor!HandlersExplained, Editor!At
    <3>3. reqs[x].step \in {"add", "move"} /\ (x \in overtaken \/ k \in Turned) => x \in overtaken'
      BY <2>4, <3>1
    <3>4. Editor!Explained(k, x) /\ reqs[x].step \in {"add", "move"} => Editor!Explained(k, x)'
      BY <3>3, ExplainedStays
    <3> QED BY <1>2, <2>1, <2>2, <3>1, <3>2, <3>4
  <2> QED BY <2>3, <2>4
<1> QED BY <1>1, <1>3 DEF Editor!HandlersExplained, Editor!At

\* The seeds under way, when nothing is there, the first position is taken, nothing has
\* changed, or a save has come upon them.
LEMMA SeedsStay ==
    ASSUME Editor!IInv, NEW r \in Requests, NEW q \in EditorHandlers, Editor!Becomes(r, q),
           q = Editor!Seed => Editor!Present' = {},
           \A x \in Requests \ {r} : x \in overtaken => x \in overtaken',
           \/ Editor!Present' = {}
           \/ \E k \in Editor!Present' : periods'[k].order = 1
           \/ UNCHANGED periods
           \/ \A x \in Requests \ {r} : reqs[x] = Editor!Seed => x \in overtaken'
    PROVE  Editor!SeedsMeet'
<1> SUFFICES ASSUME NEW x \in Requests, x \notin overtaken', reqs'[x].step = "seed", Editor!Present' # {}
             PROVE  \E k \in Editor!Present' : periods'[k].order = 1
  BY DEF Editor!SeedsMeet, Editor!At
<1>1. /\ reqs'[r] = q /\ \A y \in Requests \ {r} : reqs'[y] = reqs[y]
      /\ \A y \in Requests : reqs[y] \in EditorHandlers
  BY DEF Editor!Becomes, Editor!IInv, Editor!TypeOK, EditorHandlers
<1>2. x # r
  BY <1>1, Kinds
<1>3. reqs[x].step = "seed" /\ reqs[x] = Editor!Seed /\ x \notin overtaken
  BY <1>1, <1>2, Kinds
<1>4. CASE UNCHANGED periods
  <2>1. Editor!Present' = Editor!Present
    BY <1>4 DEF Editor!Present
  <2> QED BY <1>3, <1>4, <2>1 DEF Editor!IInv, Editor!SeedsMeet, Editor!At
<1> QED BY <1>2, <1>3, <1>4

LEMMA EditorIdle ==
    /\ Editor!Idle \in EditorHandlers /\ Editor!Seed \in EditorHandlers
    /\ Editor!Idle.step = "idle" /\ Editor!Seed.step = "seed" /\ Editor!Idle # Editor!Seed
BY DEF EditorHandlers, Editor!Idle, Editor!Seed

\* What is placed stands in a period that is there, and explained.
LEMMA PlacedExplained ==
    ASSUME Editor!IInv, NEW e \in Editor!Placed
    PROVE  /\ entries[e] \in Editor!Cell /\ entries[e].period \in Editor!Present
           /\ periods[entries[e].period].break => e \in overtaken
BY DEF Editor!IInv, Editor!BreakClassesExplained, Editor!Placed

-----------------------------------------------------------------------------
LEMMA ReadsKeep ==
    ASSUME Editor!IInv, NEW r \in Requests,
           \/ Editor!SeedRead(r) \/ Editor!PutRead(r) \/ Editor!AddCheck(r) \/ Editor!MoveCheck(r)
           \/ Editor!RequestFails(r)
    PROVE  Editor!IInv'
<1>a. UNCHANGED <<periods, entries>> /\ overtaken' \in {overtaken, overtaken \ {r}}
  BY DEF Editor!SeedRead, Editor!PutRead, Editor!AddCheck, Editor!MoveCheck, Editor!RequestFails, Editor!Ends
<1>b. /\ Turns /\ Turned = {} /\ Editor!IdsInOrder'
      /\ Editor!Issued' = Editor!Issued /\ Editor!Present' = Editor!Present
  BY <1>a, Unturned
<1>c. Editor!BreakClassesExplained'
  <2>1. \A e \in Entries : e \in overtaken => e \in overtaken'
    BY <1>a, EditorAssumption
  <2> QED BY <1>a, <1>b, <2>1 DEF Editor!IInv, Editor!BreakClassesExplained, Editor!Placed
<1>d. \A k \in Editor!ForClasses : k \in Editor!PeriodIds /\ k \in Editor!Issued /\ Editor!Explained(k, r)'
  BY <1>a, <1>b, EditorAssumption DEF Editor!ForClasses, Editor!Present, Editor!Issued, Editor!Explained
<1>1. \E q \in EditorHandlers :
        /\ Editor!Becomes(r, q)
        /\ q = Editor!Seed => Editor!Present = {}
        /\ q.step = "put" => q.seen \subseteq Editor!Issued
        /\ q.step = "add" => Editor!Explained(q.period, r)'
        /\ q.step = "move" /\ q.period # Same => Editor!Explained(q.period, r)'
  <2>1. CASE Editor!SeedRead(r) \/ Editor!RequestFails(r)
    BY <2>1, EditorIdle DEF Editor!SeedRead, Editor!RequestFails, Editor!Ends
  <2>2. CASE Editor!PutRead(r)
    <3>0. PICK o \in Numberings : \E rows \in Editor!Rows(Editor!Present, o) :
            Editor!Becomes(r, [step |-> "put", rows |-> rows, orders |-> o, seen |-> Editor!Present])
      BY <2>2 DEF Editor!PutRead
    <3>1. PICK rows \in Editor!Rows(Editor!Present, o) :
            Editor!Becomes(r, [step |-> "put", rows |-> rows, orders |-> o, seen |-> Editor!Present])
      BY <3>0
    <3> DEFINE q == [step |-> "put", rows |-> rows, orders |-> o, seen |-> Editor!Present]
    <3>2. Editor!Present \subseteq Editor!PeriodIds /\ Editor!Present \subseteq Editor!Issued
      BY EditorAssumption DEF Editor!Present, Editor!Issued
    <3>3. rows \in Editor!Rows(Editor!PeriodIds, o)
      BY <3>2 DEF Editor!Rows
    <3>4. q \in Editor!Put /\ q.step = "put" /\ q.seen = Editor!Present
      BY <3>2, <3>3 DEF Editor!Put
    <3> QED BY <3>1, <3>2, <3>4, EditorIdle DEF EditorHandlers
  <2>3. CASE Editor!AddCheck(r)
    <3>1. PICK k \in Editor!ForClasses, c \in Sections :
            Editor!Becomes(r, [step |-> "add", period |-> k, class |-> c])
      BY <2>3 DEF Editor!AddCheck
    <3> DEFINE q == [step |-> "add", period |-> k, class |-> c]
    <3>2. q \in Editor!Add /\ q.step = "add" /\ q.period = k
      BY <1>d DEF Editor!Add
    <3> HIDE DEF q
    <3>3. Editor!Explained(q.period, r)'
      BY <1>d, <3>2 DEF Editor!Explained
    <3>4. Editor!Becomes(r, q)
      BY <3>1 DEF q
    <3> QED BY <3>2, <3>3, <3>4, EditorIdle DEF EditorHandlers
  <2>4. CASE Editor!MoveCheck(r)
    <3>1. PICK e \in Editor!Placed, k \in Editor!ForClasses \cup {Same}, c \in Sections \cup {Same} :
            Editor!Becomes(r, [step |-> "move", entry |-> e, period |-> k, class |-> c])
      BY <2>4 DEF Editor!MoveCheck
    <3> DEFINE q == [step |-> "move", entry |-> e, period |-> k, class |-> c]
    <3>2. q \in Editor!Move /\ q.step = "move" /\ q.period = k
      BY <1>d DEF Editor!Move, Editor!Placed
    <3> HIDE DEF q
    <3>3. q.period # Same => Editor!Explained(q.period, r)'
      BY <1>d, <3>2 DEF Editor!Explained
    <3>4. Editor!Becomes(r, q)
      BY <3>1 DEF q
    <3> QED BY <3>2, <3>3, <3>4, EditorIdle DEF EditorHandlers
  <2> QED BY <2>1, <2>2, <2>3, <2>4
<1>2. \A x \in Requests \ {r} : x \in overtaken => x \in overtaken'
  BY <1>a
<1>4. reqs' \in [Requests -> EditorHandlers] /\ Editor!HandlersExplained' /\ Editor!SeedsMeet'
  BY <1>a, <1>b, <1>1, <1>2, HandlersStay, SeedsStay
<1>5. Editor!TypeOK'
  BY <1>a, <1>4 DEF Editor!IInv, Editor!TypeOK, EditorHandlers
<1> QED BY <1>b, <1>c, <1>4, <1>5 DEF Editor!IInv

\* A class is placed, moved or taken away.
LEMMA EntriesKeep ==
    ASSUME Editor!IInv,
           \/ \E r \in Requests : Editor!AddWrite(r) \/ Editor!MoveWrite(r)
           \/ \E e \in Entries : Editor!RemoveEntry(e)
    PROVE  Editor!IInv'
<1>a. UNCHANGED periods
  BY DEF Editor!AddWrite, Editor!MoveWrite, Editor!RemoveEntry
<1>b. /\ Turns /\ Turned = {} /\ Editor!IdsInOrder'
      /\ Editor!Issued' = Editor!Issued /\ Editor!Present' = Editor!Present
  BY <1>a, Unturned
<1>c. /\ entries \in [Entries -> Editor!Cell \cup {Unused, Gone}]
      /\ reqs \in [Requests -> EditorHandlers] /\ overtaken \subseteq Entries \cup Requests
  BY DEF Editor!IInv, Editor!TypeOK, EditorHandlers
\* It is enough that one entry changes, to Gone or to a cell that is explained.
<1>1. ASSUME NEW e \in Entries, NEW cell \in Editor!Cell \cup {Gone},
             entries' = [entries EXCEPT ![e] = cell],
             cell # Gone => /\ cell.period \in Editor!Present
                            /\ periods[cell.period].break => e \in overtaken',
             \A f \in Entries \ {e} : f \in overtaken => f \in overtaken'
      PROVE  /\ entries' \in [Entries -> Editor!Cell \cup {Unused, Gone}]
             /\ Editor!BreakClassesExplained'
  <2>1. /\ entries' \in [Entries -> Editor!Cell \cup {Unused, Gone}] /\ entries'[e] = cell
        /\ \A f \in Entries \ {e} : entries'[f] = entries[f]
    BY <1>c, <1>1
  <2>2. ASSUME NEW f \in Entries, entries'[f] \in Editor!Cell
        PROVE  /\ entries'[f].period \in Editor!Present
               /\ periods[entries'[f].period].break => f \in overtaken'
    <3>1. CASE f = e
      <4>1. entries'[f] = cell /\ cell # Gone
        BY <2>1, <2>2, <3>1, EditorAssumption
      <4> QED BY <1>1, <3>1, <4>1
    <3>2. CASE f # e
      BY <1>1, <2>1, <2>2, <3>2, PlacedExplained DEF Editor!Placed
    <3> QED BY <3>1, <3>2
  <2> QED BY <1>a, <1>b, <2>1, <2>2 DEF Editor!BreakClassesExplained, Editor!Placed
<1>2. ASSUME NEW r \in Requests, Editor!Becomes(r, Editor!Idle),
             \A x \in Requests \ {r} : x \in overtaken => x \in overtaken'
      PROVE  reqs' \in [Requests -> EditorHandlers] /\ Editor!HandlersExplained' /\ Editor!SeedsMeet'
  BY <1>a, <1>b, <1>2, EditorIdle, HandlersStay, SeedsStay
<1>3. ASSUME reqs' \in [Requests -> EditorHandlers], Editor!HandlersExplained', Editor!SeedsMeet',
             entries' \in [Entries -> Editor!Cell \cup {Unused, Gone}],
             Editor!BreakClassesExplained', overtaken' \subseteq Entries \cup Requests
      PROVE  Editor!IInv'
  <2>1. Editor!TypeOK'
    BY <1>a, <1>3 DEF Editor!IInv, Editor!TypeOK, EditorHandlers
  <2> QED BY <1>b, <1>3, <2>1 DEF Editor!IInv
\* A handler that ends with its class put at e, as it has looked at the period.
<1>4. ASSUME NEW r \in Requests, NEW e \in Entries, Editor!EndsAt(r, e)
      PROVE  /\ Editor!Becomes(r, Editor!Idle) /\ overtaken' \subseteq Entries \cup Requests
             /\ r \in overtaken => e \in overtaken'
             /\ \A x \in (Entries \cup Requests) \ {r, e} : x \in overtaken => x \in overtaken'
  BY <1>c, <1>4 DEF Editor!EndsAt
<1>5. ASSUME NEW r \in Requests, Editor!AddWrite(r) PROVE Editor!IInv'
  <2> DEFINE cell == [period |-> reqs[r].period, class |-> reqs[r].class]
  <2>1. Editor!At(r, "add")
    BY <1>5 DEF Editor!AddWrite
  <2>2. reqs[r] \in Editor!Add
    BY <1>c, <2>1, Kinds DEF Editor!At
  <2>3. cell \in Editor!Cell /\ cell.period = reqs[r].period
    BY <2>2 DEF Editor!Add, Editor!Cell
  <2>4. PICK e \in Entries : /\ Editor!Takes(cell, e) /\ entries' = [entries EXCEPT ![e] = cell]
                             /\ Editor!EndsAt(r, e)
    BY <1>5 DEF Editor!AddWrite
  <2>5. cell.period \in Editor!Present
    BY <2>4 DEF Editor!Takes
  <2>6. periods[cell.period].break => r \in overtaken
    BY <2>1, <2>3, <2>5 DEF Editor!IInv, Editor!HandlersExplained, Editor!Explained
  <2> HIDE DEF cell
  <2>7. /\ Editor!Becomes(r, Editor!Idle) /\ overtaken' \subseteq Entries \cup Requests
        /\ periods[cell.period].break => e \in overtaken'
        /\ \A x \in Requests \ {r} : x \in overtaken => x \in overtaken'
        /\ \A f \in Entries \ {e} : f \in overtaken => f \in overtaken'
    BY <1>4, <2>4, <2>6, EditorAssumption
  <2>8. entries' \in [Entries -> Editor!Cell \cup {Unused, Gone}] /\ Editor!BreakClassesExplained'
    BY <1>1, <2>3, <2>4, <2>5, <2>7
  <2> QED BY <1>2, <1>3, <2>7, <2>8
<1>6. ASSUME NEW r \in Requests, Editor!MoveWrite(r) PROVE Editor!IInv'
  <2> DEFINE q == reqs[r]
             old == entries[q.entry]
             cell == [period |-> IF q.period = Same THEN old.period ELSE q.period,
                      class |-> IF q.class = Same THEN old.class ELSE q.class]
  <2>1. /\ Editor!At(r, "move") /\ q.entry \in Editor!Placed /\ Editor!Takes(cell, q.entry)
        /\ entries' = [entries EXCEPT ![q.entry] = cell]
        /\ IF q.period = Same THEN Editor!Ends(r) ELSE Editor!EndsAt(r, q.entry)
    BY <1>6 DEF Editor!MoveWrite
  <2>2. q \in Editor!Move
    BY <1>c, <2>1, Kinds DEF Editor!At
  <2>3. /\ old \in Editor!Cell /\ q.entry \in Entries
        /\ periods[old.period].break => q.entry \in overtaken
    BY <2>1, PlacedExplained DEF Editor!Placed
  <2>4. cell \in Editor!Cell /\ cell.period = IF q.period = Same THEN old.period ELSE q.period
    BY <2>2, <2>3 DEF Editor!Move, Editor!Cell
  <2>5. cell.period \in Editor!Present
    BY <2>1 DEF Editor!Takes
  <2>6. q.period # Same /\ periods[cell.period].break => r \in overtaken
    BY <2>1, <2>4, <2>5 DEF Editor!IInv, Editor!HandlersExplained, Editor!Explained
  <2> HIDE DEF cell, q
  <2>7. /\ Editor!Becomes(r, Editor!Idle) /\ overtaken' \subseteq Entries \cup Requests
        /\ periods[cell.period].break => q.entry \in overtaken'
        /\ \A x \in Requests \ {r} : x \in overtaken => x \in overtaken'
        /\ \A f \in Entries \ {q.entry} : f \in overtaken => f \in overtaken'
    <3>1. CASE q.period = Same
      BY <1>c, <2>1, <2>3, <2>4, <3>1, EditorAssumption DEF Editor!Ends
    <3>2. CASE q.period # Same
      BY <1>4, <2>1, <2>3, <2>6, <3>2, EditorAssumption
    <3> QED BY <3>1, <3>2
  <2>8. entries' \in [Entries -> Editor!Cell \cup {Unused, Gone}] /\ Editor!BreakClassesExplained'
    BY <1>1, <2>1, <2>3, <2>4, <2>5, <2>7
  <2> QED BY <1>2, <1>3, <2>7, <2>8
<1>7. ASSUME NEW e \in Entries, Editor!RemoveEntry(e) PROVE Editor!IInv'
  <2>1. overtaken' = overtaken \ {e} /\ UNCHANGED reqs /\ entries' = [entries EXCEPT ![e] = Gone]
    BY <1>7 DEF Editor!RemoveEntry
  <2>2. entries' \in [Entries -> Editor!Cell \cup {Unused, Gone}] /\ Editor!BreakClassesExplained'
    BY <1>1, <2>1
  <2>3. \A x \in Requests : x \in overtaken <=> x \in overtaken'
    BY <2>1, EditorAssumption
  <2>4. Editor!HandlersExplained' /\ Editor!SeedsMeet'
    BY <1>a, <1>b, <2>1, <2>3
       DEF Editor!IInv, Editor!HandlersExplained, Editor!SeedsMeet, Editor!At, Editor!Explained
  <2> QED BY <1>3, <1>c, <2>1, <2>2, <2>4
<1> QED BY <1>5, <1>6, <1>7

\* The classes of deleted periods go, the others stay in theirs, and a save that makes a
\* break of one has come upon them.
LEMMA CascadeKeeps ==
    ASSUME Editor!IInv, NEW deleted, Editor!Cascade(deleted),
           \A k \in Editor!Present \ deleted : periods'[k] \in Editor!Period,
           \A e \in Editor!Placed \ Editor!Within(deleted) :
               e \in overtaken \/ entries[e].period \in Turned => e \in overtaken'
    PROVE  /\ entries' \in [Entries -> Editor!Cell \cup {Unused, Gone}]
           /\ Editor!BreakClassesExplained'
           /\ \A e \in Editor!Placed : entries'[e] = entries[e] \/ entries[e].period \in deleted
<1>1. \A e \in Entries : entries'[e] = IF e \in Editor!Within(deleted) THEN Gone ELSE entries[e]
  BY DEF Editor!Cascade
<1>2. entries' \in [Entries -> Editor!Cell \cup {Unused, Gone}]
  BY DEF Editor!Cascade, Editor!IInv, Editor!TypeOK
<1>3. ASSUME NEW e \in Entries, entries'[e] \in Editor!Cell
      PROVE  /\ entries'[e].period \in Editor!Present'
             /\ periods'[entries'[e].period].break => e \in overtaken'
  <2>1. e \in Editor!Placed /\ e \notin Editor!Within(deleted) /\ entries'[e] = entries[e]
    BY <1>1, <1>3, EditorAssumption DEF Editor!Placed
  <2>2. PICK k : k = entries[e].period /\ k \in Editor!Present /\ k \notin deleted
    BY <2>1, PlacedExplained DEF Editor!Within
  <2>3. periods'[k] \in Editor!Period /\ k \in Editor!Present'
    BY <2>2 DEF Editor!Present
  <2>4. periods[k].break => e \in overtaken
    BY <2>1, <2>2, PlacedExplained
  <2>5. periods'[k].break /\ ~periods[k].break => k \in Turned
    BY <2>2, <2>3 DEF Turned, Editor!TurnedBy
  <2> QED BY <2>1, <2>2, <2>3, <2>4, <2>5
<1>4. \A e \in Editor!Placed : entries'[e] = entries[e] \/ entries[e].period \in deleted
  BY <1>1 DEF Editor!Placed, Editor!Within
<1> QED BY <1>2, <1>3, <1>4 DEF Editor!BreakClassesExplained, Editor!Placed

LEMMA PutKeepsIds ==
    ASSUME Editor!IInv, NEW r \in Requests, Editor!PutWrite(r)
    PROVE  Turns /\ Editor!IdsInOrder'
<1> DEFINE q == reqs[r]
           c == Cardinality(Editor!Issued)
<1>1. /\ Editor!At(r, "put") /\ Editor!IdsOf(q, Editor!Updated(q)) \subseteq Editor!Present
  BY DEF Editor!PutWrite, Editor!Accepted
<1>2. PICK n \in Nat : /\ DOMAIN q.rows = 1..n
                       /\ \A i \in 1..n : q.rows[i].break \in BOOLEAN /\ q.orders[i] \in Nat
  BY <1>1, PutTyped
<1>3. /\ \A i \in 1..n : /\ Editor!IdOf(q, i) \in Editor!PeriodIds
                         /\ periods'[Editor!IdOf(q, i)] = [order |-> q.orders[i], break |-> q.rows[i].break]
      /\ \A k \in Editor!PeriodIds :
            (\A i \in 1..n : Editor!IdOf(q, i) # k) =>
                periods'[k] = IF k \in Editor!Dropped(q) THEN Gone ELSE periods[k]
  BY <1>2, SavedSchedule
<1>5. ASSUME NEW i \in 1..n
      PROVE  periods'[Editor!IdOf(q, i)] \in Editor!Period
  <2>1. [order |-> q.orders[i], break |-> q.rows[i].break] \in Editor!Period
    BY <1>2 DEF Editor!Period
  <2> QED BY <1>3, <2>1
<1>6. periods \in [Editor!PeriodIds -> Editor!Period \cup {Unused, Gone}]
  BY DEF Editor!IInv, Editor!TypeOK
<1>7. periods' \in [Editor!PeriodIds -> Editor!Period \cup {Unused, Gone}]
  <2>1. \A k \in Editor!PeriodIds : periods'[k] \in Editor!Period \cup {Unused, Gone}
    BY <1>3, <1>5, <1>6
  <2>2. periods' = [k \in Editor!PeriodIds |-> periods'[k]]
    BY DEF Editor!PutWrite, Editor!Saves, Editor!Saved
  <2> QED BY <2>1, <2>2
<1>8. ASSUME NEW i \in 1..n
      PROVE  \/ Editor!IdOf(q, i) \in Editor!Present
             \/ i \in Editor!Created(q) /\ Editor!IdOf(q, i) = Editor!NewId(q, i)
  <2>1. CASE i \in Editor!Updated(q)
    <3>1. Editor!IdOf(q, i) = q.rows[i].id
      BY <2>1 DEF Editor!IdOf
    <3>2. q.rows[i].id \in Editor!IdsOf(q, Editor!Updated(q))
      BY <2>1 DEF Editor!IdsOf
    <3>3. Editor!IdOf(q, i) \in Editor!Present
      BY <1>1, <3>1, <3>2
    <3> QED BY <2>1, <3>3
  <2>2. CASE i \notin Editor!Updated(q)
    BY <1>2, <2>2 DEF Editor!IdOf, Editor!Created
  <2> QED BY <2>1, <2>2
<1>9. \A i \in Editor!Created(q) : Editor!NewId(q, i) \notin Editor!Issued
  BY NewIdsFresh
<1>10. Turns
  <2> SUFFICES ASSUME NEW k \in Editor!Issued
               PROVE  /\ periods'[k] # Unused
                      /\ periods'[k] \in Editor!Period => periods[k] \in Editor!Period
    BY <1>7 DEF Turns
  <2>1. k \in Editor!PeriodIds /\ periods[k] # Unused
    BY DEF Editor!Issued
  <2>2. CASE \E i \in 1..n : Editor!IdOf(q, i) = k
    <3>1. k \in Editor!Present /\ periods'[k] \in Editor!Period
      BY <1>5, <1>8, <1>9, <2>2
    <3> QED BY <3>1, EditorAssumption DEF Editor!Present
  <2>3. CASE \A i \in 1..n : Editor!IdOf(q, i) # k
    BY <1>3, <2>1, <2>3, EditorAssumption
  <2> QED BY <2>2, <2>3
<1>12. Editor!IdsInOrder'
  <2> DEFINE C == Editor!Created(q)
             T == {Editor!NewId(q, i) : i \in C}
             f == [i \in C |-> Editor!NewId(q, i)]
  <2>1. /\ IsFiniteSet(C) /\ Cardinality(C) \in Nat
        /\ \A i \in C : Editor!NewId(q, i) \notin Editor!Issued /\ Editor!NewId(q, i) \in 1..(c + Cardinality(C))
        /\ \A i, j \in C : i # j => Editor!NewId(q, i) # Editor!NewId(q, j)
    BY NewIdsFresh
  <2>2. c \in Nat /\ IsFiniteSet(Editor!Issued) /\ Editor!Issued \subseteq 1..c
    BY IssuedFinite, SameCount DEF Editor!IInv, Editor!IdsInOrder
  <2>3. f \in Bijection(C, T)
    <3>1. f \in [C -> T] /\ \A i \in C : f[i] = Editor!NewId(q, i)
      OBVIOUS
    <3>2. \A i, j \in C : f[i] = f[j] => i = j
      BY <2>1, <3>1
    <3>3. \A t \in T : \E i \in C : f[i] = t
      BY <3>1
    <3> HIDE DEF f, C, T
    <3> QED BY <3>1, <3>2, <3>3 DEF Bijection, Injection, Surjection, IsInjective
  <2> HIDE DEF f
  <2>4. IsFiniteSet(T) /\ Cardinality(T) = Cardinality(C)
    BY <2>1, <2>3, FS_Bijection DEF ExistsBijection
  <2>5. Editor!Issued \cap T = {}
    BY <2>1
  <2>6. Cardinality(Editor!Issued \cup T) = c + Cardinality(C)
    <3>1. Cardinality(Editor!Issued \cup T) = c + Cardinality(T) - Cardinality(Editor!Issued \cap T)
      BY <2>2, <2>4, FS_Union
    <3>2. Cardinality(Editor!Issued \cap T) = 0
      BY <2>5, FS_EmptySet
    <3> HIDE DEF T, C, c
    <3> QED BY <2>1, <2>2, <2>4, <3>1, <3>2
  <2>7. Editor!Issued' = Editor!Issued \cup T
    <3>1. ASSUME NEW k \in Editor!PeriodIds, periods'[k] # Unused PROVE k \in Editor!Issued \cup T
      <4>1. CASE \E i \in 1..n : Editor!IdOf(q, i) = k
        BY <1>8, <4>1, EditorAssumption DEF Editor!Present, Editor!Issued
      <4>2. CASE \A i \in 1..n : Editor!IdOf(q, i) # k
        <5>1. k \notin Editor!Dropped(q) => periods[k] # Unused
          BY <1>3, <3>1, <4>2
        <5>2. Editor!Dropped(q) \subseteq Editor!Issued
          BY <1>1, PutTyped DEF Editor!Dropped
        <5> QED BY <5>1, <5>2 DEF Editor!Issued
      <4> QED BY <4>1, <4>2
    <3>2. \A k \in Editor!Issued : periods'[k] # Unused
      BY <1>10 DEF Turns
    <3>3. ASSUME NEW i \in C
          PROVE  Editor!NewId(q, i) \in Editor!PeriodIds /\ periods'[Editor!NewId(q, i)] # Unused
      <4>1. i \in 1..n /\ Editor!IdOf(q, i) = Editor!NewId(q, i)
        BY <1>2 DEF Editor!Created, Editor!IdOf
      <4>2. Editor!IdOf(q, i) \in Editor!PeriodIds /\ periods'[Editor!IdOf(q, i)] \in Editor!Period
        BY <1>3, <1>5, <4>1
      <4>3. Unused \notin Editor!Period
        BY EditorAssumption
      <4> QED BY <4>1, <4>2, <4>3
    <3> QED BY <3>1, <3>2, <3>3 DEF Editor!Issued
  <2>8. Editor!Issued' \subseteq 1..(c + Cardinality(C))
    <3>1. \A k \in 1..c : k \in 1..(c + Cardinality(C))
      BY <2>1, <2>2
    <3>2. \A k \in Editor!Issued \cup T : k \in 1..(c + Cardinality(C))
      BY <2>1, <2>2, <3>1
    <3> QED BY <2>7, <3>2
  <2>9. Cardinality(Editor!Issued') = c + Cardinality(C)
    BY <2>6, <2>7
  <2> QED BY <2>8, <2>9, SameCount DEF Editor!IdsInOrder
<1> QED BY <1>10, <1>12

LEMMA PutKeepsAll ==
    ASSUME Editor!IInv, NEW r \in Requests, Editor!PutWrite(r)
    PROVE  /\ Editor!IInv'
           /\ \A e \in Editor!Placed : entries'[e] = entries[e] \/ entries[e].period \in Editor!Dropped(reqs[r])
<1> DEFINE q == reqs[r]
<1>1. Turns /\ Editor!IdsInOrder'
  BY PutKeepsIds
<1>2. /\ Editor!Becomes(r, Editor!Idle) /\ Editor!Cascade(Editor!Dropped(q)) /\ Editor!At(r, "put")
      /\ overtaken' = ((overtaken \cup Editor!Within(Turned) \cup {x \in Requests : Editor!Meets(reqs[x], Turned)})
                         \ Editor!Within(Editor!Dropped(q))) \ {r}
  BY DEF Editor!PutWrite, Editor!Saves, Turned
<1>3. /\ \A ks : Editor!Within(ks) \subseteq Entries
      /\ overtaken \subseteq Entries \cup Requests /\ Entries \cap Requests = {}
  BY EditorAssumption DEF Editor!Within, Editor!Placed, Editor!IInv, Editor!TypeOK
<1>4. /\ \A x \in Requests \ {r} : x \in overtaken \/ Editor!Meets(reqs[x], Turned) => x \in overtaken'
      /\ overtaken' \subseteq Entries \cup Requests
  BY <1>2, <1>3
<1>5. \A e \in Editor!Placed \ Editor!Within(Editor!Dropped(q)) :
        e \in overtaken \/ entries[e].period \in Turned => e \in overtaken'
  BY <1>2, <1>3 DEF Editor!Placed, Editor!Within
<1>6. ASSUME NEW k \in Editor!Present \ Editor!Dropped(q) PROVE periods'[k] \in Editor!Period
  <2>1. PICK n \in Nat : /\ DOMAIN q.rows = 1..n
                         /\ \A i \in 1..n : q.rows[i].break \in BOOLEAN /\ q.orders[i] \in Nat
    BY <1>2, PutTyped
  <2>2. k \in Editor!PeriodIds /\ periods[k] \in Editor!Period
    BY DEF Editor!Present
  <2>3. CASE \E i \in 1..n : Editor!IdOf(q, i) = k
    <3>1. PICK i \in 1..n : Editor!IdOf(q, i) = k
      BY <2>3
    <3>2. [order |-> q.orders[i], break |-> q.rows[i].break] \in Editor!Period
      BY <2>1 DEF Editor!Period
    <3>3. periods'[k] = [order |-> q.orders[i], break |-> q.rows[i].break]
      BY <2>1, <3>1, SavedSchedule
    <3> QED BY <3>2, <3>3
  <2>4. CASE \A i \in 1..n : Editor!IdOf(q, i) # k
    BY <2>1, <2>2, <2>4, SavedSchedule
  <2> QED BY <2>3, <2>4
<1>7. /\ entries' \in [Entries -> Editor!Cell \cup {Unused, Gone}] /\ Editor!BreakClassesExplained'
      /\ \A e \in Editor!Placed : entries'[e] = entries[e] \/ entries[e].period \in Editor!Dropped(q)
  BY <1>2, <1>5, <1>6, CascadeKeeps
<1> HIDE DEF q
<1>8. reqs' \in [Requests -> EditorHandlers] /\ Editor!HandlersExplained'
  BY <1>1, <1>2, <1>4, EditorIdle, HandlersStay DEF Editor!Meets
<1>9. Editor!SeedsMeet'
  BY <1>2, <1>4, EditorIdle, SeedsStay DEF Editor!Meets
<1>10. Editor!TypeOK'
  BY <1>1, <1>4, <1>7, <1>8 DEF Turns, Editor!TypeOK, EditorHandlers
<1> QED BY <1>1, <1>7, <1>8, <1>9, <1>10 DEF Editor!IInv, q

LEMMA SeedWriteKeeps ==
    ASSUME Editor!IInv, NEW r \in Requests, Editor!SeedWrite(r)
    PROVE  Editor!IInv' /\ (Editor!Present = {} \/ r \in overtaken)
<1> DEFINE c == Cardinality(Editor!Issued)
<1>1. c \in Nat /\ IsFiniteSet(Editor!Issued) /\ Editor!Issued \subseteq 1..c
  BY IssuedFinite, SameCount DEF Editor!IInv, Editor!IdsInOrder
<1>2. \A n : Editor!Fresh(n) = c + n
  BY SameCount DEF Editor!Fresh
<1>3. /\ c + Length <= MaxPeriods /\ \A i \in Editor!Default : Editor!Vacant(i, {})
      /\ periods' = [k \in Editor!PeriodIds |->
                       IF k \in (c + 1)..(c + Length)
                       THEN [order |-> k - (c + 0), break |-> k - (c + 0) \in Recess] ELSE periods[k]]
      /\ Editor!Becomes(r, Editor!Idle) /\ UNCHANGED entries /\ Editor!At(r, "seed")
      /\ overtaken' = overtaken \ {r}
  BY <1>2 DEF Editor!SeedWrite, Editor!Seeded, Editor!Ends
<1> HIDE DEF c
<1>4. \A k \in (c + 1)..(c + Length) : /\ k \in Editor!PeriodIds /\ k \notin Editor!Issued
                                       /\ k - (c + 0) \in Nat
  BY <1>1, <1>3, EditorAssumption DEF Editor!PeriodIds
<1>5. \A k \in (c + 1)..(c + Length) :
        periods'[k] \in Editor!Period /\ periods'[k].order = k - (c + 0)
  BY <1>3, <1>4 DEF Editor!Period
<1>6. \A k \in Editor!PeriodIds : k \notin (c + 1)..(c + Length) => periods'[k] = periods[k]
  BY <1>3
<1>7. /\ periods \in [Editor!PeriodIds -> Editor!Period \cup {Unused, Gone}]
      /\ overtaken \subseteq Entries \cup Requests /\ Entries \cap Requests = {}
  BY EditorAssumption DEF Editor!IInv, Editor!TypeOK
<1>8. periods' \in [Editor!PeriodIds -> Editor!Period \cup {Unused, Gone}]
  <2>1. \A k \in Editor!PeriodIds : periods'[k] \in Editor!Period \cup {Unused, Gone}
    BY <1>5, <1>6, <1>7
  <2>2. periods' = [k \in Editor!PeriodIds |-> periods'[k]]
    BY <1>3
  <2> QED BY <2>1, <2>2
<1>9. \A k \in Editor!Issued : k \in Editor!PeriodIds /\ periods'[k] = periods[k] /\ periods[k] # Unused
  BY <1>4, <1>6 DEF Editor!Issued
<1>10. Turns /\ Turned = {}
  BY <1>7, <1>8, <1>9, EditorAssumption DEF Turns, Turned, Editor!TurnedBy, Editor!Present, Editor!Issued
<1>11. \E k \in Editor!Present' : periods'[k].order = 1
  <2>1. c + 1 \in (c + 1)..(c + Length) /\ (c + 1) - (c + 0) = 1
    BY <1>1, EditorAssumption
  <2>2. c + 1 \in Editor!Present' /\ periods'[c + 1].order = 1
    BY <1>4, <1>5, <2>1 DEF Editor!Present
  <2> QED BY <2>2
<1>12. Editor!IdsInOrder'
  <2> DEFINE T == (c + 1)..(c + Length)
  <2>1. IsFiniteSet(T) /\ Cardinality(T) = Length
    <3>1. c + 1 \in Int /\ c + Length \in Int /\ ~(c + 1 > c + Length) /\ (c + Length) - (c + 1) + 1 = Length
      BY <1>1, EditorAssumption
    <3> QED BY <3>1, FS_Interval
  <2>2. Editor!Issued \cap T = {}
    BY <1>4
  <2>3. Editor!Issued' = Editor!Issued \cup T
    <3>1. \A k \in T : periods'[k] # Unused
      BY <1>5, EditorAssumption
    <3> QED BY <1>4, <1>6, <1>9, <3>1 DEF Editor!Issued
  <2>4. Editor!Issued' \subseteq 1..(c + Length)
    BY <1>1, <2>3, EditorAssumption
  <2> HIDE DEF T
  <2>5. Cardinality(Editor!Issued \cup T) = c + Length
    <3>1. Cardinality(Editor!Issued \cup T) = c + Cardinality(T) - Cardinality(Editor!Issued \cap T)
      BY <1>1, <2>1, FS_Union DEF c
    <3>2. Cardinality(Editor!Issued \cap T) = 0
      BY <2>2, FS_EmptySet
    <3> QED BY <1>1, <2>1, <3>1, <3>2, EditorAssumption
  <2> QED BY <2>3, <2>4, <2>5, SameCount DEF Editor!IdsInOrder
<1>13. Editor!Present = {} \/ r \in overtaken
  <2>1. 1 \in Editor!Default
    BY EditorAssumption DEF Editor!Default
  <2> QED BY <1>3, <2>1 DEF Editor!IInv, Editor!SeedsMeet, Editor!Vacant
<1>14. Editor!BreakClassesExplained'
  <2>1. \A k \in Editor!Present : k \in Editor!Present' /\ periods'[k] = periods[k]
    BY <1>9, EditorAssumption DEF Editor!Present, Editor!Issued
  <2>2. \A e \in Entries : e \in overtaken => e \in overtaken'
    BY <1>3, <1>7
  <2> QED BY <1>3, <2>1, <2>2 DEF Editor!IInv, Editor!BreakClassesExplained, Editor!Placed
<1>15. reqs' \in [Requests -> EditorHandlers] /\ Editor!HandlersExplained'
  BY <1>3, <1>10, EditorIdle, HandlersStay
<1>16. Editor!SeedsMeet'
  BY <1>3, <1>11, EditorIdle, SeedsStay
<1>17. Editor!TypeOK'
  BY <1>3, <1>7, <1>10, <1>15 DEF Turns, Editor!IInv, Editor!TypeOK, EditorHandlers
<1> QED BY <1>12, <1>13, <1>14, <1>15, <1>16, <1>17 DEF Editor!IInv

LEMMA WipeKeeps ==
    ASSUME Editor!IInv, Editor!WipePeriods
    PROVE  Editor!IInv'
<1>1. /\ periods' = [k \in Editor!PeriodIds |-> IF k \in Editor!Present THEN Gone ELSE periods[k]]
      /\ Editor!Cascade(Editor!Present) /\ UNCHANGED reqs
      /\ overtaken' = overtaken \ Editor!Within(Editor!Present)
  BY DEF Editor!WipePeriods
<1>2. /\ periods \in [Editor!PeriodIds -> Editor!Period \cup {Unused, Gone}]
      /\ overtaken \subseteq Entries \cup Requests
  BY DEF Editor!IInv, Editor!TypeOK
<1>3. \A k \in Editor!PeriodIds : periods'[k] \notin Editor!Period /\ (periods'[k] = Unused <=> periods[k] = Unused)
  BY <1>1, <1>2, EditorAssumption DEF Editor!Present
<1>4. Turns /\ Turned = {}
  BY <1>1, <1>2, <1>3 DEF Turns, Turned, Editor!TurnedBy, Editor!Present, Editor!Issued
<1>5. Editor!Present' = {} /\ Editor!Issued' = Editor!Issued
  BY <1>3 DEF Editor!Present, Editor!Issued
<1>6. Editor!IdsInOrder' /\ Editor!SeedsMeet'
  BY <1>5 DEF Editor!IInv, Editor!IdsInOrder, Editor!SeedsMeet
<1>7. entries' \in [Entries -> Editor!Cell \cup {Unused, Gone}] /\ Editor!BreakClassesExplained'
  BY <1>1, <1>4, CascadeKeeps
<1>8. \A x \in Requests : x \in overtaken => x \in overtaken'
  BY <1>1, EditorAssumption DEF Editor!Within, Editor!Placed
<1>9. Editor!HandlersExplained'
  <2> SUFFICES ASSUME NEW x \in Requests
               PROVE  /\ Editor!At(x, "put") => reqs[x].seen \subseteq Editor!Issued'
                      /\ Editor!At(x, "add") => Editor!Explained(reqs[x].period, x)'
                      /\ Editor!At(x, "move") /\ reqs[x].period # Same => Editor!Explained(reqs[x].period, x)'
    BY <1>1 DEF Editor!HandlersExplained, Editor!At
  <2>1. PICK k : k = reqs[x].period
    OBVIOUS
  <2>2. Editor!Explained(k, x) => Editor!Explained(k, x)'
    BY <1>4, <1>8, ExplainedStays
  <2>3. Editor!Explained(k, x)' => Editor!Explained(reqs[x].period, x)'
    BY <1>1, <2>1 DEF Editor!Explained
  <2> QED BY <1>5, <2>1, <2>2, <2>3 DEF Editor!IInv, Editor!HandlersExplained
<1>10. Editor!TypeOK'
  BY <1>1, <1>2, <1>4, <1>7 DEF Turns, Editor!IInv, Editor!TypeOK
<1> QED BY <1>6, <1>7, <1>9, <1>10 DEF Editor!IInv

-----------------------------------------------------------------------------
LEMMA EditorStep == Editor!IInv /\ [Editor!Next]_(Editor!vars) => Editor!IInv'
<1> SUFFICES ASSUME Editor!IInv, [Editor!Next]_(Editor!vars) PROVE Editor!IInv'
  OBVIOUS
<1>1. CASE UNCHANGED Editor!vars
  <2>1. UNCHANGED <<periods, entries, reqs, overtaken>>
    BY <1>1 DEF Editor!vars
  <2>2. Editor!IdsInOrder' /\ Editor!Issued' = Editor!Issued /\ Editor!Present' = Editor!Present
    BY <2>1, Unturned
  <2>3. /\ Editor!TypeOK' /\ Editor!HandlersExplained' /\ Editor!SeedsMeet'
        /\ Editor!BreakClassesExplained'
    BY <2>1, <2>2
       DEF Editor!IInv, Editor!TypeOK, Editor!HandlersExplained, Editor!SeedsMeet, Editor!At,
           Editor!Explained, Editor!BreakClassesExplained, Editor!Placed
  <2> QED BY <2>2, <2>3 DEF Editor!IInv
<1>2. CASE Editor!Next
  BY <1>2, ReadsKeep, EntriesKeep, PutKeepsAll, SeedWriteKeeps, WipeKeeps
     DEF Editor!Next, Editor!Handle
<1> QED BY <1>1, <1>2

\* Ids are given out in order, a seed that no save came upon meets what is there, and a
\* class or a handler stands at a break only when a save made it one behind its back.
THEOREM EditorInvariance == Editor!Spec => []Editor!IInv
<1>1. Editor!Init => Editor!IInv
  <2> SUFFICES ASSUME Editor!Init PROVE Editor!IInv
    OBVIOUS
  <2>1. Editor!Issued = {} /\ Editor!Present = {} /\ Editor!Placed = {}
    BY EditorAssumption DEF Editor!Init, Editor!Issued, Editor!Present, Editor!Placed
  <2>2. \A r \in Requests : reqs[r].step = "idle"
    BY EditorIdle DEF Editor!Init
  <2>3. Editor!TypeOK
    BY DEF Editor!Init, Editor!TypeOK
  <2> QED BY <2>1, <2>2, <2>3
     DEF Editor!IInv, Editor!IdsInOrder, Editor!SeedsMeet, Editor!HandlersExplained, Editor!At,
         Editor!BreakClassesExplained
<1> QED BY <1>1, EditorStep, PTL DEF Editor!Spec

\* "Cannot assign a class during a break period" (timetable.js:839): a class stands in a
\* break only when a save made a break of its period after the class was put there, or
\* after its handler had looked at the period.
THEOREM BreaksExplained == Editor!Spec => []BreakClassesExplained
BY EditorInvariance, PTL DEF Editor!IInv, BreakClassesExplained

\* The defaults are created in an empty schedule (README.md:195), or in one that a save has
\* made with other positions between the read of the seed and its write.
THEOREM DefaultsWhenEmpty == Editor!Spec => SeededOnlyWhenEmpty
<1>1. Editor!IInv /\ [Editor!Next]_(Editor!vars) =>
        [\A r \in Requests : Editor!At(r, "seed") /\ reqs'[r] = Editor!Idle /\ periods' # periods =>
            Editor!Present = {} \/ r \in overtaken]_(Editor!vars)
  <2> SUFFICES ASSUME Editor!IInv, Editor!Next, NEW r \in Requests,
                      Editor!At(r, "seed"), reqs'[r] = Editor!Idle, periods' # periods
               PROVE  Editor!Present = {} \/ r \in overtaken
    OBVIOUS
  <2>1. ASSUME NEW x \in Requests, Editor!Becomes(x, Editor!Idle), x # r PROVE FALSE
    <3>1. reqs'[r] = reqs[r]
      BY <2>1 DEF Editor!Becomes, Editor!IInv, Editor!TypeOK
    <3> QED BY <3>1, EditorIdle DEF Editor!At
  <2>2. ASSUME NEW x \in Requests, Editor!PutWrite(x) PROVE FALSE
    <3>1. Editor!At(x, "put") /\ Editor!Becomes(x, Editor!Idle)
      BY <2>2 DEF Editor!PutWrite, Editor!Saves
    <3> QED BY <2>1, <3>1 DEF Editor!At
  <2>3. ASSUME Editor!WipePeriods PROVE FALSE
    BY <2>3, EditorIdle DEF Editor!WipePeriods, Editor!At
  <2>4. ASSUME NEW x \in Requests, Editor!SeedWrite(x) PROVE Editor!Present = {} \/ r \in overtaken
    <3>1. Editor!Becomes(x, Editor!Idle)
      BY <2>4 DEF Editor!SeedWrite, Editor!Ends
    <3> QED BY <2>1, <2>4, <3>1, SeedWriteKeeps
  <2> QED BY <2>2, <2>3, <2>4
     DEF Editor!Next, Editor!Handle, Editor!SeedRead, Editor!PutRead, Editor!AddCheck,
         Editor!AddWrite, Editor!MoveCheck, Editor!MoveWrite, Editor!RequestFails, Editor!RemoveEntry
<1> QED BY <1>1, EditorInvariance, PTL
   DEF Editor!Spec, SeededOnlyWhenEmpty, Editor!SeededOnlyWhenEmpty

\* What a save leaves behind, when its transaction commits.
LEMMA SavedIsSent ==
    ASSUME Editor!IInv, NEW r \in Requests, Editor!PutWrite(r)
    PROVE  LET q == reqs[r]
               there == {k \in Editor!PeriodIds : periods'[k] \in Editor!Period}
               held(i) == {k \in there : periods'[k].order = q.orders[i]}
           IN  /\ \A i \in DOMAIN q.rows :
                     \E k \in there :
                        /\ held(i) = {k}
                        /\ periods'[k].break = q.rows[i].break
                        /\ q.rows[i].id \in q.seen => k = q.rows[i].id
               /\ there \cap q.seen \subseteq Editor!IdsOf(q, DOMAIN q.rows)
               /\ \A e \in Editor!Placed :
                     entries'[e] = entries[e] \/ entries[e].period \notin there
<1> DEFINE q == reqs[r]
           there == {k \in Editor!PeriodIds : periods'[k] \in Editor!Period}
           held(i) == {k \in there : periods'[k].order = q.orders[i]}
<1>1. Editor!At(r, "put") /\ Editor!Accepted(q)
  BY DEF Editor!PutWrite
<1>2. PICK n \in Nat :
        /\ DOMAIN q.rows = 1..n
        /\ \A i \in 1..n : q.rows[i].break \in BOOLEAN /\ q.orders[i] \in Nat
        /\ \A i, j \in 1..n : i # j => q.orders[i] # q.orders[j]
  BY <1>1, PutTyped
<1>3. q.seen \subseteq Editor!PeriodIds /\ q.seen \subseteq Editor!Issued
  BY <1>1, PutTyped
<1>4. /\ \A i \in 1..n :
            /\ Editor!IdOf(q, i) \in Editor!PeriodIds
            /\ periods'[Editor!IdOf(q, i)] = [order |-> q.orders[i], break |-> q.rows[i].break]
            /\ Editor!IdOf(q, i) \notin Editor!Dropped(q)
      /\ \A k \in Editor!PeriodIds :
            (\A i \in 1..n : Editor!IdOf(q, i) # k) =>
                periods'[k] = IF k \in Editor!Dropped(q) THEN Gone ELSE periods[k]
  BY <1>2, SavedSchedule
<1>5. \A e \in Editor!Placed : entries'[e] = entries[e] \/ entries[e].period \in Editor!Dropped(q)
  BY PutKeepsAll
<1>6. \A i \in Editor!Created(q) : Editor!NewId(q, i) \notin Editor!Issued
  BY NewIdsFresh
<1>7. \A i \in 1..n : \/ i \in Editor!Updated(q) /\ Editor!IdOf(q, i) = q.rows[i].id
                      \/ i \in Editor!Created(q) /\ Editor!IdOf(q, i) = Editor!NewId(q, i)
  BY <1>2 DEF Editor!IdOf, Editor!Created
<1> HIDE DEF q
<1>8. ASSUME NEW k \in Editor!Dropped(q) PROVE k \notin there
  <2>1. k \in Editor!PeriodIds /\ \A i \in 1..n : Editor!IdOf(q, i) # k
    BY <1>3, <1>4 DEF Editor!Dropped
  <2>2. periods'[k] = Gone
    BY <1>4, <1>8, <2>1
  <2> QED BY <2>2, EditorAssumption
<1>9. ASSUME NEW i \in 1..n
      PROVE  \E k \in there :
                /\ held(i) = {k}
                /\ periods'[k].break = q.rows[i].break
                /\ q.rows[i].id \in q.seen => k = q.rows[i].id
  <2>1. PICK k \in Editor!PeriodIds : k = Editor!IdOf(q, i)
    BY <1>4
  <2>2. periods'[k] = [order |-> q.orders[i], break |-> q.rows[i].break]
    BY <1>4, <2>1
  <2>3. k \in there /\ periods'[k].order = q.orders[i] /\ periods'[k].break = q.rows[i].break
    BY <1>2, <2>2 DEF Editor!Period, q
  <2>4. q.rows[i].id \in q.seen => k = q.rows[i].id
    BY <1>2, <2>1 DEF Editor!IdOf, Editor!Updated, q
  <2>5. ASSUME NEW x \in there, periods'[x].order = q.orders[i] PROVE x = k
    <3>1. CASE \E j \in 1..n : Editor!IdOf(q, j) = x
      <4>1. PICK j \in 1..n : Editor!IdOf(q, j) = x
        BY <3>1
      <4>2. periods'[x] = [order |-> q.orders[j], break |-> q.rows[j].break]
        BY <1>4, <4>1
      <4>3. q.orders[j] = q.orders[i]
        BY <2>5, <4>2
      <4> QED BY <1>2, <2>1, <4>1, <4>3 DEF q
    <3>2. CASE \A j \in 1..n : Editor!IdOf(q, j) # x
      <4>1. x \notin Editor!Dropped(q) /\ periods'[x] = periods[x]
        BY <1>4, <1>8, <3>2
      <4>2. x \in Editor!Present /\ periods[x].order = q.orders[i]
        BY <2>5, <4>1 DEF Editor!Present
      <4>3. x \notin Editor!IdsOf(q, Editor!Updated(q) \cap 1..i)
        BY <3>2, <1>2 DEF Editor!IdsOf, Editor!IdOf, Editor!Updated, q
      <4>4. Editor!Vacant(q.orders[i], Editor!Dropped(q) \cup Editor!IdsOf(q, Editor!Updated(q) \cap 1..i))
        BY <1>1, <1>2 DEF Editor!Accepted, q
      <4> QED BY <4>1, <4>2, <4>3, <4>4 DEF Editor!Vacant
    <3> QED BY <3>1, <3>2
  <2>6. held(i) = {k}
    BY <2>3, <2>5
  <2> QED BY <2>3, <2>4, <2>6
<1>10. there \cap q.seen \subseteq Editor!IdsOf(q, DOMAIN q.rows)
  <2> SUFFICES ASSUME NEW k \in there, k \in q.seen PROVE k \in Editor!IdsOf(q, DOMAIN q.rows)
    OBVIOUS
  <2>1. k \notin Editor!Dropped(q)
    BY <1>8
  <2> QED BY <2>1 DEF Editor!Dropped, Editor!IdsOf, Editor!Updated
<1> QED BY <1>2, <1>5, <1>8, <1>9, <1>10 DEF q

\* A save of the bell schedule changes nothing, or makes the schedule what was sent.
THEOREM SavesAsSent == Editor!Spec => SavedAsSent
<1> DEFINE Sent(r) ==
      LET q == reqs[r]
          there == {k \in Editor!PeriodIds : periods'[k] \in Editor!Period}
          held(i) == {k \in there : periods'[k].order = q.orders[i]}
      IN  /\ \A i \in DOMAIN q.rows :
                \E k \in there :
                   /\ held(i) = {k}
                   /\ periods'[k].break = q.rows[i].break
                   /\ q.rows[i].id \in q.seen => k = q.rows[i].id
          /\ there \cap q.seen \subseteq Editor!IdsOf(q, DOMAIN q.rows)
          /\ \A e \in Editor!Placed :
                entries'[e] = entries[e] \/ entries[e].period \notin there
<1>1. Editor!IInv /\ [Editor!Next]_(Editor!vars) =>
        [\A r \in Requests :
            Editor!At(r, "put") /\ reqs'[r] = Editor!Idle
                /\ <<periods, entries>>' # <<periods, entries>> => Sent(r)]_(Editor!vars)
  <2> SUFFICES ASSUME Editor!IInv, Editor!Next, NEW r \in Requests,
                      Editor!At(r, "put"), reqs'[r] = Editor!Idle,
                      ~(UNCHANGED periods /\ UNCHANGED entries)
               PROVE  Sent(r)
    OBVIOUS
  <2>1. \A x \in Requests : Editor!PutWrite(x) => Sent(x)
    BY SavedIsSent
  <2> HIDE DEF Sent
  <2>2. ASSUME NEW x \in Requests, x # r, Editor!Becomes(x, Editor!Idle) PROVE FALSE
    <3>1. reqs'[r] = reqs[r]
      BY <2>2 DEF Editor!Becomes, Editor!IInv, Editor!TypeOK
    <3> QED BY <3>1, EditorIdle DEF Editor!At
  <2>3. ASSUME UNCHANGED reqs PROVE FALSE
    BY <2>3, EditorIdle DEF Editor!At
  <2>4. ASSUME NEW x \in Requests,
               Editor!SeedWrite(x) \/ Editor!PutWrite(x) \/ Editor!AddWrite(x) \/ Editor!MoveWrite(x)
        PROVE  Sent(r)
    <3>1. Editor!Becomes(x, Editor!Idle)
      BY <2>4 DEF Editor!SeedWrite, Editor!PutWrite, Editor!Saves, Editor!AddWrite, Editor!MoveWrite,
                  Editor!Ends, Editor!EndsAt
    <3>2. x = r
      BY <2>2, <3>1
    <3>3. Editor!PutWrite(r)
      BY <2>4, <3>2 DEF Editor!SeedWrite, Editor!AddWrite, Editor!MoveWrite, Editor!At
    <3> QED BY <2>1, <3>3
  <2> QED BY <2>3, <2>4
     DEF Editor!Next, Editor!Handle, Editor!SeedRead, Editor!PutRead, Editor!AddCheck,
         Editor!MoveCheck, Editor!RequestFails, Editor!RemoveEntry, Editor!WipePeriods
<1> QED BY <1>1, EditorInvariance, PTL DEF Editor!Spec, SavedAsSent, Editor!SavedAsSent

-----------------------------------------------------------------------------
(***************************************************************************)
(* The office: the side that moves is the component, and the other rests.  *)
(***************************************************************************)
NothingPlanned == side = "edit" /\ plan = <<>> /\ uncovered = {}

\* The timetable as a whole keeps what each side keeps: the planner's picks are free,
\* reuse and gaps are of need, and the bell schedule is seeded and saved as asked.
THEOREM TimetableKeeps ==
    OfficeSpec => /\ []PickedAreFree /\ []ReusedOnlyOfNeed /\ []UncoveredOfNeed
                  /\ []BreakClassesExplained /\ SeededOnlyWhenEmpty /\ SavedAsSent
<1> DEFINE step == [OfficeNext]_<<side, vars, editorVars>>
<1>1. OfficeInit => Editor!Init /\ (Init \/ NothingPlanned)
  BY DEF OfficeInit, NothingPlanned
<1>2. step => [Next]_vars /\ [Editor!Next]_(Editor!vars)
  BY DEF OfficeNext, PlanStep, EditStep, editorVars, Editor!vars
<1>3. NothingPlanned /\ step => NothingPlanned'
  BY DEF OfficeNext, PlanStep, EditStep, NothingPlanned, vars
<1>4. NothingPlanned => PickedAreFree /\ ReusedOnlyOfNeed /\ UncoveredOfNeed
  BY DEF NothingPlanned, PickedAreFree, ReusedOnlyOfNeed, UncoveredOfNeed
<1>5. OfficeSpec => Editor!Spec
  BY <1>1, <1>2, PTL DEF OfficeSpec, Editor!Spec
<1>6. OfficeSpec => Spec \/ []NothingPlanned
  BY <1>1, <1>2, <1>3, PTL DEF OfficeSpec, Spec
<1>7. Spec => []PickedAreFree /\ []ReusedOnlyOfNeed /\ []UncoveredOfNeed
  BY PicksFree, ReuseOfNeed, UncoveredSlots
<1>8. []NothingPlanned => []PickedAreFree /\ []ReusedOnlyOfNeed /\ []UncoveredOfNeed
  BY <1>4, PTL
<1> QED BY <1>5, <1>6, <1>7, <1>8, BreaksExplained, DefaultsWhenEmpty, SavesAsSent

=============================================================================
