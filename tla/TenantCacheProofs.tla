------------------------- MODULE TenantCacheProofs -------------------------
(***************************************************************************)
(* What holds of the cache for any number of processes, requests, loads    *)
(* and mutations: the inductive invariant, that a request works with one   *)
(* version, and that an invalidation is undone only by a load that crosses *)
(* it.                                                                     *)
(***************************************************************************)
EXTENDS TenantCache, TLAPS, FiniteSetTheorems

\* The kinds of entry are told apart by their kind field.
LEMMA EntryKinds ==
    /\ Empty.kind = "empty" /\ Rejected.kind = "rejected"
    /\ \A x : Promise(x).kind = "promise" /\ Promise(x).load = x
    /\ \A v : Value(v).kind = "value" /\ Value(v).value = v
BY DEF Empty, Rejected, Promise, Value

LEMMA Distinct ==
    /\ \A x : Promise(x) # Empty /\ Promise(x) # Rejected
    /\ \A v : Value(v) # Empty /\ Value(v) # Rejected
    /\ \A x, v : Promise(x) # Value(v)
    /\ \A x, y : Promise(x) = Promise(y) => x = y
    /\ Empty # Rejected
<1>1. /\ \A x : Promise(x) # Empty /\ Promise(x) # Rejected
      /\ \A v : Value(v) # Empty /\ Value(v) # Rejected
      /\ \A x, v : Promise(x) # Value(v)
      /\ Empty # Rejected
  <2>1. "promise" # "empty" /\ "promise" # "rejected" /\ "value" # "empty"
        /\ "value" # "rejected" /\ "promise" # "value" /\ "empty" # "rejected"
    OBVIOUS
  <2> QED BY <2>1, EntryKinds
<1>2. \A x, y : Promise(x) = Promise(y) => x = y
  BY EntryKinds
<1> QED BY <1>1, <1>2

\* A slot at work is none of the Idle ones.
LEMMA Busy ==
    /\ \A x \in Load : x # Idle /\ x.step \in {"query", "reply"}
    /\ \A q \in Reader : q # Idle
    /\ \A w \in Writer : w # Idle /\ w.step \in {"write", "respond"}
    /\ Idle.step = "idle"
BY DEF Load, Reader, Writer, Idle

LEMMA InitInv == Init => IInv
<1> SUFFICES ASSUME Init PROVE IInv
  OBVIOUS
<1>1. 0 \in Versions /\ version = 0
  BY MaxVersionIsNatural DEF Versions, Init
<1>2. TypeOK
  BY <1>1 DEF Init, TypeOK, Entries
<1>3. NoDeadPromise
  BY Distinct DEF Init, NoDeadPromise, Awaiting
<1>4. LoadsOrdered
  BY <1>1, Busy DEF Init, LoadsOrdered
<1>5. MemoAgrees
  BY DEF Init, MemoAgrees
<1> QED BY <1>2, <1>3, <1>4, <1>5 DEF IInv

-----------------------------------------------------------------------------
(***************************************************************************)
(* Type correctness, one step per action.                                  *)
(***************************************************************************)
LEMMA TypeStep == TypeOK /\ [Next]_vars => TypeOK'
<1> SUFFICES ASSUME TypeOK, [Next]_vars PROVE TypeOK'
  OBVIOUS
<1> USE DEF TypeOK
<1>e. /\ Empty \in Entries
      /\ \A x \in Loads : Promise(x) \in Entries
      /\ \A v \in Versions : Value(v) \in Entries
  BY DEF Entries
<1>v. \A v \in Versions : v <= MaxVersion /\ v \in Nat
  BY MaxVersionIsNatural DEF Versions
<1>1. ASSUME NEW q \in Readers, NEW p \in Processes, Arrive(q, p) PROVE TypeOK'
  BY <1>1, <1>e DEF Arrive, Reader
<1>2. ASSUME NEW q \in Readers, NEW p \in Processes, Hit(q, p) PROVE TypeOK'
  <2>1. readers[q] \in Reader /\ store[p] \in Entries
    BY <1>2 DEF Hit, Asks
  <2>2. store[p].kind = "value" => store[p].value \in Versions
    BY <2>1, EntryKinds DEF Entries
  <2>3. readers'[q] \in Reader
    BY <1>2, <2>1, <2>2 DEF Hit, Reader
  <2> QED BY <1>2, <2>3 DEF Hit
<1>3. ASSUME NEW q \in Readers, NEW p \in Processes, NEW x \in Loads, Miss(q, p, x) PROVE TypeOK'
  <2>1. readers[q] \in Reader /\ 0 \in Versions
    BY <1>3, MaxVersionIsNatural DEF Miss, Asks, Versions
  <2>2. readers'[q] \in Reader
    BY <1>3, <2>1, <1>e DEF Miss, Reader
  <2>3. loads'[x] \in Load
    BY <1>3, <2>1 DEF Miss, Load
  <2> QED BY <1>3, <1>e, <2>2, <2>3 DEF Miss
<1>4. ASSUME NEW x \in Loads, LoadReads(x) PROVE TypeOK'
  <2>1. loads[x] \in Load
    BY <1>4, Busy DEF LoadReads
  <2>2. loads'[x] \in Load
    BY <1>4, <2>1 DEF LoadReads, Load
  <2> QED BY <1>4, <2>2 DEF LoadReads
<1>5. ASSUME NEW x \in Loads, LoadReturns(x) PROVE TypeOK'
  <2>1. loads[x] \in Load
    BY <1>5, Busy DEF LoadReturns
  <2>2. loads[x].value \in Versions /\ loads[x].proc \in Processes
    BY <2>1 DEF Load
  <2>3. \A q \in Readers : readers'[q] \in Reader \cup {Idle}
    BY <1>5, <2>2, <1>e DEF LoadReturns, Awaiting, Reader
  <2> QED BY <1>5, <1>e, <2>2, <2>3 DEF LoadReturns
<1>6. ASSUME NEW x \in Loads, LoadFails(x) PROVE TypeOK'
  <2>1. loads[x] \in Load
    BY <1>6 DEF LoadFails
  <2>2. \A q \in Readers : readers'[q] \in Reader \cup {Idle}
    BY <1>6, <1>e DEF LoadFails, Awaiting, Reader
  <2> QED BY <1>6, <1>e, <2>2 DEF LoadFails
<1>7. ASSUME NEW q \in Readers, Leave(q) PROVE TypeOK'
  BY <1>7 DEF Leave
<1>8. ASSUME NEW p \in Processes, Expire(p) PROVE TypeOK'
  BY <1>8, <1>e DEF Expire
<1>9. ASSUME NEW w \in Writers, NEW p \in Processes, NEW op \in {"save", "move"}, Begin(w, p, op)
      PROVE TypeOK'
  BY <1>9 DEF Begin, Writer
<1>10. ASSUME NEW w \in Writers, Write(w) PROVE TypeOK'
  <2>1. writers[w] \in Writer /\ version + 1 \in Versions
    BY <1>10, Busy, MaxVersionIsNatural DEF Write, Versions
  <2>2. writers'[w] \in Writer
    BY <1>10, <2>1 DEF Write, Writer
  <2> QED BY <1>10, <2>1, <2>2 DEF Write
<1>11. ASSUME NEW w \in Writers, Respond(w) PROVE TypeOK'
  BY <1>11, <1>e DEF Respond
<1>12. ASSUME NEW w \in Writers, WriterFails(w) PROVE TypeOK'
  BY <1>12 DEF WriterFails
<1>13. CASE UNCHANGED vars
  BY <1>13 DEF vars
<1> QED
  BY <1>1, <1>2, <1>3, <1>4, <1>5, <1>6, <1>7, <1>8, <1>9, <1>10, <1>11, <1>12, <1>13 DEF Next

-----------------------------------------------------------------------------
(***************************************************************************)
(* A promise is that of a load in flight: only Miss makes one, and a load  *)
(* that ends replaces or removes it.                                       *)
(***************************************************************************)
LEMMA PromiseStep == TypeOK /\ NoDeadPromise /\ [Next]_vars => NoDeadPromise'
<1> SUFFICES ASSUME TypeOK, NoDeadPromise, [Next]_vars PROVE NoDeadPromise'
  OBVIOUS
<1> USE Distinct DEF NoDeadPromise, TypeOK, Awaiting
<1>1. ASSUME NEW q \in Readers, NEW p \in Processes, Arrive(q, p) PROVE NoDeadPromise'
  BY <1>1 DEF Arrive
<1>2. ASSUME NEW q \in Readers, NEW p \in Processes, Hit(q, p) PROVE NoDeadPromise'
  <2>1. readers[q] \in Reader /\ readers[q].proc = p
    BY <1>2 DEF Hit, Asks
  <2>2. readers'[q].proc = p /\ readers'[q].memo = store[p] /\ readers'[q] # Idle
    BY <1>2, <2>1, Busy DEF Hit, Reader, Idle
  <2> QED BY <1>2, <2>1, <2>2 DEF Hit
<1>3. ASSUME NEW q \in Readers, NEW p \in Processes, NEW x \in Loads, Miss(q, p, x)
      PROVE NoDeadPromise'
  <2>1. readers[q] \in Reader /\ readers[q].proc = p
    BY <1>3 DEF Miss, Asks
  <2>2. readers'[q].proc = p /\ readers'[q].memo = Promise(x)
    BY <1>3, <2>1 DEF Miss, Reader
  <2>3. loads'[x] # Idle /\ loads'[x].proc = p
    BY <1>3 DEF Miss, Idle
  <2> QED BY <1>3, <2>2, <2>3 DEF Miss
<1>4. ASSUME NEW x \in Loads, LoadReads(x) PROVE NoDeadPromise'
  <2>1. loads[x] \in Load
    BY <1>4, Busy DEF LoadReads
  <2>2. loads'[x] # Idle /\ loads'[x].proc = loads[x].proc
    BY <1>4, <2>1 DEF LoadReads, Load, Idle
  <2>3. /\ UNCHANGED <<store, readers>>
        /\ \A y \in Loads \ {x} : loads'[y] = loads[y]
    BY <1>4 DEF LoadReads
  <2>4. \A y \in Loads : loads[y] # Idle => loads'[y] # Idle /\ loads'[y].proc = loads[y].proc
    BY <2>2, <2>3
  <2> QED BY <2>3, <2>4
<1>5. ASSUME NEW x \in Loads, LoadReturns(x) PROVE NoDeadPromise'
  <2>1. \A q \in Readers : readers[q] # Idle => readers[q] \in Reader
    OBVIOUS
  <2>2. \A q \in Readers, y \in Loads : Awaiting(q, y)' => Awaiting(q, y) /\ y # x
                                            /\ readers'[q] = readers[q]
    BY <1>5, <2>1 DEF LoadReturns, Reader
  <2>3. \A p \in Processes, y \in Loads : store'[p] = Promise(y) => store[p] = Promise(y) /\ y # x
    <3>1. loads[x] \in Load
      BY <1>5, Busy DEF LoadReturns
    <3>2. store' = [store EXCEPT ![loads[x].proc] = Value(loads[x].value)]
      BY <1>5 DEF LoadReturns
    <3>3. loads[x].proc \in Processes
      BY <3>1 DEF Load
    <3>4. store'[loads[x].proc] = Value(loads[x].value)
      BY <3>2, <3>3
    <3>5. \A p \in Processes : p # loads[x].proc => store'[p] = store[p]
      BY <3>2
    <3> QED BY <3>4, <3>5
  <2>4. \A y \in Loads : y # x => loads'[y] = loads[y]
    BY <1>5 DEF LoadReturns
  <2> QED BY <2>2, <2>3, <2>4
<1>6. ASSUME NEW x \in Loads, LoadFails(x) PROVE NoDeadPromise'
  <2>1. \A q \in Readers : readers[q] # Idle => readers[q] \in Reader
    OBVIOUS
  <2>2. \A q \in Readers, y \in Loads : Awaiting(q, y)' => Awaiting(q, y) /\ y # x
                                            /\ readers'[q] = readers[q]
    BY <1>6, <2>1 DEF LoadFails, Reader
  <2>3. \A p \in Processes, y \in Loads : store'[p] = Promise(y) => store[p] = Promise(y) /\ y # x
    BY <1>6 DEF LoadFails
  <2> QED BY <1>6, <2>2, <2>3 DEF LoadFails
<1>7. ASSUME NEW q \in Readers, Leave(q) PROVE NoDeadPromise'
  BY <1>7 DEF Leave
<1>8. ASSUME NEW p \in Processes, Expire(p) PROVE NoDeadPromise'
  BY <1>8 DEF Expire
<1>9. ASSUME NEW w \in Writers, NEW p \in Processes, NEW op \in {"save", "move"}, Begin(w, p, op)
      PROVE NoDeadPromise'
  BY <1>9 DEF Begin
<1>10. ASSUME NEW w \in Writers, Write(w) \/ WriterFails(w) PROVE NoDeadPromise'
  BY <1>10 DEF Write, WriterFails
<1>11. ASSUME NEW w \in Writers, Respond(w) PROVE NoDeadPromise'
  BY <1>11 DEF Respond
<1>12. CASE UNCHANGED vars
  BY <1>12 DEF vars
<1> QED
  BY <1>1, <1>2, <1>3, <1>4, <1>5, <1>6, <1>7, <1>8, <1>9, <1>10, <1>11, <1>12 DEF Next

-----------------------------------------------------------------------------
(***************************************************************************)
(* Versions only grow, and a load reads the one there is.                  *)
(***************************************************************************)
LEMMA OrderStep == TypeOK /\ LoadsOrdered /\ [Next]_vars => LoadsOrdered'
<1> SUFFICES ASSUME TypeOK, LoadsOrdered, [Next]_vars PROVE LoadsOrdered'
  OBVIOUS
<1> USE DEF LoadsOrdered, TypeOK
<1>n. Versions \subseteq Nat
  BY MaxVersionIsNatural DEF Versions
<1>l. \A x \in Loads : loads[x] \in Load \/ (loads[x] = Idle /\ loads[x].step = "idle")
  BY Busy
<1>1. ASSUME NEW q \in Readers, NEW p \in Processes, Arrive(q, p) \/ Hit(q, p) PROVE LoadsOrdered'
  BY <1>1 DEF Arrive, Hit
<1>2. ASSUME NEW q \in Readers, NEW p \in Processes, NEW x \in Loads, Miss(q, p, x)
      PROVE LoadsOrdered'
  <2>1. loads'[x].step = "query" /\ loads'[x].since = floor[p]
    BY <1>2 DEF Miss
  <2>2. \A y \in Loads \ {x} : loads'[y] = loads[y]
    BY <1>2 DEF Miss
  <2> QED BY <1>2, <2>1, <2>2 DEF Miss
<1>3. ASSUME NEW x \in Loads, LoadReads(x) PROVE LoadsOrdered'
  <2>1. loads[x] \in Load
    BY <1>3, Busy DEF LoadReads
  <2>2. loads'[x].step = "reply" /\ loads'[x].value = version /\ loads'[x].since = loads[x].since
    BY <1>3, <2>1 DEF LoadReads, Load
  <2>3. \A y \in Loads \ {x} : loads'[y] = loads[y]
    BY <1>3 DEF LoadReads
  <2> QED BY <1>3, <2>2, <2>3 DEF LoadReads
<1>4. ASSUME NEW x \in Loads, LoadReturns(x) \/ LoadFails(x) PROVE LoadsOrdered'
  <2>1. /\ UNCHANGED <<version, floor>>
        /\ \A y \in Loads : loads'[y] = loads[y] \/ loads'[y] = Idle
    BY <1>4 DEF LoadReturns, LoadFails
  <2> QED BY <2>1, Busy
<1>5. ASSUME NEW q \in Readers, Leave(q) PROVE LoadsOrdered'
  BY <1>5 DEF Leave
<1>6. ASSUME NEW p \in Processes, Expire(p) PROVE LoadsOrdered'
  BY <1>6 DEF Expire
<1>7. ASSUME NEW w \in Writers, NEW p \in Processes, NEW op \in {"save", "move"}, Begin(w, p, op)
      PROVE LoadsOrdered'
  BY <1>7 DEF Begin
<1>8. ASSUME NEW w \in Writers, Write(w) PROVE LoadsOrdered'
  <2>1. version' = version + 1 /\ UNCHANGED <<floor, loads>>
    BY <1>8 DEF Write
  <2>2. \A x \in Loads : loads[x].step = "query" => loads[x].since \in Nat
    BY <1>l, <1>n DEF Load
  <2>3. version \in Nat /\ \A p \in Processes : floor[p] \in Nat
    BY <1>n
  <2>4. \A p \in Processes : floor'[p] <= version'
    BY <2>1, <2>3
  <2>5. \A x \in Loads : loads'[x].step = "query" => loads'[x].since <= version'
    BY <2>1, <2>2, <2>3
  <2>6. \A x \in Loads : loads'[x].step = "reply" => loads'[x].since <= loads'[x].value
    BY <2>1
  <2> QED BY <2>4, <2>5, <2>6
<1>9. ASSUME NEW w \in Writers, Respond(w) PROVE LoadsOrdered'
  <2>1. /\ UNCHANGED <<version, loads>>
        /\ \A p \in Processes : floor'[p] = floor[p] \/ floor'[p] = version
    BY <1>9 DEF Respond
  <2> QED BY <2>1, <1>n
<1>10. ASSUME NEW w \in Writers, WriterFails(w) PROVE LoadsOrdered'
  BY <1>10 DEF WriterFails
<1>11. CASE UNCHANGED vars
  BY <1>11 DEF vars
<1> QED
  BY <1>1, <1>2, <1>3, <1>4, <1>5, <1>6, <1>7, <1>8, <1>9, <1>10, <1>11 DEF Next

-----------------------------------------------------------------------------
(***************************************************************************)
(* The memo and what the request has seen go together.                     *)
(***************************************************************************)
Agrees(reader) == reader.seen = IF reader.memo.kind = "value" THEN {reader.memo.value} ELSE {}

LEMMA MemoStep == TypeOK /\ MemoAgrees /\ [Next]_vars => MemoAgrees'
<1> SUFFICES ASSUME TypeOK, MemoAgrees, [Next]_vars PROVE MemoAgrees'
  OBVIOUS
<1>a. /\ MemoAgrees <=> \A q \in Readers : readers[q] # Idle => Agrees(readers[q])
      /\ MemoAgrees' <=> \A q \in Readers : readers'[q] # Idle => Agrees(readers'[q])
  BY DEF MemoAgrees, Agrees
<1>r. \A q \in Readers : readers[q] # Idle => readers[q] \in Reader
  BY DEF TypeOK
<1>1. ASSUME NEW q \in Readers, NEW p \in Processes, Arrive(q, p) PROVE MemoAgrees'
  <2>1. readers'[q].memo = Empty /\ readers'[q].seen = {}
    BY <1>1 DEF Arrive, TypeOK
  <2>2. Agrees(readers'[q])
    BY <2>1, EntryKinds DEF Agrees
  <2> QED BY <1>1, <1>a, <2>2 DEF Arrive, TypeOK
<1>2. ASSUME NEW q \in Readers, NEW p \in Processes, Hit(q, p) PROVE MemoAgrees'
  <2>1. readers[q] \in Reader /\ readers[q].seen = {}
    BY <1>2, <1>a, <1>r, EntryKinds DEF Hit, Asks, Agrees
  <2>2. readers'[q].memo = store[p]
        /\ readers'[q].seen = IF store[p].kind = "value" THEN {store[p].value} ELSE {}
    BY <1>2, <2>1 DEF Hit, TypeOK, Reader
  <2>3. Agrees(readers'[q])
    BY <2>2 DEF Agrees
  <2> QED BY <1>2, <1>a, <2>3 DEF Hit, TypeOK
<1>3. ASSUME NEW q \in Readers, NEW p \in Processes, NEW x \in Loads, Miss(q, p, x)
      PROVE MemoAgrees'
  <2>1. readers[q] \in Reader /\ readers[q].seen = {}
    BY <1>3, <1>a, <1>r, EntryKinds DEF Miss, Asks, Agrees
  <2>2. readers'[q].memo = Promise(x) /\ readers'[q].seen = {}
    BY <1>3, <2>1 DEF Miss, TypeOK, Reader
  <2>3. Agrees(readers'[q])
    BY <2>2, EntryKinds DEF Agrees
  <2> QED BY <1>3, <1>a, <2>3 DEF Miss, TypeOK
<1>4. ASSUME NEW x \in Loads, NEW q \in Readers, Awaiting(q, x)
      PROVE readers[q] \in Reader /\ readers[q].seen = {}
  BY <1>4, <1>a, <1>r, EntryKinds DEF Awaiting, Agrees
<1>5. ASSUME NEW x \in Loads, LoadReturns(x) PROVE MemoAgrees'
  <2> SUFFICES ASSUME NEW q \in Readers, readers'[q] # Idle PROVE Agrees(readers'[q])
    BY <1>a
  <2>1. CASE Awaiting(q, x)
    <3>1. readers[q] \in Reader /\ readers[q].seen = {}
      BY <2>1, <1>4
    <3>2. readers'[q].memo = Value(loads[x].value) /\ readers'[q].seen = {loads[x].value}
      BY <1>5, <2>1, <3>1 DEF LoadReturns, Reader
    <3> QED BY <3>2, EntryKinds DEF Agrees
  <2>2. CASE ~Awaiting(q, x)
    BY <1>5, <2>2, <1>a DEF LoadReturns
  <2> QED BY <2>1, <2>2
<1>6. ASSUME NEW x \in Loads, LoadFails(x) PROVE MemoAgrees'
  <2> SUFFICES ASSUME NEW q \in Readers, readers'[q] # Idle PROVE Agrees(readers'[q])
    BY <1>a
  <2>1. CASE Awaiting(q, x)
    <3>1. readers[q] \in Reader /\ readers[q].seen = {}
      BY <2>1, <1>4
    <3>2. readers'[q].memo \in {Empty, Rejected} /\ readers'[q].seen = {}
      BY <1>6, <2>1, <3>1 DEF LoadFails, Reader
    <3> QED BY <3>2, EntryKinds DEF Agrees
  <2>2. CASE ~Awaiting(q, x)
    BY <1>6, <2>2, <1>a DEF LoadFails
  <2> QED BY <2>1, <2>2
<1>7. ASSUME NEW q \in Readers, Leave(q) PROVE MemoAgrees'
  BY <1>7, <1>a DEF Leave, TypeOK
<1>8. ASSUME UNCHANGED readers PROVE MemoAgrees'
  BY <1>8 DEF MemoAgrees
<1>9. ASSUME NEW w \in Writers, NEW p \in Processes, NEW op \in {"save", "move"}, Begin(w, p, op)
      PROVE MemoAgrees'
  BY <1>8, <1>9 DEF Begin
<1>10. ASSUME NEW w \in Writers, Write(w) \/ Respond(w) \/ WriterFails(w) PROVE MemoAgrees'
  BY <1>8, <1>10 DEF Write, Respond, WriterFails
<1>11. ASSUME NEW p \in Processes, Expire(p) PROVE MemoAgrees'
  BY <1>8, <1>11 DEF Expire
<1>12. ASSUME NEW x \in Loads, LoadReads(x) PROVE MemoAgrees'
  BY <1>8, <1>12 DEF LoadReads
<1>13. CASE UNCHANGED vars
  BY <1>8, <1>13 DEF vars
<1> QED
  BY <1>1, <1>2, <1>3, <1>5, <1>6, <1>7, <1>9, <1>10, <1>11, <1>12, <1>13 DEF Next

-----------------------------------------------------------------------------
(***************************************************************************)
(* The theorems.                                                           *)
(***************************************************************************)
\* IInv is an invariant: entries are well typed, promises live, loads ordered, memos
\* in step with what was returned.
THEOREM Invariance == Spec => []IInv
<1>1. IInv /\ [Next]_vars => IInv'
  BY TypeStep, PromiseStep, OrderStep, MemoStep DEF IInv
<1> QED BY InitInv, <1>1, PTL DEF Spec

\* A promise found in the process store or in a request memo is that of a load that
\* is still in flight in that process.
THEOREM LivePromises == Spec => []NoDeadPromise
<1>1. IInv => NoDeadPromise
  BY DEF IInv
<1> QED BY Invariance, <1>1, PTL

\* cachedTenantLoad gives a request one version of a resource, however often it asks
\* and whatever else happens in between.
THEOREM OneVersionPerRequest == Spec => []RequestReadsStable
<1>1. IInv => RequestReadsStable
  <2> SUFFICES ASSUME IInv, NEW q \in Readers, readers[q] # Idle
               PROVE  Cardinality(readers[q].seen) <= 1
    BY DEF RequestReadsStable
  <2>1. readers[q].seen = {} \/ readers[q].seen = {readers[q].memo.value}
    BY DEF IInv, MemoAgrees
  <2>2. Cardinality({}) = 0 /\ Cardinality({readers[q].memo.value}) = 1
    BY FS_EmptySet, FS_Singleton
  <2> QED BY <2>1, <2>2
<1> QED BY Invariance, <1>1, PTL

\* The step of StaleOnlyByCrossing, for one process.
LEMMA CrossingStep ==
    ASSUME IInv, [Next]_vars, NEW p \in Processes, ~Stale(p), Stale(p)'
    PROVE  \E x \in Loads : LoadReturns(x) /\ loads[x].proc = p /\ loads[x].since < floor[p]
<1> USE EntryKinds, Distinct DEF IInv
<1>0. store[p] \in Entries /\ floor[p] \in Nat
  BY MaxVersionIsNatural DEF TypeOK, Versions
<1>e. ASSUME store'[p] = Empty PROVE FALSE
  BY <1>e DEF Stale
<1>u. ASSUME UNCHANGED <<store, floor>>,
             \A y \in Loads : store[p] = Promise(y) => loads'[y].since = loads[y].since
      PROVE FALSE
  BY <1>u DEF Stale
<1>1. ASSUME NEW q \in Readers, NEW r \in Processes, Arrive(q, r) \/ Hit(q, r) \/ Leave(q)
      PROVE FALSE
  BY <1>1, <1>u DEF Arrive, Hit, Leave
<1>2. ASSUME NEW q \in Readers, NEW r \in Processes, NEW x \in Loads, Miss(q, r, x) PROVE FALSE
  <2>1. CASE r = p
    <3>1. store'[p] = Promise(x) /\ loads'[x].since = floor[p] /\ floor' = floor
      BY <1>2, <2>1 DEF Miss, TypeOK
    <3> QED BY <3>1, <1>0 DEF Stale
  <2>2. CASE r # p
    <3>1. store'[p] = store[p] /\ floor' = floor
      BY <1>2, <2>2 DEF Miss, TypeOK
    <3>2. \A y \in Loads : store[p] = Promise(y) => y # x
      BY <1>2 DEF NoDeadPromise, Miss
    <3>3. \A y \in Loads : store[p] = Promise(y) => loads'[y] = loads[y]
      BY <1>2, <3>2 DEF Miss, TypeOK
    <3> QED BY <3>1, <3>3 DEF Stale
  <2> QED BY <2>1, <2>2
<1>3. ASSUME NEW x \in Loads, LoadReads(x) PROVE FALSE
  <2>1. loads[x] \in Load
    BY <1>3, Busy DEF LoadReads, TypeOK
  <2>2. \A y \in Loads : loads'[y].since = loads[y].since
    BY <1>3, <2>1 DEF LoadReads, TypeOK, Load
  <2> QED BY <1>3, <2>2, <1>u DEF LoadReads
<1>4. ASSUME NEW x \in Loads, LoadReturns(x)
      PROVE  loads[x].proc = p /\ loads[x].since < floor[p]
  <2>1. loads[x] \in Load /\ loads[x].step = "reply" /\ floor' = floor
    BY <1>4, Busy DEF LoadReturns, TypeOK
  <2>2. CASE loads[x].proc # p
    <3>1. store'[p] = store[p]
      BY <1>4, <2>2 DEF LoadReturns, TypeOK
    <3>2. \A y \in Loads : store[p] = Promise(y) => y # x
      BY <2>2 DEF NoDeadPromise
    <3>3. \A y \in Loads : y # x => loads'[y] = loads[y]
      BY <1>4 DEF LoadReturns, TypeOK
    <3>4. FALSE
      BY <2>1, <3>1, <3>2, <3>3 DEF Stale
    <3> QED BY <3>4
  <2>3. CASE loads[x].proc = p
    <3>1. store'[p] = Value(loads[x].value)
      BY <1>4, <2>3 DEF LoadReturns, TypeOK
    <3>2. loads[x].value < floor[p]
      BY <2>1, <3>1 DEF Stale
    <3>3. loads[x].since \in Nat /\ loads[x].value \in Nat /\ loads[x].since <= loads[x].value
      BY <2>1, MaxVersionIsNatural DEF LoadsOrdered, Load, Versions
    <3> QED BY <1>0, <2>3, <3>2, <3>3
  <2> QED BY <2>2, <2>3
<1>5. ASSUME NEW x \in Loads, LoadFails(x) PROVE FALSE
  <2>1. floor' = floor /\ (store'[p] = store[p] \/ store'[p] = Empty)
    BY <1>5 DEF LoadFails, TypeOK
  <2>2. store'[p] # Promise(x)
    BY <1>5 DEF LoadFails, NoDeadPromise, TypeOK
  <2>3. \A y \in Loads : y # x => loads'[y] = loads[y]
    BY <1>5 DEF LoadFails, TypeOK
  <2> QED BY <2>1, <2>2, <2>3, <1>e DEF Stale
<1>6. ASSUME NEW r \in Processes, Expire(r) PROVE FALSE
  <2>1. CASE r = p
    BY <1>6, <2>1, <1>e DEF Expire, TypeOK
  <2>2. CASE r # p
    BY <1>6, <2>2 DEF Expire, TypeOK, Stale
  <2> QED BY <2>1, <2>2
<1>7. ASSUME NEW w \in Writers, NEW r \in Processes, NEW op \in {"save", "move"}, Begin(w, r, op)
      PROVE FALSE
  BY <1>7, <1>u DEF Begin
<1>8. ASSUME NEW w \in Writers, Write(w) \/ WriterFails(w) PROVE FALSE
  BY <1>8, <1>u DEF Write, WriterFails
<1>9. ASSUME NEW w \in Writers, Respond(w) PROVE FALSE
  <2>1. CASE writers[w].proc = p /\ Invalidates(writers[w].op)
    BY <1>9, <2>1, <1>e DEF Respond, TypeOK
  <2>2. CASE ~(writers[w].proc = p /\ Invalidates(writers[w].op))
    <3>1. store'[p] = store[p] /\ floor'[p] = floor[p] /\ loads' = loads
      BY <1>9, <2>2 DEF Respond, TypeOK
    <3> QED BY <3>1 DEF Stale
  <2> QED BY <2>1, <2>2
<1>10. CASE UNCHANGED vars
  BY <1>10, <1>u DEF vars
<1> QED
  BY <1>1, <1>2, <1>3, <1>4, <1>5, <1>6, <1>7, <1>8, <1>9, <1>10 DEF Next

\* What invalidateInsightsCache has dropped comes back in one way: a load that began
\* before the call returns after it.
THEOREM InvalidationHolds == Spec => StaleOnlyByCrossing
<1>1. IInv /\ [Next]_vars =>
      [\A p \in Processes :
          (~Stale(p) /\ Stale(p)') =>
              \E x \in Loads : LoadReturns(x) /\ loads[x].proc = p /\ loads[x].since < floor[p]]_vars
  BY CrossingStep
<1> QED BY Invariance, <1>1, PTL DEF Spec, StaleOnlyByCrossing

=============================================================================
