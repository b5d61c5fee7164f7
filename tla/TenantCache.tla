---------------------------- MODULE TenantCache ----------------------------
(***************************************************************************)
(* The school-scoped cache of one resource (an insight, report or          *)
(* dashboard payload) in every server process: request memo, then process  *)
(* store, then loader.  The promise of a load is stored before it is       *)
(* awaited and replaced by the value when it resolves.  Handlers that      *)
(* change marks drop the entry of their own process only.                  *)
(*                                                                         *)
(* version stands for the rows the payload is computed from: every         *)
(* mutation makes the next one.  Time is left out: an entry may expire at  *)
(* any moment and, by fairness, at some moment does.                       *)
(***************************************************************************)
EXTENDS Naturals, FiniteSets

CONSTANTS
    Processes,   \* server processes (or serverless instances)
    Readers,     \* slots for requests that read the resource
    Writers,     \* slots for requests that change marks
    Loads,       \* slots for loads in flight
    MaxVersion   \* bounds the mutations

ASSUME MaxVersionIsNatural == MaxVersion \in Nat

Versions == 0..MaxVersion

\* What a store or memo entry holds: nothing, a promise, a value; and a memo also
\* the promise of a load that has been rejected.
Empty == [kind |-> "empty"]
Rejected == [kind |-> "rejected"]
Promise(x) == [kind |-> "promise", load |-> x]
Value(v) == [kind |-> "value", value |-> v]
Entries == {Empty} \cup {Promise(x) : x \in Loads} \cup {Value(v) : v \in Versions}

\* since, and floor below, are history: the version a process last invalidated at.
Load == [step : {"query", "reply"}, proc : Processes, owner : Readers,
         value : Versions, since : Versions]
Reader == [step : {"reading"}, proc : Processes, memo : Entries \cup {Rejected},
           seen : SUBSET Versions]
Writer == [step : {"write", "respond"}, proc : Processes, op : {"save", "move"}]
Idle == [step |-> "idle"]

VARIABLES
    version,   \* of the rows in the database
    store,     \* the entry of each process
    loads, readers, writers,
    floor      \* the version each process last invalidated its entry at

vars == <<version, store, loads, readers, writers, floor>>

TypeOK ==
    /\ version \in Versions
    /\ store \in [Processes -> Entries]
    /\ loads \in [Loads -> Load \cup {Idle}]
    /\ readers \in [Readers -> Reader \cup {Idle}]
    /\ writers \in [Writers -> Writer \cup {Idle}]
    /\ floor \in [Processes -> Versions]

Init ==
    /\ version = 0
    /\ store = [p \in Processes |-> Empty]
    /\ loads = [x \in Loads |-> Idle]
    /\ readers = [q \in Readers |-> Idle]
    /\ writers = [w \in Writers |-> Idle]
    /\ floor = [p \in Processes |-> 0]

-----------------------------------------------------------------------------
(***************************************************************************)
(* cachedTenantLoad, called any number of times by a request.              *)
(***************************************************************************)
Arrive(q, p) ==
    /\ readers[q] = Idle
    /\ readers' = [readers EXCEPT ![q] =
           [step |-> "reading", proc |-> p, memo |-> Empty, seen |-> {}]]
    /\ UNCHANGED <<version, store, loads, writers, floor>>

\* A request at work on the resource that its memo knows nothing of.
Asks(q, p) == readers[q] # Idle /\ readers[q].proc = p /\ readers[q].memo = Empty

\* Mutant of Hit: what is found in the process store is not put in the memo.
HitUnremembered(q, p) ==
    /\ Asks(q, p) /\ store[p].kind = "value"
    /\ readers' = [readers EXCEPT ![q].seen = @ \cup {store[p].value}]
    /\ UNCHANGED <<version, store, loads, writers, floor>>

\* Hit: the value, or the promise of the load in flight, goes into the memo.
Hit(q, p) ==
    /\ Asks(q, p) /\ store[p] # Empty
    /\ readers' = [readers EXCEPT
           ![q].memo = store[p],
           ![q].seen = IF store[p].kind = "value" THEN @ \cup {store[p].value} ELSE @]
    /\ UNCHANGED <<version, store, loads, writers, floor>>

Miss(q, p, x) ==
    /\ Asks(q, p) /\ store[p] = Empty /\ loads[x] = Idle
    /\ loads' = [loads EXCEPT ![x] = [step |-> "query", proc |-> p, owner |-> q,
                                      value |-> 0, since |-> floor[p]]]
    /\ store' = [store EXCEPT ![p] = Promise(x)]
    /\ readers' = [readers EXCEPT ![q].memo = Promise(x)]
    /\ UNCHANGED <<version, writers, floor>>

\* The loader's query reaches the database.
LoadReads(x) ==
    /\ loads[x].step = "query"
    /\ loads' = [loads EXCEPT ![x].step = "reply", ![x].value = version]
    /\ UNCHANGED <<version, store, readers, writers, floor>>

Awaiting(q, x) == readers[q] # Idle /\ readers[q].memo = Promise(x)

\* The value is stored whatever has become of the entry in the meantime, and the
\* requests that share the promise go on with it.
LoadReturns(x) ==
    LET v == loads[x].value
    IN  /\ loads[x].step = "reply"
        /\ store' = [store EXCEPT ![loads[x].proc] = Value(v)]
        /\ readers' = [q \in Readers |->
               IF Awaiting(q, x)
               THEN [readers[q] EXCEPT !.memo = Value(v), !.seen = @ \cup {v}]
               ELSE readers[q]]
        /\ loads' = [loads EXCEPT ![x] = Idle]
        /\ UNCHANGED <<version, writers, floor>>

\* Mutant of LoadFails: the rejected promise stays in the store until it expires.
LoadFailsInPlace(x) ==
    /\ loads[x] # Idle
    /\ readers' = [q \in Readers |->
           IF Awaiting(q, x)
           THEN [readers[q] EXCEPT !.memo = IF q = loads[x].owner THEN Empty ELSE Rejected]
           ELSE readers[q]]
    /\ loads' = [loads EXCEPT ![x] = Idle]
    /\ UNCHANGED <<version, store, writers, floor>>

\* A load that fails takes its own promise out of the store, and out of the memo of
\* the request that began it; those that joined it keep the rejected promise.
LoadFails(x) ==
    LET p == loads[x].proc
    IN  /\ loads[x] # Idle
        /\ store' = [store EXCEPT ![p] = IF @ = Promise(x) THEN Empty ELSE @]
        /\ readers' = [q \in Readers |->
               IF Awaiting(q, x)
               THEN [readers[q] EXCEPT !.memo = IF q = loads[x].owner THEN Empty ELSE Rejected]
               ELSE readers[q]]
        /\ loads' = [loads EXCEPT ![x] = Idle]
        /\ UNCHANGED <<version, writers, floor>>

\* The request is over; it does not end while it awaits the load.
Leave(q) ==
    /\ readers[q] # Idle /\ readers[q].memo.kind # "promise"
    /\ readers' = [readers EXCEPT ![q] = Idle]
    /\ UNCHANGED <<version, store, loads, writers, floor>>

\* Mutant of Expire: only promises expire, values are kept until invalidated.
ExpirePromise(p) ==
    /\ store[p].kind = "promise"
    /\ store' = [store EXCEPT ![p] = Empty]
    /\ UNCHANGED <<version, loads, readers, writers, floor>>

\* The TTL of the entry is over, that of a promise included.
Expire(p) ==
    /\ store[p] # Empty
    /\ store' = [store EXCEPT ![p] = Empty]
    /\ UNCHANGED <<version, loads, readers, writers, floor>>

-----------------------------------------------------------------------------
(***************************************************************************)
(* Handlers that change marks.  "move" stands for those that invalidate    *)
(* (submit, approve, unapprove, moderate, upload, access requests), "save" *)
(* for PUT /marks, whose results never have the ok it asks for.            *)
(***************************************************************************)
Begin(w, p, op) ==
    /\ writers[w] = Idle
    /\ writers' = [writers EXCEPT ![w] = [step |-> "write", proc |-> p, op |-> op]]
    /\ UNCHANGED <<version, store, loads, readers, floor>>

Write(w) ==
    /\ writers[w].step = "write" /\ version < MaxVersion
    /\ version' = version + 1
    /\ writers' = [writers EXCEPT ![w].step = "respond"]
    /\ UNCHANGED <<store, loads, readers, floor>>

\* PUT /marks asks its results for a field that they do not have, and invalidates nothing.
Invalidates(op) == op = "move"

\* Mutant of Respond: an invalidation drops values and spares the promise of a load.
RespondSparesPromise(w) ==
    LET p == writers[w].proc
    IN  /\ writers[w].step = "respond"
        /\ IF Invalidates(writers[w].op)
           THEN /\ store' = [store EXCEPT ![p] = IF @.kind = "promise" THEN @ ELSE Empty]
                /\ floor' = [floor EXCEPT ![p] = version]
           ELSE UNCHANGED <<store, floor>>
        /\ writers' = [writers EXCEPT ![w] = Idle]
        /\ UNCHANGED <<version, loads, readers>>

\* The invalidation and the response are one run of the event loop.
Respond(w) ==
    LET p == writers[w].proc
    IN  /\ writers[w].step = "respond"
        /\ IF Invalidates(writers[w].op)
           THEN /\ store' = [store EXCEPT ![p] = Empty]
                /\ floor' = [floor EXCEPT ![p] = version]
           ELSE UNCHANGED <<store, floor>>
        /\ writers' = [writers EXCEPT ![w] = Idle]
        /\ UNCHANGED <<version, loads, readers>>

WriterFails(w) ==
    /\ writers[w] # Idle
    /\ writers' = [writers EXCEPT ![w] = Idle]
    /\ UNCHANGED <<version, store, loads, readers, floor>>

-----------------------------------------------------------------------------
Next ==
    \/ \E q \in Readers : Leave(q) \/ \E p \in Processes : Arrive(q, p) \/ Hit(q, p)
    \/ \E q \in Readers, p \in Processes, x \in Loads : Miss(q, p, x)
    \/ \E x \in Loads : LoadReads(x) \/ LoadReturns(x) \/ LoadFails(x)
    \/ \E p \in Processes : Expire(p)
    \/ \E w \in Writers : Write(w) \/ Respond(w) \/ WriterFails(w)
    \/ \E w \in Writers, p \in Processes, op \in {"save", "move"} : Begin(w, p, op)

Spec == Init /\ [][Next]_vars

\* The database answers or the query fails, and time passes: a hit renews nothing.
Fairness ==
    /\ \A x \in Loads : WF_vars(LoadReads(x)) /\ WF_vars(LoadReturns(x))
    /\ \A p \in Processes : WF_vars(Expire(p))

FairSpec == Spec /\ Fairness

-----------------------------------------------------------------------------
(***************************************************************************)
(* Properties.                                                             *)
(***************************************************************************)
\* A promise in the store is that of a load still in flight in that process: no
\* failure is ever served again, and no request waits for a load that is over.
NoDeadPromise ==
    /\ \A p \in Processes, x \in Loads :
          store[p] = Promise(x) => loads[x] # Idle /\ loads[x].proc = p
    /\ \A q \in Readers, x \in Loads :
          Awaiting(q, x) => loads[x] # Idle /\ loads[x].proc = readers[q].proc

\* A load reads a version no older than the invalidation it began after.
LoadsOrdered ==
    /\ \A p \in Processes : floor[p] <= version
    /\ \A x \in Loads :
          /\ loads[x].step = "query" => loads[x].since <= version
          /\ loads[x].step = "reply" => loads[x].since <= loads[x].value

\* What a request has seen is what its memo holds.
MemoAgrees ==
    \A q \in Readers : readers[q] # Idle =>
        readers[q].seen = IF readers[q].memo.kind = "value" THEN {readers[q].memo.value} ELSE {}

\* The inductive invariant of the proofs.
IInv == TypeOK /\ NoDeadPromise /\ LoadsOrdered /\ MemoAgrees

\* However often a request asks, it works with one version of the resource.
RequestReadsStable == \A q \in Readers : readers[q] # Idle => Cardinality(readers[q].seen) <= 1

\* What a request that arrives now is handed was loaded, or is being loaded, from
\* before the last invalidation in its process.
Stale(p) ==
    \/ store[p].kind = "value" /\ store[p].value < floor[p]
    \/ \E x \in Loads : store[p] = Promise(x) /\ loads[x].since < floor[p]

\* An invalidation is undone in one way only: a load that began before it returns
\* after it.
StaleOnlyByCrossing ==
    [][\A p \in Processes :
          (~Stale(p) /\ Stale(p)') =>
              \E x \in Loads : LoadReturns(x) /\ loads[x].proc = p /\ loads[x].since < floor[p]]_vars

\* The process serves what was loaded before the last change of the marks.
Outdated(p) ==
    \/ store[p].kind = "value" /\ store[p].value < version
    \/ \E x \in Loads : store[p] = Promise(x) /\ loads[x].step = "reply" /\ loads[x].value < version

\* tenantCache.js:10, "Short TTL + mutation invalidation keep multi-instance drift
\* bounded": when the marks change no more, every process comes to serve their last
\* state, those that were told of no change included.
DriftEnds == <>[](\A p \in Processes : ~Outdated(p))

=============================================================================
