------------------------------- MODULE Staff -------------------------------
(***************************************************************************)
(* The staff accounts of one school: who has which role, who teaches which *)
(* paper, and who holds a duty (a timetable slot, or the post of class     *)
(* teacher).  The handlers of routes/users.js look first and write later,  *)
(* each awaited call a step; only the transactions of delete, of clear-    *)
(* classes and of transfer write several rows at once.  Ids are not used   *)
(* again: an account that was deleted is Gone for good.                    *)
(***************************************************************************)
CONSTANTS
    Users,      \* account ids
    Papers,     \* class and subject pairs
    Requests,   \* slots for handlers in flight
    NoUser,     \* an id not yet given to an account
    Gone,       \* the id of an account that was deleted
    None        \* a field that a request does not send, and no holder of the duty

Roles == {"TEACHER", "EXAM_COORDINATOR", "PRINCIPAL"}

VARIABLES
    role,     \* of each account
    active,   \* accounts whose status is ACTIVE
    papers,   \* TeacherAssignment: the papers of each account
    duty,     \* who holds the duty, or None
    reqs,     \* the handlers in flight
    behind    \* what has changed since each handler looked: "principals", "papers"

vars == <<role, active, papers, duty, reqs, behind>>

(***************************************************************************)
(* A handler in flight: the account it is about, the one it transfers to,  *)
(* the role it sets, and two sets of papers: those it has read of user, or *)
(* is to fill in, and those it has read of to.                             *)
(***************************************************************************)
Steps == {"assign", "count", "update", "clear", "fill", "others", "load", "erase", "wipe",
          "list", "move"}

Handler == [step : Steps, user : Users, to : Users \cup {None}, role : Roles \cup {None},
            dutyToo : BOOLEAN, set : SUBSET Papers, has : SUBSET Papers]

Idle == [step |-> "idle"]

TypeOK ==
    /\ role \in [Users -> Roles \cup {NoUser, Gone}]
    /\ active \subseteq Users
    /\ papers \in [Users -> SUBSET Papers]
    /\ duty \in Users \cup {None}
    /\ reqs \in [Requests -> Handler \cup {Idle}]
    /\ behind \in [Requests -> SUBSET {"principals", "papers"}]

Exists(u) == role[u] \in Roles

\* Any school whose accounts were made by its owner and by these handlers.
Init ==
    /\ role \in [Users -> Roles \cup {NoUser}]
    /\ active \in SUBSET {u \in Users : Exists(u)}
    /\ papers \in [Users -> SUBSET Papers]
    /\ duty \in Users \cup {None}
    /\ \A u \in Users : ~Exists(u) => papers[u] = {} /\ duty # u
    /\ \E u \in active : role[u] = "PRINCIPAL"
    /\ reqs = [r \in Requests |-> Idle]
    /\ behind = [r \in Requests |-> {}]

-----------------------------------------------------------------------------
At(r, step) == reqs[r].step = step

Principals == {u \in active : role[u] = "PRINCIPAL"}
Taught(p) == \E u \in Users : p \in papers[u]

\* Handlers at work learn nothing of what another one writes.
Changed ==
    (IF Principals' = Principals THEN {} ELSE {"principals"})
    \cup (IF papers' = papers THEN {} ELSE {"papers"})

Becomes(r, q) ==
    /\ reqs' = [reqs EXCEPT ![r] = q]
    /\ behind' = [s \in Requests |->
                    IF reqs'[s] = Idle THEN {}
                    ELSE IF s = r THEN behind[s] ELSE behind[s] \cup Changed]

Opens(r, q) == reqs[r] = Idle /\ Becomes(r, q)

Asks(step, u) ==
    [step |-> step, user |-> u, to |-> None, role |-> None, dutyToo |-> FALSE,
     set |-> {}, has |-> {}]

\* requireRole("PRINCIPAL", "EXAM_COORDINATOR"): a may act on an account of role target.
MayActOn(a, target) ==
    /\ a \in active
    /\ \/ role[a] = "PRINCIPAL"
       \/ role[a] = "EXAM_COORDINATOR" /\ target = "TEACHER"

\* Any awaited call may reject, and the process may stop: what was written stays.
RequestFails(r) ==
    /\ reqs[r] # Idle
    /\ UNCHANGED <<role, active, papers, duty>>
    /\ Becomes(r, Idle)

-----------------------------------------------------------------------------
(***************************************************************************)
(* POST /users and POST /users/upload: an account for a teacher or, by the *)
(* principal, a coordinator; its papers follow in a call of their own.     *)
(***************************************************************************)
Create(r, u) ==
    /\ role[u] = NoUser
    /\ \E a \in Users, as \in {"TEACHER", "EXAM_COORDINATOR"}, status \in BOOLEAN :
          /\ MayActOn(a, as)
          /\ role' = [role EXCEPT ![u] = as]
          /\ active' = IF status THEN active \cup {u} ELSE active
    /\ UNCHANGED <<papers, duty>>
    /\ \E q \in {Idle} \cup {[Asks("assign", u) EXCEPT !.set = ps] : ps \in SUBSET Papers \ {{}}} :
          Opens(r, q)

\* createMany with skipDuplicates: it rejects when the account is gone.
Assign(r, step) ==
    /\ At(r, step)
    /\ Exists(reqs[r].user)
    /\ papers' = [papers EXCEPT ![reqs[r].user] = @ \cup reqs[r].set]
    /\ UNCHANGED <<role, active, duty>>
    /\ Becomes(r, Idle)

CreateAssign(r) == Assign(r, "assign")

-----------------------------------------------------------------------------
(***************************************************************************)
(* PATCH /users/:id.                                                       *)
(***************************************************************************)
\* Only the loss of the role PRINCIPAL, as read, asks who else is principal.
PatchRead(r, u) ==
    /\ Exists(u)
    /\ \E a \in Users, as \in Roles \cup {None} :
          /\ MayActOn(a, role[u])
          /\ as # None => MayActOn(a, as)
          /\ UNCHANGED <<role, active, papers, duty>>
          /\ Opens(r, [Asks(IF role[u] = "PRINCIPAL" /\ as \notin {None, "PRINCIPAL"}
                            THEN "count" ELSE "update", u) EXCEPT !.role = as])

\* Mutant of PatchCount: accounts that are not active count.
PatchCountAll(r) ==
    /\ At(r, "count")
    /\ \E u \in Users \ {reqs[r].user} : role[u] = "PRINCIPAL"
    /\ UNCHANGED <<role, active, papers, duty>>
    /\ Becomes(r, [reqs[r] EXCEPT !.step = "update"])

PatchCount(r) ==
    /\ At(r, "count")
    /\ Principals \ {reqs[r].user} # {}
    /\ UNCHANGED <<role, active, papers, duty>>
    /\ Becomes(r, [reqs[r] EXCEPT !.step = "update"])

\* The update by id, when there is anything to update; the status needs no principal.
\* Assignments, when they are sent, are replaced next.
PatchUpdate(r) ==
    LET q == reqs[r]
    IN  /\ At(r, "update")
        /\ \/ q.role = None /\ UNCHANGED <<role, active>>
           \/ /\ Exists(q.user)
              /\ role' = IF q.role = None THEN role ELSE [role EXCEPT ![q.user] = q.role]
              /\ active' \in {active, active \cup {q.user}, active \ {q.user}}
        /\ UNCHANGED <<papers, duty>>
        /\ \/ Becomes(r, Idle)
           \/ \E ps \in SUBSET Papers : Becomes(r, [q EXCEPT !.step = "clear", !.set = ps])

PatchClear(r) ==
    /\ At(r, "clear")
    /\ papers' = [papers EXCEPT ![reqs[r].user] = {}]
    /\ UNCHANGED <<role, active, duty>>
    /\ Becomes(r, IF reqs[r].set = {} THEN Idle ELSE [reqs[r] EXCEPT !.step = "fill"])

PatchFill(r) == Assign(r, "fill")

-----------------------------------------------------------------------------
(***************************************************************************)
(* DELETE /users/:id.                                                      *)
(***************************************************************************)
DeleteRead(r, u) ==
    /\ Exists(u)
    /\ \E a \in Users \ {u} : MayActOn(a, role[u])
    /\ UNCHANGED <<role, active, papers, duty>>
    /\ Opens(r, Asks(IF role[u] = "PRINCIPAL" THEN "others" ELSE "load", u))

DeleteOthers(r) ==
    /\ At(r, "others")
    /\ Principals \ {reqs[r].user} # {}
    /\ UNCHANGED <<role, active, papers, duty>>
    /\ Becomes(r, [reqs[r] EXCEPT !.step = "load"])

\* Mutant of DeleteLoad: only teachers are asked to hand over their papers.
DeleteLoadTeachers(r) ==
    /\ At(r, "load")
    /\ role[reqs[r].user] = "TEACHER" => papers[reqs[r].user] = {}
    /\ UNCHANGED <<role, active, papers, duty>>
    /\ Becomes(r, [reqs[r] EXCEPT !.step = "erase"])

DeleteLoad(r) ==
    /\ At(r, "load")
    /\ papers[reqs[r].user] = {}
    /\ UNCHANGED <<role, active, papers, duty>>
    /\ Becomes(r, [reqs[r] EXCEPT !.step = "erase"])

\* The transaction: the account goes, and its assignments and duties with it.
DeleteErase(r) ==
    LET u == reqs[r].user
    IN  /\ At(r, "erase")
        /\ Exists(u)
        /\ role' = [role EXCEPT ![u] = Gone]
        /\ active' = active \ {u}
        /\ papers' = [papers EXCEPT ![u] = {}]
        /\ duty' = IF duty = u THEN None ELSE duty
        /\ Becomes(r, Idle)

-----------------------------------------------------------------------------
(***************************************************************************)
(* POST /users/:id/clear-classes.                                          *)
(***************************************************************************)
ClearRead(r, u) ==
    /\ Exists(u)
    /\ \E a \in Users : MayActOn(a, role[u])
    /\ UNCHANGED <<role, active, papers, duty>>
    /\ Opens(r, Asks("wipe", u))

ClearWipe(r) ==
    LET u == reqs[r].user
    IN  /\ At(r, "wipe")
        /\ papers' = [papers EXCEPT ![u] = {}]
        /\ duty' = IF duty = u THEN None ELSE duty
        /\ UNCHANGED <<role, active>>
        /\ Becomes(r, Idle)

-----------------------------------------------------------------------------
(***************************************************************************)
(* POST /users/:id/transfer.                                               *)
(***************************************************************************)
\* Both accounts, and the papers of the first, as they are now.  Duties move to teachers.
TransferRead(r, u) ==
    /\ Exists(u)
    /\ \E a \in Users, v \in active \ {u}, include \in BOOLEAN :
          /\ MayActOn(a, role[u]) /\ MayActOn(a, role[v])
          /\ UNCHANGED <<role, active, papers, duty>>
          /\ Opens(r, [Asks("list", u) EXCEPT !.to = v, !.set = papers[u],
                                              !.dutyToo = include /\ role[v] = "TEACHER"])

\* The transaction begins: nothing to transfer is refused, and the papers of the
\* replacement are read.
TransferList(r) ==
    /\ At(r, "list")
    /\ reqs[r].set # {} \/ duty = reqs[r].user
    /\ UNCHANGED <<role, active, papers, duty>>
    /\ Becomes(r, [reqs[r] EXCEPT !.step = "move", !.has = papers[reqs[r].to]])

\* And ends: what the replacement lacked is created, every paper of the first deleted.  A
\* row for a replacement that is gone fails the transaction.
TransferMove(r) ==
    LET q == reqs[r]
        lacks == q.set \ q.has
        moves == q.dutyToo /\ duty = q.user
    IN  /\ At(r, "move")
        /\ lacks # {} \/ moves => Exists(q.to)
        /\ papers' = [papers EXCEPT ![q.to] = @ \cup lacks,
                                    ![q.user] = IF q.set = {} THEN @ ELSE {}]
        /\ duty' = IF moves THEN q.to ELSE duty
        /\ UNCHANGED <<role, active>>
        /\ Becomes(r, Idle)

-----------------------------------------------------------------------------
Handle(r) ==
    \/ \E u \in Users : \/ Create(r, u) \/ PatchRead(r, u) \/ DeleteRead(r, u)
                        \/ ClearRead(r, u) \/ TransferRead(r, u)
    \/ CreateAssign(r)
    \/ PatchCount(r) \/ PatchUpdate(r) \/ PatchClear(r) \/ PatchFill(r)
    \/ DeleteOthers(r) \/ DeleteLoad(r) \/ DeleteErase(r)
    \/ ClearWipe(r)
    \/ TransferList(r) \/ TransferMove(r)
    \/ RequestFails(r)

Next == \E r \in Requests : Handle(r)

Spec == Init /\ [][Next]_vars

-----------------------------------------------------------------------------
(***************************************************************************)
(* Properties.                                                             *)
(***************************************************************************)
\* The last active principal is lost only to a change of status, which nothing guards, or
\* to a handler that looked before somebody else became or ceased to be a principal.
LastPrincipalStays ==
    [][Principals # {} /\ Principals' = {} =>
         \E r \in Requests :
            /\ reqs[r] # Idle
            /\ \/ "principals" \in behind[r]
               \/ At(r, "update") /\ \E u \in Principals : u \notin active']_vars

\* A paper loses its last teacher only where assignments are replaced or cleared, or to a
\* deletion or transfer that looked before somebody else changed who teaches what.
PapersHandedOver ==
    [][\A p \in Papers : Taught(p) /\ ~Taught(p)' =>
         \E r \in Requests : \/ At(r, "clear") \/ At(r, "wipe")
                             \/ reqs[r] # Idle /\ "papers" \in behind[r]]_vars

\* A handler that has seen that somebody else is principal, and is to act on it.
Counted(r) ==
    \/ At(r, "update") /\ reqs[r].role \notin {None, "PRINCIPAL"}
    \/ At(r, "load") \/ At(r, "erase")

\* A handler that is not behind is right about the principals and the papers it has read.
RightAboutPrincipals(r) ==
    Counted(r) /\ "principals" \notin behind[r] => Principals # {reqs[r].user}

RightAboutPapers(r) ==
    "papers" \notin behind[r] =>
        /\ At(r, "erase") => papers[reqs[r].user] = {}
        /\ At(r, "list") \/ At(r, "move") => papers[reqs[r].user] = reqs[r].set
        /\ At(r, "move") => papers[reqs[r].to] = reqs[r].has

\* A transfer is between two accounts, and an idle slot has missed nothing.
Shape(r) ==
    /\ At(r, "list") \/ At(r, "move") => reqs[r].to \in Users \ {reqs[r].user}
    /\ reqs[r] = Idle => behind[r] = {}

IInv ==
    /\ TypeOK
    /\ \A r \in Requests : RightAboutPrincipals(r) /\ RightAboutPapers(r) /\ Shape(r)

=============================================================================
