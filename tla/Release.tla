------------------------------ MODULE Release ------------------------------
(***************************************************************************)
(* The report cards of one exam and class section: published, signed off,  *)
(* and announced to the guardians by a mail for each student, queued one   *)
(* by one before the release is stamped with parentsNotifiedAt.            *)
(***************************************************************************)
EXTENDS Naturals

CONSTANTS
    Students,   \* of the class section
    Requests,   \* slots for handlers in flight
    NoRelease,  \* no ReportCardRelease row
    MaxMails    \* bound: mails queued for one student

Row == [status : {"PUBLISHED", "SIGNED_OFF"}, signed : BOOLEAN, notified : BOOLEAN]

(***************************************************************************)
(* A handler in flight.  found says that publish has found a row, todo are *)
(* the students whose guardians are still to be mailed; lost that the row  *)
(* it goes by the id of is gone.                                           *)
(***************************************************************************)
Handler == [step : {"publish", "sign", "list", "queue", "stamp"},
            found : BOOLEAN, todo : SUBSET Students, lost : BOOLEAN]

Idle == [step |-> "idle"]

VARIABLES
    release,   \* the row of the exam and section, or NoRelease
    reachable, \* active students whose guardian has an address
    mails,     \* REPORT_CARD_READY rows queued for each student under this release
    reqs,      \* the handlers in flight
    late       \* students without a mail, in reach only since a handler listed the class

vars == <<release, reachable, mails, reqs, late>>

TypeOK ==
    /\ release \in Row \cup {NoRelease}
    /\ reachable \subseteq Students
    /\ mails \in [Students -> 0..MaxMails]
    /\ reqs \in [Requests -> Handler \cup {Idle}]
    /\ late \subseteq Students

Init ==
    /\ release = NoRelease
    /\ reachable \in SUBSET Students
    /\ mails = [s \in Students |-> 0]
    /\ reqs = [r \in Requests |-> Idle]
    /\ late = {}

-----------------------------------------------------------------------------
At(r, step) == reqs[r].step = step

\* The handler goes by the id of the row.
Knows(r) == reqs[r] # Idle /\ (At(r, "publish") => reqs[r].found)

Opens(r, step) ==
    /\ reqs[r] = Idle
    /\ reqs' = [reqs EXCEPT ![r] = [step |-> step, found |-> release # NoRelease,
                                    todo |-> {}, lost |-> FALSE]]

Ends(r) == reqs' = [reqs EXCEPT ![r] = Idle]

\* Handlers that have listed the class for the release that is there.
Notifying == {r \in Requests : reqs[r].step \in {"queue", "stamp"} /\ ~reqs[r].lost}

\* A mail names the release it was queued for; one for a row that is gone announces nothing.
Queued(r, s) == IF reqs[r].lost THEN mails ELSE [mails EXCEPT ![s] = @ + 1]

RequestFails(r) ==
    /\ reqs[r] # Idle
    /\ Ends(r)
    /\ UNCHANGED <<release, reachable, mails, late>>

-----------------------------------------------------------------------------
(***************************************************************************)
(* POST /report-cards/publish.                                             *)
(***************************************************************************)
PublishRead(r) == Opens(r, "publish") /\ UNCHANGED <<release, reachable, mails, late>>

\* An update puts PUBLISHED over whatever the row says; a create meets the unique key.
PublishWrite(r) ==
    /\ At(r, "publish")
    /\ IF reqs[r].found
       THEN ~reqs[r].lost /\ release' = [release EXCEPT !.status = "PUBLISHED"]
       ELSE /\ release = NoRelease
            /\ release' = [status |-> "PUBLISHED", signed |-> FALSE, notified |-> FALSE]
    /\ Ends(r)
    /\ UNCHANGED <<reachable, mails, late>>

(***************************************************************************)
(* POST /report-cards/sign-off.                                            *)
(***************************************************************************)
SignRead(r) ==
    /\ release # NoRelease
    /\ Opens(r, "sign")
    /\ UNCHANGED <<release, reachable, mails, late>>

SignWrite(r) ==
    /\ At(r, "sign") /\ ~reqs[r].lost
    /\ release' = [release EXCEPT !.status = "SIGNED_OFF", !.signed = TRUE]
    /\ Ends(r)
    /\ UNCHANGED <<reachable, mails, late>>

(***************************************************************************)
(* POST /report-cards/notify-parents.                                      *)
(***************************************************************************)
NotifyRead(r) ==
    /\ release # NoRelease
    /\ Opens(r, "list")
    /\ UNCHANGED <<release, reachable, mails, late>>

After(todo) == IF todo = {} THEN "stamp" ELSE "queue"

NotifyList(r) ==
    /\ At(r, "list")
    /\ reqs' = [reqs EXCEPT ![r].step = After(reachable), ![r].todo = reachable]
    /\ UNCHANGED <<release, reachable, mails, late>>

\* Mutant of NotifyQueue: the release is stamped when the first mail is out.
NotifyQueueFirst(r) ==
    /\ At(r, "queue")
    /\ \E s \in reqs[r].todo :
          /\ mails[s] < MaxMails
          /\ mails' = Queued(r, s)
          /\ reqs' = [reqs EXCEPT ![r].step = "stamp", ![r].todo = @ \ {s}]
    /\ UNCHANGED <<release, reachable, late>>

\* One student after the other; MaxMails bounds the rows, in the model only.
NotifyQueue(r) ==
    /\ At(r, "queue")
    /\ \E s \in reqs[r].todo :
          LET rest == reqs[r].todo \ {s}
          IN  /\ mails[s] < MaxMails
              /\ mails' = Queued(r, s)
              /\ late' = IF reqs[r].lost THEN late ELSE late \ {s}
              /\ reqs' = [reqs EXCEPT ![r].step = After(rest), ![r].todo = rest]
    /\ UNCHANGED <<release, reachable>>

NotifyStamp(r) ==
    /\ At(r, "stamp") /\ ~reqs[r].lost
    /\ release' = [release EXCEPT !.notified = TRUE]
    /\ Ends(r)
    /\ UNCHANGED <<reachable, mails, late>>

-----------------------------------------------------------------------------
(***************************************************************************)
(* Around the release.                                                     *)
(***************************************************************************)
\* A student becomes active or gets a guardian's address.
ComesInReach(s) ==
    /\ s \notin reachable
    /\ reachable' = reachable \cup {s}
    /\ late' = IF Notifying # {} \/ (release # NoRelease /\ release.notified)
               THEN late \cup {s} ELSE late
    /\ UNCHANGED <<release, mails, reqs>>

GoesOutOfReach(s) ==
    /\ s \in reachable
    /\ reachable' = reachable \ {s}
    /\ late' = late \ {s}
    /\ UNCHANGED <<release, mails, reqs>>

\* The exam, or the school data, is deleted: what was mailed was mailed for this row.
ReleaseDeleted ==
    /\ release # NoRelease
    /\ release' = NoRelease
    /\ reqs' = [r \in Requests |-> IF Knows(r)
                                   THEN [reqs[r] EXCEPT !.lost = TRUE] ELSE reqs[r]]
    /\ mails' = [s \in Students |-> 0]
    /\ late' = {}
    /\ UNCHANGED reachable

Handle(r) ==
    \/ PublishRead(r) \/ PublishWrite(r) \/ SignRead(r) \/ SignWrite(r)
    \/ NotifyRead(r) \/ NotifyList(r) \/ NotifyQueue(r) \/ NotifyStamp(r)
    \/ RequestFails(r)

Next ==
    \/ \E r \in Requests : Handle(r)
    \/ \E s \in Students : ComesInReach(s) \/ GoesOutOfReach(s)
    \/ ReleaseDeleted

Spec == Init /\ [][Next]_vars

-----------------------------------------------------------------------------
(***************************************************************************)
(* Properties.                                                             *)
(***************************************************************************)
\* A release that says its parents were notified has a mail queued for every guardian
\* within reach, but for those who came within reach after the class had been listed.
NotifiedMeansQueued ==
    release # NoRelease /\ release.notified =>
        \A s \in reachable \ late : mails[s] > 0

\* A class being notified: whoever is not late is on the list or has a mail.
ListedOrQueued ==
    \A r \in Notifying : \A s \in reachable \ late : s \in reqs[r].todo \/ mails[s] > 0

\* A handler that stamps has no one left to mail.
StampIsLast == \A r \in Requests : At(r, "stamp") => reqs[r].todo = {}

\* The row a handler goes by the id of is there until the handler has lost it.
RowIsThere == \A r \in Requests : Knows(r) /\ ~reqs[r].lost => release # NoRelease

IInv ==
    /\ TypeOK
    /\ ListedOrQueued
    /\ StampIsLast
    /\ RowIsThere
    /\ NotifiedMeansQueued

=============================================================================
