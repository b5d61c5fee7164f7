----------------------------- MODULE LiveStaff -----------------------------
(***************************************************************************)
(* What the middleware believes of one user: every process keeps the row   *)
(* it has loaded for 10 s (liveUserCache), and a handler that changes the  *)
(* row drops the entry of its own process after the write, if it drops any.*)
(* The row is its version; a deletion is a version too.                    *)
(***************************************************************************)
EXTENDS Naturals

CONSTANTS
    Processes,   \* server processes, each with a cache
    Requests,    \* slots for requests in flight
    NoEntry,     \* nothing cached: no version
    MaxVersion   \* bound: changes of the row

Versions == 0..MaxVersion

\* A request loads the row, or is a handler that has changed it and is to drop the entry.
Job == [step : {"fill", "drop"}, process : Processes, version : Versions, outrun : BOOLEAN]

Idle == [step |-> "idle"]

VARIABLES
    row,       \* the User row: its version
    entry,     \* the cached version in each process, or NoEntry
    jobs,      \* the requests in flight
    unheard,   \* the versions that no entry of a process was dropped for
    outrun     \* processes whose entry was loaded before a drop and put there after it

vars == <<row, entry, jobs, unheard, outrun>>

TypeOK ==
    /\ row \in Versions
    /\ entry \in [Processes -> Versions \cup {NoEntry}]
    /\ jobs \in [Requests -> Job \cup {Idle}]
    /\ unheard \in [Processes -> SUBSET Versions]
    /\ outrun \subseteq Processes

Init ==
    /\ row = 0
    /\ entry = [i \in Processes |-> NoEntry]
    /\ jobs = [r \in Requests |-> Idle]
    /\ unheard = [i \in Processes |-> {}]
    /\ outrun = {}

At(r, step) == jobs[r].step = step

-----------------------------------------------------------------------------
\* loadLiveStaffUser: nothing is cached, and the row is read; what is cached is used as is.
Load(r, i) ==
    /\ jobs[r] = Idle
    /\ entry[i] = NoEntry
    /\ jobs' = [jobs EXCEPT ![r] = [step |-> "fill", process |-> i, version |-> row,
                                    outrun |-> FALSE]]
    /\ UNCHANGED <<row, entry, unheard, outrun>>

\* liveUserCache.set, over whatever another load has put there.
Fill(r) ==
    LET job == jobs[r]
    IN  /\ At(r, "fill")
        /\ entry' = [entry EXCEPT ![job.process] = job.version]
        /\ outrun' = IF job.outrun THEN outrun \cup {job.process} ELSE outrun \ {job.process}
        /\ jobs' = [jobs EXCEPT ![r] = Idle]
        /\ UNCHANGED <<row, unheard>>

Writes ==
    /\ row < MaxVersion
    /\ row' = row + 1
    /\ unheard' = [i \in Processes |-> unheard[i] \cup {row + 1}]
    /\ UNCHANGED <<entry, outrun>>

\* PATCH /users/:id and POST /users/:id/reset-password: the update, and then the drop.
Announce(r, i) ==
    /\ jobs[r] = Idle
    /\ Writes
    /\ jobs' = [jobs EXCEPT ![r] = [step |-> "drop", process |-> i, version |-> row + 1,
                                    outrun |-> FALSE]]

\* DELETE /users/:id, POST /auth/change-password, the resets of the platform and the school
\* data tool change the row and drop nothing.
ChangeQuietly == Writes /\ UNCHANGED jobs

\* Mutant of Drop: the entry is dropped only when it is out of date already.
DropOlder(r) ==
    LET i == jobs[r].process
    IN  /\ At(r, "drop")
        /\ entry' = IF entry[i] = jobs[r].version - 1 THEN [entry EXCEPT ![i] = NoEntry] ELSE entry
        /\ outrun' = outrun \ {i}
        /\ unheard' = [unheard EXCEPT ![i] = @ \ 0..jobs[r].version]
        /\ jobs' = [s \in Requests |->
                      IF s = r THEN Idle
                      ELSE IF At(s, "fill") /\ jobs[s].process = i THEN [jobs[s] EXCEPT !.outrun = TRUE]
                      ELSE jobs[s]]
        /\ UNCHANGED row

\* invalidateLiveStaffUserCache: a load on its way does not notice.
Drop(r) ==
    LET i == jobs[r].process
    IN  /\ At(r, "drop")
        /\ entry' = [entry EXCEPT ![i] = NoEntry]
        /\ outrun' = outrun \ {i}
        /\ unheard' = [unheard EXCEPT ![i] = @ \ 0..jobs[r].version]
        /\ jobs' = [s \in Requests |->
                      IF s = r THEN Idle
                      ELSE IF At(s, "fill") /\ jobs[s].process = i THEN [jobs[s] EXCEPT !.outrun = TRUE]
                      ELSE jobs[s]]
        /\ UNCHANGED row

\* LIVE_USER_TTL_MS have passed, or the process starts anew.
EntryExpires(i) ==
    /\ entry[i] # NoEntry
    /\ entry' = [entry EXCEPT ![i] = NoEntry]
    /\ outrun' = outrun \ {i}
    /\ UNCHANGED <<row, jobs, unheard>>

\* A read or an update rejects, or the process stops before the entry is dropped.
RequestFails(r) ==
    /\ jobs[r] # Idle
    /\ jobs' = [jobs EXCEPT ![r] = Idle]
    /\ UNCHANGED <<row, entry, unheard, outrun>>

Next ==
    \/ \E r \in Requests : \/ \E i \in Processes : Load(r, i) \/ Announce(r, i)
                           \/ Fill(r) \/ Drop(r) \/ RequestFails(r)
    \/ \E i \in Processes : EntryExpires(i)
    \/ ChangeQuietly

Spec == Init /\ [][Next]_vars

-----------------------------------------------------------------------------
(***************************************************************************)
(* Properties.                                                             *)
(***************************************************************************)
\* A request is judged by an outdated row only when the change was made by a handler that
\* drops nothing, or has not dropped yet, or runs in another process, or when the row was
\* loaded before the drop and cached after it.
StaleExplained ==
    \A i \in Processes :
        entry[i] # NoEntry /\ entry[i] < row =>
            i \in outrun \/ \E v \in unheard[i] : v > entry[i]

\* The same of the loads on their way.
LoadsExplained ==
    \A r \in Requests :
        At(r, "fill") /\ jobs[r].version < row =>
            jobs[r].outrun \/ \E v \in unheard[jobs[r].process] : v > jobs[r].version

=============================================================================
