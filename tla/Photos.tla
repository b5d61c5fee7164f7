------------------------------- MODULE Photos -------------------------------
(***************************************************************************)
(* The photos of pupils where they are kept as files (BLOB_STORAGE is      *)
(* filesystem; lib/blobStore.js): columns of the Student row that name a   *)
(* file, and the files.  Nothing ties a row to its file: an upload         *)
(* (routes/students.js) reads the row, removes the file it names, writes a *)
(* new one under a name of its own and then updates the row, each of them  *)
(* a call of its own beside other uploads and removals.                    *)
(***************************************************************************)
CONSTANTS
    Students,   \* ids of Student rows; an id is given once
    Files,      \* names of files; each name is random, and so given once
    Requests,   \* slots for handlers in flight
    NoPhoto,    \* no columns are set
    Hollow,     \* photoMimeType says there is a photo, and nothing says where
    Unused,     \* an id not yet given to a row
    Gone        \* the id of a row that was deleted

Column == Files \cup {NoPhoto, Hollow}

VARIABLES
    photo,   \* the photo columns of each Student row
    files,   \* of each name: not given yet, a file, or no more
    reqs     \* the handlers in flight

vars == <<photo, files, reqs>>

(***************************************************************************)
(* A handler in flight: the pupils of an upload it has yet to do (all but  *)
(* a bulk upload have one), the pupil it is at, the columns it has read    *)
(* and the columns it is to write; or a promotion, between reading the     *)
(* pupil and writing the new row.                                          *)
(***************************************************************************)
Handler == [step : {"read", "unlink", "put", "update", "copy"}, todo : SUBSET Students,
            student : Students, old : Column, new : Column]

Idle == [step |-> "idle"]

TypeOK ==
    /\ photo \in [Students -> Column \cup {Unused, Gone}]
    /\ files \in [Files -> {"new", "stored", "removed"}]
    /\ reqs \in [Requests -> Handler \cup {Idle}]

Init ==
    /\ photo = [s \in Students |-> Unused]
    /\ files = [f \in Files |-> "new"]
    /\ reqs = [r \in Requests |-> Idle]

Present(s) == photo[s] \in Column
At(r, step) == reqs[r].step = step
Becomes(r, q) == reqs' = [reqs EXCEPT ![r] = q]

-----------------------------------------------------------------------------
\* POST /students, and the rows an import creates.
Enrol(t) ==
    /\ photo[t] = Unused
    /\ photo' = [photo EXCEPT ![t] = NoPhoto]
    /\ UNCHANGED <<files, reqs>>

\* DELETE /students/:id, or with the class section: the file is left.
Delete(s) ==
    /\ Present(s)
    /\ photo' = [photo EXCEPT ![s] = Gone]
    /\ UNCHANGED <<files, reqs>>

\* POST /students/promote: the row as it is read.
PromoteRead(r, s) ==
    /\ reqs[r] = Idle
    /\ Present(s)
    /\ Becomes(r, [step |-> "copy", todo |-> {}, student |-> s, old |-> photo[s], new |-> NoPhoto])
    /\ UNCHANGED <<photo, files>>

\* Mutant of Copied: the new row names the file as well.
CopiedWhole(column) == column

\* The bytes and the type are copied, the name of the file is not.
Copied(column) == IF column = NoPhoto THEN NoPhoto ELSE Hollow

\* The new row.  (The one it comes from has to be there: it is pointed at.)
PromoteCopy(r, t) ==
    /\ At(r, "copy")
    /\ Present(reqs[r].student)
    /\ photo[t] = Unused
    /\ photo' = [photo EXCEPT ![t] = Copied(reqs[r].old)]
    /\ Becomes(r, Idle)
    /\ UNCHANGED files

-----------------------------------------------------------------------------
(***************************************************************************)
(* POST /students/:id/photo and POST /students/photos/bulk.                *)
(***************************************************************************)
\* The pupil is there, or the pupils that the names of the files match.
UploadOpen(r) ==
    /\ reqs[r] = Idle
    /\ \E todo \in SUBSET {s \in Students : Present(s)} : \E s \in todo :
          Becomes(r, [step |-> "read", todo |-> todo, student |-> s, old |-> NoPhoto, new |-> NoPhoto])
    /\ UNCHANGED <<photo, files>>

\* The columns of the pupil at hand; a row that is gone by now names nothing.
UploadRead(r) ==
    LET s == reqs[r].student
        old == IF Present(s) THEN photo[s] ELSE NoPhoto
    IN  /\ At(r, "read")
        /\ Becomes(r, [reqs[r] EXCEPT !.old = old, !.step = IF old \in Files THEN "unlink" ELSE "put"])
        /\ UNCHANGED <<photo, files>>

\* deleteBlob: whatever comes of it is ignored.  A removal has nothing to put.
Unlink(r) ==
    LET f == reqs[r].old
    IN  /\ At(r, "unlink")
        /\ files' \in {files, [files EXCEPT ![f] = "removed"]}
        /\ Becomes(r, [reqs[r] EXCEPT !.step = IF reqs[r].todo = {} THEN "update" ELSE "put"])
        /\ UNCHANGED photo

\* Mutant of Named: a pupil's file has one name.
NamedForPupil(r) == {f \in Files : files[f] = "new" \/ f = reqs[r].old}

\* The names putBlob may give the file: none that was given before.
Named(r) == {f \in Files : files[f] = "new"}

Put(r) ==
    /\ At(r, "put")
    /\ \E f \in Named(r) :
          /\ files' = [files EXCEPT ![f] = "stored"]
          /\ Becomes(r, [reqs[r] EXCEPT !.step = "update", !.new = f])
    /\ UNCHANGED photo

\* The row is updated by id, whatever it names by now; a row that is gone rejects.  On to
\* the next pupil.
Update(r) ==
    LET q == reqs[r]
        rest == q.todo \ {q.student}
    IN  /\ At(r, "update")
        /\ Present(q.student)
        /\ photo' = [photo EXCEPT ![q.student] = q.new]
        /\ \/ rest = {} /\ Becomes(r, Idle)
           \/ \E s \in rest : Becomes(r, [step |-> "read", todo |-> rest, student |-> s,
                                          old |-> NoPhoto, new |-> NoPhoto])
        /\ UNCHANGED files

\* DELETE /students/:id/photo: the row is read once.
RemoveRead(r, s) ==
    /\ reqs[r] = Idle
    /\ Present(s)
    /\ Becomes(r, [step |-> IF photo[s] \in Files THEN "unlink" ELSE "update", todo |-> {},
                   student |-> s, old |-> photo[s], new |-> NoPhoto])
    /\ UNCHANGED <<photo, files>>

\* Any awaited call may reject, and the process may stop: what was done stays.
RequestFails(r) ==
    /\ reqs[r] # Idle
    /\ Becomes(r, Idle)
    /\ UNCHANGED <<photo, files>>

-----------------------------------------------------------------------------
Next ==
    \/ \E s \in Students :
          \/ Enrol(s) \/ Delete(s)
          \/ \E r \in Requests : PromoteRead(r, s) \/ PromoteCopy(r, s) \/ RemoveRead(r, s)
    \/ \E r \in Requests : \/ UploadOpen(r) \/ UploadRead(r) \/ Unlink(r) \/ Put(r) \/ Update(r)
                           \/ RequestFails(r)

Spec == Init /\ [][Next]_vars

-----------------------------------------------------------------------------
(***************************************************************************)
(* Properties.                                                             *)
(***************************************************************************)
\* The handler has removed the file that the row named, and has the row still to update.
Replacing(r, s) ==
    /\ At(r, "put") \/ At(r, "update")
    /\ reqs[r].student = s /\ reqs[r].old = photo[s]

Stands(s) ==
    photo[s] \in Files =>
        files[photo[s]] = "stored" \/ \E r \in Requests : Replacing(r, s)

\* However uploads, removals, promotions and deletions overlap, a row names a file that is
\* there, or a handler is about to change the row: a photo is lost only when that handler
\* fails.  Names given once, and to one row, are what this rests on.
PhotoLostOnlyByFailure ==
    [][\A s \in Students : Stands(s) /\ ~Stands(s)' =>
          \E r \in Requests : RequestFails(r) /\ Replacing(r, s)]_vars

-----------------------------------------------------------------------------
(***************************************************************************)
(* What is known of the names, for the proof.                              *)
(***************************************************************************)
\* A name that a row or a handler has was given.
NamesGiven ==
    /\ \A s \in Students : photo[s] \in Files => files[photo[s]] # "new"
    /\ \A r \in Requests : reqs[r] # Idle =>
          \A f \in {reqs[r].old, reqs[r].new} \cap Files : files[f] # "new"

\* A handler that is to write a name has just stored it, and nobody else has it; one that
\* has read a name has it of the row of its own pupil.
Pending(r) == At(r, "update") /\ reqs[r].new \in Files

PendingIsOwn ==
    \A r \in Requests : Pending(r) =>
        LET f == reqs[r].new
        IN  /\ files[f] = "stored"
            /\ \A s \in Students : photo[s] # f
            /\ \A q \in Requests : q # r /\ Pending(q) => reqs[q].new # f
            /\ \A q \in Requests : reqs[q] # Idle => reqs[q].old # f

OnePupilEach ==
    /\ \A s, t \in Students : photo[s] \in Files /\ photo[s] = photo[t] => s = t
    /\ \A r \in Requests, s \in Students :
          reqs[r] # Idle /\ reqs[r].old \in Files /\ reqs[r].old = photo[s] => reqs[r].student = s

\* A handler removes a file, and writes the name of one that it has put.
ToWrite ==
    \A r \in Requests :
        /\ At(r, "unlink") => reqs[r].old \in Files
        /\ At(r, "read") \/ At(r, "unlink") => reqs[r].new \notin Files

IInv == TypeOK /\ NamesGiven /\ PendingIsOwn /\ OnePupilEach /\ ToWrite

=============================================================================
