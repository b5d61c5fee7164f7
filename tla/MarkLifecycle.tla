--------------------------- MODULE MarkLifecycle ---------------------------
(***************************************************************************)
(* What a register promises, whatever handlers interleave: the life of a   *)
(* mark.  A mark that is written is a draft again, unless leadership puts  *)
(* it down as approved; submitting, approving and reopening change no      *)
(* value; only a submitted mark is approved as it stands.                  *)
(***************************************************************************)
CONSTANTS Students, Values, NoMark

Statuses == {"DRAFT", "SUBMITTED", "APPROVED"}
Cell == [value : Values, status : Statuses] \cup {NoMark}

VARIABLES
    cell,     \* the mark of each student, or NoMark
    leading   \* a leadership handler is at work

Init ==
    /\ cell = [s \in Students |-> NoMark]
    /\ leading = FALSE

-----------------------------------------------------------------------------
(***************************************************************************)
(* What a step can do to the mark of one student.                          *)
(***************************************************************************)
Has(s) == cell[s] # NoMark
Stays(s) == cell'[s] = cell[s]
Drafted(s) == cell'[s] \in [value : Values, status : {"DRAFT"}]
Published(s) == leading /\ cell'[s] \in [value : Values, status : {"APPROVED"}]
Erased(s) == cell'[s] = NoMark
Moved(s, from, to) ==
    /\ Has(s) /\ cell[s].status \in from
    /\ cell'[s] = [value |-> cell[s].value, status |-> to]

(***************************************************************************)
(* A step does one thing, to any number of cells; it publishes only one.   *)
(***************************************************************************)
Enter == \A s \in Students : Stays(s) \/ Drafted(s)
Erase == \A s \in Students : Stays(s) \/ Erased(s)
Submit == \A s \in Students : Stays(s) \/ Moved(s, Statuses, "SUBMITTED")
Approve == \A s \in Students : Stays(s) \/ Moved(s, {"SUBMITTED"}, "APPROVED")
Reopen == \A s \in Students : Stays(s) \/ Moved(s, {"SUBMITTED", "APPROVED"}, "DRAFT")
Publish == \E p \in Students : Published(p) /\ \A s \in Students \ {p} : Stays(s)

Next ==
    /\ cell' \in [Students -> Cell]
    /\ leading' \in BOOLEAN
    /\ Enter \/ Erase \/ Submit \/ Approve \/ Reopen \/ Publish

Spec == Init /\ [][Next]_<<cell, leading>>

=============================================================================
