------------------------------- MODULE SignIn -------------------------------
(***************************************************************************)
(* The two halves of signing in: the refresh sessions of a user (Session), *)
(* and what the middleware believes of him (LiveStaff).  A call of one     *)
(* half writes no row and no cache of the other that its properties could  *)
(* tell, so the half that moves is chosen once, and the other one rests.   *)
(***************************************************************************)
EXTENDS Session, TLC

CONSTANTS Processes, Requests, NoEntry, MaxVersion

ASSUME SignInAssumption == MaxVersion \in Nat

VARIABLES
    half,                               \* the half that moves
    row, entry, jobs, unheard, outrun   \* of LiveStaff

Middleware == INSTANCE LiveStaff

liveVars == <<row, entry, jobs, unheard, outrun>>

SignInInit == half \in {"sessions", "live"} /\ Init /\ Middleware!Init

SessionStep ==
    /\ half = "sessions"
    /\ Next
    /\ UNCHANGED <<half, liveVars>>

LiveStep ==
    /\ half = "live"
    /\ Middleware!Next
    /\ UNCHANGED <<half, vars>>

SignInNext == SessionStep \/ LiveStep

SignInSpec == SignInInit /\ [][SignInNext]_<<half, vars, liveVars>>

Symmetry == Permutations(Tabs) \cup Permutations(Browsers)

-----------------------------------------------------------------------------
\* middleware/auth.js:72, "demotions and resets apply immediately": a request is judged by
\* an outdated row of its user for four reasons only.
StaleExplained == Middleware!StaleExplained

=============================================================================
