------------------------------ MODULE Session ------------------------------
(***************************************************************************)
(* The refresh sessions of one user.  A browser keeps the current token in *)
(* a cookie that all its tabs share; a refresh revokes the token it was    *)
(* sent with and answers with a new one; a token revoked more than 15 s    *)
(* ago that comes back ends every session of the user.  The token table    *)
(* and the cookie are updated one awaited call at a time, and an answer    *)
(* may be lost on its way or never be made.                                *)
(***************************************************************************)
EXTENDS Naturals

CONSTANTS
    Browsers,
    Tabs,       \* each makes one call at a time
    MaxTokens,  \* bound: tokens issued
    None        \* no cookie, no token

Tokens == 1..MaxTokens

ASSUME SessionAssumption == MaxTokens \in Nat /\ None \notin Nat

\* A row: live, or revoked (within the grace of 15 s), or revoked before that (old), or
\* past its 30 days (expired).
States == {"unissued", "live", "revoked", "old", "expired"}

Call == [op : {"refresh", "login", "logout", "change"},
         step : {"find", "rotate", "create", "user", "alarm", "revoke", "answer"},
         sent : Tokens \cup {None}, got : Tokens \cup {None}]

Idle == [op |-> "none", step |-> "idle"]

VARIABLES
    home,      \* the browser of each tab
    jar,       \* the refresh cookie of each browser
    tokens,    \* the RefreshToken rows
    calls,     \* of each tab
    blocked,   \* the user is not active, or the school is suspended
    ended,     \* tokens ended by a revoke-all or by their age
    stranded,  \* tokens revoked by a call that never answered
    crossed    \* tokens that two calls were under way with at once

vars == <<home, jar, tokens, calls, blocked, ended, stranded, crossed>>

TypeOK ==
    /\ home \in [Tabs -> Browsers]
    /\ jar \in [Browsers -> Tokens \cup {None}]
    /\ tokens \in [Tokens -> States]
    /\ calls \in [Tabs -> Call \cup {Idle}]
    /\ blocked \in BOOLEAN
    /\ ended \subseteq Tokens /\ stranded \subseteq Tokens /\ crossed \subseteq Tokens

Init ==
    /\ home \in [Tabs -> Browsers]
    /\ jar = [b \in Browsers |-> None]
    /\ tokens = [k \in Tokens |-> "unissued"]
    /\ calls = [t \in Tabs |-> Idle]
    /\ blocked = FALSE
    /\ ended = {} /\ stranded = {} /\ crossed = {}

-----------------------------------------------------------------------------
At(t, step) == calls[t].step = step

Live == {k \in Tokens : tokens[k] = "live"}

Opens(t, op, step) ==
    /\ calls[t] = Idle
    /\ calls' = [calls EXCEPT ![t] = [op |-> op, step |-> step, sent |-> jar[home[t]], got |-> None]]
    /\ crossed' = crossed \cup
         {k \in Tokens : k = jar[home[t]] /\ \E s \in Tabs : calls[s] # Idle /\ calls[s].sent = k}

Goes(t, step) == calls' = [calls EXCEPT ![t].step = step]

\* revokeAllRefreshSessions: every row that has no revokedAt.
Revoked == [k \in Tokens |-> IF tokens[k] \in {"live", "expired"} THEN "revoked" ELSE tokens[k]]

RevokesAll ==
    /\ tokens' = Revoked
    /\ ended' = ended \cup Live

\* createRefreshSession.
Issues(t, step) ==
    \E k \in Tokens :
        /\ tokens[k] = "unissued"
        /\ \A l \in 1..(k - 1) : tokens[l] # "unissued"
        /\ tokens' = [tokens EXCEPT ![k] = "live"]
        /\ calls' = [calls EXCEPT ![t].step = step, ![t].got = k]

-----------------------------------------------------------------------------
(***************************************************************************)
(* POST /auth/refresh.                                                     *)
(***************************************************************************)
RefreshSend(t) ==
    /\ Opens(t, "refresh", "find")
    /\ UNCHANGED <<home, jar, tokens, blocked, ended, stranded>>

\* A token that is unknown, past its age or revoked a moment ago clears the cookies.
RefreshFind(t) ==
    LET k == calls[t].sent
    IN  /\ At(t, "find")
        /\ Goes(t, IF k = None THEN "answer"
                   ELSE IF tokens[k] = "live" THEN "rotate"
                   ELSE IF tokens[k] = "old" THEN "alarm" ELSE "answer")
        /\ UNCHANGED <<home, jar, tokens, blocked, ended, stranded, crossed>>

\* By id, whatever the row has become since it was found: a second revokedAt starts a
\* grace of its own.
RefreshRotate(t) ==
    /\ At(t, "rotate")
    /\ tokens' = [tokens EXCEPT ![calls[t].sent] = "revoked"]
    /\ Goes(t, "create")
    /\ UNCHANGED <<home, jar, blocked, ended, stranded, crossed>>

RefreshCreate(t) ==
    /\ At(t, "create") /\ calls[t].op = "refresh"
    /\ Issues(t, "user")
    /\ UNCHANGED <<home, jar, blocked, ended, stranded, crossed>>

\* A user who is not to come in is answered without the token that is live for him now.
RefreshUser(t) ==
    /\ At(t, "user")
    /\ calls' = [calls EXCEPT ![t].step = "answer", ![t].got = IF blocked THEN None ELSE @]
    /\ UNCHANGED <<home, jar, tokens, blocked, ended, stranded, crossed>>

ReuseAlarm(t) ==
    /\ At(t, "alarm")
    /\ RevokesAll
    /\ Goes(t, "answer")
    /\ UNCHANGED <<home, jar, blocked, stranded, crossed>>

-----------------------------------------------------------------------------
(***************************************************************************)
(* POST /auth/login, /auth/logout and /auth/change-password.               *)
(***************************************************************************)
Login(t) ==
    /\ ~blocked
    /\ Opens(t, "login", "create")
    /\ UNCHANGED <<home, jar, tokens, blocked, ended, stranded>>

\* Sessions of a login and of a changed password need no token.
SignIn(t) ==
    /\ At(t, "create") /\ calls[t].op # "refresh"
    /\ Issues(t, "answer")
    /\ UNCHANGED <<home, jar, blocked, ended, stranded, crossed>>

Logout(t) ==
    /\ Opens(t, "logout", "revoke")
    /\ UNCHANGED <<home, jar, tokens, blocked, ended, stranded>>

\* Mutant of LogoutRevoke: the sessions of the user are revoked, not the one.
LogoutRevokeAll(t) ==
    /\ At(t, "revoke") /\ calls[t].op = "logout"
    /\ tokens' = Revoked
    /\ Goes(t, "answer")
    /\ UNCHANGED <<home, jar, blocked, ended, stranded, crossed>>

\* updateMany, for a row that is not revoked yet.
LogoutRevoke(t) ==
    LET k == calls[t].sent
    IN  /\ At(t, "revoke") /\ calls[t].op = "logout"
        /\ tokens' = IF k # None /\ tokens[k] \in {"live", "expired"}
                     THEN [tokens EXCEPT ![k] = "revoked"] ELSE tokens
        /\ Goes(t, "answer")
        /\ UNCHANGED <<home, jar, blocked, ended, stranded, crossed>>

\* With an access cookie that is good for minutes more, whatever the refresh cookie is.
ChangePassword(t) ==
    /\ ~blocked
    /\ Opens(t, "change", "revoke")
    /\ UNCHANGED <<home, jar, tokens, blocked, ended, stranded>>

ChangeRevoke(t) ==
    /\ At(t, "revoke") /\ calls[t].op = "change"
    /\ RevokesAll
    /\ Goes(t, "create")
    /\ UNCHANGED <<home, jar, blocked, stranded, crossed>>

-----------------------------------------------------------------------------
(***************************************************************************)
(* Answers, and what happens around the calls.                             *)
(***************************************************************************)
\* Cookies are set in the order in which the answers come in.
Answer(t) ==
    /\ At(t, "answer")
    /\ jar' = [jar EXCEPT ![home[t]] = calls[t].got]
    /\ calls' = [calls EXCEPT ![t] = Idle]
    /\ UNCHANGED <<home, tokens, blocked, ended, stranded, crossed>>

\* The call has revoked, or may have, the token it was sent with.
MayHaveRevoked(t) ==
    \/ calls[t].op = "refresh" /\ calls[t].step \in {"create", "user", "answer"}
    \/ calls[t].op = "logout" /\ At(t, "answer")

\* Mutant of CallFails: a refresh that fails clears the cookie.
CallFailsClears(t) ==
    /\ calls[t] # Idle
    /\ calls' = [calls EXCEPT ![t] = Idle]
    /\ jar' = IF calls[t].op = "refresh" THEN [jar EXCEPT ![home[t]] = None] ELSE jar
    /\ stranded' = stranded \cup {k \in {calls[t].sent} : k # None /\ MayHaveRevoked(t)}
    /\ UNCHANGED <<home, tokens, blocked, ended, crossed>>

\* The handler rejects, the process stops or the connection breaks: no cookie is touched.
CallFails(t) ==
    /\ calls[t] # Idle
    /\ calls' = [calls EXCEPT ![t] = Idle]
    /\ stranded' = stranded \cup {k \in {calls[t].sent} : k # None /\ MayHaveRevoked(t)}
    /\ UNCHANGED <<home, jar, tokens, blocked, ended, crossed>>

\* POST /users/:id/reset-password, and the same of the platform's administrators.
ResetPassword ==
    /\ Live # {}
    /\ RevokesAll
    /\ UNCHANGED <<home, jar, calls, blocked, stranded, crossed>>

GracePasses(k) ==
    /\ tokens[k] = "revoked"
    /\ tokens' = [tokens EXCEPT ![k] = "old"]
    /\ UNCHANGED <<home, jar, calls, blocked, ended, stranded, crossed>>

Expires(k) ==
    /\ tokens[k] = "live"
    /\ tokens' = [tokens EXCEPT ![k] = "expired"]
    /\ ended' = ended \cup {k}
    /\ UNCHANGED <<home, jar, calls, blocked, stranded, crossed>>

StatusChanges ==
    /\ blocked' = ~blocked
    /\ UNCHANGED <<home, jar, tokens, calls, ended, stranded, crossed>>

Handle(t) ==
    \/ RefreshSend(t) \/ RefreshFind(t) \/ RefreshRotate(t) \/ RefreshCreate(t) \/ RefreshUser(t)
    \/ ReuseAlarm(t)
    \/ Login(t) \/ SignIn(t) \/ Logout(t) \/ LogoutRevoke(t)
    \/ ChangePassword(t) \/ ChangeRevoke(t)
    \/ Answer(t) \/ CallFails(t)

Next ==
    \/ \E t \in Tabs : Handle(t)
    \/ \E k \in Tokens : GracePasses(k) \/ Expires(k)
    \/ ResetPassword
    \/ StatusChanges

Spec == Init /\ [][Next]_vars

-----------------------------------------------------------------------------
(***************************************************************************)
(* Properties.                                                             *)
(***************************************************************************)
Busy(b) == \E t \in Tabs : calls[t] # Idle /\ home[t] = b

\* A browser with no call under way is signed in by its cookie: the token it names is live,
\* unless a revoke-all or its age has ended it, or a call that had revoked it never answered.
CookieSignsIn ==
    \A b \in Browsers :
        ~Busy(b) /\ jar[b] # None => jar[b] \in Live \cup ended \cup stranded

\* A cookie is cleared by a logout; or when the session is over; or by a refresh that was
\* sent before another tab got the cookie that is there now.
SignedOutForCause ==
    [][\A b \in Browsers :
         jar[b] # None /\ jar'[b] = None =>
            \E t \in Tabs :
                /\ At(t, "answer") /\ home[t] = b
                /\ \/ calls[t].op = "logout" \/ jar[b] \notin Live
                   \/ calls[t].sent # jar[b]]_vars

\* Nobody who merely uses the program raises the alarm that ends all sessions: the token
\* that came back had been ended, or its revocation was never answered, or two calls of the
\* browser were under way with it at once.
NoFalseAlarm ==
    \A t \in Tabs : At(t, "alarm") => calls[t].sent \in ended \cup stranded \cup crossed

=============================================================================
