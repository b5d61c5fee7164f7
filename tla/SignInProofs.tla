---------------------------- MODULE SignInProofs ----------------------------
(***************************************************************************)
(* For any number of browsers, tabs and tokens, of processes and requests: *)
(* what the cookies, the alarm and the live-user cache of SignIn promise.  *)
(* The argument for the sessions is one of ownership: a token is known to  *)
(* one browser only, and one that is on its way to a browser is known to   *)
(* nobody, so nobody but the browser's own calls can revoke its token      *)
(* without ending all sessions.                                            *)
(***************************************************************************)
EXTENDS SignIn, TLAPS

Sent(t) == IF calls[t] = Idle THEN None ELSE calls[t].sent
Got(t) == IF calls[t] = Idle THEN None ELSE calls[t].got

\* A call has the steps of its handler, and something to say when it has signed in.
Shape(t) ==
    calls[t] # Idle =>
        /\ calls[t].op = "refresh" =>
             calls[t].step \in {"find", "rotate", "create", "user", "alarm", "answer"}
        /\ calls[t].op = "login" => calls[t].step \in {"create", "answer"}
        /\ calls[t].op = "logout" => calls[t].step \in {"revoke", "answer"} /\ calls[t].got = None
        /\ calls[t].op = "change" => calls[t].step \in {"revoke", "create", "answer"}
        /\ calls[t].op \in {"login", "change"} /\ calls[t].step = "answer" => calls[t].got # None
        /\ calls[t].step \in {"rotate", "alarm"} => calls[t].sent # None
        /\ calls[t].got # None => calls[t].step \in {"user", "answer"}

\* A refresh that is past its look at the token, and has nothing to give for it, leaves it
\* spent.
Spent(t) ==
    /\ calls[t] # Idle
    /\ calls[t].op = "refresh" /\ calls[t].sent # None
    /\ \/ calls[t].step \in {"create", "user", "alarm"}
       \/ calls[t].step = "answer" /\ calls[t].got = None
    => tokens[calls[t].sent] \notin {"unissued", "live"}

Known ==
    /\ \A b \in Browsers : jar[b] # None => tokens[jar[b]] # "unissued"
    /\ \A t \in Tabs : Sent(t) # None => tokens[Sent(t)] # "unissued"
    /\ \A t \in Tabs : Got(t) # None => tokens[Got(t)] # "unissued"

\* A token is known to one browser.
Owned ==
    /\ \A b, c \in Browsers : jar[b] # None /\ jar[b] = jar[c] => b = c
    /\ \A t \in Tabs, b \in Browsers : Sent(t) # None /\ Sent(t) = jar[b] => home[t] = b
    /\ \A s, t \in Tabs : Sent(s) # None /\ Sent(s) = Sent(t) => home[s] = home[t]

\* A token on its way to a browser is known to nobody, and good unless all were ended.
OnItsWay ==
    \A t \in Tabs : Got(t) # None =>
        /\ \A b \in Browsers : jar[b] # Got(t)
        /\ \A s \in Tabs : Sent(s) # Got(t)
        /\ \A s \in Tabs \ {t} : Got(s) # Got(t)
        /\ Got(t) \in Live \cup ended

\* What revokes the token of a cookie is still to answer, or has ended without an answer.
Backed ==
    \A b \in Browsers : jar[b] # None =>
        \/ jar[b] \in Live \cup ended \cup stranded
        \/ \E t \in Tabs : Sent(t) = jar[b] /\ MayHaveRevoked(t)

Crossing ==
    \A s, t \in Tabs : s # t /\ Sent(s) # None /\ Sent(s) = Sent(t) => Sent(s) \in crossed

\* A refresh that has not revoked its token knows who else may have.
Asking ==
    \A t \in Tabs :
        Sent(t) # None /\ calls[t].op = "refresh" /\ calls[t].step \in {"find", "alarm"} =>
            Sent(t) \in Live \cup ended \cup stranded \cup crossed

SessionInv ==
    /\ TypeOK
    /\ \A t \in Tabs : Shape(t) /\ Spent(t)
    /\ Known
    /\ Owned
    /\ OnItsWay
    /\ Backed
    /\ Crossing
    /\ Asking

USE SessionAssumption DEF Tokens

-----------------------------------------------------------------------------
(***************************************************************************)
(* What a call leaves alone.                                               *)
(***************************************************************************)
LEMMA IdleFacts == Idle.step = "idle" /\ Idle.op = "none" /\ Idle \notin Call
BY DEF Idle, Call

LEMMA CallTyped ==
    ASSUME TypeOK, NEW t \in Tabs
    PROVE  /\ calls[t] \in Call \cup {Idle}
           /\ calls[t] # Idle => calls[t] \in Call
           /\ \A step \in {"find", "rotate", "create", "user", "alarm", "revoke", "answer"} :
                At(t, step) => calls[t] # Idle /\ calls[t] \in Call
           /\ home[t] \in Browsers
           /\ jar[home[t]] \in Tokens \cup {None}
           /\ Sent(t) \in Tokens \cup {None} /\ Got(t) \in Tokens \cup {None}
BY IdleFacts DEF TypeOK, At, Call, Sent, Got

LEMMA NoneIsNoToken == None \notin Tokens
OBVIOUS

\* The handler of one tab moves: nothing is said of the others.
Moves(t, q) ==
    /\ calls' = [calls EXCEPT ![t] = q]
    /\ home' = home

LEMMA OthersStay ==
    ASSUME TypeOK, NEW t \in Tabs, NEW q \in Call \cup {Idle}, Moves(t, q)
    PROVE  /\ calls' \in [Tabs -> Call \cup {Idle}]
           /\ calls'[t] = q
           /\ \A s \in Tabs \ {t} :
                /\ calls'[s] = calls[s]
                /\ Sent(s)' = Sent(s) /\ Got(s)' = Got(s)
                /\ MayHaveRevoked(s)' <=> MayHaveRevoked(s)
                /\ Shape(s) => Shape(s)'
BY DEF TypeOK, Moves, Sent, Got, MayHaveRevoked, At, Shape

LEMMA OpensKeeps ==
    ASSUME SessionInv, NEW t \in Tabs, NEW op \in {"refresh", "login", "logout", "change"},
           NEW step \in {"find", "create", "revoke"}, Opens(t, op, step),
           <<op, step>> \in {<<"refresh", "find">>, <<"login", "create">>, <<"logout", "revoke">>,
                             <<"change", "revoke">>},
           UNCHANGED <<home, jar, tokens, blocked, ended, stranded>>
    PROVE  SessionInv'
<1> DEFINE q == [op |-> op, step |-> step, sent |-> jar[home[t]], got |-> None]
<1>1. TypeOK
  BY DEF SessionInv
<1>2. calls[t] = Idle /\ Moves(t, q) /\ q \in Call /\ q # Idle
  BY <1>1, CallTyped, IdleFacts DEF Opens, Moves, Call
<1> HIDE DEF q
<1>3. /\ calls' \in [Tabs -> Call \cup {Idle}]
      /\ calls'[t] = q
      /\ \A s \in Tabs \ {t} :
           /\ calls'[s] = calls[s]
           /\ Sent(s)' = Sent(s) /\ Got(s)' = Got(s)
           /\ MayHaveRevoked(s)' <=> MayHaveRevoked(s)
           /\ Shape(s) => Shape(s)'
  BY <1>1, <1>2, OthersStay
<1>4. q.op = op /\ q.step = step /\ q.sent = jar[home[t]] /\ q.got = None
  BY DEF q
<1>5. Sent(t)' = jar[home[t]] /\ Got(t)' = None /\ Sent(t) = None /\ Got(t) = None
  BY <1>2, <1>3, <1>4 DEF Sent, Got
<1>6. crossed' = crossed \cup
         {k \in Tokens : k = jar[home[t]] /\ \E s \in Tabs : calls[s] # Idle /\ calls[s].sent = k}
  BY DEF Opens
<1>7. TypeOK'
  BY <1>1, <1>3, <1>6 DEF TypeOK
<1>8. \A s \in Tabs : Shape(s)' /\ Spent(s)'
  <2>1. Shape(t)' /\ Spent(t)'
    BY <1>3, <1>4 DEF Shape, Spent
  <2>2. \A s \in Tabs \ {t} : Shape(s)' /\ Spent(s)'
    BY <1>3 DEF Spent, SessionInv
  <2> QED BY <2>1, <2>2
<1>9. Known' /\ Owned' /\ OnItsWay'
  <2>1. Known'
    BY <1>1, <1>3, <1>5, CallTyped DEF SessionInv, Known
  <2>2. Owned'
    BY <1>1, <1>3, <1>5, CallTyped DEF SessionInv, Owned
  <2>3. OnItsWay'
    BY <1>1, <1>3, <1>5, CallTyped DEF SessionInv, OnItsWay, Live
  <2> QED BY <2>1, <2>2, <2>3
<1>10. Backed'
  BY <1>3, <1>5 DEF SessionInv, Backed, Live
<1>11. Crossing'
  BY <1>1, <1>3, <1>5, <1>6, CallTyped DEF SessionInv, Crossing, Sent
<1>12. Asking'
  <2>1. ASSUME Sent(t)' # None PROVE Sent(t)' \in (Live \cup ended \cup stranded \cup crossed)'
    <3>1. \A s \in Tabs : Sent(s) = jar[home[t]] => jar[home[t]] \in crossed'
      BY <2>1, <1>1, <1>5, <1>6, CallTyped DEF Sent
    <3> QED BY <3>1, <2>1, <1>1, <1>5, CallTyped DEF SessionInv, Backed, Live
  <2> QED BY <2>1, <1>3, <1>6 DEF SessionInv, Asking, Live
<1> QED BY <1>7, <1>8, <1>9, <1>10, <1>11, <1>12 DEF SessionInv

(***************************************************************************)
(* A call goes on, with the token it was sent with, and revokes it or no   *)
(* token at all.                                                           *)
(***************************************************************************)
Spends(t) ==
    \/ tokens' = tokens
    \/ Sent(t) # None /\ tokens' = [tokens EXCEPT ![Sent(t)] = "revoked"]

LEMMA GoesOnKeeps ==
    ASSUME SessionInv, NEW t \in Tabs, NEW q \in Call, calls[t] # Idle, Moves(t, q),
           q.op = calls[t].op, q.sent = calls[t].sent, q.got \in {calls[t].got, None},
           Spends(t),
           tokens' # tokens => MayHaveRevoked(t)',
           MayHaveRevoked(t) => MayHaveRevoked(t)',
           Shape(t)', Spent(t)',
           q.op = "refresh" /\ q.step \in {"find", "alarm"} => calls[t].step \in {"find", "alarm"},
           UNCHANGED <<home, jar, blocked, ended, stranded, crossed>>
    PROVE  SessionInv'
<1>1. TypeOK
  BY DEF SessionInv
<1>2. /\ calls' \in [Tabs -> Call \cup {Idle}]
      /\ calls'[t] = q
      /\ \A s \in Tabs \ {t} :
           /\ calls'[s] = calls[s]
           /\ Sent(s)' = Sent(s) /\ Got(s)' = Got(s)
           /\ MayHaveRevoked(s)' <=> MayHaveRevoked(s)
           /\ Shape(s) => Shape(s)'
  BY <1>1, OthersStay
<1>3. q # Idle
  BY IdleFacts
<1>4. Sent(t)' = Sent(t) /\ Got(t)' \in {Got(t), None}
  BY <1>2, <1>3 DEF Sent, Got
<1>5. \A s \in Tabs : Sent(s)' = Sent(s) /\ Got(s)' \in {Got(s), None}
  BY <1>2, <1>4
<1>6. /\ tokens' \in [Tokens -> States]
      /\ \A k \in Tokens : \/ tokens'[k] = tokens[k]
                           \/ k = Sent(t) /\ tokens'[k] = "revoked" /\ tokens' # tokens
  <2>1. tokens \in [Tokens -> States] /\ "revoked" \in States
    BY <1>1 DEF TypeOK, States
  <2>2. tokens' \in [Tokens -> States]
    BY <2>1 DEF Spends
  <2>3. ASSUME NEW k \in Tokens, tokens'[k] # tokens[k]
        PROVE  k = Sent(t) /\ tokens'[k] = "revoked" /\ tokens' # tokens
    BY <2>1, <2>3 DEF Spends
  <2> QED BY <2>2, <2>3
<1>7. \A k \in Tokens : k # Sent(t) /\ k \in Live => k \in Live'
  BY <1>6 DEF Live
<1>8. TypeOK'
  BY <1>1, <1>2, <1>6 DEF TypeOK
<1>9. \A s \in Tabs : Shape(s)' /\ Spent(s)'
  <2>1. ASSUME NEW s \in Tabs \ {t} PROVE Shape(s)' /\ Spent(s)'
    <3>1. Shape(s) /\ Spent(s)
      BY DEF SessionInv
    <3>2. calls[s] # Idle /\ calls[s].sent # None => calls[s].sent \in Tokens
      BY <1>1, CallTyped DEF Sent
    <3> QED BY <3>1, <3>2, <1>2, <1>6 DEF Spent
  <2> QED BY <2>1
<1>10. Known'
  BY <1>1, <1>5, <1>6, CallTyped DEF SessionInv, Known, TypeOK
<1>11. Owned'
  BY <1>5 DEF SessionInv, Owned
<1>12. OnItsWay'
  <2>1. ASSUME NEW s \in Tabs, Got(s)' # None
        PROVE  Got(s)' \in (Live \cup ended)'
    <3>1. Got(s)' = Got(s) /\ Got(s) \in Live \cup ended /\ Sent(t) # Got(s)
      BY <2>1, <1>5 DEF SessionInv, OnItsWay
    <3> QED BY <3>1, <1>7 DEF Live
  <2> QED BY <2>1, <1>5 DEF SessionInv, OnItsWay
<1>13. Backed'
  <2>1. ASSUME NEW b \in Browsers, jar[b] # None
        PROVE  \/ jar[b] \in (Live \cup ended \cup stranded)'
               \/ \E s \in Tabs : Sent(s)' = jar[b] /\ MayHaveRevoked(s)'
    <3>1. jar[b] \in Tokens
      BY <1>1, <2>1 DEF TypeOK
    <3>2. CASE \E s \in Tabs : Sent(s) = jar[b] /\ MayHaveRevoked(s)
      BY <3>2, <1>2, <1>5
    <3>3. CASE jar[b] \in ended \cup stranded
      BY <3>3
    <3>4. CASE jar[b] \in Live /\ jar[b] \notin Live'
      <4>1. jar[b] = Sent(t) /\ tokens' # tokens
        BY <3>1, <3>4, <1>6, <1>7 DEF Live
      <4> QED BY <4>1, <1>4
    <3> QED BY <3>2, <3>3, <3>4, <2>1 DEF SessionInv, Backed
  <2> QED BY <2>1 DEF Backed
<1>14. Crossing'
  BY <1>5 DEF SessionInv, Crossing
<1>15. Asking'
  <2>1. ASSUME NEW s \in Tabs, Sent(s) # None, calls'[s].op = "refresh",
               calls'[s].step \in {"find", "alarm"}
        PROVE  Sent(s) \in (Live \cup ended \cup stranded \cup crossed)'
    <3>1. Sent(s) \in Live \cup ended \cup stranded \cup crossed
      BY <2>1, <1>2 DEF SessionInv, Asking
    <3>2. ASSUME Sent(s) \in Live, Sent(s) \notin Live' PROVE Sent(s) \in crossed
      <4>1. Sent(s) = Sent(t) /\ tokens' # tokens
        BY <3>2, <1>6 DEF Live
      <4>2. s # t
        BY <4>1, <2>1, <1>2 DEF MayHaveRevoked, At
      <4> QED BY <4>1, <4>2, <2>1 DEF SessionInv, Crossing
    <3> QED BY <3>1, <3>2
  <2> QED BY <2>1, <1>5 DEF Asking
<1> QED BY <1>8, <1>9, <1>10, <1>11, <1>12, <1>13, <1>14, <1>15 DEF SessionInv

LEMMA FindKeeps ==
    ASSUME SessionInv, NEW t \in Tabs, RefreshFind(t) PROVE SessionInv'
<1> DEFINE k == calls[t].sent
           q == [calls[t] EXCEPT !.step = IF k = None THEN "answer"
                                          ELSE IF tokens[k] = "live" THEN "rotate"
                                          ELSE IF tokens[k] = "old" THEN "alarm" ELSE "answer"]
<1>1. TypeOK /\ At(t, "find") /\ calls[t] # Idle /\ calls[t] \in Call /\ k \in Tokens \cup {None}
  BY CallTyped DEF SessionInv, RefreshFind, Call
<1>2. q \in Call /\ Moves(t, q) /\ tokens' = tokens
  BY <1>1 DEF RefreshFind, Goes, Moves, Call, TypeOK
<1>3. calls[t].op = "refresh" /\ calls[t].got = None
  BY <1>1 DEF SessionInv, Shape, At, Call
<1>4. calls'[t] = q /\ q # Idle
  BY <1>1, <1>2, OthersStay, IdleFacts
<1>5. q.op = "refresh" /\ q.sent = k /\ q.got = None
  BY <1>1, <1>3 DEF Call
<1>6. k # None => tokens[k] # "unissued"
  BY <1>1 DEF SessionInv, Known, Sent
<1>7. /\ q.step = "rotate" => k # None /\ tokens[k] = "live"
      /\ q.step = "alarm" => k # None /\ tokens[k] # "live"
      /\ q.step = "answer" => k = None \/ tokens[k] # "live"
      /\ q.step \in {"rotate", "alarm", "answer"}
  BY <1>1 DEF Call
<1> HIDE DEF q
<1>8. Shape(t)'
  BY <1>4, <1>5, <1>7 DEF Shape
<1>9. Spent(t)'
  BY <1>2, <1>4, <1>5, <1>6, <1>7 DEF Spent
<1>10. ~MayHaveRevoked(t)
  BY <1>1, <1>3 DEF MayHaveRevoked, At
<1>11. UNCHANGED <<home, jar, blocked, ended, stranded, crossed>>
  BY DEF RefreshFind
<1> QED BY <1>1, <1>2, <1>3, <1>5, <1>8, <1>9, <1>10, <1>11, GoesOnKeeps DEF Spends, At

LEMMA RotateKeeps ==
    ASSUME SessionInv, NEW t \in Tabs, RefreshRotate(t) PROVE SessionInv'
<1> DEFINE k == calls[t].sent
           q == [calls[t] EXCEPT !.step = "create"]
<1>1. TypeOK /\ At(t, "rotate") /\ calls[t] # Idle /\ calls[t] \in Call
  BY CallTyped DEF SessionInv, RefreshRotate
<1>2. q \in Call /\ Moves(t, q)
  BY <1>1 DEF RefreshRotate, Goes, Moves, Call, TypeOK
<1>3. calls[t].op = "refresh" /\ calls[t].got = None /\ k \in Tokens /\ Sent(t) = k
  BY <1>1 DEF SessionInv, Shape, At, Call, Sent
<1>4. calls'[t] = q /\ q # Idle
  BY <1>1, <1>2, OthersStay, IdleFacts
<1>5. q.op = "refresh" /\ q.sent = k /\ q.got = None /\ q.step = "create"
  BY <1>1, <1>3 DEF Call
<1> HIDE DEF q
<1>6. tokens' = [tokens EXCEPT ![k] = "revoked"] /\ tokens'[k] = "revoked"
  BY <1>1, <1>3 DEF RefreshRotate, TypeOK
<1>7. Shape(t)' /\ Spent(t)' /\ MayHaveRevoked(t)'
  BY <1>3, <1>4, <1>5, <1>6 DEF Shape, Spent, MayHaveRevoked
<1>8. UNCHANGED <<home, jar, blocked, ended, stranded, crossed>>
  BY DEF RefreshRotate
<1>9. Spends(t)
  BY <1>3, <1>6, NoneIsNoToken DEF Spends
<1> QED BY <1>1, <1>2, <1>3, <1>5, <1>7, <1>8, <1>9, GoesOnKeeps

LEMMA UserKeeps ==
    ASSUME SessionInv, NEW t \in Tabs, RefreshUser(t) PROVE SessionInv'
<1> DEFINE q == [calls[t] EXCEPT !.step = "answer", !.got = IF blocked THEN None ELSE @]
<1>1. TypeOK /\ At(t, "user") /\ calls[t] # Idle /\ calls[t] \in Call
  BY CallTyped DEF SessionInv, RefreshUser
<1>2. q \in Call /\ Moves(t, q) /\ tokens' = tokens
  BY <1>1 DEF RefreshUser, Moves, Call, TypeOK
<1>3. calls[t].op = "refresh"
  BY <1>1 DEF SessionInv, Shape, At, Call
<1>4. calls'[t] = q /\ q # Idle
  BY <1>1, <1>2, OthersStay, IdleFacts
<1>5. /\ q.op = "refresh" /\ q.sent = calls[t].sent /\ q.step = "answer"
      /\ q.got \in {calls[t].got, None}
  BY <1>1, <1>3 DEF Call
<1> HIDE DEF q
<1>6. Shape(t)' /\ Spent(t)' /\ MayHaveRevoked(t)'
  <2>1. Spent(t)
    BY DEF SessionInv
  <2> QED BY <2>1, <1>1, <1>2, <1>3, <1>4, <1>5 DEF Shape, Spent, MayHaveRevoked, At
<1>7. UNCHANGED <<home, jar, blocked, ended, stranded, crossed>>
  BY DEF RefreshUser
<1> QED BY <1>1, <1>2, <1>3, <1>5, <1>6, <1>7, GoesOnKeeps DEF Spends

LEMMA LogoutKeeps ==
    ASSUME SessionInv, NEW t \in Tabs, LogoutRevoke(t) PROVE SessionInv'
<1> DEFINE k == calls[t].sent
           q == [calls[t] EXCEPT !.step = "answer"]
<1>1. TypeOK /\ At(t, "revoke") /\ calls[t] # Idle /\ calls[t] \in Call
  BY CallTyped DEF SessionInv, LogoutRevoke
<1>2. q \in Call /\ Moves(t, q)
  BY <1>1 DEF LogoutRevoke, Goes, Moves, Call, TypeOK
<1>3. calls[t].op = "logout" /\ calls[t].got = None /\ Sent(t) = k
  BY <1>1 DEF SessionInv, Shape, At, Call, Sent, LogoutRevoke
<1>4. calls'[t] = q /\ q # Idle
  BY <1>1, <1>2, OthersStay, IdleFacts
<1>5. q.op = "logout" /\ q.sent = k /\ q.got = None /\ q.step = "answer"
  BY <1>1, <1>3 DEF Call
<1> HIDE DEF q
<1>6. Shape(t)' /\ Spent(t)' /\ MayHaveRevoked(t)'
  BY <1>4, <1>5 DEF Shape, Spent, MayHaveRevoked, At
<1>7. UNCHANGED <<home, jar, blocked, ended, stranded, crossed>>
  BY DEF LogoutRevoke
<1>8. Spends(t)
  BY <1>3 DEF Spends, LogoutRevoke
<1> QED BY <1>1, <1>2, <1>3, <1>5, <1>6, <1>7, <1>8, GoesOnKeeps

(***************************************************************************)
(* Tokens age, or are all ended at once; calls keep what they hold.        *)
(***************************************************************************)
LEMMA AgesKeeps ==
    ASSUME SessionInv,
           tokens' \in [Tokens -> States], calls' \in [Tabs -> Call \cup {Idle}],
           ended' \subseteq Tokens, blocked' \in BOOLEAN, ended \subseteq ended',
           \A k \in Tokens : /\ tokens[k] # "unissued" => tokens'[k] # "unissued"
                             /\ tokens[k] # "live" => tokens'[k] # "live"
                             /\ k \in Live => k \in Live' \cup ended',
           \A t \in Tabs : /\ Sent(t)' = Sent(t) /\ Got(t)' = Got(t)
                           /\ MayHaveRevoked(t) => MayHaveRevoked(t)'
                           /\ Shape(t)' /\ Spent(t)'
                           /\ calls'[t].op = "refresh" /\ calls'[t].step \in {"find", "alarm"}
                                => calls[t].op = "refresh" /\ calls[t].step \in {"find", "alarm"},
           UNCHANGED <<home, jar, stranded, crossed>>
    PROVE  SessionInv'
<1>1. TypeOK
  BY DEF SessionInv
<1>2. TypeOK'
  BY <1>1 DEF TypeOK
<1>3. Known'
  BY <1>1, CallTyped DEF SessionInv, Known, TypeOK
<1>4. Owned'
  BY DEF SessionInv, Owned
<1>5. OnItsWay'
  <2>1. \A t \in Tabs : Got(t) # None => Got(t) \in (Live \cup ended)'
    BY <1>1, CallTyped DEF SessionInv, OnItsWay, Live
  <2> QED BY <2>1 DEF SessionInv, OnItsWay
<1>6. Backed'
  BY <1>1 DEF SessionInv, Backed, TypeOK
<1>7. Crossing'
  BY DEF SessionInv, Crossing
<1>8. Asking'
  BY <1>1, CallTyped DEF SessionInv, Asking
<1> QED BY <1>2, <1>3, <1>4, <1>5, <1>6, <1>7, <1>8 DEF SessionInv

LEMMA CallsRest ==
    ASSUME SessionInv, calls' = calls, tokens' \in [Tokens -> States],
           \A k \in Tokens : /\ tokens[k] # "unissued" => tokens'[k] # "unissued"
                             /\ tokens[k] # "live" => tokens'[k] # "live"
    PROVE  /\ calls' \in [Tabs -> Call \cup {Idle}]
           /\ \A t \in Tabs : /\ Sent(t)' = Sent(t) /\ Got(t)' = Got(t)
                              /\ MayHaveRevoked(t) => MayHaveRevoked(t)'
                              /\ Shape(t)' /\ Spent(t)'
<1>1. \A t \in Tabs : Sent(t)' = Sent(t) /\ Got(t)' = Got(t)
                      /\ (MayHaveRevoked(t) => MayHaveRevoked(t)')
  BY DEF Sent, Got, MayHaveRevoked, At
<1>2. \A t \in Tabs : Shape(t)'
  BY DEF SessionInv, Shape
<1>3. \A t \in Tabs : Spent(t)'
  <2>1. \A t \in Tabs : calls[t] # Idle /\ calls[t].sent # None => calls[t].sent \in Tokens
    BY CallTyped DEF Sent, SessionInv
  <2> QED BY <2>1 DEF SessionInv, Spent
<1> QED BY <1>1, <1>2, <1>3 DEF SessionInv, TypeOK

LEMMA GraceKeeps ==
    ASSUME SessionInv, NEW k \in Tokens, GracePasses(k) PROVE SessionInv'
<1>1. /\ tokens' \in [Tokens -> States]
      /\ \A l \in Tokens : /\ tokens[l] # "unissued" => tokens'[l] # "unissued"
                           /\ tokens[l] # "live" => tokens'[l] # "live"
                           /\ l \in Live => l \in Live'
  BY DEF SessionInv, TypeOK, GracePasses, States, Live
<1>2. UNCHANGED <<home, jar, calls, blocked, ended, stranded, crossed>>
  BY DEF GracePasses
<1> QED BY <1>1, <1>2, CallsRest, AgesKeeps DEF SessionInv, TypeOK

LEMMA ExpiryKeeps ==
    ASSUME SessionInv, NEW k \in Tokens, Expires(k) PROVE SessionInv'
<1>1. /\ tokens' \in [Tokens -> States] /\ ended' = ended \cup {k}
      /\ \A l \in Tokens : /\ tokens[l] # "unissued" => tokens'[l] # "unissued"
                           /\ tokens[l] # "live" => tokens'[l] # "live"
                           /\ l \in Live => l \in Live' \cup ended'
  BY DEF SessionInv, TypeOK, Expires, States, Live
<1>2. UNCHANGED <<home, jar, calls, blocked, stranded, crossed>>
  BY DEF Expires
<1> QED BY <1>1, <1>2, CallsRest, AgesKeeps DEF SessionInv, TypeOK

LEMMA StatusKeeps ==
    ASSUME SessionInv, StatusChanges PROVE SessionInv'
<1>1. UNCHANGED <<home, jar, tokens, calls, ended, stranded, crossed>> /\ blocked' \in BOOLEAN
  BY DEF StatusChanges, SessionInv, TypeOK
<1>2. tokens' \in [Tokens -> States] /\ Live' = Live
  BY <1>1 DEF SessionInv, TypeOK, Live
<1> QED BY <1>1, <1>2, CallsRest, AgesKeeps DEF SessionInv, TypeOK

LEMMA RevokesAllFacts ==
    ASSUME SessionInv, RevokesAll
    PROVE  /\ tokens' \in [Tokens -> States]
           /\ ended' \subseteq Tokens /\ ended \subseteq ended'
           /\ \A k \in Tokens : /\ tokens[k] # "unissued" => tokens'[k] # "unissued"
                                /\ tokens[k] # "live" => tokens'[k] # "live"
                                /\ tokens'[k] # "live"
                                /\ k \in Live => k \in Live' \cup ended'
BY DEF SessionInv, TypeOK, RevokesAll, Revoked, States, Live

LEMMA ResetKeeps ==
    ASSUME SessionInv, ResetPassword PROVE SessionInv'
<1>1. RevokesAll /\ UNCHANGED <<home, jar, calls, blocked, stranded, crossed>>
  BY DEF ResetPassword
<1> QED BY <1>1, RevokesAllFacts, CallsRest, AgesKeeps DEF SessionInv, TypeOK

\* The call that ends all sessions: a refresh that found an old token, a changed password.
LEMMA EndsAllKeeps ==
    ASSUME SessionInv, NEW t \in Tabs, ReuseAlarm(t) \/ ChangeRevoke(t) PROVE SessionInv'
<1> DEFINE q == [calls[t] EXCEPT !.step = calls'[t].step]
<1>1. /\ TypeOK /\ calls[t] # Idle /\ calls[t] \in Call
      /\ \/ At(t, "alarm")
         \/ At(t, "revoke") /\ calls[t].op = "change"
  BY CallTyped DEF SessionInv, ReuseAlarm, ChangeRevoke
<1>2. RevokesAll /\ UNCHANGED <<home, jar, blocked, stranded, crossed>>
  BY DEF ReuseAlarm, ChangeRevoke
<1>3. q \in Call /\ Moves(t, q) /\ q.step \in {"answer", "create"}
  BY <1>1 DEF ReuseAlarm, ChangeRevoke, Goes, Moves, Call, TypeOK
<1>4. q.op = calls[t].op /\ q.sent = calls[t].sent /\ q.got = calls[t].got
  BY <1>1 DEF Call
<1>5. /\ At(t, "alarm") => q.op = "refresh" /\ q.step = "answer" /\ q.got = None /\ q.sent # None
      /\ At(t, "revoke") => q.op = "change" /\ q.step = "create" /\ q.got = None
  BY <1>1, <1>4, <1>3 DEF SessionInv, Shape, At, ReuseAlarm, ChangeRevoke, Goes, TypeOK, Call
<1> HIDE DEF q
<1>6. calls'[t] = q /\ q # Idle
  BY <1>1, <1>3, OthersStay, IdleFacts
<1>7. Sent(t)' = Sent(t) /\ Got(t)' = Got(t) /\ Shape(t)' /\ ~MayHaveRevoked(t)
  BY <1>1, <1>4, <1>5, <1>6 DEF Sent, Got, Shape, MayHaveRevoked, At
<1>8. Spent(t)'
  <2>1. Spent(t) /\ (calls[t].sent # None => calls[t].sent \in Tokens)
    BY <1>1, CallTyped DEF Sent, SessionInv
  <2> QED BY <2>1, <1>1, <1>2, <1>4, <1>5, <1>6, RevokesAllFacts DEF Spent, At
<1>9. ~(calls'[t].op = "refresh" /\ calls'[t].step \in {"find", "alarm"})
  BY <1>3, <1>6
<1>10. \A s \in Tabs \ {t} : /\ Sent(s)' = Sent(s) /\ Got(s)' = Got(s)
                             /\ MayHaveRevoked(s) => MayHaveRevoked(s)'
                             /\ Shape(s)' /\ Spent(s)'
                             /\ calls'[s] = calls[s]
  <2>1. ASSUME NEW s \in Tabs \ {t} PROVE Spent(s)'
    <3>1. Spent(s) /\ (calls[s] # Idle /\ calls[s].sent # None => calls[s].sent \in Tokens)
      BY <1>1, CallTyped DEF Sent, SessionInv
    <3> QED BY <3>1, <1>1, <1>2, <1>3, OthersStay, RevokesAllFacts DEF Spent
  <2> QED BY <2>1, <1>1, <1>3, OthersStay DEF SessionInv
<1>11. calls' \in [Tabs -> Call \cup {Idle}]
  BY <1>1, <1>3, OthersStay
<1> QED BY <1>1, <1>2, <1>7, <1>8, <1>9, <1>10, <1>11, RevokesAllFacts, AgesKeeps DEF TypeOK

(***************************************************************************)
(* A call is given a new token, answers with it, or ends without.          *)
(***************************************************************************)
LEMMA IssueKeeps ==
    ASSUME SessionInv, NEW t \in Tabs, RefreshCreate(t) \/ SignIn(t) PROVE SessionInv'
<1>1. TypeOK /\ At(t, "create") /\ calls[t] # Idle /\ calls[t] \in Call
  BY CallTyped DEF SessionInv, RefreshCreate, SignIn
<1>2. UNCHANGED <<home, jar, blocked, ended, stranded, crossed>>
  BY DEF RefreshCreate, SignIn
<1>3. PICK step \in {"user", "answer"} :
        /\ Issues(t, step)
        /\ step = "user" <=> calls[t].op = "refresh"
  BY DEF RefreshCreate, SignIn
<1>4. PICK k \in Tokens :
        /\ tokens[k] = "unissued"
        /\ tokens' = [tokens EXCEPT ![k] = "live"]
        /\ calls' = [calls EXCEPT ![t].step = step, ![t].got = k]
  BY <1>3 DEF Issues
<1> DEFINE q == [calls[t] EXCEPT !.step = step, !.got = k]
<1>5. q \in Call /\ Moves(t, q)
  BY <1>1, <1>2, <1>4 DEF Moves, Call, TypeOK
<1>6. q.op = calls[t].op /\ q.sent = calls[t].sent /\ q.step = step /\ q.got = k
  BY <1>1 DEF Call
<1> HIDE DEF q
<1>7. /\ calls' \in [Tabs -> Call \cup {Idle}]
      /\ calls'[t] = q /\ q # Idle
      /\ \A s \in Tabs \ {t} :
           /\ calls'[s] = calls[s]
           /\ Sent(s)' = Sent(s) /\ Got(s)' = Got(s)
           /\ MayHaveRevoked(s)' <=> MayHaveRevoked(s)
           /\ Shape(s) => Shape(s)'
  BY <1>1, <1>5, OthersStay, IdleFacts
<1>8. Sent(t)' = Sent(t) /\ Got(t)' = k /\ Got(t) = None /\ k # None
  BY <1>1, <1>6, <1>7, NoneIsNoToken DEF Sent, Got, SessionInv, Shape, At
<1>9. /\ tokens' \in [Tokens -> States] /\ tokens'[k] = "live"
      /\ \A l \in Tokens \ {k} : tokens'[l] = tokens[l]
  BY <1>1, <1>4 DEF TypeOK, States
<1>10. /\ \A b \in Browsers : jar[b] # k
       /\ \A s \in Tabs : Sent(s) # k /\ Got(s) # k
  BY <1>4, <1>8 DEF SessionInv, Known
<1>11. \A s \in Tabs : Sent(s)' = Sent(s)
  BY <1>7, <1>8
<1>12. \A l \in Tokens : l \in Live => l \in Live'
  BY <1>9 DEF Live
<1>13. TypeOK'
  BY <1>1, <1>2, <1>7, <1>9 DEF TypeOK
<1>14. Shape(t)'
  <2>1. calls[t].op \in {"refresh", "login", "change"}
    BY <1>1 DEF SessionInv, Shape, At, Call
  <2> QED BY <2>1, <1>3, <1>6, <1>7, <1>8 DEF Shape
<1>15. \A s \in Tabs : Spent(s)'
  <2>1. ASSUME NEW s \in Tabs PROVE Spent(s)'
    <3>1. /\ Spent(s) /\ (calls[s] # Idle /\ calls[s].sent # None => calls[s].sent \in Tokens)
          /\ calls[s] # Idle => calls[s].sent # k
      BY <1>1, <1>10, CallTyped DEF Sent, SessionInv
    <3>2. CASE s = t
      BY <3>1, <3>2, <1>1, <1>3, <1>6, <1>7, <1>9 DEF Spent, At
    <3>3. CASE s # t
      BY <3>1, <3>3, <1>7, <1>9 DEF Spent
    <3> QED BY <3>2, <3>3
  <2> QED BY <2>1
<1>16. Known'
  <2>1. \A l \in Tokens : tokens[l] # "unissued" => tokens'[l] # "unissued"
    BY <1>9
  <2>2. \A b \in Browsers : jar[b] \in Tokens \cup {None}
    BY <1>1 DEF TypeOK
  <2> QED BY <2>1, <2>2, <1>1, <1>2, <1>7, <1>8, <1>9, CallTyped DEF SessionInv, Known
<1>17. Owned'
  BY <1>2, <1>11 DEF SessionInv, Owned
<1>18. OnItsWay'
  <2>1. \A s \in Tabs : Got(s)' # None => Got(s)' \in (Live \cup ended)'
    BY <1>1, <1>2, <1>7, <1>8, <1>9, <1>12, CallTyped DEF SessionInv, OnItsWay, Live
  <2> QED BY <2>1, <1>2, <1>7, <1>8, <1>10, <1>11 DEF SessionInv, OnItsWay
<1>19. Backed'
  <2>1. MayHaveRevoked(t) => MayHaveRevoked(t)'
    BY <1>1, <1>3, <1>6, <1>7 DEF MayHaveRevoked, At
  <2> QED BY <2>1, <1>1, <1>2, <1>7, <1>11, <1>12 DEF SessionInv, Backed, TypeOK
<1>20. Crossing'
  BY <1>2, <1>11 DEF SessionInv, Crossing
<1>21. Asking'
  BY <1>1, <1>2, <1>3, <1>6, <1>7, <1>11, <1>12, CallTyped DEF SessionInv, Asking
<1> QED BY <1>7, <1>13, <1>14, <1>15, <1>16, <1>17, <1>18, <1>19, <1>20, <1>21 DEF SessionInv

LEMMA EndsFacts ==
    ASSUME SessionInv, NEW t \in Tabs, Moves(t, Idle)
    PROVE  /\ calls' \in [Tabs -> Call \cup {Idle}] /\ calls'[t] = Idle
           /\ Sent(t)' = None /\ Got(t)' = None /\ Shape(t)' /\ Spent(t)'
           /\ \A s \in Tabs \ {t} :
                /\ calls'[s] = calls[s]
                /\ Sent(s)' = Sent(s) /\ Got(s)' = Got(s)
                /\ MayHaveRevoked(s)' <=> MayHaveRevoked(s)
                /\ Shape(s)'
                /\ tokens' = tokens => Spent(s)'
BY OthersStay DEF SessionInv, Sent, Got, Shape, Spent

LEMMA AnswerKeeps ==
    ASSUME SessionInv, NEW t \in Tabs, Answer(t) PROVE SessionInv'
<1>1. TypeOK /\ At(t, "answer") /\ calls[t] # Idle /\ calls[t] \in Call /\ Got(t) = calls[t].got
  BY CallTyped DEF SessionInv, Answer, Got
<1>2. /\ Moves(t, Idle)
      /\ UNCHANGED <<home, tokens, blocked, ended, stranded, crossed>>
      /\ Live' = Live
  BY DEF Answer, Moves, Live
<1>3. /\ jar' \in [Browsers -> Tokens \cup {None}]
      /\ jar'[home[t]] = Got(t)
      /\ \A b \in Browsers \ {home[t]} : jar'[b] = jar[b]
  BY <1>1, CallTyped DEF Answer, TypeOK
<1>4. home[t] \in Browsers
  BY <1>1, CallTyped
<1>5. TypeOK'
  BY <1>1, <1>2, <1>3, EndsFacts DEF TypeOK
<1>6. \A s \in Tabs : Shape(s)' /\ Spent(s)'
  BY <1>2, EndsFacts
<1>7. Known'
  BY <1>2, <1>3, EndsFacts DEF SessionInv, Known
<1>8. Owned'
  <2>1. Got(t) # None => /\ \A b \in Browsers : jar[b] # Got(t)
                         /\ \A s \in Tabs : Sent(s) # Got(t)
    BY DEF SessionInv, OnItsWay
  <2>2. \A b, c \in Browsers : jar'[b] # None /\ jar'[b] = jar'[c] => b = c
    BY <2>1, <1>3, <1>4 DEF SessionInv, Owned
  <2>3. \A s \in Tabs, b \in Browsers : Sent(s)' # None /\ Sent(s)' = jar'[b] => home[s] = b
    BY <2>1, <1>2, <1>3, <1>4, EndsFacts DEF SessionInv, Owned
  <2>4. \A r, s \in Tabs : Sent(r)' # None /\ Sent(r)' = Sent(s)' => home[r] = home[s]
    BY <1>2, EndsFacts DEF SessionInv, Owned
  <2> QED BY <2>2, <2>3, <2>4, <1>2 DEF Owned
<1>9. OnItsWay'
  BY <1>2, <1>3, <1>4, EndsFacts DEF SessionInv, OnItsWay
<1>10. Backed'
  <2>1. ASSUME NEW b \in Browsers, jar'[b] # None
        PROVE  \/ jar'[b] \in (Live \cup ended \cup stranded)'
               \/ \E s \in Tabs : Sent(s)' = jar'[b] /\ MayHaveRevoked(s)'
    <3>1. CASE b = home[t]
      BY <3>1, <2>1, <1>2, <1>3 DEF SessionInv, OnItsWay
    <3>2. CASE b # home[t]
      <4>1. jar'[b] = jar[b] /\ Sent(t) # jar[b]
        BY <3>2, <2>1, <1>3 DEF SessionInv, Owned
      <4>2. CASE jar[b] \in Live \cup ended \cup stranded
        BY <4>1, <4>2, <1>2
      <4>3. CASE \E s \in Tabs : Sent(s) = jar[b] /\ MayHaveRevoked(s)
        <5>1. PICK s \in Tabs : Sent(s) = jar[b] /\ MayHaveRevoked(s)
          BY <4>3
        <5>2. Sent(s)' = jar'[b] /\ MayHaveRevoked(s)'
          BY <5>1, <4>1, <1>2, EndsFacts
        <5> QED BY <5>2
      <4> QED BY <4>1, <4>2, <4>3, <2>1 DEF SessionInv, Backed
    <3> QED BY <3>1, <3>2
  <2> QED BY <2>1 DEF Backed
<1>11. Crossing'
  BY <1>2, EndsFacts DEF SessionInv, Crossing
<1>12. Asking'
  BY <1>2, EndsFacts DEF SessionInv, Asking
<1> QED BY <1>5, <1>6, <1>7, <1>8, <1>9, <1>10, <1>11, <1>12 DEF SessionInv

LEMMA FailsKeeps ==
    ASSUME SessionInv, NEW t \in Tabs, CallFails(t) PROVE SessionInv'
<1>1. TypeOK /\ calls[t] # Idle /\ calls[t] \in Call /\ Sent(t) = calls[t].sent
  BY CallTyped DEF SessionInv, CallFails, Sent
<1>2. /\ Moves(t, Idle)
      /\ UNCHANGED <<home, jar, tokens, blocked, ended, crossed>>
      /\ Live' = Live
  BY DEF CallFails, Moves, Live
<1>3. /\ stranded' = stranded \cup {k \in {Sent(t)} : k # None /\ MayHaveRevoked(t)}
      /\ stranded' \subseteq Tokens
  <2>1. stranded' = stranded \cup {k \in {Sent(t)} : k # None /\ MayHaveRevoked(t)}
    BY <1>1 DEF CallFails
  <2>2. Sent(t) \in Tokens \cup {None} /\ stranded \subseteq Tokens
    BY <1>1, CallTyped DEF TypeOK
  <2>3. ASSUME NEW k \in stranded' PROVE k \in Tokens
    BY <2>1, <2>2, <2>3
  <2> QED BY <2>1, <2>3
<1>4. TypeOK'
  BY <1>1, <1>2, <1>3, EndsFacts DEF TypeOK
<1>5. \A s \in Tabs : Shape(s)' /\ Spent(s)'
  BY <1>2, EndsFacts
<1>6. Known'
  BY <1>2, EndsFacts DEF SessionInv, Known
<1>7. Owned'
  BY <1>2, EndsFacts DEF SessionInv, Owned
<1>8. OnItsWay'
  BY <1>2, EndsFacts DEF SessionInv, OnItsWay
<1>9. Backed'
  <2>1. ASSUME NEW b \in Browsers, jar[b] # None
        PROVE  \/ jar[b] \in (Live \cup ended \cup stranded)'
               \/ \E s \in Tabs : Sent(s)' = jar[b] /\ MayHaveRevoked(s)'
    <3>1. CASE jar[b] \in Live \cup ended \cup stranded
      BY <3>1, <1>2, <1>3
    <3>2. CASE \E s \in Tabs : Sent(s) = jar[b] /\ MayHaveRevoked(s)
      <4>1. PICK s \in Tabs : Sent(s) = jar[b] /\ MayHaveRevoked(s)
        BY <3>2
      <4>2. CASE s = t
        BY <4>1, <4>2, <2>1, <1>3
      <4>3. CASE s # t
        BY <4>1, <4>3, <1>2, EndsFacts
      <4> QED BY <4>2, <4>3
    <3> QED BY <3>1, <3>2, <2>1 DEF SessionInv, Backed
  <2> QED BY <2>1, <1>2 DEF Backed
<1>10. Crossing'
  BY <1>2, EndsFacts DEF SessionInv, Crossing
<1>11. Asking'
  BY <1>2, <1>3, EndsFacts DEF SessionInv, Asking
<1> QED BY <1>4, <1>5, <1>6, <1>7, <1>8, <1>9, <1>10, <1>11 DEF SessionInv

-----------------------------------------------------------------------------
(***************************************************************************)
(* The invariant of the sessions, and what follows from it.                *)
(***************************************************************************)
LEMMA SessionInit == Init => SessionInv
<1> SUFFICES ASSUME Init PROVE SessionInv
  OBVIOUS
<1>1. TypeOK
  BY DEF Init, TypeOK, States
<1>2. \A t \in Tabs : calls[t] = Idle /\ Sent(t) = None /\ Got(t) = None
  BY DEF Init, Sent, Got
<1> QED BY <1>1, <1>2
        DEF Init, SessionInv, Shape, Spent, Known, Owned, OnItsWay, Backed, Crossing, Asking

LEMMA SessionNext ==
    ASSUME SessionInv, [Next]_vars PROVE SessionInv'
<1>1. ASSUME NEW t \in Tabs, Handle(t) PROVE SessionInv'
  <2>1. CASE RefreshSend(t)
    BY <2>1, OpensKeeps DEF RefreshSend
  <2>2. CASE Login(t)
    BY <2>2, OpensKeeps DEF Login
  <2>3. CASE Logout(t)
    BY <2>3, OpensKeeps DEF Logout
  <2>4. CASE ChangePassword(t)
    BY <2>4, OpensKeeps DEF ChangePassword
  <2> QED BY <1>1, <2>1, <2>2, <2>3, <2>4, FindKeeps, RotateKeeps, IssueKeeps, UserKeeps,
             EndsAllKeeps, LogoutKeeps, AnswerKeeps, FailsKeeps DEF Handle
<1>2. CASE UNCHANGED vars
  <2>1. tokens' \in [Tokens -> States] /\ Live' = Live
    BY <1>2 DEF vars, SessionInv, TypeOK, Live
  <2> QED BY <1>2, <2>1, CallsRest, AgesKeeps DEF vars, SessionInv, TypeOK
<1> QED BY <1>1, <1>2, GraceKeeps, ExpiryKeeps, ResetKeeps, StatusKeeps DEF Next

LEMMA CookieFollows == SessionInv => CookieSignsIn
<1> SUFFICES ASSUME SessionInv, NEW b \in Browsers, ~Busy(b), jar[b] # None
             PROVE  jar[b] \in Live \cup ended \cup stranded
  BY DEF CookieSignsIn
<1>1. ASSUME NEW t \in Tabs, Sent(t) = jar[b] PROVE FALSE
  BY <1>1 DEF SessionInv, Owned, Busy, Sent
<1> QED BY <1>1 DEF SessionInv, Backed

LEMMA AlarmFollows == SessionInv => NoFalseAlarm
<1> SUFFICES ASSUME SessionInv, NEW t \in Tabs, At(t, "alarm")
             PROVE  calls[t].sent \in ended \cup stranded \cup crossed
  BY DEF NoFalseAlarm
<1>1. calls[t] # Idle /\ calls[t] \in Call /\ Sent(t) = calls[t].sent
  BY CallTyped DEF SessionInv, Sent
<1>2. calls[t].op = "refresh" /\ calls[t].sent # None
  BY <1>1 DEF SessionInv, Shape, At, Call
<1>3. calls[t].sent \notin Live
  BY <1>1, <1>2 DEF SessionInv, Spent, At, Live
<1> QED BY <1>1, <1>2, <1>3 DEF SessionInv, Asking, At

\* Only an answer touches a cookie, and one with no token is of a logout, or of a refresh
\* whose own token is spent.
LEMMA SignOutStep ==
    ASSUME SessionInv, [Next]_vars, NEW b \in Browsers, jar[b] # None, jar'[b] = None
    PROVE  \E t \in Tabs :
                /\ At(t, "answer") /\ home[t] = b
                /\ \/ calls[t].op = "logout" \/ jar[b] \notin Live
                   \/ calls[t].sent # jar[b]
<1>1. PICK t \in Tabs : Answer(t)
  BY DEF Next, vars, Handle, RefreshSend, RefreshFind, RefreshRotate, RefreshCreate, RefreshUser,
         ReuseAlarm, Login, SignIn, Logout, LogoutRevoke, ChangePassword, ChangeRevoke, CallFails,
         GracePasses, Expires, ResetPassword, StatusChanges
<1>2. /\ At(t, "answer") /\ calls[t] # Idle /\ calls[t] \in Call
      /\ home[t] = b /\ calls[t].got = None
  BY <1>1, CallTyped DEF SessionInv, TypeOK, Answer
<1>3. calls[t].op \in {"refresh", "logout"}
  BY <1>2 DEF SessionInv, Shape, At, Call
<1>4. CASE calls[t].op = "refresh" /\ calls[t].sent = jar[b]
  BY <1>2, <1>4 DEF SessionInv, Spent, At, Live
<1> QED BY <1>2, <1>3, <1>4

-----------------------------------------------------------------------------
(***************************************************************************)
(* The live-user cache.  A load that a drop has outrun is known by it, and *)
(* whatever else is out of date has not been heard of in its process.      *)
(***************************************************************************)
LiveInv == Middleware!TypeOK /\ Middleware!StaleExplained /\ Middleware!LoadsExplained

LEMMA LiveTyped ==
    ASSUME Middleware!TypeOK, NEW r \in Requests
    PROVE  /\ jobs[r] \in Middleware!Job \cup {Middleware!Idle}
           /\ \A step \in {"fill", "drop"} :
                Middleware!At(r, step) => jobs[r] \in Middleware!Job
           /\ Middleware!Idle.step = "idle"
BY DEF Middleware!TypeOK, Middleware!At, Middleware!Idle, Middleware!Job

LEMMA LiveInit == Middleware!Init => LiveInv
BY SignInAssumption
   DEF LiveInv, Middleware!Init, Middleware!TypeOK, Middleware!StaleExplained,
       Middleware!LoadsExplained, Middleware!At, Middleware!Versions, Middleware!Idle

LEMMA LoadKeeps ==
    ASSUME LiveInv, NEW r \in Requests, NEW i \in Processes, Middleware!Load(r, i)
    PROVE  LiveInv'
BY SignInAssumption
   DEF LiveInv, Middleware!Load, Middleware!TypeOK, Middleware!StaleExplained,
       Middleware!LoadsExplained, Middleware!At, Middleware!Versions, Middleware!Idle,
       Middleware!Job

LEMMA FillKeeps ==
    ASSUME LiveInv, NEW r \in Requests, Middleware!Fill(r) PROVE LiveInv'
<1>1. jobs[r] \in Middleware!Job /\ Middleware!TypeOK
  BY LiveTyped DEF LiveInv, Middleware!Fill
<1>2. Middleware!TypeOK'
  BY <1>1 DEF Middleware!Fill, Middleware!TypeOK, Middleware!Job
<1>3. Middleware!StaleExplained'
  BY <1>1 DEF LiveInv, Middleware!Fill, Middleware!TypeOK, Middleware!Job,
              Middleware!StaleExplained, Middleware!LoadsExplained, Middleware!At
<1>4. Middleware!LoadsExplained'
  BY <1>1, LiveTyped DEF LiveInv, Middleware!Fill, Middleware!TypeOK,
              Middleware!LoadsExplained, Middleware!At
<1> QED BY <1>2, <1>3, <1>4 DEF LiveInv

\* A change of the row: every process has yet to hear of it.
LEMMA WritesKeeps ==
    ASSUME LiveInv, Middleware!Writes,
           jobs' \in [Requests -> Middleware!Job \cup {Middleware!Idle}],
           \A r \in Requests : Middleware!At(r, "fill")' => jobs'[r] = jobs[r]
    PROVE  LiveInv'
<1>1. /\ Middleware!TypeOK /\ row \in Nat /\ row' = row + 1 /\ row' \in Middleware!Versions
      /\ \A i \in Processes : unheard'[i] = unheard[i] \cup {row + 1}
      /\ entry' = entry /\ outrun' = outrun
  BY SignInAssumption
     DEF LiveInv, Middleware!Writes, Middleware!TypeOK, Middleware!Versions
<1>2. Middleware!TypeOK'
  BY <1>1, SignInAssumption DEF Middleware!Writes, Middleware!TypeOK, Middleware!Versions
<1>3. Middleware!StaleExplained'
  <2>1. ASSUME NEW i \in Processes, entry'[i] < row'
        PROVE  \E v \in unheard'[i] : v > entry'[i]
    BY <1>1, <2>1
  <2> QED BY <2>1 DEF Middleware!StaleExplained
<1>4. Middleware!LoadsExplained'
  <2>1. ASSUME NEW r \in Requests, Middleware!At(r, "fill")', jobs'[r].version < row'
        PROVE  \E v \in unheard'[jobs'[r].process] : v > jobs'[r].version
    <3>1. jobs'[r] \in Middleware!Job
      BY <2>1, LiveTyped, <1>1 DEF Middleware!At
    <3> QED BY <1>1, <2>1, <3>1 DEF Middleware!Job
  <2> QED BY <2>1 DEF Middleware!LoadsExplained
<1> QED BY <1>2, <1>3, <1>4 DEF LiveInv

LEMMA AnnounceKeeps ==
    ASSUME LiveInv, NEW r \in Requests, NEW i \in Processes, Middleware!Announce(r, i)
    PROVE  LiveInv'
<1>1. Middleware!Writes
  BY DEF Middleware!Announce
<1>2. row + 1 \in Middleware!Versions
  BY <1>1, SignInAssumption
     DEF LiveInv, Middleware!Writes, Middleware!TypeOK, Middleware!Versions
<1>3. /\ jobs' \in [Requests -> Middleware!Job \cup {Middleware!Idle}]
      /\ \A s \in Requests : Middleware!At(s, "fill")' => jobs'[s] = jobs[s]
  BY <1>2 DEF LiveInv, Middleware!Announce, Middleware!TypeOK, Middleware!Job, Middleware!At
<1> QED BY <1>1, <1>3, WritesKeeps

LEMMA QuietKeeps == ASSUME LiveInv, Middleware!ChangeQuietly PROVE LiveInv'
BY WritesKeeps DEF LiveInv, Middleware!ChangeQuietly, Middleware!TypeOK

\* The loads that are on their way in the process have been outrun, so that nothing that
\* was dropped for needs to be remembered.
LEMMA DropKeeps ==
    ASSUME LiveInv, NEW r \in Requests, Middleware!Drop(r) PROVE LiveInv'
<1> DEFINE i == jobs[r].process
<1>1. Middleware!TypeOK /\ jobs[r] \in Middleware!Job /\ i \in Processes
  BY LiveTyped DEF LiveInv, Middleware!Drop, Middleware!Job
<1> HIDE DEF i
<1>2. /\ row' = row /\ outrun' = outrun \ {i}
      /\ entry' = [entry EXCEPT ![i] = NoEntry]
      /\ unheard' = [unheard EXCEPT ![i] = @ \ 0..jobs[r].version]
      /\ jobs' = [s \in Requests |->
                   IF s = r THEN Middleware!Idle
                   ELSE IF Middleware!At(s, "fill") /\ jobs[s].process = i
                        THEN [jobs[s] EXCEPT !.outrun = TRUE] ELSE jobs[s]]
  BY DEF Middleware!Drop, i
<1>3. \A s \in Requests : jobs'[s] \in Middleware!Job \cup {Middleware!Idle}
  <2>1. ASSUME NEW s \in Requests, jobs[s] \in Middleware!Job
        PROVE  [jobs[s] EXCEPT !.outrun = TRUE] \in Middleware!Job
    BY <2>1 DEF Middleware!Job
  <2> QED BY <2>1, <1>1, <1>2, LiveTyped
<1>4. Middleware!TypeOK'
  BY <1>1, <1>2, <1>3 DEF Middleware!TypeOK
<1>5. Middleware!StaleExplained'
  BY <1>1, <1>2 DEF LiveInv, Middleware!StaleExplained, Middleware!TypeOK
<1>6. Middleware!LoadsExplained'
  <2>1. ASSUME NEW s \in Requests, Middleware!At(s, "fill")', jobs'[s].version < row'
        PROVE  \/ jobs'[s].outrun
               \/ \E v \in unheard'[jobs'[s].process] : v > jobs'[s].version
    <3>1. s # r /\ Middleware!At(s, "fill") /\ jobs[s] \in Middleware!Job
      BY <2>1, <1>1, <1>2, LiveTyped DEF Middleware!At, Middleware!Job
    <3>2. CASE jobs[s].process = i
      BY <3>1, <3>2, <1>2 DEF Middleware!Job
    <3>3. CASE jobs[s].process # i
      <4>1. jobs'[s] = jobs[s] /\ jobs[s].process \in Processes
        BY <3>1, <3>3, <1>2 DEF Middleware!Job
      <4>2. unheard'[jobs[s].process] = unheard[jobs[s].process]
        BY <4>1, <3>3, <1>1, <1>2 DEF Middleware!TypeOK
      <4> QED BY <4>1, <4>2, <3>1, <2>1, <1>2 DEF LiveInv, Middleware!LoadsExplained
    <3> QED BY <3>2, <3>3
  <2> QED BY <2>1 DEF Middleware!LoadsExplained
<1> QED BY <1>4, <1>5, <1>6 DEF LiveInv

LEMMA EntryExpiryKeeps ==
    ASSUME LiveInv, NEW i \in Processes, Middleware!EntryExpires(i) PROVE LiveInv'
<1>1. Middleware!TypeOK' /\ Middleware!StaleExplained'
  BY DEF LiveInv, Middleware!EntryExpires, Middleware!TypeOK, Middleware!StaleExplained
<1>2. Middleware!LoadsExplained'
  BY DEF LiveInv, Middleware!EntryExpires, Middleware!LoadsExplained, Middleware!At
<1> QED BY <1>1, <1>2 DEF LiveInv

LEMMA RequestFailsKeeps ==
    ASSUME LiveInv, NEW r \in Requests, Middleware!RequestFails(r) PROVE LiveInv'
<1>1. Middleware!TypeOK' /\ Middleware!StaleExplained'
  BY DEF LiveInv, Middleware!RequestFails, Middleware!TypeOK, Middleware!StaleExplained
<1>2. \A s \in Requests : Middleware!At(s, "fill")' => jobs'[s] = jobs[s]
  BY LiveTyped DEF LiveInv, Middleware!RequestFails, Middleware!TypeOK, Middleware!At
<1>3. Middleware!LoadsExplained'
  BY <1>2 DEF LiveInv, Middleware!RequestFails, Middleware!LoadsExplained, Middleware!At
<1> QED BY <1>1, <1>3 DEF LiveInv

LEMMA LiveNext ==
    ASSUME LiveInv, Middleware!Next \/ UNCHANGED liveVars PROVE LiveInv'
<1>1. CASE UNCHANGED liveVars
  <2>1. Middleware!TypeOK' /\ Middleware!StaleExplained' /\ Middleware!LoadsExplained'
    BY <1>1 DEF liveVars, LiveInv, Middleware!TypeOK, Middleware!StaleExplained,
                Middleware!LoadsExplained, Middleware!At
  <2> QED BY <2>1 DEF LiveInv
<1> QED BY <1>1, LoadKeeps, FillKeeps, AnnounceKeeps, QuietKeeps, DropKeeps, EntryExpiryKeeps,
           RequestFailsKeeps DEF Middleware!Next

-----------------------------------------------------------------------------
(***************************************************************************)
(* Theorems.                                                               *)
(***************************************************************************)
SignInInv == SessionInv /\ LiveInv

\* The invariant of both halves: who knows a token, what a call under way has done to it,
\* and what the caches have not heard of.
THEOREM Invariance == SignInSpec => []SignInInv
<1>1. SignInInit => SignInInv
  BY SessionInit, LiveInit DEF SignInInit, SignInInv
<1>2. SignInInv /\ [SignInNext]_<<half, vars, liveVars>> => SignInInv'
  <2> SUFFICES ASSUME SignInInv, [SignInNext]_<<half, vars, liveVars>> PROVE SignInInv'
    OBVIOUS
  <2>1. [Next]_vars
    BY DEF SignInNext, SessionStep, LiveStep
  <2>2. Middleware!Next \/ UNCHANGED liveVars
    BY DEF SignInNext, SessionStep, LiveStep
  <2> QED BY <2>1, <2>2, SessionNext, LiveNext DEF SignInInv
<1> QED BY <1>1, <1>2, PTL DEF SignInSpec

\* A browser at rest is signed in by its cookie, however its tabs refresh, log in and out:
\* the token is live unless everything was ended, it aged, or an answer was lost.
THEOREM CookieIsGood == SignInSpec => []CookieSignsIn
<1>1. SignInInv => CookieSignsIn
  BY CookieFollows DEF SignInInv
<1> QED BY <1>1, Invariance, PTL

\* The reuse alarm is raised only for a token that had been ended, or whose revocation was
\* never answered, or that two calls of the browser were under way with.
THEOREM AlarmIsTrue == SignInSpec => []NoFalseAlarm
<1>1. SignInInv => NoFalseAlarm
  BY AlarmFollows DEF SignInInv
<1> QED BY <1>1, Invariance, PTL

\* No answer clears a cookie that is good, but that of a logout or of a call sent before
\* the browser got that cookie.
THEOREM SignedOutJustly == SignInSpec => SignedOutForCause
<1>1. SignInInv /\ [SignInNext]_<<half, vars, liveVars>>
      => [\A b \in Browsers :
            jar[b] # None /\ jar'[b] = None =>
               \E t \in Tabs :
                   /\ At(t, "answer") /\ home[t] = b
                   /\ \/ calls[t].op = "logout" \/ jar[b] \notin Live
                      \/ calls[t].sent # jar[b]]_vars
  <2> SUFFICES ASSUME SignInInv, [SignInNext]_<<half, vars, liveVars>>
               PROVE  \A b \in Browsers :
                        jar[b] # None /\ jar'[b] = None =>
                          \E t \in Tabs :
                             /\ At(t, "answer") /\ home[t] = b
                             /\ \/ calls[t].op = "logout" \/ jar[b] \notin Live
                                \/ calls[t].sent # jar[b]
    OBVIOUS
  <2>1. [Next]_vars
    BY DEF SignInNext, SessionStep, LiveStep
  <2> QED BY <2>1, SignOutStep DEF SignInInv
<1> QED BY <1>1, Invariance, PTL DEF SignInSpec, SignedOutForCause

\* A request is judged by an outdated row of its user only where a change was not announced
\* in its process, not yet, or to a load that was on its way already.
THEOREM StaleIsExplained == SignInSpec => []StaleExplained
<1>1. SignInInv => StaleExplained
  BY DEF SignInInv, LiveInv, StaleExplained
<1> QED BY <1>1, Invariance, PTL

=============================================================================
