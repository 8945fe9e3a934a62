--------------------------- MODULE AdminAuthProofs --------------------------
(***************************************************************************)
(* Proofs about AdminAuth for any number of threads, tokens and sessions,  *)
(* any expiries and any clock.                                             *)
(***************************************************************************)
EXTENDS AdminAuth, TLAPS

\* A login has room for its session: no other one can create one meanwhile.
Room == ui = "create" => made < MaxSessions

AuthTypeInv == AdminTypeOK /\ Room

\* While a token that was accepted is still valid its id is remembered,
\* unless it is one of those noted as forgotten: no thread forgets by a clock
\* for which the token had expired.
Remembered ==
    \A j \in Jwts \ forgotten :
        /\ admitted[j] <= 1
        /\ clock < Exp[j] =>
            /\ admitted[j] # 0 => j \in seen
            /\ \A t \in Threads : now[t] < Exp[j]

\* ResetRevokes, extended to the recovery that has consumed its token and
\* not set the password: it may find the user gone and never revoke.
Revoked ==
    ui # "revoke" /\ cli = "idle" /\ ~cut =>
        \A s \in SessionIds \ crossed :
            sessions[s].password \in {0, password} \cup gone

LEMMA NoSessionType ==
    ASSUME chosen \in Nat
    PROVE  NoSession \in [password : 0..chosen, expires : Nat]
  BY DEF NoSession

LEMMA AuthTypeInit == Init => AuthTypeInv
<1> SUFFICES ASSUME Init PROVE AuthTypeInv
  OBVIOUS
<1>1. sessions \in [SessionIds -> [password : 0..chosen, expires : Nat]]
  BY NoSessionType DEF Init
<1>2. cut \in BOOLEAN /\ forgotten \subseteq Jwts
  BY Zenon DEF Init
<1> QED
  BY <1>1, <1>2, AuthAssumption DEF Init, AuthTypeInv, AdminTypeOK, Room, PC

\* The rows of the sessions, and all the other variables.
Rows ==
    /\ sessions \in [SessionIds -> [password : 0..chosen, expires : Nat]]
    /\ \A s \in SessionIds : s > made => sessions[s] = NoSession

Rest ==
    /\ clock \in 0..MaxClock
    /\ config \in {"set", "empty", "reset"}
    /\ seen \subseteq Jwts
    /\ made \in 0..MaxSessions
    /\ password \in 0..chosen
    /\ chosen \in Nat
    /\ reset \in Nat
    /\ pc \in [Threads -> PC]
    /\ jwt \in [Threads -> Jwts \cup {NoJwt}]
    /\ \A t \in Threads : pc[t] = "fresh" => jwt[t] \in Jwts
    /\ now \in [Threads -> 0..MaxClock]
    /\ saved \in [Threads -> {"set", "reset"}]
    /\ ui \in {"idle", "create", "set", "revoke"}
    /\ uiPass \in 0..chosen
    /\ cli \in {"idle", "revoke"}
    /\ admitted \in [Jwts -> Nat]
    /\ crossed \subseteq SessionIds
    /\ gone \subseteq 0..chosen
    /\ forgotten \subseteq Jwts
    /\ cut \in BOOLEAN
    /\ Room

LEMMA Parts == AuthTypeInv <=> Rows /\ Rest
  BY DEF AuthTypeInv, AdminTypeOK, Rows, Rest

LEMMA RowsStep == Rows /\ Rest /\ [Next]_vars => Rows'
<1> SUFFICES ASSUME Rows, Rest, [Next]_vars PROVE Rows'
  OBVIOUS
<1>0. chosen \in Nat /\ made \in 0..MaxSessions /\ NoSession.password = 0
      /\ NoSession \in [password : 0..chosen, expires : Nat]
  BY NoSessionType DEF Rest, NoSession
<1>1. ASSUME UNCHANGED <<sessions, made>>, chosen' \in {chosen, chosen + 1}
      PROVE  Rows'
  BY <1>0, <1>1 DEF Rows
<1>2. ASSUME NEW s \in SessionIds, sessions[s] # NoSession,
             UNCHANGED <<made, chosen>>,
             \/ sessions' = [sessions EXCEPT ![s] = NoSession]
             \/ sessions' = [sessions EXCEPT ![s] =
                    [@ EXCEPT !.expires = clock + Idle]]
      PROVE  Rows'
  <2> DEFINE row == sessions[s]
  <2>1. clock + Idle \in Nat
    BY AuthAssumption DEF Rest
  <2>2. [row EXCEPT !.expires = clock + Idle]
            \in [password : 0..chosen, expires : Nat]
    BY <2>1 DEF Rows
  <2> HIDE DEF row
  <2>3. PICK x \in [password : 0..chosen, expires : Nat] :
            sessions' = [sessions EXCEPT ![s] = x]
    BY <1>0, <1>2, <2>2 DEF row
  <2> QED
    BY <1>0, <1>2, <2>3 DEF Rows
<1>3. ASSUME NEW t \in Threads,
             \/ LoadConfig(t) \/ GenerateConfig(t) \/ Refuse(t) \/ Handle(t)
             \/ TruncateConfig(t) \/ WriteConfig(t) \/ FreshJti(t)
             \/ \E j \in Jwts : VerifyJwt(t, j)
      PROVE  Rows'
  BY <1>1, <1>3 DEF LoadConfig, GenerateConfig, Refuse, Handle, TruncateConfig,
      WriteConfig, FreshJti, VerifyJwt, accounts
<1>4. ASSUME NEW s \in SessionIds,
             \/ UiLogout(s) \/ UiSession(s)
             \/ \E t \in Threads : Cookie(t, s)
      PROVE  Rows'
  BY <1>2, <1>4 DEF Cookie, UiLogout, UiSession
<1>5. CASE \/ CheckLogin \/ UiRecover \/ ConsumeToken \/ RecoverConfirm
           \/ CliResetPassword \/ CliCreateUser \/ CliDeleteUser \/ Tick
           \/ SetBack \/ Restart \/ UiFails \/ CliDies \/ UNCHANGED vars
  BY <1>1, <1>5 DEF CheckLogin, UiRecover, ConsumeToken, RecoverConfirm,
      CliResetPassword, CliCreateUser, CliDeleteUser, SetPassword, Tick, SetBack, Restart,
      UiFails, CliDies, accounts, vars
<1>6. CASE CreateSession
  <2> DEFINE row == [password |-> uiPass, expires |-> clock + Idle]
  <2>1. row \in [password : 0..chosen, expires : Nat]
    BY AuthAssumption DEF Rest
  <2>2. sessions' = [sessions EXCEPT ![made + 1] = row]
        /\ made' = made + 1 /\ chosen' = chosen
    BY <1>6 DEF CreateSession
  <2> HIDE DEF row
  <2>3. sessions' \in [SessionIds -> [password : 0..chosen, expires : Nat]]
    BY <2>1, <2>2 DEF Rows
  <2>4. ASSUME NEW s \in SessionIds, s > made + 1 PROVE sessions'[s] = NoSession
    BY <1>0, <2>2, <2>4 DEF Rows, SessionIds
  <2> QED
    BY <2>2, <2>3, <2>4 DEF Rows
<1>7. CASE UiRevoke \/ CliRevoke
  BY <1>0, <1>7 DEF UiRevoke, CliRevoke, RevokeAll, Rows
<1> QED
  BY <1>3, <1>4, <1>5, <1>6, <1>7 DEF Next

LEMMA RestStep == Rest /\ [Next]_vars => Rest'
<1> SUFFICES ASSUME Rest, [Next]_vars PROVE Rest'
  OBVIOUS
<1> USE AuthAssumption
    DEF requests, history, accounts, Rest, Room, Goto, Return, PC
<1>1. ASSUME NEW t \in Threads,
             \/ LoadConfig(t) \/ GenerateConfig(t) \/ Refuse(t) \/ Handle(t)
             \/ TruncateConfig(t) \/ WriteConfig(t)
      PROVE  Rest'
  BY <1>1 DEF LoadConfig, GenerateConfig, Refuse, Handle, TruncateConfig, WriteConfig
<1>2. ASSUME NEW t \in Threads, NEW j \in Jwts, VerifyJwt(t, j) PROVE Rest'
  BY <1>2 DEF VerifyJwt
<1>3. ASSUME NEW t \in Threads, FreshJti(t) PROVE Rest'
  BY <1>3 DEF FreshJti
<1>4. ASSUME NEW t \in Threads, NEW s \in SessionIds, Cookie(t, s) PROVE Rest'
  BY <1>4 DEF Cookie
<1>5. CASE CheckLogin
  BY <1>5 DEF CheckLogin
<1>6. CASE UiRecover
  BY <1>6 DEF UiRecover
<1>7. CASE ConsumeToken
  BY <1>7 DEF ConsumeToken
<1>8. CASE CreateSession
  BY <1>8 DEF CreateSession, SessionIds
<1>9. ASSUME NEW s \in SessionIds, UiLogout(s) \/ UiSession(s) PROVE Rest'
  BY <1>9 DEF UiLogout, UiSession
<1>10. CASE RecoverConfirm
  BY <1>10 DEF RecoverConfirm, SetPassword
<1>11. CASE CliResetPassword
  BY <1>11 DEF CliResetPassword, SetPassword
<1>12. CASE CliCreateUser
  BY <1>12 DEF CliCreateUser
<1>13. CASE CliDeleteUser
  BY <1>13 DEF CliDeleteUser
<1>14. CASE UiRevoke
  BY <1>14 DEF UiRevoke
<1>15. CASE CliRevoke
  BY <1>15 DEF CliRevoke
<1>16. CASE Tick
  BY <1>16 DEF Tick
<1>17. CASE SetBack
  BY <1>17 DEF SetBack
<1>18. CASE Restart
  BY <1>18 DEF Restart
<1>19. CASE UiFails \/ CliDies
  <2>1. cut' \in BOOLEAN
    BY <1>19, Zenon DEF UiFails, CliDies
  <2>2. /\ UNCHANGED <<clock, config, seen, accounts, requests, admitted, crossed, gone,
                        forgotten>>
        /\ ui' \in {ui, "idle"} /\ uiPass' \in {uiPass, 0} /\ cli' \in {cli, "idle"}
    BY <1>19 DEF UiFails, CliDies
  <2> QED
    BY <2>1, <2>2
<1>20. CASE UNCHANGED vars
  BY <1>20 DEF vars
<1> QED
  BY <1>1, <1>2, <1>3, <1>4, <1>5, <1>6, <1>7, <1>8, <1>9, <1>10, <1>11, <1>12,
     <1>13, <1>14, <1>15, <1>16, <1>17, <1>18, <1>19, <1>20 DEF Next

LEMMA AuthTypeStep == AuthTypeInv /\ [Next]_vars => AuthTypeInv'
<1>1. Rows' /\ Rest' => AuthTypeInv'
  BY DEF AuthTypeInv, AdminTypeOK, Rows, Rest
<1> QED
  BY <1>1, Parts, RowsStep, RestStep

\* Every variable keeps its type, sessions that were not created do not
\* exist, and a thread that looks an id up has a token to look up.
THEOREM AdminTypeCorrect == Spec => []AdminTypeOK
  BY AuthTypeInit, AuthTypeStep, PTL DEF Spec, AuthTypeInv
-----------------------------------------------------------------------------
LEMMA RememberedInit == Init => Remembered
  BY AuthAssumption DEF Init, Remembered

LEMMA RememberedStep == AuthTypeInv /\ Remembered /\ [Next]_vars => Remembered'
<1> SUFFICES ASSUME AuthTypeInv, Remembered, [Next]_vars PROVE Remembered'
  OBVIOUS
<1> USE AuthAssumption DEF AuthTypeInv, AdminTypeOK, Remembered
<1>1. ASSUME NEW t \in Threads, FreshJti(t) PROVE Remembered'
  <2> DEFINE kept == {j \in seen : Exp[j] > now[t]}
  <2>1. /\ jwt[t] \in Jwts /\ seen' = kept \cup {jwt[t]}
        /\ UNCHANGED <<clock, forgotten>>
    BY <1>1 DEF FreshJti
  <2>2. ASSUME NEW j \in Jwts \ forgotten, admitted[j] # 0, clock < Exp[j] PROVE j \in kept
    BY <2>2
  <2>3. ASSUME NEW j \in Jwts \ forgotten PROVE admitted'[j] <= 1
    <3>1. CASE j = jwt[t] /\ j \notin kept /\ clock < Exp[j]
      BY <1>1, <2>2, <3>1 DEF FreshJti
    <3>2. CASE ~(j = jwt[t] /\ j \notin kept /\ clock < Exp[j])
      BY <1>1, <3>2 DEF FreshJti
    <3> QED
      BY <3>1, <3>2
  <2>4. ASSUME NEW j \in Jwts \ forgotten, admitted'[j] # 0, clock < Exp[j]
        PROVE  j \in seen'
    <3>1. CASE j = jwt[t]
      BY <2>1, <3>1
    <3>2. CASE j # jwt[t]
      BY <1>1, <2>1, <2>2, <2>4, <3>2 DEF FreshJti
    <3> QED
      BY <3>1, <3>2
  <2>5. ASSUME NEW j \in Jwts \ forgotten, clock < Exp[j], NEW q \in Threads
        PROVE  now'[q] < Exp[j]
    BY <1>1, <2>5 DEF FreshJti
  <2> QED
    BY <2>1, <2>3, <2>4, <2>5
<1>2. ASSUME NEW t \in Threads, NEW j \in Jwts, VerifyJwt(t, j) PROVE Remembered'
  <2>1. now' = [now EXCEPT ![t] = clock] /\ UNCHANGED <<clock, seen, admitted, forgotten>>
    BY <1>2 DEF VerifyJwt, history
  <2>2. clock \in Nat
    OBVIOUS
  <2> QED
    BY <2>1, <2>2
<1>3. CASE Tick
  BY <1>3 DEF Tick, requests, accounts, history
<1>4. ASSUME UNCHANGED <<clock, seen, now, admitted, forgotten>> PROVE Remembered'
  BY <1>4
<1>5. ASSUME NEW t \in Threads,
             \/ LoadConfig(t) \/ GenerateConfig(t) \/ Refuse(t) \/ Handle(t)
             \/ TruncateConfig(t) \/ WriteConfig(t)
             \/ \E s \in SessionIds : Cookie(t, s)
      PROVE  Remembered'
  BY <1>4, <1>5 DEF LoadConfig, GenerateConfig, Refuse, Handle, TruncateConfig,
      WriteConfig, Cookie, accounts, history
<1>6. CASE \/ CheckLogin \/ CreateSession \/ UiRecover \/ ConsumeToken
           \/ RecoverConfirm \/ UiRevoke
           \/ \E s \in SessionIds : UiLogout(s) \/ UiSession(s)
           \/ CliResetPassword \/ CliRevoke \/ CliCreateUser \/ CliDeleteUser
           \/ UiFails \/ CliDies \/ UNCHANGED vars
  BY <1>4, <1>6 DEF CheckLogin, CreateSession, UiRecover, ConsumeToken,
      RecoverConfirm, UiRevoke, UiLogout, UiSession, CliResetPassword, CliRevoke,
      CliCreateUser, CliDeleteUser, UiFails, CliDies, vars, requests, accounts, history
<1>7. CASE SetBack
  <2>1. ASSUME NEW j \in Jwts \ forgotten', clock' < Exp[j]
        PROVE  j \in Jwts \ forgotten /\ clock < Exp[j]
    BY <1>7, <2>1 DEF SetBack
  <2>2. UNCHANGED <<seen, now, admitted>> /\ forgotten \subseteq forgotten'
    BY <1>7 DEF SetBack, requests
  <2> QED
    BY <2>1, <2>2
<1>8. CASE Restart
  <2>1. /\ clock' = clock /\ admitted' = admitted
        /\ forgotten' = forgotten \cup {j \in seen : clock < Exp[j]}
        /\ now' = [t \in Threads |-> 0]
    BY <1>8 DEF Restart
  <2>2. ASSUME NEW j \in Jwts \ forgotten', clock < Exp[j]
        PROVE  admitted[j] = 0 /\ \A t \in Threads : now'[t] < Exp[j]
    BY <2>1, <2>2
  <2> QED
    BY <2>1, <2>2
<1> QED
  BY <1>1, <1>2, <1>3, <1>5, <1>6, <1>7, <1>8 DEF Next

\* However the threads interleave and however late they act on the clock
\* they read, a token is accepted at most once before it expires, unless a
\* restart or a clock set back made the process forget its id
\* (admin_auth.py, _jti_fresh).
THEOREM AcceptedOnceHolds == Spec => []AcceptedOnce
<1>1. Init => AuthTypeInv /\ Remembered
  BY AuthTypeInit, RememberedInit
<1>2. AuthTypeInv /\ Remembered /\ [Next]_vars => (AuthTypeInv /\ Remembered)'
  BY AuthTypeStep, RememberedStep
<1>3. Remembered => AcceptedOnce
  BY DEF Remembered, AcceptedOnce
<1> QED
  BY <1>1, <1>2, <1>3, PTL DEF Spec
-----------------------------------------------------------------------------
LEMMA RevokedInit == Init => Revoked
  BY DEF Init, Revoked, NoSession

LEMMA RevokedStep == AuthTypeInv /\ Revoked /\ [Next]_vars => Revoked'
<1> SUFFICES ASSUME AuthTypeInv, Revoked, [Next]_vars PROVE Revoked'
  OBVIOUS
<1> USE DEF requests, history, accounts, AuthTypeInv, AdminTypeOK, Revoked, NoSession
<1>1. ASSUME UNCHANGED <<sessions, password, crossed, gone>>,
             \/ ui' # "revoke" /\ cli' = "idle" => ui # "revoke" /\ cli = "idle" /\ cut' = cut
             \/ cut'
      PROVE  Revoked'
  BY <1>1
<1>2. ASSUME NEW t \in Threads,
             \/ LoadConfig(t) \/ GenerateConfig(t) \/ Refuse(t) \/ Handle(t)
             \/ TruncateConfig(t) \/ WriteConfig(t) \/ FreshJti(t)
             \/ \E j \in Jwts : VerifyJwt(t, j)
      PROVE  Revoked'
  BY <1>1, <1>2 DEF LoadConfig, GenerateConfig, Refuse, Handle, TruncateConfig,
      WriteConfig, FreshJti, VerifyJwt
<1>3. CASE \/ CheckLogin \/ UiRecover \/ ConsumeToken \/ Tick \/ SetBack
           \/ UNCHANGED vars
  BY <1>1, <1>3 DEF CheckLogin, UiRecover, ConsumeToken, Tick, SetBack, vars
<1>4. ASSUME NEW s \in SessionIds,
             \/ UiLogout(s) \/ UiSession(s)
             \/ \E t \in Threads : Cookie(t, s)
      PROVE  Revoked'
  <2>1. \A q \in SessionIds : sessions'[q].password \in {0, sessions[q].password}
    BY <1>4 DEF Cookie, UiLogout, UiSession
  <2> QED
    BY <1>4, <2>1 DEF Cookie, UiLogout, UiSession
<1>5. CASE CreateSession
  BY <1>5 DEF CreateSession, Room
<1>6. CASE RecoverConfirm \/ CliResetPassword \/ CliCreateUser \/ CliDeleteUser
  BY <1>6 DEF RecoverConfirm, CliResetPassword, CliCreateUser, CliDeleteUser,
      SetPassword
<1>7. CASE UiRevoke \/ CliRevoke
  BY <1>7 DEF UiRevoke, CliRevoke, RevokeAll
<1>8. CASE UiFails \/ Restart \/ CliDies
  BY <1>1, <1>8 DEF UiFails, Restart, CliDies
<1> QED
  BY <1>2, <1>3, <1>4, <1>5, <1>6, <1>7, <1>8 DEF Next

\* Once a reset has run to its end nobody is signed in with the password it
\* replaced, whichever resets, logins and deletions of the user overlapped
\* it, whichever died half-way before, and however often the server restarted
\* (server.py:237-238, cli.py:102-106).
THEOREM ResetRevokesHolds == Spec => []ResetRevokes
<1>1. Init => AuthTypeInv /\ Revoked
  BY AuthTypeInit, RevokedInit
<1>2. AuthTypeInv /\ Revoked /\ [Next]_vars => (AuthTypeInv /\ Revoked)'
  BY AuthTypeStep, RevokedStep
<1>3. Revoked => ResetRevokes
  BY DEF Revoked, ResetRevokes
<1> QED
  BY <1>1, <1>2, <1>3, PTL DEF Spec
=============================================================================
