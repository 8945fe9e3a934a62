-------------------------- MODULE EngineLoginProofs -------------------------
(***************************************************************************)
(* Proofs about EngineLogin for any number of instances, handlers and      *)
(* logins.                                                                 *)
(***************************************************************************)
EXTENDS EngineLogin, FiniteSetTheorems, TLAPS

\* Where a start that spawned its login waits for the URL.
Waiting == {"url", "urlread"}

\* Who holds a terminal: the table, one start, or nobody after a failed Popen.
Held ==
    /\ \A l \in Logins : isOpen[l] <=> l \in table \/ Starting(l) \/ stage[l] = "failed"
    /\ \A l \in Logins : alive[l] => isOpen[l]
    /\ \A h \in Handlers : hpc[h] \in Waiting => hlogin[h] \in (1..spawned) \ table
    /\ \A h, g \in Handlers :
          hpc[h] \in Waiting /\ hpc[g] \in Waiting /\ hlogin[h] = hlogin[g] => h = g
    /\ \A l \in Logins :
          stage[l] = "failed" => l \in (1..spawned) \ table /\ ~Starting(l)

\* No two open terminals share a number.
NumbersApart ==
    \A l, k \in Logins : isOpen[l] /\ isOpen[k] /\ fd[l] = fd[k] => l = k

LoginInv == Held /\ NumbersApart

LEMMA SomeInstance == (CHOOSE i \in Instances : TRUE) \in Instances
  BY LoginAssumption

\* A descriptor number closes only the login it was opened for, as long as
\* that one is still open: _kill of open logins hits nobody else.
LEMMA KillExact ==
    ASSUME LoginTypeOK, NumbersApart, NEW S \in SUBSET Logins, Kill(S),
           \A l \in S : isOpen[l]
    PROVE  /\ isOpen' \in [Logins -> BOOLEAN] /\ alive' \in [Logins -> BOOLEAN]
           /\ \A l \in Logins : isOpen'[l] <=> isOpen[l] /\ l \notin S
           /\ \A l \in Logins : alive'[l] <=> alive[l] /\ l \notin S
<1>1. isOpen' \in [Logins -> BOOLEAN] /\ alive' \in [Logins -> BOOLEAN]
  BY Zenon DEF Kill
<1>2. ASSUME NEW l \in Logins
      PROVE  /\ isOpen'[l] <=> isOpen[l] /\ fd[l] \notin {fd[k] : k \in S}
             /\ alive'[l] <=> alive[l] /\ l \notin S
  BY Zenon DEF Kill
<1>3. ASSUME NEW l \in Logins, isOpen[l]
      PROVE  fd[l] \in {fd[k] : k \in S} <=> l \in S
  BY <1>3 DEF NumbersApart
<1> QED
  BY <1>1, <1>2, <1>3

-----------------------------------------------------------------------------
\* The types of what handlers keep, and of what the terminals show.
HandlerType ==
    /\ hpc \in [Handlers -> HPC]
    /\ hinst \in [Handlers -> Instances]
    /\ hlogin \in [Handlers -> Logins \cup {NoLogin}]
    /\ caught \in [Handlers -> Logins \cup {NoLogin}]
    /\ bound \in [Handlers -> Logins \cup {NoLogin}]

LEMMA HandlerTypeStep == LoginTypeOK /\ [Next]_vars => HandlerType'
<1> SUFFICES ASSUME LoginTypeOK, [Next]_vars PROVE HandlerType'
  OBVIOUS
<1> USE SomeInstance DEF LoginTypeOK, HandlerType, HPC, NoLogin
<1>0. \A h \in Handlers : Terminal(h) \subseteq Logins \cup {NoLogin}
  BY DEF Terminal, At
<1>1. ASSUME NEW h \in Handlers, NEW i \in Instances, Start(h, i) PROVE HandlerType'
  BY <1>1 DEF Start
<1>2. ASSUME NEW h \in Handlers, NEW i \in Instances, NEW l \in Logins, Submit(h, i, l)
      PROVE  HandlerType'
  <2>1. CASE UNCHANGED handler
    BY <2>1 DEF handler
  <2>2. CASE /\ hpc' = [hpc EXCEPT ![h] = "code"]
             /\ hinst' = [hinst EXCEPT ![h] = i]
             /\ hlogin' = [hlogin EXCEPT ![h] = l]
             /\ UNCHANGED <<caught, bound>>
    BY <2>2
  <2> QED
    BY <1>2, <2>1, <2>2 DEF Submit
<1>3. ASSUME NEW h \in Handlers, Return(h) PROVE HandlerType'
  BY <1>3 DEF Return
<1>4. ASSUME NEW h \in Handlers, NEW next \in HPC, Goto(h, next) PROVE HandlerType'
  BY <1>4 DEF Goto
<1>5. ASSUME NEW h \in Handlers, Spawn(h) PROVE HandlerType'
  BY <1>5 DEF Spawn
<1>6. ASSUME NEW h \in Handlers, ReadToken(h) PROVE HandlerType'
  BY <1>0, <1>6 DEF ReadToken
<1>7. ASSUME NEW h \in Handlers, Block(h) PROVE HandlerType'
  BY <1>0, <1>7 DEF Block
<1>8. ASSUME NEW h \in Handlers,
             \/ NoProgram(h) \/ SpawnFails(h) \/ GotUrl(h) \/ NoUrl(h) \/ Ready(h)
             \/ ReadOther(h) \/ WriteCode(h) \/ NoToken(h) \/ Close(h) \/ StoreToken(h)
      PROVE  HandlerType'
  <2>1. Return(h) \/ \E next \in HPC : Goto(h, next)
    BY <1>8, Zenon DEF NoProgram, SpawnFails, GotUrl, NoUrl, Ready, ReadOther, WriteCode,
        NoToken, Close, StoreToken
  <2> QED
    BY <2>1, <1>3, <1>4
<1>9. ASSUME NEW i \in Instances, Logout(i) PROVE HandlerType'
  BY <1>9 DEF Logout, handler
<1>10. ASSUME NEW l \in Logins, Prints(l) \/ Dies(l) \/ Expires(l) PROVE HandlerType'
  BY <1>10 DEF Prints, Dies, Expires, handler
<1>11. CASE UNCHANGED vars
  BY <1>11 DEF vars, handler
<1> QED
  BY <1>1, <1>2, <1>5, <1>6, <1>7, <1>8, <1>9, <1>10, <1>11 DEF Next, Proceed

TerminalType ==
    /\ spawned \in 0..MaxLogins
    /\ owner \in [Logins -> Instances]
    /\ fd \in [Logins -> Fds]
    /\ isOpen \in [Logins -> BOOLEAN]
    /\ alive \in [Logins -> BOOLEAN]
    /\ expired \subseteq table /\ table \subseteq 1..spawned

\* The terminal of a spawn is that of the next login.
LEMMA OpenPtyType ==
    ASSUME LoginTypeOK, NEW l \in Logins, NEW n \in Fds, OpenPty(l, n)
    PROVE  /\ spawned' \in 0..MaxLogins /\ 1..spawned \subseteq 1..spawned'
           /\ l \notin 1..spawned /\ l \in 1..spawned'
           /\ fd' \in [Logins -> Fds] /\ isOpen' \in [Logins -> BOOLEAN]
  BY LoginAssumption DEF LoginTypeOK, OpenPty, Logins

LEMMA TerminalTypeStep == LoginTypeOK /\ Held /\ [Next]_vars => TerminalType'
<1> SUFFICES ASSUME LoginTypeOK, Held, [Next]_vars PROVE TerminalType'
  OBVIOUS
<1> USE LoginAssumption DEF LoginTypeOK, TerminalType
<1>0. ASSUME NEW S, Kill(S)
      PROVE  isOpen' \in [Logins -> BOOLEAN] /\ alive' \in [Logins -> BOOLEAN]
  BY <1>0, Zenon DEF Kill
<1>1. ASSUME NEW S, Discard(S), UNCHANGED <<spawned, owner, fd>> PROVE TerminalType'
  <2>1. isOpen' \in [Logins -> BOOLEAN] /\ alive' \in [Logins -> BOOLEAN]
    BY <1>1, <1>0 DEF Discard
  <2> QED
    BY <1>1, <2>1 DEF Discard
<1>2. ASSUME NEW h \in Handlers, NEW i \in Instances, Start(h, i) PROVE TerminalType'
  BY <1>1, <1>2 DEF Start
<1>3. ASSUME NEW h \in Handlers, NEW i \in Instances, NEW l \in Logins, Submit(h, i, l)
      PROVE  TerminalType'
  BY <1>1, <1>3 DEF Submit
<1>4. ASSUME NEW h \in Handlers, Spawn(h) \/ SpawnFails(h) PROVE TerminalType'
  <2>1. PICK l \in Logins, n \in Fds : OpenPty(l, n)
    BY <1>4 DEF Spawn, SpawnFails
  <2>2. owner' \in [Logins -> Instances] /\ alive' \in [Logins -> BOOLEAN]
    BY <1>4 DEF Spawn, SpawnFails
  <2>3. table' = table /\ expired' = expired
    BY <1>4 DEF Spawn, SpawnFails
  <2> QED
    BY <2>1, <2>2, <2>3, OpenPtyType
<1>5. ASSUME NEW h \in Handlers, GotUrl(h) PROVE TerminalType'
  <2>1. hlogin[h] \in 1..spawned
    BY <1>5 DEF GotUrl, Held, Waiting
  <2> QED
    BY <1>5, <2>1 DEF GotUrl
<1>6. ASSUME NEW h \in Handlers, NoUrl(h) PROVE TerminalType'
  BY <1>0, <1>6 DEF NoUrl
<1>7. ASSUME NEW h \in Handlers,
             \/ NoProgram(h) \/ Ready(h) \/ Block(h) \/ ReadOther(h) \/ WriteCode(h)
             \/ ReadToken(h) \/ NoToken(h) \/ StoreToken(h)
      PROVE  TerminalType'
  BY <1>7 DEF NoProgram, Ready, Block, ReadOther, WriteCode, ReadToken, NoToken,
      StoreToken, process
<1>8. ASSUME NEW h \in Handlers, Close(h) PROVE TerminalType'
  BY <1>1, <1>8 DEF Close
<1>9. ASSUME NEW i \in Instances, Logout(i) PROVE TerminalType'
  BY <1>9 DEF Logout, process
<1>10. ASSUME NEW l \in Logins, Prints(l) \/ Dies(l) \/ Expires(l) PROVE TerminalType'
  BY <1>10 DEF Prints, Dies, Expires, process
<1>11. CASE UNCHANGED vars
  BY <1>11 DEF vars, process
<1> QED
  BY <1>2, <1>3, <1>4, <1>5, <1>6, <1>7, <1>8, <1>9, <1>10, <1>11 DEF Next, Proceed

LEMMA OtherTypeStep ==
    LoginTypeOK /\ [Next]_vars =>
        /\ stage' \in [Logins -> Stage] /\ unread' \in [Logins -> Text]
        /\ secret' \in [Instances -> Logins \cup {NoLogin}]
        /\ overlapped' \subseteq Instances
        /\ crossed' \subseteq Logins \cup {NoLogin}
<1> SUFFICES ASSUME LoginTypeOK, [Next]_vars
             PROVE  /\ stage' \in [Logins -> Stage] /\ unread' \in [Logins -> Text]
                    /\ secret' \in [Instances -> Logins \cup {NoLogin}]
                    /\ overlapped' \subseteq Instances
                    /\ crossed' \subseteq Logins \cup {NoLogin}
  OBVIOUS
<1> USE DEF LoginTypeOK
<1>1. stage' \in [Logins -> Stage]
  <2>1. ASSUME NEW h \in Handlers, WriteCode(h) PROVE stage' \in [Logins -> Stage]
    BY <2>1 DEF WriteCode, At, Stage
  <2>2. ASSUME NEW l \in Logins, Prints(l) PROVE stage' \in [Logins -> Stage]
    BY <2>2 DEF Prints, Stage
  <2>3. ASSUME NEW h \in Handlers, SpawnFails(h) PROVE stage' \in [Logins -> Stage]
    BY <2>3 DEF SpawnFails, Stage
  <2>4. CASE UNCHANGED stage
    BY <2>4
  <2> QED
    BY <2>1, <2>2, <2>3, <2>4 DEF Next, Proceed, vars, process, Start, Submit, Spawn,
        NoProgram, GotUrl, NoUrl, Ready, Block, ReadOther, ReadToken, NoToken, Close,
        StoreToken, Logout, Dies, Expires
<1>2. unread' \in [Logins -> Text]
  <2>1. ASSUME NEW h \in Handlers,
               ReadToken(h) \/ GotUrl(h) \/ ReadOther(h) \/ NoUrl(h) \/ NoToken(h)
        PROVE  unread' \in [Logins -> Text]
    <3>1. unread' = unread \/ \E m \in Terminal(h) : unread' = [unread EXCEPT ![m] = ""]
      BY <2>1 DEF ReadToken, GotUrl, ReadOther, NoUrl, NoToken, ReadInVain
    <3> QED
      BY <3>1 DEF Text
  <2>2. ASSUME NEW l \in Logins, Prints(l) PROVE unread' \in [Logins -> Text]
    BY <2>2 DEF Prints, Text
  <2>3. CASE UNCHANGED unread
    BY <2>3
  <2> QED
    BY <2>1, <2>2, <2>3 DEF Next, Proceed, vars, process, Start, Submit, Spawn, SpawnFails,
        NoProgram, Ready, Block, WriteCode, Close, StoreToken, Logout, Dies, Expires
<1>3. secret' \in [Instances -> Logins \cup {NoLogin}]
  BY DEF Next, Proceed, vars, process, Start, Submit, Spawn, SpawnFails, NoProgram, GotUrl,
      NoUrl, Ready, Block, ReadOther, WriteCode, ReadToken, NoToken, Close, StoreToken,
      Logout, Prints, Dies, Expires
<1>4. overlapped' \subseteq Instances
  BY DEF Next, Proceed, vars, process, history, Start, Submit, Spawn, SpawnFails, NoProgram,
      GotUrl, NoUrl, Ready, Block, ReadOther, WriteCode, ReadToken, NoToken, Close,
      StoreToken, Logout, Prints, Dies, Expires, Overlap
<1>5. crossed' \subseteq Logins \cup {NoLogin}
  <2>1. ASSUME NEW h \in Handlers, Meet(h) PROVE crossed' \subseteq Logins \cup {NoLogin}
    BY <2>1 DEF Meet, Terminal, At
  <2>2. CASE UNCHANGED crossed
    BY <2>2
  <2> QED
    BY <2>1, <2>2 DEF Next, Proceed, vars, history, Start, Submit, Spawn, SpawnFails,
        NoProgram, GotUrl, NoUrl, Ready, Block, ReadOther, ReadInVain, WriteCode, ReadToken,
        NoToken, Close, StoreToken, Logout, Prints, Dies, Expires
<1> QED
  BY <1>1, <1>2, <1>3, <1>4, <1>5

LEMMA LoginTypeStep == LoginTypeOK /\ Held /\ [Next]_vars => LoginTypeOK'
  BY HandlerTypeStep, TerminalTypeStep, OtherTypeStep
     DEF LoginTypeOK, HandlerType, TerminalType

-----------------------------------------------------------------------------
\* The starts that hold a login, and which, do not change.
SameStarts ==
    \A h \in Handlers :
        /\ hpc'[h] \in Waiting <=> hpc[h] \in Waiting
        /\ hpc[h] \in Waiting => hlogin'[h] = hlogin[h]

SameFailures == \A l \in Logins : stage'[l] = "failed" <=> stage[l] = "failed"

\* A step that neither opens nor closes a terminal.
LEMMA LoginInvFrame ==
    ASSUME LoginTypeOK, LoginInv, SameStarts, SameFailures,
           UNCHANGED <<spawned, fd, table, isOpen>>,
           \A l \in Logins : alive'[l] => alive[l]
    PROVE  LoginInv'
<1>0. \A l \in Logins : Starting(l)' <=> Starting(l)
  BY DEF SameStarts, Starting, Waiting
<1>1. Held'
  BY <1>0 DEF Held, LoginInv, SameStarts, SameFailures
<1>2. NumbersApart'
  BY DEF NumbersApart, LoginInv
<1> QED
  BY <1>1, <1>2 DEF LoginInv

\* A request discards what it took out of the table and nothing else.
LEMMA DiscardKeepsInv ==
    ASSUME LoginTypeOK, LoginInv, NEW S, Discard(S), SameStarts,
           UNCHANGED <<spawned, fd, stage>>
    PROVE  LoginInv'
<1> DEFINE D == S \cap table
<1>0. table \subseteq Logins
  BY LoginAssumption DEF LoginTypeOK, Logins
<1>1. D \in SUBSET Logins /\ \A l \in D : isOpen[l]
  BY <1>0 DEF LoginInv, Held
<1>2. /\ \A l \in Logins : isOpen'[l] <=> isOpen[l] /\ l \notin D
      /\ \A l \in Logins : alive'[l] <=> alive[l] /\ l \notin D
  BY <1>1, KillExact DEF Discard, LoginInv
<1>3. table' = table \ D
  BY DEF Discard
<1>4. NumbersApart'
  BY <1>2 DEF NumbersApart, LoginInv
<1>5. ASSUME NEW l \in Logins PROVE Starting(l)' <=> Starting(l)
  BY DEF Starting, SameStarts, Waiting
<1>6. ASSUME NEW l \in Logins PROVE Starting(l) \/ stage[l] = "failed" => l \notin table
  BY DEF Starting, Waiting, LoginInv, Held
<1>7. ASSUME NEW l \in Logins
      PROVE  /\ isOpen'[l] <=> l \in table' \/ Starting(l)' \/ stage'[l] = "failed"
             /\ alive'[l] => isOpen'[l]
             /\ stage'[l] = "failed" => l \in (1..spawned') \ table' /\ ~Starting(l)'
  BY <1>2, <1>3, <1>5, <1>6 DEF LoginInv, Held
<1>8. ASSUME NEW h \in Handlers, hpc'[h] \in Waiting
      PROVE  hlogin'[h] \in (1..spawned') \ table'
  BY <1>3, <1>8 DEF LoginInv, Held, SameStarts
<1>9. ASSUME NEW h \in Handlers, NEW g \in Handlers,
             hpc'[h] \in Waiting, hpc'[g] \in Waiting, hlogin'[h] = hlogin'[g]
      PROVE  h = g
  BY <1>9 DEF LoginInv, Held, SameStarts
<1>10. Held'
  BY <1>7, <1>8, <1>9 DEF Held
<1> QED
  BY <1>4, <1>10 DEF LoginInv

\* A start opens a terminal of its own, under a number nobody uses.
LEMMA OpenPtyIsNew ==
    ASSUME LoginTypeOK, LoginInv, NEW l \in Logins, NEW n \in Fds, OpenPty(l, n)
    PROVE  /\ l \notin table /\ ~Starting(l) /\ ~isOpen[l] /\ stage[l] # "failed"
           /\ ~alive[l]
           /\ \A k \in Logins : isOpen'[k] <=> isOpen[k] \/ k = l
           /\ NumbersApart'
<1>1. /\ \A k \in Logins : isOpen'[k] <=> isOpen[k] \/ k = l
      /\ \A k \in Logins : fd'[k] = IF k = l THEN n ELSE fd[k]
  BY DEF OpenPty, LoginTypeOK
<1>2. \A k \in Logins : isOpen[k] => fd[k] # n
  BY DEF OpenPty, FreeFds, At
<1>3. /\ l \notin table /\ ~Starting(l) /\ stage[l] # "failed"
  BY OpenPtyType DEF LoginInv, Held, Starting, Waiting, LoginTypeOK
<1>4. ~isOpen[l] /\ ~alive[l]
  BY <1>3 DEF LoginInv, Held
<1> QED
  BY <1>1, <1>2, <1>3, <1>4 DEF NumbersApart, LoginInv

LEMMA SpawnKeepsInv ==
    ASSUME LoginTypeOK, LoginInv, NEW h \in Handlers, Spawn(h) PROVE LoginInv'
<1>1. PICK l \in Logins, n \in Fds :
        /\ OpenPty(l, n)
        /\ alive' = [alive EXCEPT ![l] = TRUE]
        /\ hlogin' = [hlogin EXCEPT ![h] = l]
  BY DEF Spawn
<1>2. /\ hpc[h] = "spawn" /\ hpc' = [hpc EXCEPT ![h] = "url"]
      /\ UNCHANGED <<stage, table>>
  BY DEF Spawn
<1>3. \A k \in Logins : alive'[k] <=> alive[k] \/ k = l
  BY <1>1 DEF LoginTypeOK
<1>4. \A g \in Handlers : /\ hpc'[g] \in Waiting <=> hpc[g] \in Waiting \/ g = h
                          /\ hlogin'[g] = IF g = h THEN l ELSE hlogin[g]
  BY <1>1, <1>2 DEF LoginTypeOK, Waiting
<1>5. \A k \in Logins : Starting(k)' <=> Starting(k) \/ k = l
  BY <1>2, <1>4 DEF Starting, Waiting
<1>6. /\ spawned' \in 0..MaxLogins /\ 1..spawned \subseteq 1..spawned'
      /\ l \notin 1..spawned /\ l \in 1..spawned'
  BY <1>1, OpenPtyType
<1>7. /\ l \notin table /\ ~Starting(l) /\ ~isOpen[l] /\ stage[l] # "failed"
      /\ \A k \in Logins : isOpen'[k] <=> isOpen[k] \/ k = l
      /\ NumbersApart'
  BY <1>1, OpenPtyIsNew
<1>8. ASSUME NEW k \in Logins
      PROVE  /\ isOpen'[k] <=> k \in table' \/ Starting(k)' \/ stage'[k] = "failed"
             /\ alive'[k] => isOpen'[k]
             /\ stage'[k] = "failed" => k \in (1..spawned') \ table' /\ ~Starting(k)'
  BY <1>2, <1>3, <1>5, <1>6, <1>7 DEF LoginInv, Held
<1>9. \A g \in Handlers : hpc'[g] \in Waiting => hlogin'[g] \in (1..spawned') \ table'
  BY <1>2, <1>4, <1>6, <1>7 DEF LoginInv, Held
<1>10. \A g, k \in Handlers :
          hpc'[g] \in Waiting /\ hpc'[k] \in Waiting /\ hlogin'[g] = hlogin'[k] => g = k
  BY <1>4, <1>6 DEF LoginInv, Held
<1>11. Held'
  BY <1>8, <1>9, <1>10 DEF Held
<1> QED
  BY <1>7, <1>11 DEF LoginInv

\* The terminal of a start whose Popen failed is left to nobody.
LEMMA SpawnFailsKeepsInv ==
    ASSUME LoginTypeOK, LoginInv, NEW h \in Handlers, SpawnFails(h) PROVE LoginInv'
<1>1. PICK l \in Logins, n \in Fds :
        OpenPty(l, n) /\ stage' = [stage EXCEPT ![l] = "failed"]
  BY DEF SpawnFails
<1>2. /\ hpc[h] = "spawn" /\ hpc' = [hpc EXCEPT ![h] = "idle"]
      /\ hlogin' = [hlogin EXCEPT ![h] = NoLogin]
      /\ UNCHANGED <<alive, table>>
  BY DEF SpawnFails, Return
<1>3. \A k \in Logins : stage'[k] = "failed" <=> stage[k] = "failed" \/ k = l
  BY <1>1 DEF LoginTypeOK
<1>4. \A g \in Handlers : /\ hpc'[g] \in Waiting <=> hpc[g] \in Waiting
                          /\ hpc[g] \in Waiting => hlogin'[g] = hlogin[g]
  BY <1>2 DEF LoginTypeOK, Waiting
<1>5. \A k \in Logins : Starting(k)' <=> Starting(k)
  BY <1>4 DEF Starting, Waiting
<1>6. /\ spawned' \in 0..MaxLogins /\ 1..spawned \subseteq 1..spawned'
      /\ l \notin 1..spawned /\ l \in 1..spawned'
  BY <1>1, OpenPtyType
<1>7. /\ l \notin table /\ ~Starting(l) /\ ~isOpen[l] /\ stage[l] # "failed"
      /\ \A k \in Logins : isOpen'[k] <=> isOpen[k] \/ k = l
      /\ NumbersApart'
  BY <1>1, OpenPtyIsNew
<1>8. ASSUME NEW k \in Logins
      PROVE  /\ isOpen'[k] <=> k \in table' \/ Starting(k)' \/ stage'[k] = "failed"
             /\ alive'[k] => isOpen'[k]
             /\ stage'[k] = "failed" => k \in (1..spawned') \ table' /\ ~Starting(k)'
  BY <1>2, <1>3, <1>5, <1>6, <1>7 DEF LoginInv, Held
<1>9. \A g \in Handlers : hpc'[g] \in Waiting => hlogin'[g] \in (1..spawned') \ table'
  BY <1>2, <1>4, <1>6 DEF LoginInv, Held
<1>10. \A g, k \in Handlers :
          hpc'[g] \in Waiting /\ hpc'[k] \in Waiting /\ hlogin'[g] = hlogin'[k] => g = k
  BY <1>4 DEF LoginInv, Held
<1>11. Held'
  BY <1>8, <1>9, <1>10 DEF Held
<1> QED
  BY <1>7, <1>11 DEF LoginInv

\* The start that read a URL hands its login to the table.
LEMMA GotUrlKeepsInv ==
    ASSUME LoginTypeOK, LoginInv, NEW h \in Handlers, GotUrl(h) PROVE LoginInv'
<1>1. /\ hpc[h] = "urlread" /\ table' = table \cup {hlogin[h]}
      /\ hpc' = [hpc EXCEPT ![h] = "idle"]
      /\ hlogin' = [hlogin EXCEPT ![h] = NoLogin]
      /\ UNCHANGED <<spawned, fd, isOpen, alive, stage>>
  BY DEF GotUrl, Return
<1>2. \A g \in Handlers : /\ hpc'[g] \in Waiting <=> hpc[g] \in Waiting /\ g # h
                          /\ hpc'[g] \in Waiting => hlogin'[g] = hlogin[g]
  BY <1>1 DEF LoginTypeOK, Waiting
<1>3. \A l \in Logins : Starting(l) <=> Starting(l)' \/ l = hlogin[h]
  BY <1>1, <1>2 DEF Starting, Waiting
<1>4. ASSUME NEW l \in Logins
      PROVE  /\ isOpen'[l] <=> l \in table' \/ Starting(l)' \/ stage'[l] = "failed"
             /\ alive'[l] => isOpen'[l]
             /\ stage'[l] = "failed" => l \in (1..spawned') \ table' /\ ~Starting(l)'
  BY <1>1, <1>3 DEF LoginInv, Held
<1>5. \A g \in Handlers : hpc'[g] \in Waiting => hlogin'[g] \in (1..spawned') \ table'
  BY <1>1, <1>2 DEF LoginInv, Held, Waiting
<1>6. \A g, k \in Handlers :
         hpc'[g] \in Waiting /\ hpc'[k] \in Waiting /\ hlogin'[g] = hlogin'[k] => g = k
  BY <1>2 DEF LoginInv, Held
<1>7. Held'
  BY <1>4, <1>5, <1>6 DEF Held
<1>8. NumbersApart'
  BY <1>1 DEF NumbersApart, LoginInv
<1> QED
  BY <1>7, <1>8 DEF LoginInv

\* The start that gives up closes the terminal it opened.
LEMMA NoUrlKeepsInv ==
    ASSUME LoginTypeOK, LoginInv, NEW h \in Handlers, NoUrl(h) PROVE LoginInv'
<1>1. /\ hpc[h] \in Waiting
      /\ hpc' = [hpc EXCEPT ![h] = "idle"]
      /\ hlogin' = [hlogin EXCEPT ![h] = NoLogin]
      /\ UNCHANGED <<spawned, fd, table, stage>>
  BY DEF NoUrl, Return, Waiting
<1>2. hlogin[h] \in Logins \ table /\ Starting(hlogin[h]) /\ isOpen[hlogin[h]]
  BY <1>1, LoginAssumption DEF LoginInv, Held, Starting, Waiting, LoginTypeOK, Logins
<1>3. Kill({hlogin[h]})
  BY DEF NoUrl
<1>4. /\ \A l \in Logins : isOpen'[l] <=> isOpen[l] /\ l # hlogin[h]
      /\ \A l \in Logins : alive'[l] <=> alive[l] /\ l # hlogin[h]
  BY <1>2, <1>3, KillExact DEF LoginInv
<1>5. \A g \in Handlers : /\ hpc'[g] \in Waiting <=> hpc[g] \in Waiting /\ g # h
                          /\ hpc'[g] \in Waiting => hlogin'[g] = hlogin[g]
  BY <1>1 DEF LoginTypeOK, Waiting
<1>6. \A l \in Logins : Starting(l)' <=> Starting(l) /\ l # hlogin[h]
  BY <1>1, <1>5 DEF Starting, Waiting, LoginInv, Held
<1>7. ASSUME NEW l \in Logins
      PROVE  /\ isOpen'[l] <=> l \in table' \/ Starting(l)' \/ stage'[l] = "failed"
             /\ alive'[l] => isOpen'[l]
             /\ stage'[l] = "failed" => l \in (1..spawned') \ table' /\ ~Starting(l)'
  BY <1>1, <1>2, <1>4, <1>6 DEF LoginInv, Held
<1>8. \A g \in Handlers : hpc'[g] \in Waiting => hlogin'[g] \in (1..spawned') \ table'
  BY <1>1, <1>5 DEF LoginInv, Held
<1>9. \A g, k \in Handlers :
         hpc'[g] \in Waiting /\ hpc'[k] \in Waiting /\ hlogin'[g] = hlogin'[k] => g = k
  BY <1>5 DEF LoginInv, Held
<1>10. Held'
  BY <1>7, <1>8, <1>9 DEF Held
<1>11. NumbersApart'
  BY <1>1, <1>4 DEF NumbersApart, LoginInv
<1> QED
  BY <1>10, <1>11 DEF LoginInv

LEMMA LoginInvStep == LoginTypeOK /\ LoginInv /\ [Next]_vars => LoginInv'
<1> SUFFICES ASSUME LoginTypeOK, LoginInv, [Next]_vars PROVE LoginInv'
  OBVIOUS
<1>0. stage' = stage => SameFailures
  BY DEF SameFailures
<1>1. ASSUME NEW h \in Handlers, NEW i \in Instances, Start(h, i) PROVE LoginInv'
  <2>1. SameStarts
    BY <1>1 DEF Start, SameStarts, Waiting, LoginTypeOK
  <2> QED
    BY <1>1, <2>1, DiscardKeepsInv DEF Start
<1>2. ASSUME NEW h \in Handlers, NEW i \in Instances, NEW l \in Logins, Submit(h, i, l)
      PROVE  LoginInv'
  <2>1. CASE UNCHANGED handler
    <3>1. SameStarts
      BY <2>1 DEF handler, SameStarts
    <3> QED
      BY <1>2, <3>1, DiscardKeepsInv DEF Submit
  <2>2. CASE hpc' = [hpc EXCEPT ![h] = "code"] /\ hlogin' = [hlogin EXCEPT ![h] = l]
    <3>1. SameStarts
      BY <1>2, <2>2 DEF Submit, SameStarts, Waiting, LoginTypeOK
    <3> QED
      BY <1>2, <3>1, DiscardKeepsInv DEF Submit
  <2> QED
    BY <1>2, <2>1, <2>2 DEF Submit
<1>3. ASSUME NEW h \in Handlers, Close(h) PROVE LoginInv'
  <2>1. SameStarts
    BY <1>3 DEF Close, Return, Goto, SameStarts, Waiting, LoginTypeOK
  <2> QED
    BY <1>3, <2>1, DiscardKeepsInv DEF Close
<1>4. ASSUME NEW h \in Handlers, Ready(h) \/ Block(h) \/ ReadOther(h) PROVE LoginInv'
  <2>1. UNCHANGED <<spawned, fd, table, isOpen, alive, stage, hlogin>>
    BY <1>4 DEF Ready, Block, ReadOther, Goto, process
  <2>2. \A g \in Handlers : hpc'[g] \in Waiting <=> hpc[g] \in Waiting
    <3> USE DEF LoginTypeOK, Waiting, Goto
    <3>1. CASE Ready(h)
      BY <3>1 DEF Ready
    <3>2. CASE Block(h)
      BY <3>2 DEF Block
    <3>3. CASE ReadOther(h)
      BY <3>3 DEF ReadOther
    <3> QED
      BY <1>4, <3>1, <3>2, <3>3
  <2>3. SameStarts
    BY <2>1, <2>2 DEF SameStarts
  <2> QED
    BY <1>0, <2>1, <2>3, LoginInvFrame
<1>5. ASSUME NEW h \in Handlers,
             WriteCode(h) \/ ReadToken(h) \/ NoToken(h) \/ StoreToken(h) \/ NoProgram(h)
      PROVE  LoginInv'
  <2>1. UNCHANGED <<spawned, fd, table, isOpen, alive>>
    BY <1>5 DEF WriteCode, ReadToken, NoToken, StoreToken, NoProgram, process
  <2>2. hpc[h] \notin Waiting /\ \E pc \in HPC \ Waiting : hpc' = [hpc EXCEPT ![h] = pc]
    BY <1>5 DEF WriteCode, ReadToken, NoToken, StoreToken, NoProgram, Goto, Return,
        Waiting, HPC
  <2>3. hlogin' = hlogin \/ hlogin' = [hlogin EXCEPT ![h] = NoLogin]
    BY <1>5 DEF WriteCode, ReadToken, NoToken, StoreToken, NoProgram, Return, Goto
  <2>4. SameStarts
    BY <2>2, <2>3 DEF SameStarts, LoginTypeOK
  <2>5. SameFailures
    <3>1. CASE WriteCode(h)
      BY <3>1 DEF WriteCode, At, SameFailures, LoginTypeOK
    <3>2. CASE UNCHANGED stage
      BY <1>0, <3>2
    <3> QED
      BY <1>5, <3>1, <3>2 DEF ReadToken, NoToken, StoreToken, NoProgram, process
  <2> QED
    BY <2>1, <2>4, <2>5, LoginInvFrame
<1>6. ASSUME NEW l \in Logins, Dies(l) PROVE LoginInv'
  <2>1. SameStarts
    BY <1>6 DEF Dies, handler, SameStarts
  <2>2. \A k \in Logins : alive'[k] => alive[k]
    BY <1>6 DEF Dies, LoginTypeOK
  <2> QED
    BY <1>0, <1>6, <2>1, <2>2, LoginInvFrame DEF Dies
<1>7. ASSUME UNCHANGED <<spawned, fd, table, isOpen, alive, handler>>, SameFailures
      PROVE  LoginInv'
  BY <1>7, LoginInvFrame DEF SameStarts, handler
<1>8. ASSUME NEW i \in Instances, Logout(i) PROVE LoginInv'
  BY <1>0, <1>7, <1>8 DEF Logout, process
<1>9. ASSUME NEW l \in Logins, Prints(l) PROVE LoginInv'
  <2>1. SameFailures
    BY <1>9 DEF Prints, SameFailures, LoginTypeOK
  <2> QED
    BY <1>7, <1>9, <2>1 DEF Prints
<1>10. ASSUME NEW l \in Logins, Expires(l) PROVE LoginInv'
  BY <1>0, <1>7, <1>10 DEF Expires, process
<1>11. CASE UNCHANGED vars
  BY <1>0, <1>7, <1>11 DEF vars, process
<1> QED
  BY <1>1, <1>2, <1>3, <1>4, <1>5, <1>6, <1>8, <1>9, <1>10, <1>11, SpawnKeepsInv,
     SpawnFailsKeepsInv, GotUrlKeepsInv, NoUrlKeepsInv DEF Next, Proceed

LEMMA LoginInit == Init => LoginTypeOK /\ LoginInv
<1> SUFFICES ASSUME Init PROVE LoginTypeOK /\ LoginInv
  OBVIOUS
<1>1. isOpen \in [Logins -> BOOLEAN] /\ alive \in [Logins -> BOOLEAN]
  BY Zenon DEF Init
<1>2. LoginTypeOK
  <2>1. 1 \in Fds /\ 0 \in 0..MaxLogins
    BY LoginAssumption DEF Fds, Logins
  <2>2. /\ owner \in [Logins -> Instances] /\ hinst \in [Handlers -> Instances]
        /\ fd \in [Logins -> Fds]
    BY <2>1, SomeInstance DEF Init
  <2>3. /\ stage \in [Logins -> Stage] /\ unread \in [Logins -> Text]
        /\ hpc \in [Handlers -> HPC]
    BY DEF Init, Stage, Text, HPC
  <2>4. /\ hlogin \in [Handlers -> Logins \cup {NoLogin}]
        /\ caught \in [Handlers -> Logins \cup {NoLogin}]
        /\ bound \in [Handlers -> Logins \cup {NoLogin}]
        /\ secret \in [Instances -> Logins \cup {NoLogin}]
    BY DEF Init
  <2>5. spawned = 0 /\ table = {} /\ expired = {} /\ overlapped = {} /\ crossed = {}
    BY DEF Init
  <2> QED
    BY <1>1, <2>1, <2>2, <2>3, <2>4, <2>5 DEF LoginTypeOK
<1>3. \A l \in Logins : ~isOpen[l] /\ ~alive[l] /\ stage[l] = "starting"
  BY DEF Init
<1>4. LoginInv
  BY <1>3 DEF Init, LoginInv, Held, NumbersApart, Starting, Waiting
<1> QED
  BY <1>2, <1>4

\* The state of the component has the shape its code gives it.
THEOREM LoginTypeCorrect == Spec => []LoginTypeOK
<1>1. LoginTypeOK /\ LoginInv /\ [Next]_vars => (LoginTypeOK /\ LoginInv)'
  BY LoginTypeStep, LoginInvStep DEF LoginInv
<1> QED
  BY LoginInit, <1>1, PTL DEF Spec

\* However starts, codes and expiries overlap, a terminal is open exactly
\* while the table or the start that spawned its login holds it, or Popen
\* failed with anything but a missing program, and no process outlives its
\* terminal (engine_login.py, start and _kill).
THEOREM NoLeakedLoginHolds == Spec => []NoLeakedLogin
<1>1. LoginTypeOK /\ LoginInv /\ [Next]_vars => (LoginTypeOK /\ LoginInv)'
  BY LoginTypeStep, LoginInvStep DEF LoginInv
<1>2. LoginInv => NoLeakedLogin
  BY DEF LoginInv, Held, NoLeakedLogin
<1> QED
  BY LoginInit, <1>1, <1>2, PTL DEF Spec

-----------------------------------------------------------------------------
\* A start for i is under way in h.
StartsFor(h, i) == hpc[h] \in Launching /\ hinst[h] = i

\* The login a start holds is for the instance of its request; and of an
\* instance whose starts never overlapped there is one login in the table or
\* one start under way, not both.
OneStart ==
    /\ \A h \in Handlers : hpc[h] \in Waiting => owner[hlogin[h]] = hinst[h]
    /\ \A i \in Instances \ overlapped :
        /\ \A l, k \in table : owner[l] = i /\ owner[k] = i => l = k
        /\ \A h \in Handlers : StartsFor(h, i) =>
            /\ \A l \in table : owner[l] # i
            /\ \A g \in Handlers : StartsFor(g, i) => g = h

\* A step that begins no start, and lets some end.
LEMMA OneStartFrame ==
    ASSUME LoginTypeOK, LoginInv, OneStart,
           UNCHANGED <<owner, overlapped>>, table' \subseteq table,
           \A h \in Handlers : hpc'[h] \in Waiting => hpc[h] \in Waiting /\ hlogin'[h] = hlogin[h],
           \A h \in Handlers : hpc'[h] \in Launching =>
                                  hpc[h] \in Launching /\ hinst'[h] = hinst[h]
    PROVE  OneStart'
<1> USE DEF Waiting, Launching
<1>1. \A h \in Handlers, i \in Instances : StartsFor(h, i)' => StartsFor(h, i)
  BY DEF StartsFor
<1>2. \A h \in Handlers : hpc'[h] \in Waiting => owner'[hlogin'[h]] = hinst'[h]
  BY DEF OneStart
<1>3. ASSUME NEW i \in Instances \ overlapped'
      PROVE  /\ \A l, k \in table' : owner'[l] = i /\ owner'[k] = i => l = k
             /\ \A h \in Handlers : StartsFor(h, i)' =>
                  /\ \A l \in table' : owner'[l] # i
                  /\ \A g \in Handlers : StartsFor(g, i)' => g = h
  BY <1>1 DEF OneStart
<1> QED
  BY <1>2, <1>3 DEF OneStart

\* start empties the table of the instance's logins, or its overlap with
\* another start is noted.
LEMMA StartKeepsOne ==
    ASSUME LoginTypeOK, LoginInv, OneStart,
           NEW h \in Handlers, NEW i \in Instances, Start(h, i)
    PROVE  OneStart'
<1> USE DEF Waiting, Launching
<1>1. /\ hpc[h] = "idle"
      /\ UNCHANGED <<owner, hlogin>>
      /\ table' = table \ (Expired \cup {l \in table : owner[l] = i})
  BY DEF Start, Discard
<1>2. \A g \in Handlers : /\ hpc'[g] = IF g = h THEN "spawn" ELSE hpc[g]
                          /\ hinst'[g] = IF g = h THEN i ELSE hinst[g]
  BY DEF Start, LoginTypeOK
<1>3. \A g \in Handlers : hpc'[g] \in Waiting => owner'[hlogin'[g]] = hinst'[g]
  BY <1>1, <1>2 DEF OneStart
<1>4. ASSUME NEW j \in Instances, NEW g \in Handlers
      PROVE  StartsFor(g, j)' <=> StartsFor(g, j) \/ (g = h /\ j = i)
  BY <1>1, <1>2 DEF StartsFor
<1>5. /\ overlapped \subseteq overlapped'
      /\ i \notin overlapped' => \A g \in Handlers : ~StartsFor(g, i)
  BY DEF Start, Overlap, StartsFor
<1>6. ASSUME NEW j \in Instances \ overlapped'
      PROVE  /\ \A l, k \in table' : owner'[l] = j /\ owner'[k] = j => l = k
             /\ \A g \in Handlers : StartsFor(g, j)' =>
                  /\ \A l \in table' : owner'[l] # j
                  /\ \A k \in Handlers : StartsFor(k, j)' => k = g
  <2>1. CASE j = i
    BY <1>1, <1>4, <1>5, <2>1
  <2>2. CASE j # i
    BY <1>1, <1>4, <1>5, <2>2 DEF OneStart
  <2> QED
    BY <2>1, <2>2
<1> QED
  BY <1>3, <1>6 DEF OneStart

LEMMA SpawnKeepsOne ==
    ASSUME LoginTypeOK, LoginInv, OneStart, NEW h \in Handlers, Spawn(h)
    PROVE  OneStart'
<1> USE DEF Waiting, Launching
<1>1. PICK l \in Logins, n \in Fds :
        /\ OpenPty(l, n)
        /\ owner' = [owner EXCEPT ![l] = hinst[h]]
        /\ hlogin' = [hlogin EXCEPT ![h] = l]
  BY DEF Spawn
<1>2. /\ hpc[h] = "spawn" /\ hpc' = [hpc EXCEPT ![h] = "url"]
      /\ UNCHANGED <<hinst, table, overlapped>>
  BY DEF Spawn, history
<1>3. l \notin 1..spawned
  BY <1>1, OpenPtyType
<1>4. \A k \in 1..spawned : owner'[k] = owner[k]
  BY <1>1, <1>3, LoginAssumption DEF LoginTypeOK, Logins
<1>5. \A g \in Handlers : /\ hpc'[g] = IF g = h THEN "url" ELSE hpc[g]
                          /\ hlogin'[g] = IF g = h THEN l ELSE hlogin[g]
  BY <1>1, <1>2 DEF LoginTypeOK
<1>6. \A g \in Handlers : hpc'[g] \in Waiting => owner'[hlogin'[g]] = hinst'[g]
  BY <1>1, <1>2, <1>4, <1>5 DEF OneStart, LoginInv, Held, LoginTypeOK
<1>7. \A g \in Handlers, i \in Instances : StartsFor(g, i)' <=> StartsFor(g, i)
  BY <1>2, <1>5 DEF StartsFor, Launching
<1>8. \A k \in table : owner'[k] = owner[k]
  BY <1>4 DEF LoginTypeOK
<1> QED
  BY <1>2, <1>6, <1>7, <1>8 DEF OneStart

\* The login moves from the start into the table.
LEMMA GotUrlKeepsOne ==
    ASSUME LoginTypeOK, LoginInv, OneStart, NEW h \in Handlers, GotUrl(h)
    PROVE  OneStart'
<1> USE DEF Waiting, Launching
<1>1. /\ hpc[h] = "urlread" /\ table' = table \cup {hlogin[h]}
      /\ UNCHANGED <<owner, overlapped>>
  BY DEF GotUrl
<1>2. \A g \in Handlers : /\ hpc'[g] = IF g = h THEN "idle" ELSE hpc[g]
                          /\ g # h => hlogin'[g] = hlogin[g] /\ hinst'[g] = hinst[g]
  BY DEF GotUrl, Return, LoginTypeOK
<1>3. owner[hlogin[h]] = hinst[h]
  BY <1>1 DEF OneStart
<1>4. \A g \in Handlers : hpc'[g] \in Waiting => owner'[hlogin'[g]] = hinst'[g]
  BY <1>1, <1>2 DEF OneStart
<1>5. \A g \in Handlers, i \in Instances : StartsFor(g, i)' <=> StartsFor(g, i) /\ g # h
  BY <1>2 DEF StartsFor
<1>6. ASSUME NEW j \in Instances \ overlapped'
      PROVE  /\ \A l, k \in table' : owner'[l] = j /\ owner'[k] = j => l = k
             /\ \A g \in Handlers : StartsFor(g, j)' =>
                  /\ \A l \in table' : owner'[l] # j
                  /\ \A k \in Handlers : StartsFor(k, j)' => k = g
  <2>1. CASE j = hinst[h]
    <3>1. StartsFor(h, j)
      BY <1>1, <2>1 DEF StartsFor
    <3>2. \A l \in table : owner[l] # j
      BY <1>1, <3>1 DEF OneStart
    <3>3. \A g \in Handlers : ~StartsFor(g, j)'
      BY <1>1, <1>5, <3>1 DEF OneStart
    <3> QED
      BY <1>1, <3>2, <3>3
  <2>2. CASE j # hinst[h]
    BY <1>1, <1>3, <1>5, <2>2 DEF OneStart
  <2> QED
    BY <2>1, <2>2
<1> QED
  BY <1>4, <1>6 DEF OneStart

LEMMA OneStartStep == LoginTypeOK /\ LoginInv /\ OneStart /\ [Next]_vars => OneStart'
<1> SUFFICES ASSUME LoginTypeOK, LoginInv, OneStart, [Next]_vars PROVE OneStart'
  OBVIOUS
<1> USE DEF Waiting, Launching
<1>1. ASSUME NEW h \in Handlers, Return(h), UNCHANGED <<owner, overlapped>>,
             table' \subseteq table
      PROVE  OneStart'
  BY <1>1, OneStartFrame DEF Return, LoginTypeOK
<1>2. ASSUME NEW h \in Handlers, NEW next \in HPC \ Launching,
             hpc' = [hpc EXCEPT ![h] = next], \A g \in Handlers \ {h} : hlogin'[g] = hlogin[g],
             \A g \in Handlers \ {h} : hinst'[g] = hinst[g],
             UNCHANGED <<owner, overlapped>>, table' \subseteq table
      PROVE  OneStart'
  BY <1>2, OneStartFrame DEF LoginTypeOK
<1>3. ASSUME UNCHANGED <<owner, overlapped, handler>>, table' \subseteq table
      PROVE  OneStart'
  BY <1>3, OneStartFrame DEF handler
<1>4. ASSUME NEW h \in Handlers, NEW i \in Instances, NEW l \in Logins, Submit(h, i, l)
      PROVE  OneStart'
  <2>1. CASE UNCHANGED handler
    BY <1>3, <1>4, <2>1 DEF Submit, Discard, history
  <2>2. CASE /\ hpc' = [hpc EXCEPT ![h] = "code"]
             /\ hinst' = [hinst EXCEPT ![h] = i]
             /\ hlogin' = [hlogin EXCEPT ![h] = l]
    <3>1. "code" \in HPC \ Launching
      BY DEF HPC
    <3>2. /\ \A g \in Handlers \ {h} : hlogin'[g] = hlogin[g]
          /\ \A g \in Handlers \ {h} : hinst'[g] = hinst[g]
      BY <2>2 DEF LoginTypeOK
    <3> QED
      BY <1>2, <1>4, <2>2, <3>1, <3>2 DEF Submit, Discard, history
  <2> QED
    BY <1>4, <2>1, <2>2 DEF Submit
<1>5. ASSUME NEW h \in Handlers, NoUrl(h) \/ StoreToken(h) \/ NoProgram(h)
      PROVE  OneStart'
  BY <1>1, <1>5 DEF NoUrl, StoreToken, NoProgram, process, history
<1>6. ASSUME NEW h \in Handlers, WriteCode(h) \/ NoToken(h) PROVE OneStart'
  <2>1. \E next \in HPC \ Launching : Goto(h, next)
    BY <1>6 DEF WriteCode, NoToken, HPC
  <2>2. UNCHANGED <<owner, overlapped, table>>
    BY <1>6 DEF WriteCode, NoToken, process, history
  <2> QED
    BY <1>2, <2>1, <2>2 DEF Goto
<1>7. ASSUME NEW h \in Handlers, ReadToken(h) PROVE OneStart'
  <2>1. hpc' = hpc \/ hpc' = [hpc EXCEPT ![h] = "close"]
    BY <1>7 DEF ReadToken
  <2>2. UNCHANGED <<owner, overlapped, table, hlogin, hinst>>
    BY <1>7 DEF ReadToken
  <2> QED
    BY <2>1, <2>2, OneStartFrame DEF LoginTypeOK
<1>8. ASSUME NEW h \in Handlers, Close(h) PROVE OneStart'
  <2>1. UNCHANGED <<owner, overlapped>> /\ table' \subseteq table
    BY <1>8 DEF Close, Discard, history
  <2>2. Return(h) \/ Goto(h, "store")
    BY <1>8 DEF Close
  <2> QED
    BY <1>1, <1>2, <2>1, <2>2 DEF Goto, HPC
<1>9. ASSUME NEW i \in Instances, Logout(i) PROVE OneStart'
  BY <1>3, <1>9 DEF Logout, process, history
<1>10. ASSUME NEW l \in Logins, Prints(l) \/ Dies(l) \/ Expires(l) PROVE OneStart'
  BY <1>3, <1>10 DEF Prints, Dies, Expires, process, history
<1>11. CASE UNCHANGED vars
  BY <1>3, <1>11 DEF vars, process, history
<1>12. ASSUME NEW h \in Handlers, SpawnFails(h) PROVE OneStart'
  BY <1>1, <1>12 DEF SpawnFails, history
<1>13. ASSUME NEW h \in Handlers, Ready(h) \/ Block(h) \/ ReadOther(h) PROVE OneStart'
  <2>1. UNCHANGED <<owner, overlapped, table, hlogin, hinst>>
    BY <1>13 DEF Ready, Block, ReadOther, Goto, process, history
  <2>2. \A g \in Handlers : hpc'[g] \in Waiting <=> hpc[g] \in Waiting
    <3>1. CASE Ready(h)
      BY <3>1 DEF Ready, Goto, LoginTypeOK
    <3>2. CASE Block(h)
      BY <3>2 DEF Block
    <3>3. CASE ReadOther(h)
      BY <3>3 DEF ReadOther, Goto, LoginTypeOK
    <3> QED
      BY <1>13, <3>1, <3>2, <3>3
  <2>3. \A g \in Handlers : hpc'[g] \in Launching => hpc[g] \in Launching
    <3>1. CASE Ready(h)
      BY <3>1 DEF Ready, Goto, LoginTypeOK
    <3>2. CASE Block(h)
      BY <3>2 DEF Block
    <3>3. CASE ReadOther(h)
      BY <3>3 DEF ReadOther, Goto, LoginTypeOK
    <3> QED
      BY <1>13, <3>1, <3>2, <3>3
  <2> QED
    BY <2>1, <2>2, <2>3, OneStartFrame
<1> QED
  BY <1>4, <1>5, <1>6, <1>7, <1>8, <1>9, <1>10, <1>11, <1>12, <1>13,
     StartKeepsOne, SpawnKeepsOne, GotUrlKeepsOne DEF Next, Proceed

\* One login per instance is pending unless two starts for it overlapped,
\* whatever codes, expiries and starts for others come between
\* (engine_login.py, start: "replace any stale session").
THEOREM OnePendingHolds == Spec => []OnePendingUnlessOverlap
<1>1. Init => LoginTypeOK /\ LoginInv /\ OneStart
  BY LoginInit DEF Init, OneStart, StartsFor, Waiting, Launching
<1>2. LoginTypeOK /\ LoginInv /\ OneStart /\ [Next]_vars =>
        (LoginTypeOK /\ LoginInv /\ OneStart)'
  BY LoginTypeStep, LoginInvStep, OneStartStep DEF LoginInv
<1>3. OneStart => OnePendingUnlessOverlap
  <2> SUFFICES ASSUME OneStart, NEW i \in Instances \ overlapped
               PROVE  Cardinality({l \in table : owner[l] = i}) <= 1
    BY DEF OnePendingUnlessOverlap
  <2>1. \/ {l \in table : owner[l] = i} = {}
        \/ \E k \in table : {l \in table : owner[l] = i} = {k}
    BY DEF OneStart
  <2>2. Cardinality({}) = 0 /\ \A k \in table : Cardinality({k}) = 1
    BY FS_EmptySet, FS_Singleton
  <2>3. Cardinality({l \in table : owner[l] = i}) \in {0, 1}
    BY <2>1, <2>2
  <2> QED
    BY <2>3
<1> QED
  BY <1>1, <1>2, <1>3, PTL DEF Spec
=============================================================================
