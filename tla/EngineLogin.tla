---------------------------- MODULE EngineLogin -----------------------------
(***************************************************************************)
(* The headless subscription login (engine_login.py): "start" spawns the   *)
(* engine's login on a pseudo-terminal and returns the URL it prints, and  *)
(* "code" hands it the code the user pasted and stores the token it        *)
(* prints as a secret of the instance.  The login is held between the two  *)
(* requests in a table with a time to live.  The handlers run in the       *)
(* server's thread pool, so any two of them overlap, and they share the    *)
(* process's file descriptors, whose numbers the kernel reuses.            *)
(***************************************************************************)
EXTENDS Naturals, FiniteSets

CONSTANTS
    Instances,
    Handlers,    \* threads that serve the login's requests
    MaxLogins    \* bound: logins spawned in a behaviour

ASSUME LoginAssumption ==
    /\ Instances # {}
    /\ MaxLogins \in Nat \ {0}

Logins == 1..MaxLogins
NoLogin == 0
Fds == Logins

VARIABLES
    spawned,   \* logins spawned so far: 1..spawned
    owner,     \* the instance a login was started for
    fd,        \* _Session.master_fd: never changes
    isOpen,    \* whether that descriptor is still the login's
    alive,     \* whether its process runs
    stage,     \* what the process waits for
    unread,    \* what it printed and nobody read: nothing, a URL or a token
    table,     \* _SESSIONS: the logins held between requests
    expired,   \* those older than the time to live
    hpc,       \* where each handler is
    hinst,     \* the instance of its request
    hlogin,    \* the login it works on
    caught,    \* the login whose token it captured
    bound,     \* the login whose terminal it is blocked reading
    secret,    \* per instance: the login whose token is stored
    overlapped,\* history: the instances for which two starts overlapped
    crossed    \* history: the logins whose requests met on one number

process == <<owner, fd, alive, stage, unread>>
handler == <<hpc, hinst, hlogin, caught, bound>>
history == <<overlapped, crossed>>
vars == <<spawned, process, isOpen, table, expired, handler, secret, history>>

Stage == {"starting", "code", "checking", "done", "failed"}
Text == {"", "url", "token"}
HPC == {"idle", "spawn", "url", "urlread", "code", "token", "tokenread", "close", "store"}

Init ==
    /\ spawned = 0
    /\ owner = [l \in Logins |-> CHOOSE i \in Instances : TRUE]
    /\ fd = [l \in Logins |-> 1]
    /\ isOpen = [l \in Logins |-> FALSE]
    /\ alive = [l \in Logins |-> FALSE]
    /\ stage = [l \in Logins |-> "starting"]
    /\ unread = [l \in Logins |-> ""]
    /\ table = {}
    /\ expired = {}
    /\ hpc = [h \in Handlers |-> "idle"]
    /\ hinst = [h \in Handlers |-> CHOOSE i \in Instances : TRUE]
    /\ hlogin = [h \in Handlers |-> NoLogin]
    /\ caught = [h \in Handlers |-> NoLogin]
    /\ secret = [i \in Instances |-> NoLogin]
    /\ bound = [h \in Handlers |-> NoLogin]
    /\ overlapped = {}
    /\ crossed = {}
-----------------------------------------------------------------------------
\* The login whose terminal a descriptor number leads to now.
At(n) == {l \in Logins : isOpen[l] /\ fd[l] = n}

FreeFds == {n \in Fds : At(n) = {}}

\* _kill: the processes of S end and their descriptor numbers are closed,
\* wherever those lead by now.
Kill(S) ==
    /\ alive' = [l \in Logins |-> alive[l] /\ l \notin S]
    /\ isOpen' = [l \in Logins |-> isOpen[l] /\ fd[l] \notin {fd[k] : k \in S}]

\* Mutant: a login is killed also when another request popped it before.
DiscardAgain(S) ==
    /\ table' = table \ S
    /\ expired' = expired \ S
    /\ Kill(S)

\* pop and _kill: only the request that took a login out of the table.
Discard(S) ==
    /\ table' = table \ S
    /\ expired' = expired \ S
    /\ Kill(S \cap table)

\* _reap_expired, at the start of both requests.
Expired == table \cap expired

Return(h) ==
    /\ hpc' = [hpc EXCEPT ![h] = "idle"]
    /\ hlogin' = [hlogin EXCEPT ![h] = NoLogin]
    /\ caught' = [caught EXCEPT ![h] = NoLogin]
    /\ bound' = [bound EXCEPT ![h] = NoLogin]
    /\ hinst' = [hinst EXCEPT ![h] = CHOOSE i \in Instances : TRUE]

Goto(h, next) ==
    /\ hpc' = [hpc EXCEPT ![h] = next]
    /\ bound' = [bound EXCEPT ![h] = NoLogin]
    /\ UNCHANGED <<hinst, hlogin, caught>>
-----------------------------------------------------------------------------
(* _drain: select with a timeout, then a read that has none.               *)

\* The terminal a read is on: found by number when it begins, and kept.
Terminal(h) == IF bound[h] = NoLogin THEN At(fd[hlogin[h]]) ELSE {bound[h]}

\* A handler at the terminal of another request's login.
Meet(h) == crossed' = crossed \cup
    UNION {{m, hlogin[h]} : m \in Terminal(h) \ {hlogin[h]}}

\* select finds something to read, or the other end gone.
Ready(h) ==
    /\ hpc[h] \in {"url", "token"}
    /\ \E m \in At(fd[hlogin[h]]) : unread[m] # "" \/ ~alive[m]
    /\ Goto(h, IF hpc[h] = "url" THEN "urlread" ELSE "tokenread")
    /\ UNCHANGED <<spawned, process, isOpen, table, expired, secret, history>>

\* What was there is gone, read by another, or the number leads elsewhere by
\* now: the read blocks.
Block(h) ==
    /\ hpc[h] \in {"urlread", "tokenread"}
    /\ bound[h] = NoLogin
    /\ \E m \in Terminal(h) :
        /\ alive[m] /\ unread[m] = ""
        /\ bound' = [bound EXCEPT ![h] = m]
    /\ Meet(h)
    /\ UNCHANGED <<spawned, process, isOpen, table, expired, hpc, hinst, hlogin,
                   caught, secret, overlapped>>

\* It returns text that does not match; the loop goes on.
ReadOther(h) ==
    /\ hpc[h] \in {"urlread", "tokenread"}
    /\ \E m \in Terminal(h) :
        /\ unread[m] = IF hpc[h] = "urlread" THEN "token" ELSE "url"
        /\ unread' = [unread EXCEPT ![m] = ""]
    /\ Goto(h, IF hpc[h] = "urlread" THEN "url" ELSE "token")
    /\ Meet(h)
    /\ UNCHANGED <<spawned, owner, fd, alive, stage, isOpen, table, expired, secret,
                   overlapped>>

\* It returns after the deadline, whatever it read, or fails with the process
\* gone or the number closed.
ReadInVain(h) ==
    /\ \/ Terminal(h) = {} /\ UNCHANGED unread
       \/ \E m \in Terminal(h) :
            /\ unread[m] # "" \/ ~alive[m]
            /\ unread' = [unread EXCEPT ![m] = ""]
    /\ Meet(h)
-----------------------------------------------------------------------------
(* start.                                                                  *)

Launching == {"spawn", "url", "urlread"}

\* A start for i begins while another one for it is under way.
Overlap(i) ==
    overlapped' = overlapped \cup
        IF \E g \in Handlers : hpc[g] \in Launching /\ hinst[g] = i
        THEN {i} ELSE {}

\* Mutant: the logins already pending are left alone.
StartBeside(h, i) ==
    /\ hpc[h] = "idle"
    /\ spawned < MaxLogins
    /\ hpc' = [hpc EXCEPT ![h] = "spawn"]
    /\ hinst' = [hinst EXCEPT ![h] = i]
    /\ Overlap(i)
    /\ Discard(Expired)
    /\ UNCHANGED <<spawned, owner, fd, stage, unread, hlogin, caught, bound, secret,
                   crossed>>

\* "One pending login per instance: replace any stale session."
Start(h, i) ==
    /\ hpc[h] = "idle"
    /\ spawned < MaxLogins
    /\ hpc' = [hpc EXCEPT ![h] = "spawn"]
    /\ hinst' = [hinst EXCEPT ![h] = i]
    /\ Overlap(i)
    /\ Discard(Expired \cup {l \in table : owner[l] = i})
    /\ UNCHANGED <<spawned, owner, fd, stage, unread, hlogin, caught, bound, secret,
                   crossed>>

\* The kernel's number: the lowest one free, among files that come and go.
OpenPty(l, n) ==
    /\ l = spawned + 1 /\ spawned < MaxLogins
    /\ n \in FreeFds
    /\ spawned' = l
    /\ fd' = [fd EXCEPT ![l] = n]
    /\ isOpen' = [isOpen EXCEPT ![l] = TRUE]

\* openpty and Popen; the login is not yet in the table.
Spawn(h) ==
    /\ hpc[h] = "spawn"
    /\ \E l \in Logins, n \in Fds :
        /\ OpenPty(l, n)
        /\ owner' = [owner EXCEPT ![l] = hinst[h]]
        /\ alive' = [alive EXCEPT ![l] = TRUE]
        /\ hlogin' = [hlogin EXCEPT ![h] = l]
    /\ hpc' = [hpc EXCEPT ![h] = "url"]
    /\ UNCHANGED <<stage, unread, table, expired, hinst, caught, bound, secret, history>>

\* There is no such program; both ends are closed again.  Or there was no
\* terminal to open, or the engine has no such login.
NoProgram(h) ==
    /\ hpc[h] = "spawn"
    /\ Return(h)
    /\ UNCHANGED <<spawned, process, isOpen, table, expired, secret, history>>

\* Popen fails otherwise (a program that may not be run, no memory, no process
\* left): nobody closes the terminal.
SpawnFails(h) ==
    /\ hpc[h] = "spawn"
    /\ \E l \in Logins, n \in Fds :
        /\ OpenPty(l, n)
        /\ stage' = [stage EXCEPT ![l] = "failed"]
    /\ Return(h)
    /\ UNCHANGED <<owner, alive, unread, table, expired, secret, history>>

\* _drain found the URL: the login is put in the table and the URL returned.
GotUrl(h) ==
    /\ hpc[h] = "urlread"
    /\ \E m \in Terminal(h) :
        /\ unread[m] = "url"
        /\ unread' = [unread EXCEPT ![m] = ""]
    /\ table' = table \cup {hlogin[h]}
    /\ Return(h)
    /\ Meet(h)
    /\ UNCHANGED <<spawned, owner, fd, alive, stage, isOpen, expired, secret, overlapped>>

\* The deadline passed, or the process ended, without one.
NoUrl(h) ==
    /\ \/ hpc[h] = "url" /\ UNCHANGED <<unread, crossed>>
       \/ hpc[h] = "urlread" /\ ReadInVain(h)
    /\ Kill({hlogin[h]})
    /\ Return(h)
    /\ UNCHANGED <<spawned, owner, fd, stage, table, expired, secret, overlapped>>
-----------------------------------------------------------------------------
(* code: submit_code, then the secret.                                     *)

\* The login the request names, whatever instance it names; LoginError when
\* that login is gone.
Submit(h, i, l) ==
    /\ hpc[h] = "idle"
    /\ l \in table
    /\ Discard(Expired)
    /\ IF l \in Expired
       THEN UNCHANGED handler
       ELSE /\ hpc' = [hpc EXCEPT ![h] = "code"]
            /\ hinst' = [hinst EXCEPT ![h] = i]
            /\ hlogin' = [hlogin EXCEPT ![h] = l]
            /\ UNCHANGED <<caught, bound>>
    /\ UNCHANGED <<spawned, owner, fd, stage, unread, secret, history>>

\* The code and the carriage return are written to the number, wherever it
\* leads by now; with nothing there the login is given up.
WriteCode(h) ==
    /\ hpc[h] = "code"
    /\ LET n == fd[hlogin[h]] IN
       \/ /\ \E m \in At(n) :
                stage' = [stage EXCEPT ![m] =
                    IF stage[m] = "code" /\ alive[m] /\ m = hlogin[h]
                    THEN "checking" ELSE @]
          /\ Goto(h, "token")
       \/ /\ At(n) = {}
          /\ Goto(h, "close")
          /\ UNCHANGED stage
    /\ UNCHANGED <<spawned, owner, fd, alive, unread, isOpen, table, expired,
                   secret, history>>

\* _drain found a token: of whatever login's terminal the read was on.
ReadToken(h) ==
    /\ hpc[h] = "tokenread"
    /\ \E m \in Terminal(h) :
        /\ unread[m] = "token"
        /\ unread' = [unread EXCEPT ![m] = ""]
        /\ caught' = [caught EXCEPT ![h] = m]
    /\ hpc' = [hpc EXCEPT ![h] = "close"]
    /\ bound' = [bound EXCEPT ![h] = NoLogin]
    /\ Meet(h)
    /\ UNCHANGED <<spawned, owner, fd, alive, stage, isOpen, table, expired,
                   hinst, hlogin, secret, overlapped>>

\* Mutant: only the end of the process ends the wait.
NoTokenNoDeadline(h) ==
    /\ \/ hpc[h] = "token" /\ ~alive[hlogin[h]] /\ UNCHANGED <<unread, crossed>>
       \/ hpc[h] = "tokenread" /\ ReadInVain(h)
    /\ Goto(h, "close")
    /\ UNCHANGED <<spawned, owner, fd, alive, stage, isOpen, table, expired, secret,
                   overlapped>>

\* The deadline passed, the process ended or the number was closed without one.
NoToken(h) ==
    /\ \/ hpc[h] = "token" /\ UNCHANGED <<unread, crossed>>
       \/ hpc[h] = "tokenread" /\ ReadInVain(h)
    /\ Goto(h, "close")
    /\ UNCHANGED <<spawned, owner, fd, alive, stage, isOpen, table, expired, secret,
                   overlapped>>

\* The login is over, whoever ended it; a token goes on to the secrets.
Close(h) ==
    /\ hpc[h] = "close"
    /\ Discard({hlogin[h]})
    /\ IF caught[h] = NoLogin THEN Return(h) ELSE Goto(h, "store")
    /\ UNCHANGED <<spawned, owner, fd, stage, unread, secret, history>>

StoreToken(h) ==
    /\ hpc[h] = "store"
    /\ secret' = [secret EXCEPT ![hinst[h]] = caught[h]]
    /\ Return(h)
    /\ UNCHANGED <<spawned, process, isOpen, table, expired, history>>

\* DELETE engine-auth; a login that is pending stays pending.
Logout(i) ==
    /\ secret[i] # NoLogin
    /\ secret' = [secret EXCEPT ![i] = NoLogin]
    /\ UNCHANGED <<spawned, process, isOpen, table, expired, handler, history>>
-----------------------------------------------------------------------------
(* The engine's login and the clock.                                       *)

Prints(l) ==
    /\ alive[l]
    /\ unread[l] = ""
    /\ \/ /\ stage[l] = "starting"
          /\ stage' = [stage EXCEPT ![l] = "code"]
          /\ unread' = [unread EXCEPT ![l] = "url"]
       \/ /\ stage[l] = "checking"
          /\ stage' = [stage EXCEPT ![l] = "done"]
          /\ unread' = [unread EXCEPT ![l] = "token"]
    /\ UNCHANGED <<spawned, owner, fd, alive, isOpen, table, expired, handler,
                   secret, history>>

\* It ends on its own, with or without having done its work.
Dies(l) ==
    /\ alive[l]
    /\ alive' = [alive EXCEPT ![l] = FALSE]
    /\ UNCHANGED <<spawned, owner, fd, stage, unread, isOpen, table, expired,
                   handler, secret, history>>

\* Five minutes passed since it was put in the table.
Expires(l) ==
    /\ l \in table \ expired
    /\ expired' = expired \cup {l}
    /\ UNCHANGED <<spawned, process, isOpen, table, handler, secret, history>>
-----------------------------------------------------------------------------
Proceed(h) ==
    \/ Spawn(h) \/ NoProgram(h) \/ SpawnFails(h) \/ GotUrl(h) \/ NoUrl(h)
    \/ Ready(h) \/ Block(h) \/ ReadOther(h)
    \/ WriteCode(h) \/ ReadToken(h) \/ NoToken(h) \/ Close(h) \/ StoreToken(h)

Next ==
    \/ \E h \in Handlers :
        \/ \E i \in Instances : Start(h, i)
        \/ \E i \in Instances, l \in Logins : Submit(h, i, l)
        \/ Proceed(h)
    \/ \E i \in Instances : Logout(i)
    \/ \E l \in Logins : Prints(l) \/ Dies(l) \/ Expires(l)

Spec == Init /\ [][Next]_vars

\* The threads run, and every wait of a handler but a blocked read has a
\* deadline; nobody has to send a request, and no login to print or end.
FairSpec == Spec /\ \A h \in Handlers : WF_vars(Proceed(h))
-----------------------------------------------------------------------------
(* Properties.                                                             *)

LoginTypeOK ==
    /\ spawned \in 0..MaxLogins
    /\ owner \in [Logins -> Instances]
    /\ fd \in [Logins -> Fds]
    /\ isOpen \in [Logins -> BOOLEAN]
    /\ alive \in [Logins -> BOOLEAN]
    /\ stage \in [Logins -> Stage]
    /\ unread \in [Logins -> Text]
    /\ expired \subseteq table /\ table \subseteq 1..spawned
    /\ hpc \in [Handlers -> HPC]
    /\ hinst \in [Handlers -> Instances]
    /\ hlogin \in [Handlers -> Logins \cup {NoLogin}]
    /\ caught \in [Handlers -> Logins \cup {NoLogin}]
    /\ secret \in [Instances -> Logins \cup {NoLogin}]
    /\ bound \in [Handlers -> Logins \cup {NoLogin}]
    /\ overlapped \subseteq Instances
    /\ crossed \subseteq Logins \cup {NoLogin}

Starting(l) == \E h \in Handlers : hpc[h] \in {"url", "urlread"} /\ hlogin[h] = l

\* However starts, codes and expiries overlap, a terminal is open exactly
\* while its login is in the table, from where the next request reaps it, or
\* in the hands of the start that spawned it, although a number may lead to
\* another login by the time it is closed; and no process outlives its
\* terminal.  The one terminal nobody closes is that of a Popen that failed
\* for another reason than a missing program (engine_login.py:167-174).
NoLeakedLogin ==
    \A l \in Logins :
        /\ isOpen[l] <=> l \in table \/ Starting(l) \/ stage[l] = "failed"
        /\ alive[l] => isOpen[l]

\* "One pending login per instance: replace any stale session"
\* (engine_login.py:155) holds for starts that do not overlap, whatever
\* codes and expiries come between them.
OnePendingUnlessOverlap ==
    \A i \in Instances \ overlapped :
        Cardinality({l \in table : owner[l] = i}) <= 1

\* Every request is answered, a reader that lost a race for the text
\* included: it blocks past its deadline, until a request of the same login
\* ends it.  Only requests of two logins that met on one reused number may
\* block each other for good.
RequestsEnd ==
    \A h \in Handlers : hpc[h] # "idle" ~> hpc[h] = "idle" \/ hlogin[h] \in crossed
-----------------------------------------------------------------------------
(* What the code says of itself, which overlapping requests break.         *)

\* "Read from master_fd until until matches, the process exits, or the
\* deadline passes" (engine_login.py:101-102).
ReadsEnd ==
    \A h \in Handlers :
        hpc[h] \in {"urlread", "tokenread"} ~> hpc[h] \notin {"urlread", "tokenread"}

\* "One pending login per instance: replace any stale session"
\* (engine_login.py:155).
OnePending ==
    \A i \in Instances : Cardinality({l \in table : owner[l] = i}) <= 1

\* A token is stored for the instance whose login it is ("an operator can
\* connect a subscription ... the caller stores it as the instance secret",
\* engine_login.py:3-7).
TokenOfOwnLogin ==
    \A i \in Instances : secret[i] # NoLogin => owner[secret[i]] = i
=============================================================================
