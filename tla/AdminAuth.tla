----------------------------- MODULE AdminAuth ------------------------------
(***************************************************************************)
(* Who may use the management API.  Requests are admitted by threads of    *)
(* the server's pool (require_admin): a short-lived signed token with an   *)
(* id that may be used once, or the cookie of a login session.  Logins and *)
(* password recovery run in the server's event loop, which nothing in this *)
(* process interrupts; the commands "agenthook admin" run in processes of  *)
(* their own.  Every request loads config.yaml, which holds the signing    *)
(* secret, and PATCH /config rewrites it.  The server may be restarted at  *)
(* any point, and the clock it reads is the wall clock, which may be set   *)
(* back.                                                                   *)
(***************************************************************************)
EXTENDS Naturals, FiniteSets

CONSTANTS
    Threads,       \* threads that serve /admin
    Jwts,          \* signed tokens clients hold, each with its own id (jti)
    Exp,           \* when each expires
    MaxTtl,        \* _JWT_MAX_TTL_S
    Idle,          \* admin_session_idle_min
    ResetTtl,      \* ttl_seconds of a reset token
    MaxSessions,   \* bound: sessions created
    MaxPasswords,  \* bound: passwords set
    MaxClock,      \* bound: the last tick of the clock
    NoJwt          \* no token

ASSUME AuthAssumption ==
    /\ Exp \in [Jwts -> Nat]
    /\ {MaxTtl, Idle, ResetTtl, MaxSessions, MaxPasswords, MaxClock} \subseteq Nat
    /\ NoJwt \notin Jwts

SessionIds == 1..MaxSessions

VARIABLES
    clock,     \* time.time(), in ticks
    config,    \* config.yaml: "set", "empty" while truncated, "reset"
    seen,      \* _SEEN_JTI
    sessions,  \* rows of admin_sessions, by id
    made,      \* sessions created so far
    password,  \* which password the user has; 0 when there is no such user
    chosen,    \* passwords set so far
    reset,     \* when the reset token that was mailed expires; 0: none
    pc,        \* where each thread is in its request
    jwt,       \* the token it is admitting
    now,       \* the clock it read
    saved,     \* the config.yaml it is going to write
    ui,        \* the event loop: "idle", "create", "set" or "revoke"
    uiPass,    \* the password its login checked
    cli,       \* an admin command: "idle" or "revoke"
    admitted,  \* history: times a token was accepted unexpired, two at most
    crossed,   \* history: sessions of a password replaced during the login
    gone,      \* history: passwords of a user that was deleted
    forgotten, \* history: tokens whose id was forgotten before their time
    cut        \* history: a reset died before it revoked; none has since

requests == <<pc, jwt, now, saved>>
history == <<admitted, crossed, gone, forgotten, cut>>
accounts == <<sessions, made, password, chosen, reset>>
vars == <<clock, config, seen, accounts, requests, ui, uiPass, cli, history>>

NoSession == [password |-> 0, expires |-> 0]
PC == {"idle", "generate", "auth", "fresh", "handle", "regenerate",
       "truncate", "write"}

Init ==
    /\ clock = 0
    /\ config = "set"
    /\ seen = {}
    /\ sessions = [s \in SessionIds |-> NoSession]
    /\ made = 0
    /\ password = 1
    /\ chosen = 1
    /\ reset = 0
    /\ pc = [t \in Threads |-> "idle"]
    /\ jwt = [t \in Threads |-> NoJwt]
    /\ now = [t \in Threads |-> 0]
    /\ saved = [t \in Threads |-> "set"]
    /\ ui = "idle"
    /\ uiPass = 0
    /\ cli = "idle"
    /\ admitted = [j \in Jwts |-> 0]
    /\ crossed = {}
    /\ gone = {}
    /\ forgotten = {}
    /\ cut = FALSE
-----------------------------------------------------------------------------
(* Requests.                                                               *)

Goto(t, next) == pc' = [pc EXCEPT ![t] = next]

Return(t) ==
    /\ Goto(t, "idle")
    /\ saved' = [saved EXCEPT ![t] = "set"]

\* load_config, for the gate and again for the secret: a file that has no
\* secrets is taken for a new one.
LoadConfig(t) ==
    /\ \/ /\ pc[t] = "idle"
          /\ Goto(t, IF config = "empty" THEN "generate" ELSE "auth")
       \/ /\ pc[t] = "auth"
          /\ config = "empty"
          /\ Goto(t, "generate")
    /\ UNCHANGED <<clock, config, seen, accounts, jwt, now, saved, ui, uiPass,
                   cli, history>>

\* New secrets are generated and saved, with defaults for everything else.
GenerateConfig(t) ==
    /\ config' = "reset"
    /\ \/ /\ pc[t] = "generate"
          /\ Goto(t, "auth")
          /\ UNCHANGED saved
       \/ /\ pc[t] = "regenerate"
          /\ saved' = [saved EXCEPT ![t] = "reset"]
          /\ Goto(t, "truncate")
    /\ UNCHANGED <<clock, seen, accounts, jwt, now, ui, uiPass, cli, history>>

\* 403 or 401: the network gate, or no credential that is valid.
Refuse(t) ==
    /\ pc[t] = "auth"
    /\ Return(t)
    /\ UNCHANGED <<clock, config, seen, accounts, jwt, now, ui, uiPass, cli,
                   history>>

\* _verify_hs256: signed with the secret of the moment, not expired, and
\* not for longer than the cap.  The clock is read once, here.
VerifyJwt(t, j) ==
    /\ pc[t] = "auth"
    /\ config = "set"
    /\ Exp[j] > clock /\ Exp[j] - clock <= MaxTtl
    /\ Goto(t, "fresh")
    /\ jwt' = [jwt EXCEPT ![t] = j]
    /\ now' = [now EXCEPT ![t] = clock]
    /\ UNCHANGED <<clock, config, seen, accounts, saved, ui, uiPass, cli,
                   history>>

\* Mutant: ids are recorded, and forgotten a tick before their expiry.
FreshJtiForgets(t) ==
    /\ pc[t] = "fresh"
    /\ LET kept == {j \in seen : Exp[j] > now[t] + 1} IN
       /\ seen' = kept \cup {jwt[t]}
       /\ Goto(t, IF jwt[t] \in kept THEN "auth" ELSE "handle")
       /\ jwt' = [jwt EXCEPT ![t] = NoJwt]
       /\ now' = [now EXCEPT ![t] = 0]
       /\ admitted' = [admitted EXCEPT ![jwt[t]] =
            IF jwt[t] \notin kept /\ clock < Exp[jwt[t]] /\ @ < 2
            THEN @ + 1 ELSE @]
    /\ UNCHANGED <<clock, config, accounts, saved, ui, uiPass, cli, crossed,
                   gone, forgotten, cut>>

\* _jti_fresh, under its lock: what has expired by the clock this thread
\* read is forgotten, then the id is looked up and recorded.  A replay may
\* still be admitted by its cookie.
FreshJti(t) ==
    /\ pc[t] = "fresh"
    /\ LET kept == {j \in seen : Exp[j] > now[t]} IN
       /\ seen' = kept \cup {jwt[t]}
       /\ Goto(t, IF jwt[t] \in kept THEN "auth" ELSE "handle")
       /\ jwt' = [jwt EXCEPT ![t] = NoJwt]
       /\ now' = [now EXCEPT ![t] = 0]
       /\ admitted' = [admitted EXCEPT ![jwt[t]] =
            IF jwt[t] \notin kept /\ clock < Exp[jwt[t]] /\ @ < 2
            THEN @ + 1 ELSE @]
    /\ UNCHANGED <<clock, config, accounts, saved, ui, uiPass, cli, crossed,
                   gone, forgotten, cut>>

\* A session cookie: get deletes the row if it expired, else slides it; an
\* unsafe method also needs the session's CSRF header.
Cookie(t, s) ==
    /\ pc[t] = "auth"
    /\ sessions[s] # NoSession
    /\ \/ /\ sessions[s].expires <= clock
          /\ sessions' = [sessions EXCEPT ![s] = NoSession]
          /\ Return(t)
       \/ /\ sessions[s].expires > clock
          /\ sessions' = [sessions EXCEPT ![s].expires = clock + Idle]
          /\ \/ Goto(t, "handle") /\ UNCHANGED saved
             \/ Return(t)
    /\ UNCHANGED <<clock, config, seen, made, password, chosen, reset, jwt, now,
                   ui, uiPass, cli, history>>

\* The handler.  PATCH /config loads the file, changes its copy and writes
\* it back; the others leave it alone.
Handle(t) ==
    /\ pc[t] = "handle"
    /\ \/ Return(t)
       \/ /\ config = "empty"
          /\ Goto(t, "regenerate")
          /\ UNCHANGED saved
       \/ /\ config # "empty"
          /\ saved' = [saved EXCEPT ![t] = config]
          /\ Goto(t, "truncate")
    /\ UNCHANGED <<clock, config, seen, accounts, jwt, now, ui, uiPass, cli, history>>

TruncateConfig(t) ==
    /\ pc[t] = "truncate"
    /\ config' = "empty"
    /\ Goto(t, "write")
    /\ UNCHANGED <<clock, seen, accounts, jwt, now, saved, ui, uiPass, cli,
                   history>>

WriteConfig(t) ==
    /\ pc[t] = "write"
    /\ config' = saved[t]
    /\ Return(t)
    /\ UNCHANGED <<clock, seen, accounts, jwt, now, ui, uiPass, cli, history>>
-----------------------------------------------------------------------------
(* The event loop: /ui/login, /ui/logout, /ui/session, /ui/recover.        *)

\* authenticate: the password of the moment.  The session is created after
\* that, and a command in another process may come in between.
CheckLogin ==
    /\ ui = "idle"
    /\ password # 0 /\ made < MaxSessions
    /\ ui' = "create"
    /\ uiPass' = password
    /\ UNCHANGED <<clock, config, seen, accounts, requests, cli, history>>

\* Mutant: the session is not counted.
CreateSessionUncounted ==
    /\ ui = "create"
    /\ sessions' = [sessions EXCEPT ![made + 1] =
            [password |-> uiPass, expires |-> clock + Idle]]
    /\ ui' = "idle"
    /\ uiPass' = 0
    /\ UNCHANGED <<clock, config, seen, made, password, chosen, reset, requests,
                   cli, history>>

CreateSession ==
    /\ ui = "create"
    /\ made' = made + 1
    /\ sessions' = [sessions EXCEPT ![made + 1] =
            [password |-> uiPass, expires |-> clock + Idle]]
    /\ crossed' = IF uiPass = password THEN crossed ELSE crossed \cup {made + 1}
    /\ ui' = "idle"
    /\ uiPass' = 0
    /\ UNCHANGED <<clock, config, seen, password, chosen, reset, requests, cli,
                   admitted, gone, forgotten, cut>>

UiLogout(s) ==
    /\ ui = "idle"
    /\ sessions[s] # NoSession
    /\ sessions' = [sessions EXCEPT ![s] = NoSession]
    /\ UNCHANGED <<clock, config, seen, made, password, chosen, reset, requests,
                   ui, uiPass, cli, history>>

\* The page asks whether its session still holds, which keeps it alive.
UiSession(s) ==
    /\ ui = "idle"
    /\ sessions[s] # NoSession
    /\ sessions' = [sessions EXCEPT ![s] =
            IF @.expires <= clock THEN NoSession
            ELSE [@ EXCEPT !.expires = clock + Idle]]
    /\ UNCHANGED <<clock, config, seen, made, password, chosen, reset, requests,
                   ui, uiPass, cli, history>>

\* Recover mails a token; recover/confirm consumes it, sets the password and
\* revokes the sessions.
UiRecover ==
    /\ ui = "idle"
    /\ password # 0 /\ chosen < MaxPasswords
    /\ reset' = clock + ResetTtl
    /\ UNCHANGED <<clock, config, seen, sessions, made, password, chosen,
                   requests, ui, uiPass, cli, history>>

ConsumeToken ==
    /\ ui = "idle"
    /\ reset # 0
    /\ reset' = 0
    /\ ui' = IF reset > clock THEN "set" ELSE "idle"
    /\ UNCHANGED <<clock, config, seen, sessions, made, password, chosen,
                   requests, uiPass, cli, history>>

\* set_password raises when the user is gone.
SetPassword(who, next) ==
    IF password = 0 THEN who' = "idle" /\ UNCHANGED <<password, chosen>>
    ELSE /\ password' = chosen + 1
         /\ chosen' = chosen + 1
         /\ who' = next

RecoverConfirm ==
    /\ ui = "set"
    /\ SetPassword(ui, "revoke")
    /\ UNCHANGED <<clock, config, seen, sessions, made, reset, requests, uiPass,
                   cli, history>>

\* Mutant: only the sessions that have expired are revoked.
RevokeExpired ==
    [s \in SessionIds |->
        IF sessions[s].expires <= clock THEN NoSession ELSE sessions[s]]

\* delete_for_user.
RevokeAll == [s \in SessionIds |-> NoSession]

UiRevoke ==
    /\ ui = "revoke"
    /\ sessions' = RevokeAll
    /\ cut' = FALSE
    /\ ui' = "idle"
    /\ UNCHANGED <<clock, config, seen, made, password, chosen, reset, requests,
                   uiPass, cli, admitted, crossed, gone, forgotten>>

\* The handler raises (a write that finds the database locked).  What it has
\* done, a token consumed or a password set, stays done.
UiFails ==
    /\ ui # "idle"
    /\ ui' = "idle"
    /\ uiPass' = 0
    /\ cut' = (cut \/ ui = "revoke")
    /\ UNCHANGED <<clock, config, seen, accounts, requests, cli, admitted, crossed,
                   gone, forgotten>>
-----------------------------------------------------------------------------
(* agenthook admin: reset-password, create-user, delete-user.              *)

CliResetPassword ==
    /\ cli = "idle"
    /\ password # 0 /\ chosen < MaxPasswords
    /\ SetPassword(cli, "revoke")
    /\ UNCHANGED <<clock, config, seen, sessions, made, reset, requests, ui,
                   uiPass, history>>

CliRevoke ==
    /\ cli = "revoke"
    /\ sessions' = RevokeAll
    /\ cut' = FALSE
    /\ cli' = "idle"
    /\ UNCHANGED <<clock, config, seen, made, password, chosen, reset, requests,
                   ui, uiPass, admitted, crossed, gone, forgotten>>

\* The command is killed, or its second transaction fails.
CliDies ==
    /\ cli = "revoke"
    /\ cli' = "idle"
    /\ cut' = TRUE
    /\ UNCHANGED <<clock, config, seen, accounts, requests, ui, uiPass, admitted,
                   crossed, gone, forgotten>>

CliCreateUser ==
    /\ cli = "idle"
    /\ password = 0 /\ chosen < MaxPasswords
    /\ password' = chosen + 1
    /\ chosen' = chosen + 1
    /\ UNCHANGED <<clock, config, seen, sessions, made, reset, requests, ui,
                   uiPass, cli, history>>

\* The row of the user only: its sessions and reset tokens stay.
CliDeleteUser ==
    /\ cli = "idle"
    /\ password # 0
    /\ password' = 0
    /\ gone' = gone \cup {password}
    /\ UNCHANGED <<clock, config, seen, sessions, made, chosen, reset, requests,
                   ui, uiPass, cli, admitted, crossed, forgotten, cut>>

-----------------------------------------------------------------------------
(* The clock, and the process.                                             *)

Tick ==
    /\ clock < MaxClock
    /\ clock' = clock + 1
    /\ UNCHANGED <<config, seen, accounts, requests, ui, uiPass, cli, history>>

\* The wall clock is set back: tokens that had expired are valid again, and
\* the ids of some are no longer known.
SetBack ==
    /\ clock > 0
    /\ clock' = clock - 1
    /\ forgotten' = forgotten \cup {j \in Jwts : clock - 1 < Exp[j] /\ Exp[j] <= clock}
    /\ UNCHANGED <<config, seen, accounts, requests, ui, uiPass, cli, admitted,
                   crossed, gone, cut>>

\* The server dies and starts again.  The table of ids is memory; files and
\* rows are as its threads left them.
Restart ==
    /\ seen' = {}
    /\ pc' = [t \in Threads |-> "idle"]
    /\ jwt' = [t \in Threads |-> NoJwt]
    /\ now' = [t \in Threads |-> 0]
    /\ saved' = [t \in Threads |-> "set"]
    /\ ui' = "idle"
    /\ uiPass' = 0
    /\ forgotten' = forgotten \cup {j \in seen : clock < Exp[j]}
    /\ cut' = (cut \/ ui = "revoke")
    /\ UNCHANGED <<clock, config, accounts, cli, admitted, crossed, gone>>
-----------------------------------------------------------------------------
Next ==
    \/ \E t \in Threads :
        \/ LoadConfig(t) \/ GenerateConfig(t) \/ Refuse(t)
        \/ \E j \in Jwts : VerifyJwt(t, j)
        \/ FreshJti(t)
        \/ \E s \in SessionIds : Cookie(t, s)
        \/ Handle(t) \/ TruncateConfig(t) \/ WriteConfig(t)
    \/ CheckLogin \/ CreateSession \/ UiRecover \/ ConsumeToken
    \/ RecoverConfirm \/ UiRevoke \/ UiFails
    \/ \E s \in SessionIds : UiLogout(s) \/ UiSession(s)
    \/ CliResetPassword \/ CliRevoke \/ CliDies \/ CliCreateUser \/ CliDeleteUser
    \/ Tick \/ SetBack \/ Restart

Spec == Init /\ [][Next]_vars
-----------------------------------------------------------------------------
(* Properties.                                                             *)

AdminTypeOK ==
    /\ clock \in 0..MaxClock
    /\ config \in {"set", "empty", "reset"}
    /\ seen \subseteq Jwts
    /\ sessions \in [SessionIds -> [password : 0..chosen, expires : Nat]]
    /\ made \in 0..MaxSessions
    /\ \A s \in SessionIds : s > made => sessions[s] = NoSession
    /\ password \in 0..chosen
    /\ chosen \in Nat
    /\ reset \in Nat
    /\ pc \in [Threads -> PC]
    /\ jwt \in [Threads -> Jwts \cup {NoJwt}]
    /\ \A t \in Threads : pc[t] = "fresh" => jwt[t] \in Jwts
    /\ now \in [Threads -> 0..MaxClock]
    /\ saved \in [Threads -> {"set", "reset"}]
    /\ ui \in {"idle", "create", "set", "revoke"}
    /\ uiPass \in 0..chosen
    /\ cli \in {"idle", "revoke"}
    /\ admitted \in [Jwts -> Nat]
    /\ crossed \subseteq SessionIds
    /\ gone \subseteq 0..chosen
    /\ forgotten \subseteq Jwts
    /\ cut \in BOOLEAN

\* However the threads that verify a token, and those that forget the
\* expired ids, overlap, and however old the clock they read is, it is
\* accepted at most once while it is valid: "Seen jti -> exp, for anti-replay
\* ... entries live only until the token they belong to would have expired
\* anyway" (admin_auth.py:51-52).  The table is memory and goes by the wall
\* clock, so this holds of the tokens for which neither a restart within
\* their life nor a clock set back over their expiry has come between.
AcceptedOnce == \A j \in Jwts \ forgotten : admitted[j] <= 1

\* "Revoke every session of a user (e.g. after a password reset)"
\* (admin_sessions.py:75): once no reset is under way, no session opened with
\* a password that a reset replaced is left, except one whose login checked
\* it just before a command in another process replaced it.  The password
\* and the sessions are two transactions: after a reset that died between
\* them the old sessions live on, until another reset revokes them.
\* (Deleting a user revokes nothing.)
ResetRevokes ==
    ui \in {"idle", "create"} /\ cli = "idle" /\ ~cut =>
        \A s \in SessionIds \ crossed :
            sessions[s].password \in {0, password} \cup gone
-----------------------------------------------------------------------------
(* What the code says of itself, which overlapping requests break.         *)

\* "auto-generated if empty" (config.py:52): the secret that signs, and with
\* it the operator's settings, are generated only for a file without one.
SettingsKept == config # "reset"
=============================================================================
