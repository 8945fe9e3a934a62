--------------------------- MODULE InstanceConfig ---------------------------
(***************************************************************************)
(* The files of one instance name: instance.yaml, instance.key, env.enc    *)
(* and the isolated login under auth/<name>.  Handlers of the admin API    *)
(* (threads of the server), commands of the CLI, pages of the TUI and the  *)
(* circuit breaker edit them without a lock: each loads the whole file,    *)
(* changes its copy and writes the copy back, which truncates the file     *)
(* first.  An editor here is one such thread or process; a step ends where *)
(* another one can come between two accesses to the files.                 *)
(***************************************************************************)
EXTENDS Naturals, FiniteSets

CONSTANTS
    Editors,      \* threads and processes that run commands on the name
    Repos,        \* repositories a command may name
    LegacyRepo,   \* the one an old file names in "repo" instead of "repos"
    Headers,      \* required request headers, each backed by a secret
    Skills,       \* entries of a map-valued block: skills, templates
    Settings,     \* values of a whole-value block: model, verify, mcp, ...
    Default,      \* the one a new instance has
    Token,        \* the secret of the engine's headless login
    NoFile,       \* instance.yaml is not there
    Empty,        \* it is truncated and not yet written
    Torn,         \* two texts overlap in it and it does not parse
    MaxCommands   \* bound: commands issued in a behaviour

ASSUME ConfigAssumption ==
    /\ LegacyRepo \in Repos
    /\ Default \in Settings
    /\ Token \notin Headers
    /\ Cardinality({NoFile, Empty, Torn}) = 3
    /\ MaxCommands \in Nat

VARIABLES
    file,     \* instance.yaml: NoFile, Empty, Torn or a content
    key,      \* instance.key: 0 when there is none, else which key
    env,      \* env.enc: the key it is encrypted with, the names it holds
    account,  \* whether auth/<name> holds an engine login
    dir,      \* whether the directory of the instance is there
    keys,     \* keys generated so far
    used,     \* commands issued so far
    pc,       \* where each editor is in its command
    op,       \* what kind of command it runs
    copy,     \* the content it is going to write
    arg,      \* the secret it is going to change
    names,    \* the secrets it loaded
    cipher,   \* the key it encrypted them with
    linked,   \* whether the file it opened is still in the directory
    left,     \* the files its deletion still has to remove
    served,   \* what the server last loaded for a request or a job
    everOpen, \* history: a content without required headers was written
    spoilt,   \* history: a store, a key or a deletion met another or died
              \* half-way, since the directory was last removed whole
    tripped   \* history: the breaker paused it and nobody resumed it since

files == <<file, key, env, account, dir, keys>>
work == <<op, copy, arg, names, cipher, linked, left>>
editors == <<pc, work>>
past == <<everOpen, spoilt, tripped>>
vars == <<files, editors, used, served, past>>

Rules == {"extra", "force_read_only"}
Secrets == Headers \cup {Token}

Content == [paused : BOOLEAN, keyed : BOOLEAN, legacy : BOOLEAN,
            repos : SUBSET Repos, headers : SUBSET Headers,
            skills : SUBSET Skills, rules : SUBSET Rules, setting : Settings]

Fresh == [paused |-> FALSE, keyed |-> FALSE, legacy |-> FALSE, repos |-> {},
          headers |-> {}, skills |-> {}, rules |-> {}, setting |-> Default]

\* What is no document is no content.
ASSUME ContentAssumption == {NoFile, Empty, Torn} \cap Content = {}

\* env.enc is absent, truncated, whole, or two texts overlap in it.
Env == [text : {"none", "empty", "whole", "mixed"}, by : 0..keys,
        names : SUBSET Secrets]
NoEnv == [text |-> "none", by |-> 0, names |-> {}]
EnvBy(k, N) == [text |-> "whole", by |-> k, names |-> N]

Files == {"instance.yaml", "instance.key", "env.enc"}
PC == {"idle", "set", "unset", "store", "open", "env", "save", "write", "key", "newkey",
       "rmtree", "wipe"}
Op == {"edit", "create", "apply", "break", "resume"}

\* No instance, or one in use whose webhook asks for every header.
Init ==
    /\ \/ file = NoFile /\ key = 0 /\ env = NoEnv
       \/ /\ \E old \in BOOLEAN :
                file = [Fresh EXCEPT !.keyed = TRUE, !.headers = Headers,
                                     !.legacy = old]
          /\ key = 1
          /\ env = EnvBy(1, Headers)
    /\ keys = key
    /\ account = FALSE
    /\ dir = (file # NoFile)
    /\ used = 0
    /\ pc = [p \in Editors |-> "idle"]
    /\ op = [p \in Editors |-> "edit"]
    /\ copy = [p \in Editors |-> NoFile]
    /\ arg = [p \in Editors |-> Token]
    /\ names = [p \in Editors |-> {}]
    /\ cipher = [p \in Editors |-> 0]
    /\ linked = [p \in Editors |-> FALSE]
    /\ left = [p \in Editors |-> {}]
    /\ served = NoFile
    /\ everOpen = (file # NoFile /\ file.headers = {})
    /\ spoilt = FALSE
    /\ tripped = FALSE
-----------------------------------------------------------------------------
(* Loading.                                                                *)

\* Mutant: an empty document loads as an instance of defaults.
LoadsDefaults == IF file \in Content THEN {file}
                 ELSE IF file = Empty THEN {Fresh} ELSE {}

\* load: what reading the file now can return; nothing when it raises, as it
\* does for an empty document, which lacks the name from_dict requires.
Loads == IF file \in Content THEN {file} ELSE {}

\* exists: the file is there, whatever it holds.
Exists == file # NoFile

\* resolved_repos: the pool, or else the old single repository.
Pool(c) == IF c.repos # {} \/ ~c.legacy THEN c.repos ELSE {LegacyRepo}

\* LocalEncryptedBackend._load fails unless the text is whole and the key is
\* the one that was used.
Readable == env.text = "none" \/ (env.text = "whole" /\ env.by = key)

Idle(p) == pc[p] = "idle" /\ used < MaxCommands

\* An editor goes on to its next step; at the end it keeps nothing.
Goto(p, next) ==
    /\ pc' = [pc EXCEPT ![p] = next]
    /\ UNCHANGED work

Return(p) ==
    /\ pc' = [pc EXCEPT ![p] = "idle"]
    /\ op' = [op EXCEPT ![p] = "edit"]
    /\ copy' = [copy EXCEPT ![p] = NoFile]
    /\ arg' = [arg EXCEPT ![p] = Token]
    /\ names' = [names EXCEPT ![p] = {}]
    /\ cipher' = [cipher EXCEPT ![p] = 0]
    /\ linked' = [linked EXCEPT ![p] = FALSE]
    /\ left' = [left EXCEPT ![p] = {}]

\* A command starts: its kind, its next step and the copy it will write.
Begin(p, o, next, c) ==
    /\ Idle(p)
    /\ used' = used + 1
    /\ pc' = [pc EXCEPT ![p] = next]
    /\ op' = [op EXCEPT ![p] = o]
    /\ copy' = [copy EXCEPT ![p] = c]
    /\ UNCHANGED <<names, cipher, linked, served, past>>

\* Load the file and prepare one of the contents Change allows.
Edit(p, o, Change(_)) ==
    /\ \E c \in Loads : \E d \in Change(c) : Begin(p, o, "save", d)
    /\ UNCHANGED <<files, arg, left>>
-----------------------------------------------------------------------------
(* Commands that change one part of the copy.  A change that validate or   *)
(* the handler refuses is no content at all.                               *)

PauseInstance(p) == Edit(p, "edit", LAMBDA c : {[c EXCEPT !.paused = TRUE]})

\* A run that fails for want of credentials or quota pauses its instance.
BreakerTrips(p) == Edit(p, "break", LAMBDA c : {[c EXCEPT !.paused = TRUE]})

ResumeInstance(p) == Edit(p, "resume", LAMBDA c : {[c EXCEPT !.paused = FALSE]})

\* Deliverable, engine, model, base branch, login method of the TUI.
ChangeField(p) ==
    Edit(p, "edit", LAMBDA c : {[c EXCEPT !.setting = v] : v \in Settings})

SwitchAuth(p) ==
    Edit(p, "edit", LAMBDA c :
        {[c EXCEPT !.setting = v] : v \in Settings \ {c.setting}})

\* PATCH replaces every field it names, the list of repositories too.
PatchInstance(p) ==
    \E v \in Settings, R \in SUBSET Repos :
        Edit(p, "edit", LAMBDA c : {[c EXCEPT !.setting = v, !.repos = R]})

\* PUT of verify, mcp or context, and the CLI's commands for them.
ReplaceBlock(p) ==
    Edit(p, "edit", LAMBDA c : {[c EXCEPT !.setting = v] : v \in Settings})

\* The CLI adds to the overlay or clears it; the admin API replaces it.
\* Neither can name a rule outside Rules.
SetGuardrails(p) ==
    Edit(p, "edit", LAMBDA c :
        {[c EXCEPT !.rules = c.rules \cup R] : R \in SUBSET Rules}
        \cup {[c EXCEPT !.rules = {}]})

ReplaceGuardrails(p) ==
    Edit(p, "edit", LAMBDA c : {[c EXCEPT !.rules = R] : R \in SUBSET Rules})

PutEntry(p) ==
    Edit(p, "edit", LAMBDA c :
        {[c EXCEPT !.skills = c.skills \cup {s}] : s \in Skills})

\* 404 when it is not there.
DeleteEntry(p) ==
    Edit(p, "edit", LAMBDA c :
        {[c EXCEPT !.skills = c.skills \ {s}] : s \in c.skills})

\* The CLI's removal of an unknown skill complains and saves all the same.
RemoveSkill(p) ==
    Edit(p, "edit", LAMBDA c :
        {[c EXCEPT !.skills = c.skills \ {s}] : s \in Skills})

\* The admin API appends to the list and leaves an old single repository.
AddRepoAdmin(p) ==
    Edit(p, "edit", LAMBDA c :
        {[c EXCEPT !.repos = c.repos \cup {r}] : r \in Repos \ c.repos})

\* The CLI and the TUI move the old repository into the pool first.
AddRepo(p) ==
    Edit(p, "edit", LAMBDA c :
        {[c EXCEPT !.repos = Pool(c) \cup {r}, !.legacy = c.legacy /\ c.repos # {}] :
            r \in Repos \ Pool(c)})

RemoveRepoAdmin(p) ==
    Edit(p, "edit", LAMBDA c :
        {[c EXCEPT !.repos = c.repos \ {r}] : r \in c.repos})

\* The CLI saves also when the pool had no such repository.
RemoveRepo(p) ==
    Edit(p, "edit", LAMBDA c :
        {[c EXCEPT !.repos = c.repos \ {r}] : r \in Repos})

\* The TUI renames, adds or removes; each from the list it showed.
EditRepos(p) ==
    \/ \E s \in Repos : Edit(p, "edit", LAMBDA c :
        {[c EXCEPT !.repos = (Pool(c) \ {r}) \cup {s},
                   !.legacy = c.legacy /\ c.repos # {}] :
            r \in {r \in Pool(c) : s \notin Pool(c) \/ s = LegacyRepo}})
    \/ Edit(p, "edit", LAMBDA c : {[c EXCEPT !.repos = c.repos \ {r}] : r \in Pool(c)})
-----------------------------------------------------------------------------
(* Creation, declarative apply and deletion.                               *)

\* POST /instances and the TUI's wizard refuse a name that exists.
CreateInstance(p) ==
    /\ ~Exists
    /\ Begin(p, "create", "save", Fresh)
    /\ UNCHANGED <<files, arg, left>>

\* "instance add" prints that the name exists, and goes on.
InstanceAdd(p) ==
    /\ Begin(p, "create", "save", Fresh)
    /\ UNCHANGED <<files, arg, left>>

\* apply_file: the declared content replaces an existing one, but for the
\* fingerprint; a name that is not there is created.
ApplyFile(p) ==
    /\ \/ \E c \in Loads, v \in Settings :
            Begin(p, "apply", "save",
                  [Fresh EXCEPT !.keyed = c.keyed, !.setting = v])
       \/ ~Exists /\ Begin(p, "create", "save", Fresh)
    /\ UNCHANGED <<files, arg, left>>

\* What the directory holds.
Present ==
    {f \in Files :
        /\ f = "instance.yaml" => file # NoFile
        /\ f = "instance.key" => key # 0
        /\ f = "env.enc" => env.text # "none"}

\* delete: the directory first (rmtree lists it, and removes what it listed),
\* then what the name has elsewhere.
DeleteInstance(p) ==
    /\ dir
    /\ Begin(p, "edit", "rmtree", NoFile)
    /\ left' = [left EXCEPT ![p] = Present]
    /\ UNCHANGED <<files, arg>>

\* One of the files it listed.  Who has it open writes to no name any more.
RemoveFile(p, f) ==
    /\ pc[p] = "rmtree"
    /\ f \in left[p] \cap Present
    /\ left' = [left EXCEPT ![p] = @ \ {f}]
    /\ file' = IF f = "instance.yaml" THEN NoFile ELSE file
    /\ key' = IF f = "instance.key" THEN 0 ELSE key
    /\ env' = IF f = "env.enc" THEN NoEnv ELSE env
    /\ linked' = [q \in Editors |->
        linked[q] /\ <<pc[q], f>> \notin {<<"write", "instance.yaml">>, <<"env", "env.enc">>}]
    /\ UNCHANGED <<account, dir, keys, pc, op, copy, arg, names, cipher, used, served,
                   past>>

\* A file another deletion removed, or one that was created meanwhile, is an
\* error, and what the name has elsewhere stays.
RemovalFails(p) ==
    /\ pc[p] = "rmtree"
    /\ \/ left[p] \ Present # {}
       \/ left[p] = {} /\ (Present # {} \/ ~dir)
    /\ spoilt' = TRUE
    /\ Return(p)
    /\ UNCHANGED <<files, used, served, everOpen, tripped>>

RemoveDir(p) ==
    /\ pc[p] = "rmtree"
    /\ left[p] = {} /\ Present = {} /\ dir
    /\ dir' = FALSE
    /\ spoilt' = FALSE
    /\ Goto(p, "wipe")
    /\ UNCHANGED <<file, key, env, account, keys, used, served, everOpen, tripped>>

Wipe(p) ==
    /\ pc[p] = "wipe"
    /\ account' = FALSE
    /\ Return(p)
    /\ UNCHANGED <<file, key, env, dir, keys, used, served, past>>
-----------------------------------------------------------------------------
(* Secrets and logins.                                                     *)

\* An instance is loaded, then a secret is set or deleted; with a copy, the
\* secret goes first and the file after it.
ChangeSecret(p, next, c, s) ==
    /\ Begin(p, "edit", next, c)
    /\ arg' = [arg EXCEPT ![p] = s]
    /\ UNCHANGED left

SetEnv(p) ==
    /\ Loads # {}
    /\ \E s \in Secrets : ChangeSecret(p, "set", NoFile, s)
    /\ UNCHANGED files

DeleteEnv(p) ==
    /\ Loads # {}
    /\ \E s \in Secrets : ChangeSecret(p, "unset", NoFile, s)
    /\ UNCHANGED files

\* The TUI's editor of variables offers for removal only what it listed.
EditEnv(p) ==
    /\ Loads # {} /\ Readable
    /\ \/ \E s \in Secrets : ChangeSecret(p, "set", NoFile, s)
       \/ \E s \in env.names : ChangeSecret(p, "unset", NoFile, s)
    /\ UNCHANGED files

AddHeader(p) ==
    /\ \E c \in Loads, h \in Headers :
        ChangeSecret(p, "set", [c EXCEPT !.headers = c.headers \cup {h}], h)
    /\ UNCHANGED files

RemoveHeader(p) ==
    /\ \E c \in Loads : \E h \in c.headers :
        ChangeSecret(p, "unset", [c EXCEPT !.headers = c.headers \ {h}], h)
    /\ UNCHANGED files

\* The interactive login leaves its credentials under auth/<name>.
LoginInstance(p) ==
    /\ Loads # {}
    /\ Idle(p)
    /\ used' = used + 1
    /\ UNCHANGED <<editors, served, past>>
    /\ account' = TRUE
    /\ UNCHANGED <<file, key, env, dir, keys>>

LogoutInstance(p) ==
    /\ Loads # {}
    /\ ChangeSecret(p, "unset", NoFile, Token)
    /\ account' = FALSE
    /\ UNCHANGED <<file, key, env, dir, keys>>

\* After its secret a command ends, or goes on to the file if it has a copy.
AfterSecret(p) == IF copy[p] = NoFile THEN Return(p) ELSE Goto(p, "save")

\* _load.  An unreadable store fails set; the removal of a header ignores
\* that and goes on.
LoadSecrets(p) ==
    /\ \/ /\ pc[p] = "set" /\ Readable
          /\ names' = [names EXCEPT ![p] = env.names \cup {arg[p]}]
          /\ pc' = [pc EXCEPT ![p] = "store"]
          /\ UNCHANGED <<op, copy, arg, cipher, linked, left>>
       \/ /\ pc[p] = "unset" /\ Readable /\ arg[p] \in env.names
          /\ names' = [names EXCEPT ![p] = env.names \ {arg[p]}]
          /\ pc' = [pc EXCEPT ![p] = "store"]
          /\ UNCHANGED <<op, copy, arg, cipher, linked, left>>
       \/ /\ pc[p] = "unset" /\ (~Readable \/ arg[p] \notin env.names)
          /\ AfterSecret(p)
       \/ /\ pc[p] = "set" /\ ~Readable
          /\ Return(p)
    /\ UNCHANGED <<files, used, served, past>>

\* _store encrypts with the key of the moment; without one it fails.
Encrypt(p) ==
    /\ pc[p] = "store"
    /\ \/ /\ key # 0
          /\ cipher' = [cipher EXCEPT ![p] = key]
          /\ pc' = [pc EXCEPT ![p] = "open"]
          /\ UNCHANGED <<op, copy, arg, names, linked, left>>
       \/ key = 0 /\ Return(p)
    /\ UNCHANGED <<files, used, served, past>>

\* write_bytes truncates or creates the file, if it still has a directory,
OpenEnv(p) ==
    /\ pc[p] = "open"
    /\ \/ /\ dir
          /\ env' = [text |-> "empty", by |-> 0, names |-> {}]
          /\ linked' = [linked EXCEPT ![p] = TRUE]
          /\ pc' = [pc EXCEPT ![p] = "env"]
          /\ UNCHANGED <<op, copy, arg, names, cipher, left>>
       \/ ~dir /\ Return(p) /\ UNCHANGED env
    /\ UNCHANGED <<file, key, account, dir, keys, used, served, past>>

\* ... then writes: into nothing when the file was removed, over the text
\* another store wrote since, of which a tail may remain.
WriteEnv(p) ==
    /\ pc[p] = "env"
    /\ IF linked[p]
       THEN env' \in {EnvBy(cipher[p], names[p])} \cup
                IF env.text \in {"whole", "mixed"}
                THEN {[text |-> "mixed", by |-> 0, names |-> {}]} ELSE {}
       ELSE UNCHANGED env
    /\ spoilt' = (spoilt \/ (linked[p] /\ (env.text # "empty" \/ cipher[p] # key)))
    /\ AfterSecret(p)
    /\ UNCHANGED <<file, key, account, dir, keys, used, served, everOpen, tripped>>
-----------------------------------------------------------------------------
(* Saving.                                                                 *)

\* write_text opens the file, which truncates or creates it, in a directory
\* that was made if it was not there.
Truncate(p) ==
    /\ pc[p] = "save"
    /\ file' = Empty
    /\ dir' = TRUE
    /\ linked' = [linked EXCEPT ![p] = TRUE]
    /\ pc' = [pc EXCEPT ![p] = "write"]
    /\ UNCHANGED <<key, env, account, keys, op, copy, arg, names, cipher, left, used,
                   served, past>>

\* What the file holds once p has written its copy: that copy, unless the
\* file was removed meanwhile; over the text another editor wrote since p truncated
\* it, a tail of that text may remain, which spoils the document or brings
\* back its last fields.
Written(p) ==
    IF ~linked[p] THEN {file}
    ELSE {copy[p]} \cup
         IF file \in Content
         THEN {Torn, [copy[p] EXCEPT !.paused = file.paused, !.keyed = file.keyed]}
         ELSE {}

Write(p) ==
    /\ pc[p] = "write"
    /\ file' \in Written(p)
    /\ IF op[p] = "create" /\ ~copy[p].keyed THEN Goto(p, "key") ELSE Return(p)
    /\ everOpen' = (everOpen \/ copy[p].headers = {})
    /\ tripped' = IF op[p] = "break" THEN file' \in Content /\ file'.paused
                  ELSE tripped /\ op[p] \notin {"resume", "apply", "create"}
    /\ UNCHANGED <<key, env, account, dir, keys, used, served, spoilt>>

\* Mutant: a key is generated over the one that is there.
GenerateKeyAnyway(p) ==
    /\ pc[p] = "key"
    /\ Goto(p, "newkey")
    /\ UNCHANGED <<files, used, served, past>>

\* generate_key refuses to replace a key; its caller fails.
GenerateKey(p) ==
    /\ pc[p] = "key"
    /\ IF key = 0 THEN Goto(p, "newkey") ELSE Return(p)
    /\ UNCHANGED <<files, used, served, past>>

\* ... writes it, and the creator saves the file again with its fingerprint.
WriteKey(p) ==
    /\ pc[p] = "newkey"
    /\ keys' = keys + 1
    /\ key' = keys + 1
    /\ copy' = [copy EXCEPT ![p].keyed = TRUE]
    /\ pc' = [pc EXCEPT ![p] = "save"]
    /\ dir' = TRUE
    /\ spoilt' = (spoilt \/ \E q \in Editors \ {p} : pc[q] = "newkey")
    /\ UNCHANGED <<file, env, account, op, arg, names, cipher, linked, left, used,
                   served, everOpen, tripped>>

\* The terminal is closed, or the server killed, in the middle of a command.
Abandon(p) ==
    /\ pc[p] # "idle"
    /\ spoilt' = (spoilt \/ pc[p] \in {"env", "rmtree"})
    /\ Return(p)
    /\ UNCHANGED <<files, used, served, everOpen, tripped>>

\* The webhook and the worker load the file for each request and job.
Serve ==
    /\ \E c \in Loads : served' = c
    /\ UNCHANGED <<files, editors, used, past>>
-----------------------------------------------------------------------------
Command(p) ==
    \/ PauseInstance(p) \/ BreakerTrips(p) \/ ResumeInstance(p)
    \/ ChangeField(p) \/ SwitchAuth(p) \/ PatchInstance(p) \/ ReplaceBlock(p)
    \/ SetGuardrails(p) \/ ReplaceGuardrails(p)
    \/ PutEntry(p) \/ DeleteEntry(p) \/ RemoveSkill(p)
    \/ AddRepoAdmin(p) \/ AddRepo(p) \/ RemoveRepoAdmin(p) \/ RemoveRepo(p)
    \/ EditRepos(p)
    \/ CreateInstance(p) \/ InstanceAdd(p) \/ ApplyFile(p) \/ DeleteInstance(p)
    \/ SetEnv(p) \/ DeleteEnv(p) \/ EditEnv(p) \/ AddHeader(p) \/ RemoveHeader(p)
    \/ LoginInstance(p) \/ LogoutInstance(p)

Next ==
    \/ \E p \in Editors :
        \/ Command(p)
        \/ (\E f \in Files : RemoveFile(p, f)) \/ RemovalFails(p) \/ RemoveDir(p)
        \/ Wipe(p) \/ LoadSecrets(p) \/ Encrypt(p) \/ OpenEnv(p) \/ WriteEnv(p)
        \/ Truncate(p) \/ Write(p) \/ GenerateKey(p) \/ WriteKey(p)
        \/ Abandon(p)
    \/ Serve

Spec == Init /\ [][Next]_vars
-----------------------------------------------------------------------------
(* Properties.                                                             *)

ConfigTypeOK ==
    /\ file \in Content \cup {NoFile, Empty, Torn}
    /\ key \in 0..keys
    /\ env \in Env
    /\ account \in BOOLEAN /\ dir \in BOOLEAN
    /\ keys \in Nat /\ used \in 0..MaxCommands
    /\ pc \in [Editors -> PC]
    /\ op \in [Editors -> Op]
    /\ copy \in [Editors -> Content \cup {NoFile}]
    /\ \A p \in Editors : pc[p] \in {"save", "write", "key", "newkey"} =>
        copy[p] \in Content
    /\ arg \in [Editors -> Secrets]
    /\ names \in [Editors -> SUBSET Secrets]
    /\ cipher \in [Editors -> 0..keys]
    /\ linked \in [Editors -> BOOLEAN]
    /\ left \in [Editors -> SUBSET Files]
    /\ served \in Content \cup {NoFile}
    /\ <<everOpen, spoilt, tripped>> \in BOOLEAN \X BOOLEAN \X BOOLEAN

\* However saves, crashes in the middle of one, deletions and re-creations
\* interleave with requests, the webhook is served without required headers
\* (check_auth, auth.py:34-37: "no auth configured") only after somebody
\* wrote such a file: a half-written one is never taken for the defaults.
OpenOnlyIfSavedOpen ==
    served # NoFile /\ served.headers = {} => everOpen

\* Whatever is run on the name, also instance add on one that exists, and
\* wherever else a command dies or meets another, the secrets stay readable
\* with the key that was handed out ("keys are immutable for the life of the
\* instance", secrets.py:180), while no store and no deletion is under way.
\* The code keeps that only from the next whole deletion on after two
\* creations found no key at the same moment, a store met another one or the
\* removal of its key, or a store or a deletion died or failed half-way.
SecretsReadable ==
    /\ key # 0 /\ ~spoilt
    /\ \A p \in Editors : pc[p] \notin {"env", "rmtree"}
    => Readable
-----------------------------------------------------------------------------
(* What the documents say, which overlapping edits break.                  *)

\* "Instância volta com `instance resume`" (DESIGN.md:515): what the breaker
\* paused stays paused until somebody resumes it.
PauseHolds == tripped /\ file \in Content => file.paused
=============================================================================
