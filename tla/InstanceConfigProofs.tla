------------------------- MODULE InstanceConfigProofs -----------------------
(***************************************************************************)
(* Proofs about InstanceConfig for any number of editors, commands,        *)
(* repositories, headers and settings.                                     *)
(***************************************************************************)
EXTENDS InstanceConfig, TLAPS

\* What a command that edits the file begins with.
BeginsEdit(p) ==
    /\ \E o \in Op, d \in Content : Begin(p, o, "save", d)
    /\ UNCHANGED <<files, arg, left>>

\* What a command that changes a secret begins with.
BeginsSecret(p) ==
    /\ \E next \in {"set", "unset"}, c \in Content \cup {NoFile}, s \in Secrets :
          ChangeSecret(p, next, c, s)
    /\ UNCHANGED <<file, key, env, dir, keys>>
    /\ account' \in {account, FALSE}

LEMMA FreshIsContent == Fresh \in Content
  BY ConfigAssumption DEF Fresh, Content

LEMMA LoadsContent == Loads \subseteq Content
  BY DEF Loads

\* Replacing fields of a content gives a content.
LEMMA ContentFields ==
    ASSUME NEW c \in Content
    PROVE  /\ \A v \in BOOLEAN : [c EXCEPT !.paused = v] \in Content
           /\ \A v \in Settings : [c EXCEPT !.setting = v] \in Content
           /\ \A R \in SUBSET Rules : [c EXCEPT !.rules = R] \in Content
           /\ \A S \in SUBSET Skills : [c EXCEPT !.skills = S] \in Content
           /\ \A H \in SUBSET Headers : [c EXCEPT !.headers = H] \in Content
           /\ \A R \in SUBSET Repos : [c EXCEPT !.repos = R] \in Content
           /\ \A R \in SUBSET Repos, b \in BOOLEAN :
                [c EXCEPT !.repos = R, !.legacy = b] \in Content
           /\ \A v \in Settings, R \in SUBSET Repos :
                [c EXCEPT !.setting = v, !.repos = R] \in Content
  BY DEF Content

LEMMA PoolInRepos == \A c \in Content : Pool(c) \subseteq Repos
  BY ConfigAssumption DEF Pool, Content

\* Each command that edits the file writes contents only.
LEMMA EditBegins ==
    ASSUME NEW p \in Editors,
           \/ PauseInstance(p) \/ BreakerTrips(p) \/ ResumeInstance(p)
           \/ ChangeField(p) \/ SwitchAuth(p) \/ PatchInstance(p) \/ ReplaceBlock(p)
           \/ SetGuardrails(p) \/ ReplaceGuardrails(p)
           \/ PutEntry(p) \/ DeleteEntry(p) \/ RemoveSkill(p)
           \/ AddRepoAdmin(p) \/ AddRepo(p) \/ RemoveRepoAdmin(p) \/ RemoveRepo(p)
           \/ EditRepos(p)
    PROVE  BeginsEdit(p)
<1> USE LoadsContent DEF Edit, BeginsEdit, Op
<1>1. CASE PauseInstance(p) \/ ResumeInstance(p) \/ BreakerTrips(p)
  BY <1>1, ContentFields DEF PauseInstance, ResumeInstance, BreakerTrips
<1>2. CASE ChangeField(p) \/ SwitchAuth(p) \/ ReplaceBlock(p)
  BY <1>2, ContentFields DEF ChangeField, SwitchAuth, ReplaceBlock
<1>3. CASE PatchInstance(p)
  BY <1>3, ContentFields DEF PatchInstance
<1>4. CASE SetGuardrails(p)
  <2>1. \A c \in Content, R \in SUBSET Rules : c.rules \cup R \in SUBSET Rules
    BY DEF Content
  <2> QED
    BY <1>4, <2>1, ContentFields DEF SetGuardrails
<1>5. CASE ReplaceGuardrails(p)
  BY <1>5, ContentFields DEF ReplaceGuardrails
<1>6. CASE PutEntry(p) \/ DeleteEntry(p) \/ RemoveSkill(p)
  <2>1. \A c \in Content, k \in Skills :
          c.skills \cup {k} \in SUBSET Skills
          /\ c.skills \ {k} \in SUBSET Skills
    BY DEF Content
  <2>2. UNCHANGED <<files, arg, left>>
    BY <1>6 DEF PutEntry, DeleteEntry, RemoveSkill
  <2>3. \E c \in Loads, k \in Skills :
          \/ Begin(p, "edit", "save", [c EXCEPT !.skills = c.skills \cup {k}])
          \/ Begin(p, "edit", "save", [c EXCEPT !.skills = c.skills \ {k}])
    <3>1. CASE PutEntry(p)
      BY <3>1, Zenon DEF PutEntry
    <3>2. CASE DeleteEntry(p)
      <4>1. PICK c \in Loads : \E k \in c.skills :
              Begin(p, "edit", "save", [c EXCEPT !.skills = c.skills \ {k}])
        BY <3>2, Zenon DEF DeleteEntry
      <4>2. c.skills \subseteq Skills
        BY DEF Content
      <4> QED
        BY <4>1, <4>2, Zenon
    <3>3. CASE RemoveSkill(p)
      BY <3>3, Zenon DEF RemoveSkill
    <3> QED
      BY <1>6, <3>1, <3>2, <3>3
  <2> QED
    BY <2>1, <2>2, <2>3, ContentFields
<1>7. CASE AddRepoAdmin(p) \/ RemoveRepoAdmin(p) \/ RemoveRepo(p)
  <2>1. \A c \in Content, r \in Repos :
          c.repos \cup {r} \in SUBSET Repos
          /\ c.repos \ {r} \in SUBSET Repos
    BY DEF Content
  <2>2. UNCHANGED <<files, arg, left>>
    BY <1>7 DEF AddRepoAdmin, RemoveRepoAdmin, RemoveRepo
  <2>3. \E c \in Loads, r \in Repos :
          \/ Begin(p, "edit", "save", [c EXCEPT !.repos = c.repos \cup {r}])
          \/ Begin(p, "edit", "save", [c EXCEPT !.repos = c.repos \ {r}])
    <3>1. CASE AddRepoAdmin(p)
      BY <3>1, Zenon DEF AddRepoAdmin
    <3>2. CASE RemoveRepoAdmin(p)
      <4>1. PICK c \in Loads : \E r \in c.repos :
              Begin(p, "edit", "save", [c EXCEPT !.repos = c.repos \ {r}])
        BY <3>2, Zenon DEF RemoveRepoAdmin
      <4>2. c.repos \subseteq Repos
        BY DEF Content
      <4> QED
        BY <4>1, <4>2, Zenon
    <3>3. CASE RemoveRepo(p)
      BY <3>3, Zenon DEF RemoveRepo
    <3> QED
      BY <1>7, <3>1, <3>2, <3>3
  <2> QED
    BY <2>1, <2>2, <2>3, ContentFields
<1>8. ASSUME NEW c \in Content PROVE (c.legacy /\ c.repos # {}) \in BOOLEAN
  BY Zenon
<1>9. CASE AddRepo(p)
  <2>1. \A c \in Content, r \in Repos : Pool(c) \cup {r} \in SUBSET Repos
    BY PoolInRepos
  <2>2. \A c \in Content, r \in Repos :
          [c EXCEPT !.repos = Pool(c) \cup {r}, !.legacy = c.legacy /\ c.repos # {}]
            \in Content
    BY <1>8, <2>1, ContentFields
  <2> QED
    BY <1>9, <2>2 DEF AddRepo
<1>10. CASE EditRepos(p)
  <2> DEFINE Renamed(c, s) ==
               {[c EXCEPT !.repos = (Pool(c) \ {r}) \cup {s},
                          !.legacy = c.legacy /\ c.repos # {}] :
                  r \in {r \in Pool(c) : s \notin Pool(c) \/ s = LegacyRepo}}
             Removed(c) == {[c EXCEPT !.repos = c.repos \ {r}] : r \in Pool(c)}
  <2>1. ASSUME NEW c \in Loads, NEW s \in Repos PROVE Renamed(c, s) \subseteq Content
    <3> SUFFICES ASSUME NEW r \in Pool(c)
                 PROVE  [c EXCEPT !.repos = (Pool(c) \ {r}) \cup {s},
                                  !.legacy = c.legacy /\ c.repos # {}] \in Content
      BY Zenon
    <3>1. (Pool(c) \ {r}) \cup {s} \in SUBSET Repos
      BY PoolInRepos
    <3> QED
      BY <1>8, <3>1, ContentFields
  <2>2. ASSUME NEW c \in Loads PROVE Removed(c) \subseteq Content
    <3> SUFFICES ASSUME NEW r \in Pool(c)
                 PROVE  [c EXCEPT !.repos = c.repos \ {r}] \in Content
      BY Zenon
    <3>1. c.repos \ {r} \in SUBSET Repos
      BY DEF Content
    <3> QED
      BY <3>1, ContentFields
  <2> HIDE DEF Renamed, Removed
  <2>3. \E c \in Loads, s \in Repos :
          \E d \in Renamed(c, s) \cup Removed(c) : Begin(p, "edit", "save", d)
    BY <1>10, ConfigAssumption, Zenon DEF EditRepos, Renamed, Removed
  <2>4. UNCHANGED <<files, arg, left>>
    BY <1>10 DEF EditRepos
  <2> QED
    BY <2>1, <2>2, <2>3, <2>4
<1> QED
  BY <1>1, <1>2, <1>3, <1>4, <1>5, <1>6, <1>7, <1>9, <1>10

\* So do creation and the declarative apply.
LEMMA CreateBegins ==
    ASSUME NEW p \in Editors, CreateInstance(p) \/ InstanceAdd(p) \/ ApplyFile(p)
    PROVE  BeginsEdit(p)
<1> USE FreshIsContent, LoadsContent DEF BeginsEdit, Op
<1>1. CASE CreateInstance(p) \/ InstanceAdd(p)
  BY <1>1 DEF CreateInstance, InstanceAdd
<1>2. CASE ApplyFile(p)
  <2>1. \A c \in Content, v \in Settings :
          [Fresh EXCEPT !.keyed = c.keyed, !.setting = v] \in Content
    BY DEF Content
  <2> QED
    BY <1>2, <2>1 DEF ApplyFile
<1> QED
  BY <1>1, <1>2

LEMMA SecretBegins ==
    ASSUME NEW p \in Editors, ConfigTypeOK,
           \/ SetEnv(p) \/ DeleteEnv(p) \/ EditEnv(p) \/ AddHeader(p) \/ RemoveHeader(p)
           \/ LogoutInstance(p)
    PROVE  BeginsSecret(p)
<1> USE DEF BeginsSecret, Secrets
<1>1. CASE SetEnv(p) \/ DeleteEnv(p)
  BY <1>1 DEF SetEnv, DeleteEnv, files
<1>2. CASE EditEnv(p)
  BY <1>2 DEF EditEnv, files, ConfigTypeOK, Env
<1>3. CASE AddHeader(p) \/ RemoveHeader(p)
  <2>1. \A c \in Content, h \in Headers :
          c.headers \cup {h} \in SUBSET Headers
          /\ c.headers \ {h} \in SUBSET Headers
    BY DEF Content
  <2>2. UNCHANGED <<file, key, env, dir, keys, account>>
    BY <1>3 DEF AddHeader, RemoveHeader, files
  <2>3. \E c \in Loads, h \in Headers :
          \/ ChangeSecret(p, "set", [c EXCEPT !.headers = c.headers \cup {h}], h)
          \/ ChangeSecret(p, "unset", [c EXCEPT !.headers = c.headers \ {h}], h)
    <3>1. CASE AddHeader(p)
      BY <3>1, Zenon DEF AddHeader
    <3>2. CASE RemoveHeader(p)
      <4>1. PICK c \in Loads : \E h \in c.headers :
              ChangeSecret(p, "unset", [c EXCEPT !.headers = c.headers \ {h}], h)
        BY <3>2, Zenon DEF RemoveHeader
      <4>2. c.headers \subseteq Headers
        BY LoadsContent DEF Content
      <4> QED
        BY <4>1, <4>2, Zenon
    <3> QED
      BY <1>3, <3>1, <3>2
  <2> QED
    BY <2>1, <2>2, <2>3, ContentFields, LoadsContent
<1>4. CASE LogoutInstance(p)
  BY <1>4 DEF LogoutInstance
<1> QED
  BY <1>1, <1>2, <1>3, <1>4

LEMMA CommandForms ==
    ASSUME NEW p \in Editors, ConfigTypeOK, Command(p)
    PROVE  BeginsEdit(p) \/ BeginsSecret(p) \/ DeleteInstance(p) \/ LoginInstance(p)
<1> QED
  BY EditBegins, CreateBegins, SecretBegins, Zenon DEF Command
-----------------------------------------------------------------------------
(* The type invariant.                                                     *)

FilesType ==
    /\ file \in Content \cup {NoFile, Empty, Torn}
    /\ key \in 0..keys
    /\ env \in Env
    /\ keys \in Nat

EditorsType ==
    /\ pc \in [Editors -> PC]
    /\ op \in [Editors -> Op]
    /\ copy \in [Editors -> Content \cup {NoFile}]
    /\ \A p \in Editors : pc[p] \in {"save", "write", "key", "newkey"} =>
          copy[p] \in Content
    /\ arg \in [Editors -> Secrets]
    /\ names \in [Editors -> SUBSET Secrets]
    /\ cipher \in [Editors -> 0..keys]
    /\ linked \in [Editors -> BOOLEAN]
    /\ left \in [Editors -> SUBSET Files]

\* An editor forgets its command.
LEMMA ReturnType ==
    ASSUME FilesType, EditorsType, NEW p \in Editors, Return(p), keys' = keys
    PROVE  EditorsType'
  BY DEF FilesType, EditorsType, Return, PC, Op, Secrets

\* ... or goes on; with something to write if it goes on to the file.
LEMMA GotoType ==
    ASSUME FilesType, EditorsType, NEW p \in Editors, NEW next \in PC, Goto(p, next),
           keys' = keys,
           next \in {"save", "write", "key", "newkey"} => copy[p] \in Content
    PROVE  EditorsType'
  BY DEF EditorsType, Goto, work

LEMMA AfterSecretType ==
    ASSUME FilesType, EditorsType, NEW p \in Editors, AfterSecret(p), keys' = keys
    PROVE  EditorsType'
<1>1. CASE Return(p)
  BY <1>1, ReturnType
<1>2. CASE copy[p] # NoFile /\ Goto(p, "save")
  BY <1>2, GotoType DEF EditorsType, PC
<1> QED
  BY <1>1, <1>2 DEF AfterSecret

LEMMA BeginType ==
    ASSUME FilesType, EditorsType, NEW p \in Editors, NEW o \in Op, NEW next \in PC,
           NEW c \in Content \cup {NoFile}, Begin(p, o, next, c), keys' = keys,
           arg' = arg \/ \E s \in Secrets : arg' = [arg EXCEPT ![p] = s],
           left' = left \/ \E F \in SUBSET Files : left' = [left EXCEPT ![p] = F],
           next \in {"save", "write", "key", "newkey"} => c \in Content
    PROVE  EditorsType'
<1>1. /\ pc' = [pc EXCEPT ![p] = next] /\ op' = [op EXCEPT ![p] = o]
      /\ copy' = [copy EXCEPT ![p] = c] /\ UNCHANGED <<names, cipher, linked>>
  BY DEF Begin
<1>2. \A q \in Editors : pc'[q] \in {"save", "write", "key", "newkey"} =>
          copy'[q] \in Content
  BY <1>1 DEF EditorsType
<1>3. arg' \in [Editors -> Secrets] /\ left' \in [Editors -> SUBSET Files]
  BY DEF EditorsType
<1> QED
  BY <1>1, <1>2, <1>3 DEF EditorsType

LEMMA EditorsTypeStep == ConfigTypeOK /\ [Next]_vars => EditorsType'
<1> SUFFICES ASSUME ConfigTypeOK, [Next]_vars PROVE EditorsType'
  OBVIOUS
<1>0. FilesType /\ EditorsType
  BY DEF ConfigTypeOK, FilesType, EditorsType
<1>1. ASSUME NEW p \in Editors, BeginsEdit(p) PROVE EditorsType'
  BY <1>0, <1>1, BeginType DEF BeginsEdit, files, PC
<1>2. ASSUME NEW p \in Editors, BeginsSecret(p) PROVE EditorsType'
  <2>1. PICK next \in {"set", "unset"}, c \in Content \cup {NoFile}, s \in Secrets :
          ChangeSecret(p, next, c, s)
    BY <1>2 DEF BeginsSecret
  <2>2. keys' = keys
    BY <1>2 DEF BeginsSecret
  <2>3. Begin(p, "edit", next, c) /\ arg' = [arg EXCEPT ![p] = s] /\ left' = left
    BY <2>1 DEF ChangeSecret
  <2>4. next \in PC /\ "edit" \in Op /\ next \notin {"save", "write", "key", "newkey"}
    BY DEF PC, Op
  <2> QED
    BY <1>0, <2>2, <2>3, <2>4, BeginType
<1>3. ASSUME NEW p \in Editors, DeleteInstance(p) PROVE EditorsType'
  <2>1. Begin(p, "edit", "rmtree", NoFile) /\ left' = [left EXCEPT ![p] = Present]
        /\ UNCHANGED <<files, arg>>
    BY <1>3 DEF DeleteInstance
  <2>2. Present \in SUBSET Files
    BY DEF Present
  <2> QED
    BY <1>0, <2>1, <2>2, BeginType DEF PC, Op, files
<1>4. ASSUME UNCHANGED <<editors, keys>> PROVE EditorsType'
  BY <1>0, <1>4 DEF EditorsType, editors, work
<1>5. ASSUME NEW p \in Editors, LoginInstance(p) PROVE EditorsType'
  BY <1>4, <1>5 DEF LoginInstance
<1>6. ASSUME NEW p \in Editors,
             \/ Wipe(p) \/ Abandon(p) \/ GenerateKey(p)
             \/ RemovalFails(p) \/ RemoveDir(p)
      PROVE  EditorsType'
  <2>1. \/ Return(p)
        \/ \E next \in {"newkey", "wipe"} :
              Goto(p, next) /\ (next = "newkey" => pc[p] = "key")
    BY <1>6, Zenon DEF Wipe, Abandon, GenerateKey, RemovalFails, RemoveDir
  <2>2. keys' = keys
    BY <1>6 DEF Wipe, Abandon, GenerateKey, RemovalFails, RemoveDir, files
  <2> QED
    BY <1>0, <2>1, <2>2, ReturnType, GotoType DEF PC, EditorsType
<1>7. ASSUME NEW p \in Editors, NEW f \in Files, RemoveFile(p, f) PROVE EditorsType'
  <2>1. /\ left' = [left EXCEPT ![p] = left[p] \ {f}]
        /\ UNCHANGED <<keys, pc, op, copy, arg, names, cipher>>
    BY <1>7 DEF RemoveFile
  <2>2. linked' \in [Editors -> BOOLEAN]
    BY <1>7, Zenon DEF RemoveFile
  <2> QED
    BY <1>0, <2>1, <2>2 DEF EditorsType
<1>8. ASSUME NEW p \in Editors, LoadSecrets(p) PROVE EditorsType'
  <2>1. keys' = keys
    BY <1>8 DEF LoadSecrets, files
  <2>2. ASSUME NEW N \in SUBSET Secrets, names' = [names EXCEPT ![p] = N],
               pc' = [pc EXCEPT ![p] = "store"],
               UNCHANGED <<op, copy, arg, cipher, linked, left>>
        PROVE  EditorsType'
    BY <1>0, <2>1, <2>2 DEF EditorsType, PC
  <2>3. env.names \cup {arg[p]} \in SUBSET Secrets /\ env.names \ {arg[p]} \in SUBSET Secrets
    BY <1>0 DEF FilesType, EditorsType, Env
  <2>4. \/ Return(p) \/ AfterSecret(p)
        \/ /\ names' \in {[names EXCEPT ![p] = env.names \cup {arg[p]}],
                          [names EXCEPT ![p] = env.names \ {arg[p]}]}
           /\ pc' = [pc EXCEPT ![p] = "store"]
           /\ UNCHANGED <<op, copy, arg, cipher, linked, left>>
    BY <1>8 DEF LoadSecrets
  <2> QED
    BY <1>0, <2>1, <2>2, <2>3, <2>4, ReturnType, AfterSecretType
<1>9. ASSUME NEW p \in Editors, Encrypt(p) PROVE EditorsType'
  <2>1. keys' = keys
    BY <1>9 DEF Encrypt, files
  <2>2. \/ Return(p)
        \/ /\ cipher' = [cipher EXCEPT ![p] = key] /\ pc' = [pc EXCEPT ![p] = "open"]
           /\ UNCHANGED <<op, copy, arg, names, linked, left>>
    BY <1>9 DEF Encrypt
  <2> QED
    BY <1>0, <2>1, <2>2, ReturnType DEF EditorsType, FilesType, PC
<1>10. ASSUME NEW p \in Editors, OpenEnv(p) PROVE EditorsType'
  <2>1. keys' = keys
    BY <1>10 DEF OpenEnv
  <2>2. \/ Return(p)
        \/ /\ linked' = [linked EXCEPT ![p] = TRUE] /\ pc' = [pc EXCEPT ![p] = "env"]
           /\ UNCHANGED <<op, copy, arg, names, cipher, left>>
    BY <1>10 DEF OpenEnv
  <2> QED
    BY <1>0, <2>1, <2>2, ReturnType DEF EditorsType, PC
<1>11. ASSUME NEW p \in Editors, WriteEnv(p) PROVE EditorsType'
  BY <1>0, <1>11, AfterSecretType DEF WriteEnv
<1>12. ASSUME NEW p \in Editors, Truncate(p) PROVE EditorsType'
  BY <1>0, <1>12 DEF Truncate, EditorsType, PC
<1>13. ASSUME NEW p \in Editors, Write(p) PROVE EditorsType'
  <2>1. keys' = keys /\ (Return(p) \/ (pc[p] = "write" /\ Goto(p, "key")))
    BY <1>13 DEF Write
  <2> QED
    BY <1>0, <2>1, ReturnType, GotoType DEF PC, EditorsType
<1>14. ASSUME NEW p \in Editors, WriteKey(p) PROVE EditorsType'
  <2>1. /\ pc[p] = "newkey" /\ copy[p] \in Content
        /\ copy' = [copy EXCEPT ![p] = [copy[p] EXCEPT !.keyed = TRUE]]
        /\ pc' = [pc EXCEPT ![p] = "save"]
        /\ UNCHANGED <<op, arg, names, cipher, linked, left>>
        /\ keys' = keys + 1
    BY <1>0, <1>14 DEF WriteKey, EditorsType
  <2>2. [copy[p] EXCEPT !.keyed = TRUE] \in Content
    BY <2>1 DEF Content
  <2>3. cipher' \in [Editors -> 0..keys']
    BY <1>0, <2>1 DEF EditorsType, FilesType
  <2> QED
    BY <1>0, <2>1, <2>2, <2>3 DEF EditorsType, PC
<1>15. CASE Serve \/ UNCHANGED vars
  BY <1>4, <1>15 DEF Serve, vars, files
<1> QED
  BY <1>1, <1>2, <1>3, <1>5, <1>6, <1>7, <1>8, <1>9, <1>10, <1>11, <1>12, <1>13, <1>14,
     <1>15, CommandForms DEF Next

LEMMA FilesTypeStep == ConfigTypeOK /\ [Next]_vars => FilesType'
<1> SUFFICES ASSUME ConfigTypeOK, [Next]_vars PROVE FilesType'
  OBVIOUS
<1>0. FilesType /\ EditorsType
  BY DEF ConfigTypeOK, FilesType, EditorsType
<1>1. ASSUME UNCHANGED <<file, key, env, keys>> PROVE FilesType'
  BY <1>0, <1>1 DEF FilesType, Env
<1>2. ASSUME NEW p \in Editors,
             BeginsEdit(p) \/ BeginsSecret(p) \/ LoginInstance(p) \/ DeleteInstance(p)
      PROVE  FilesType'
  BY <1>1, <1>2 DEF BeginsEdit, BeginsSecret, LoginInstance, DeleteInstance, files
<1>3. ASSUME NEW p \in Editors, NEW f \in Files, RemoveFile(p, f) PROVE FilesType'
  <2>1. /\ file' \in {file, NoFile} /\ key' \in {key, 0} /\ env' \in {env, NoEnv}
        /\ keys' = keys
    BY <1>3 DEF RemoveFile
  <2>2. NoEnv \in Env /\ Env' = Env
    BY <1>0, <2>1 DEF NoEnv, Env, FilesType
  <2> QED
    BY <1>0, <2>1, <2>2 DEF FilesType
<1>4. ASSUME NEW p \in Editors,
             \/ Wipe(p) \/ Abandon(p) \/ GenerateKey(p) \/ LoadSecrets(p)
             \/ RemovalFails(p) \/ RemoveDir(p) \/ Encrypt(p)
      PROVE  FilesType'
  BY <1>1, <1>4 DEF Wipe, Abandon, GenerateKey, LoadSecrets, RemovalFails, RemoveDir,
     Encrypt, files
<1>5. ASSUME NEW p \in Editors, OpenEnv(p) PROVE FilesType'
  <2>1. env' = env \/ env' = [text |-> "empty", by |-> 0, names |-> {}]
    BY <1>5 DEF OpenEnv
  <2>2. UNCHANGED <<file, key, keys>>
    BY <1>5 DEF OpenEnv
  <2> QED
    BY <1>0, <2>1, <2>2 DEF FilesType, Env
<1>6. ASSUME NEW p \in Editors, WriteEnv(p) PROVE FilesType'
  <2>1. \/ env' = env
        \/ env' = [text |-> "whole", by |-> cipher[p], names |-> names[p]]
        \/ env' = [text |-> "mixed", by |-> 0, names |-> {}]
    BY <1>6 DEF WriteEnv, EnvBy
  <2>2. UNCHANGED <<file, key, keys>>
    BY <1>6 DEF WriteEnv
  <2>3. cipher[p] \in 0..keys /\ names[p] \in SUBSET Secrets
    BY <1>0 DEF EditorsType
  <2> QED
    BY <1>0, <2>1, <2>2, <2>3 DEF FilesType, Env
<1>7. ASSUME NEW p \in Editors, Truncate(p) PROVE FilesType'
  BY <1>0, <1>7 DEF Truncate, FilesType, Env
<1>8. ASSUME NEW p \in Editors, Write(p) PROVE FilesType'
  <2>1. copy[p] \in Content
    BY <1>0, <1>8 DEF Write, EditorsType
  <2>2. file' \in Written(p) /\ UNCHANGED <<key, env, keys>>
    BY <1>8 DEF Write
  <2>3. file \in Content =>
          [copy[p] EXCEPT !.paused = file.paused, !.keyed = file.keyed] \in Content
    BY <2>1 DEF Content
  <2> QED
    BY <1>0, <2>1, <2>2, <2>3 DEF Written, FilesType, Env
<1>9. ASSUME NEW p \in Editors, WriteKey(p) PROVE FilesType'
  <2>1. keys' = keys + 1 /\ key' = keys + 1 /\ UNCHANGED <<file, env>>
    BY <1>9 DEF WriteKey
  <2> QED
    BY <1>0, <2>1 DEF FilesType, Env
<1>10. CASE Serve \/ UNCHANGED vars
  BY <1>1, <1>10 DEF Serve, vars, files
<1> QED
  BY <1>2, <1>3, <1>4, <1>5, <1>6, <1>7, <1>8, <1>9, <1>10, CommandForms DEF Next

\* The Boolean variables stay Boolean.
Flags ==
    /\ account \in BOOLEAN /\ dir \in BOOLEAN
    /\ everOpen \in BOOLEAN /\ spoilt \in BOOLEAN /\ tripped \in BOOLEAN

LEMMA FlagsStep == ConfigTypeOK /\ [Next]_vars => Flags'
<1> SUFFICES ASSUME ConfigTypeOK, [Next]_vars PROVE Flags'
  OBVIOUS
<1>0. Flags
  BY DEF ConfigTypeOK, Flags
<1>1. ASSUME UNCHANGED past, account' \in {account, TRUE, FALSE}, dir' \in {dir, TRUE, FALSE}
      PROVE  Flags'
  BY <1>0, <1>1 DEF past, Flags
<1>2. ASSUME UNCHANGED <<account, everOpen, tripped>>, dir' \in {dir, TRUE, FALSE},
             spoilt' \in BOOLEAN
      PROVE  Flags'
  BY <1>0, <1>2 DEF Flags
<1>3. ASSUME NEW p \in Editors, BeginsEdit(p) PROVE Flags'
  BY <1>1, <1>3 DEF BeginsEdit, Begin, files
<1>4. ASSUME NEW p \in Editors, BeginsSecret(p) \/ DeleteInstance(p) \/ LoginInstance(p)
      PROVE  Flags'
  BY <1>1, <1>4 DEF BeginsSecret, ChangeSecret, DeleteInstance, LoginInstance, Begin, files
<1>5. ASSUME NEW p \in Editors,
             \/ GenerateKey(p) \/ LoadSecrets(p) \/ Encrypt(p) \/ OpenEnv(p)
             \/ Truncate(p) \/ Wipe(p) \/ \E f \in Files : RemoveFile(p, f)
      PROVE  Flags'
  BY <1>1, <1>5 DEF GenerateKey, LoadSecrets, Encrypt, OpenEnv, Truncate, Wipe, RemoveFile,
     files
<1>6. ASSUME NEW p \in Editors, RemovalFails(p) \/ RemoveDir(p) PROVE Flags'
  BY <1>2, <1>6 DEF RemovalFails, RemoveDir, files
<1>7. ASSUME NEW p \in Editors, Abandon(p) \/ WriteEnv(p) \/ WriteKey(p) PROVE Flags'
  <2>1. spoilt' \in BOOLEAN
    BY <1>7, Zenon DEF Abandon, WriteEnv, WriteKey
  <2> QED
    BY <1>2, <1>7, <2>1 DEF Abandon, WriteEnv, WriteKey, files
<1>8. ASSUME NEW p \in Editors, Write(p) PROVE Flags'
  <2>1. UNCHANGED <<account, dir, spoilt>>
    BY <1>8 DEF Write
  <2>2. everOpen' \in BOOLEAN
    BY <1>8, Zenon DEF Write
  <2>3. \/ tripped' = (file' \in Content /\ file'.paused)
        \/ tripped' = (tripped /\ op[p] \notin {"resume", "apply", "create"})
    BY <1>8, Zenon DEF Write
  <2>4. tripped' \in BOOLEAN
    BY <2>3, Zenon
  <2> QED
    BY <1>0, <2>1, <2>2, <2>4 DEF Flags
<1>9. CASE Serve \/ UNCHANGED vars
  BY <1>1, <1>9 DEF Serve, vars, files
<1> QED
  BY <1>3, <1>4, <1>5, <1>6, <1>7, <1>8, <1>9, CommandForms DEF Next

LEMMA UsedStep == ConfigTypeOK /\ [Next]_vars => used' \in 0..MaxCommands
<1> SUFFICES ASSUME ConfigTypeOK, [Next]_vars PROVE used' \in 0..MaxCommands
  OBVIOUS
<1>1. used' = used \/ (used < MaxCommands /\ used' = used + 1)
  <2>1. ASSUME NEW p \in Editors, Command(p)
        PROVE  used < MaxCommands /\ used' = used + 1
    BY <2>1, CommandForms DEF BeginsEdit, BeginsSecret, ChangeSecret, DeleteInstance,
       LoginInstance, Begin, Idle
  <2> QED
    BY <2>1 DEF Next, RemoveFile, RemovalFails, RemoveDir, Wipe, LoadSecrets, Encrypt,
       OpenEnv, WriteEnv, Truncate, Write, GenerateKey, WriteKey, Abandon, Serve, vars
<1> QED
  BY <1>1, ConfigAssumption DEF ConfigTypeOK

LEMMA ServedStep ==
    ConfigTypeOK /\ [Next]_vars =>
        \/ served' = served
        \/ served' \in Loads /\ UNCHANGED <<file, everOpen>>
<1> SUFFICES ASSUME ConfigTypeOK, [Next]_vars
             PROVE  \/ served' = served
                    \/ served' \in Loads /\ UNCHANGED <<file, everOpen>>
  OBVIOUS
<1>1. ASSUME NEW p \in Editors, Command(p) PROVE served' = served
  BY <1>1, CommandForms DEF BeginsEdit, BeginsSecret, ChangeSecret, DeleteInstance,
     LoginInstance, Begin
<1> QED
  BY <1>1 DEF Next, RemoveFile, RemovalFails, RemoveDir, Wipe, LoadSecrets, Encrypt,
     OpenEnv, WriteEnv, Truncate, Write, GenerateKey, WriteKey, Abandon, Serve, vars, files, past

LEMMA ConfigTypeStep == ConfigTypeOK /\ [Next]_vars => ConfigTypeOK'
<1> SUFFICES ASSUME ConfigTypeOK, [Next]_vars PROVE ConfigTypeOK'
  OBVIOUS
<1>1. served' \in Content \cup {NoFile}
  BY ServedStep, LoadsContent DEF ConfigTypeOK
<1> QED
  BY <1>1, EditorsTypeStep, FilesTypeStep, FlagsStep, UsedStep
     DEF ConfigTypeOK, EditorsType, FilesType, Flags

LEMMA KeyInit ==
    Init => \/ key = 0 /\ env = [text |-> "none", by |-> 0, names |-> {}]
            \/ key = 1 /\ env = [text |-> "whole", by |-> 1, names |-> Headers]
  BY Zenon DEF Init, NoEnv, EnvBy

LEMMA ConfigTypeInit == Init => ConfigTypeOK
<1> SUFFICES ASSUME Init PROVE ConfigTypeOK
  OBVIOUS
<1>1. file \in Content \cup {NoFile}
  <2>1. \A old \in BOOLEAN :
          [Fresh EXCEPT !.keyed = TRUE, !.headers = Headers, !.legacy = old] \in Content
    BY FreshIsContent DEF Content
  <2> QED
    BY <2>1 DEF Init
<1>2. key \in 0..keys /\ keys \in Nat /\ env \in Env
  <2>1. keys = key
    BY DEF Init
  <2>2. CASE key = 0 /\ env = [text |-> "none", by |-> 0, names |-> {}]
    BY <2>1, <2>2 DEF Env
  <2>3. CASE key = 1 /\ env = [text |-> "whole", by |-> 1, names |-> Headers]
    BY <2>1, <2>3 DEF Secrets, Env
  <2> QED
    BY <2>2, <2>3, KeyInit
<1>3. everOpen \in BOOLEAN
  BY Zenon DEF Init
<1>4. EditorsType /\ used \in 0..MaxCommands
  <2>1. used = 0
    BY DEF Init
  <2>2. /\ pc = [p \in Editors |-> "idle"] /\ op = [p \in Editors |-> "edit"]
        /\ copy = [p \in Editors |-> NoFile] /\ arg = [p \in Editors |-> Token]
        /\ names = [p \in Editors |-> {}] /\ cipher = [p \in Editors |-> 0]
        /\ linked = [p \in Editors |-> FALSE] /\ left = [p \in Editors |-> {}]
    BY DEF Init
  <2> QED
    BY <1>2, <2>1, <2>2, ConfigAssumption DEF EditorsType, PC, Op, Secrets
<1>5. /\ account \in BOOLEAN /\ spoilt \in BOOLEAN /\ tripped \in BOOLEAN
      /\ served = NoFile /\ dir \in BOOLEAN
  <2>1. dir \in BOOLEAN
    BY Zenon DEF Init
  <2> QED
    BY <2>1 DEF Init
<1> QED
  BY <1>1, <1>2, <1>3, <1>4, <1>5 DEF ConfigTypeOK, EditorsType
-----------------------------------------------------------------------------
(* The webhook is open only if somebody saved it so.                       *)

\* What is in the file, and what was served, has required headers, or a
\* content without was written once.
OpenInv ==
    /\ file \in Content /\ file.headers = {} => everOpen
    /\ served # NoFile => served \in Content /\ (served.headers = {} => everOpen)

\* Only Write changes the file to a content.
LEMMA FileStep ==
    ASSUME ConfigTypeOK, [Next]_vars
    PROVE  \/ UNCHANGED <<file, everOpen>>
           \/ file' \in {NoFile, Empty} /\ everOpen' = everOpen
           \/ \E p \in Editors : Write(p)
<1>1. ASSUME NEW p \in Editors, Command(p)
      PROVE  UNCHANGED <<file, everOpen>>
  BY <1>1, CommandForms DEF BeginsEdit, BeginsSecret, ChangeSecret, DeleteInstance,
     LoginInstance, Begin, files, past
<1>2. ASSUME NEW p \in Editors, NEW f \in Files, RemoveFile(p, f)
      PROVE  everOpen' = everOpen /\ (file' = file \/ file' = NoFile)
  BY <1>2 DEF RemoveFile, past
<1> QED
  BY <1>1, <1>2 DEF Next, RemovalFails, RemoveDir, Wipe, LoadSecrets, Encrypt, OpenEnv,
     WriteEnv, Truncate, GenerateKey, WriteKey, Abandon, Serve, vars, files, past

LEMMA OpenInvStep == ConfigTypeOK /\ OpenInv /\ [Next]_vars => OpenInv'
<1> SUFFICES ASSUME ConfigTypeOK, OpenInv, [Next]_vars PROVE OpenInv'
  OBVIOUS
<1>1. everOpen \in BOOLEAN /\ everOpen' \in BOOLEAN
  BY FlagsStep DEF ConfigTypeOK, Flags
<1>2. file' \in Content /\ file'.headers = {} => everOpen'
  <2>1. CASE UNCHANGED <<file, everOpen>>
    BY <2>1 DEF OpenInv
  <2>2. CASE file' \in {NoFile, Empty}
    BY <2>2, ContentAssumption
  <2>3. ASSUME NEW p \in Editors, Write(p), file' \in Content, file'.headers = {}
        PROVE  everOpen'
    <3>1. copy[p] \in Content
      BY <2>3 DEF Write, ConfigTypeOK
    <3>2. everOpen' <=> everOpen \/ copy[p].headers = {}
      BY <2>3, Zenon DEF Write
    <3>3. file' = file \/ file'.headers = copy[p].headers
      <4>1. file' \in Written(p) /\ file' # Torn
        BY <2>3, ContentAssumption DEF Write
      <4> QED
        BY <3>1, <4>1 DEF Written, Content
    <3> QED
      BY <2>3, <3>2, <3>3 DEF OpenInv
  <2> QED
    BY <2>1, <2>2, <2>3, FileStep
<1>3. everOpen => everOpen'
  <2>1. ASSUME NEW p \in Editors, Write(p) PROVE everOpen => everOpen'
    BY <2>1, Zenon DEF Write
  <2> QED
    BY <1>1, <2>1, FileStep
<1>4. served' # NoFile => served' \in Content /\ (served'.headers = {} => everOpen')
  <2>1. CASE served' = served
    BY <1>3, <2>1 DEF OpenInv
  <2>2. CASE served' \in Loads /\ UNCHANGED <<file, everOpen>>
    BY <2>2 DEF Loads, OpenInv
  <2> QED
    BY <2>1, <2>2, ServedStep
<1> QED
  BY <1>2, <1>4 DEF OpenInv

\* The state of the component has the shape its code gives it.
THEOREM ConfigTypeCorrect == Spec => []ConfigTypeOK
  BY ConfigTypeInit, ConfigTypeStep, PTL DEF Spec

\* However saves, crashes in the middle of one, deletions and re-creations
\* overlap, check_auth is never asked to judge a request by an instance
\* without required headers that nobody wrote (auth.py:34-37).
THEOREM OpenOnlyIfSavedOpenHolds == Spec => []OpenOnlyIfSavedOpen
<1>1. Init => ConfigTypeOK /\ OpenInv
  <2> SUFFICES ASSUME Init PROVE ConfigTypeOK /\ OpenInv
    OBVIOUS
  <2>1. file # NoFile /\ file.headers = {} => everOpen
    BY Zenon DEF Init
  <2> QED
    BY <2>1, ConfigTypeInit, ContentAssumption DEF Init, OpenInv
<1>2. ConfigTypeOK /\ OpenInv /\ [Next]_vars => (ConfigTypeOK /\ OpenInv)'
  BY ConfigTypeStep, OpenInvStep
<1>3. OpenInv => OpenOnlyIfSavedOpen
  BY DEF OpenInv, OpenOnlyIfSavedOpen
<1> QED
  BY <1>1, <1>2, <1>3, PTL DEF Spec
-----------------------------------------------------------------------------
(* The secrets stay readable.                                              *)

\* Until something spoils it: an editor that found no key still finds none when
\* it writes its own, env.enc is truncated only while a store has it open, and
\* it is of another key only while a deletion is under way.  What was
\* encrypted was encrypted with a key.
KeyInv ==
    /\ env.text = "whole" => env.by # 0
    /\ \A p \in Editors : pc[p] \in {"open", "env"} => cipher[p] # 0
    /\ ~spoilt =>
        /\ \A p \in Editors : pc[p] = "newkey" => key = 0
        /\ env.text # "mixed"
        /\ env.text = "empty" => \E p \in Editors : pc[p] = "env" /\ linked[p]
        /\ env.text = "whole" /\ env.by # key => \E p \in Editors : pc[p] = "rmtree"

\* An editor that is neither storing nor deleting goes on, and not to the
\* writing of a key or of a store.
Elsewhere(p) ==
    /\ pc[p] \notin {"env", "rmtree"}
    /\ \E next \in PC \ {"newkey", "open", "env"} : pc' = [pc EXCEPT ![p] = next]
    /\ \A q \in Editors \ {p} : cipher'[q] = cipher[q] /\ linked'[q] = linked[q]

LEMMA KeyFrame ==
    ASSUME ConfigTypeOK, KeyInv, UNCHANGED <<key, env>>, ~spoilt' => ~spoilt,
           UNCHANGED <<pc, cipher, linked>> \/ \E p \in Editors : Elsewhere(p)
    PROVE  KeyInv'
<1>1. CASE UNCHANGED <<pc, cipher, linked>>
  BY <1>1 DEF KeyInv
<1>2. ASSUME NEW p \in Editors, Elsewhere(p) PROVE KeyInv'
  <2>1. /\ pc'[p] \notin {"newkey", "open", "env"}
        /\ \A q \in Editors \ {p} : pc'[q] = pc[q]
    BY <1>2 DEF Elsewhere, ConfigTypeOK
  <2>2. \A q \in Editors : pc[q] \in {"env", "rmtree"} =>
            pc'[q] = pc[q] /\ linked'[q] = linked[q]
    BY <1>2, <2>1 DEF Elsewhere
  <2>3. \A q \in Editors : pc'[q] \in {"newkey", "open", "env"} =>
            pc[q] = pc'[q] /\ cipher'[q] = cipher[q]
    BY <1>2, <2>1 DEF Elsewhere
  <2> QED
    BY <2>2, <2>3 DEF KeyInv
<1> QED
  BY <1>1, <1>2

LEMMA KeyInvStep == ConfigTypeOK /\ KeyInv /\ [Next]_vars => KeyInv'
<1> SUFFICES ASSUME ConfigTypeOK, KeyInv, [Next]_vars PROVE KeyInv'
  OBVIOUS
<1>0. /\ pc \in [Editors -> PC] /\ linked \in [Editors -> BOOLEAN]
      /\ cipher \in [Editors -> 0..keys] /\ names \in [Editors -> SUBSET Secrets]
      /\ key \in 0..keys /\ keys \in Nat /\ env \in Env
  BY DEF ConfigTypeOK
<1>1. ASSUME NEW p \in Editors,
             BeginsEdit(p) \/ BeginsSecret(p) \/ LoginInstance(p) \/ DeleteInstance(p)
      PROVE  KeyInv'
  <2>1. UNCHANGED <<key, env, spoilt>>
    BY <1>1 DEF BeginsEdit, BeginsSecret, ChangeSecret, LoginInstance, DeleteInstance, Begin,
       files, past
  <2>2. UNCHANGED <<pc, cipher, linked>> \/ Elsewhere(p)
    BY <1>1 DEF BeginsEdit, BeginsSecret, ChangeSecret, LoginInstance, DeleteInstance, Begin,
       Idle, editors, work, Elsewhere, PC
  <2> QED
    BY <2>1, <2>2, KeyFrame
<1>2. ASSUME NEW p \in Editors, pc[p] \notin {"env", "rmtree"}, Return(p)
      PROVE  Elsewhere(p)
  BY <1>0, <1>2 DEF Return, Elsewhere, PC
<1>3. ASSUME NEW p \in Editors, NEW next \in PC \ {"newkey", "open", "env"},
             pc[p] \notin {"env", "rmtree"}, Goto(p, next)
      PROVE  Elsewhere(p)
  BY <1>3 DEF Goto, Elsewhere, work
<1>4. ASSUME NEW p \in Editors, pc[p] \notin {"env", "rmtree"}, AfterSecret(p)
      PROVE  Elsewhere(p)
  BY <1>2, <1>3, <1>4 DEF AfterSecret, PC
<1>5. ASSUME NEW p \in Editors, Wipe(p) PROVE KeyInv'
  BY <1>2, <1>5, KeyFrame DEF Wipe, past
<1>6. ASSUME NEW p \in Editors, Abandon(p) PROVE KeyInv'
  <2>1. UNCHANGED <<key, env>> /\ Return(p)
    BY <1>6 DEF Abandon, files
  <2>2. spoilt' <=> spoilt \/ pc[p] \in {"env", "rmtree"}
    BY <1>6, Zenon DEF Abandon
  <2>3. CASE pc[p] \notin {"env", "rmtree"}
    BY <1>2, <2>1, <2>2, <2>3, KeyFrame
  <2>4. CASE pc[p] \in {"env", "rmtree"}
    BY <1>0, <2>1, <2>2, <2>4 DEF KeyInv, Return
  <2> QED
    BY <2>3, <2>4
<1>7. ASSUME NEW p \in Editors, NEW f \in Files, RemoveFile(p, f) PROVE KeyInv'
  <2>1. /\ pc[p] = "rmtree" /\ UNCHANGED <<pc, cipher, spoilt>>
        /\ key' \in {key, 0}
        /\ env' = IF f = "env.enc" THEN NoEnv ELSE env
    BY <1>7 DEF RemoveFile, past
  <2>2. f # "env.enc" => \A q \in Editors : pc[q] = "env" => linked'[q] = linked[q]
    BY <1>0, <1>7 DEF RemoveFile
  <2> QED
    BY <2>1, <2>2 DEF KeyInv, NoEnv
<1>8. ASSUME NEW p \in Editors, RemovalFails(p) PROVE KeyInv'
  BY <1>0, <1>8 DEF RemovalFails, Return, files, KeyInv
<1>9. ASSUME NEW p \in Editors, RemoveDir(p) PROVE KeyInv'
  <2>1. key = 0 /\ env.text = "none"
    BY <1>9 DEF RemoveDir, Present, Files
  <2>2. UNCHANGED <<key, env, cipher, linked>> /\ pc' = [pc EXCEPT ![p] = "wipe"]
    BY <1>9 DEF RemoveDir, Goto, work
  <2> QED
    BY <1>0, <2>1, <2>2 DEF KeyInv
<1>10. ASSUME NEW p \in Editors, LoadSecrets(p) PROVE KeyInv'
  <2>1. UNCHANGED <<key, env, spoilt>> /\ pc[p] \notin {"env", "rmtree"}
    BY <1>10 DEF LoadSecrets, files, past
  <2>2. \/ Return(p) \/ AfterSecret(p)
        \/ pc' = [pc EXCEPT ![p] = "store"] /\ UNCHANGED <<cipher, linked>>
    BY <1>10 DEF LoadSecrets
  <2>3. Elsewhere(p)
    BY <1>2, <1>4, <2>1, <2>2 DEF Elsewhere, PC
  <2> QED
    BY <2>1, <2>3, KeyFrame
<1>11. ASSUME NEW p \in Editors, Encrypt(p) PROVE KeyInv'
  <2>1. UNCHANGED <<key, env, spoilt>> /\ pc[p] = "store"
    BY <1>11 DEF Encrypt, files, past
  <2>2. CASE Return(p)
    BY <1>2, <2>1, <2>2, KeyFrame
  <2>3. CASE key # 0 /\ cipher' = [cipher EXCEPT ![p] = key] /\ UNCHANGED linked
             /\ pc' = [pc EXCEPT ![p] = "open"]
    <3>1. \A q \in Editors : pc'[q] \in {"open", "env"} => cipher'[q] # 0
      BY <1>0, <2>3 DEF KeyInv
    <3>2. \A q \in Editors : pc[q] \in {"env", "rmtree", "newkey"} <=>
                             pc'[q] \in {"env", "rmtree", "newkey"}
      BY <1>0, <2>1, <2>3
    <3>3. \A q \in Editors : pc[q] \in {"env", "rmtree", "newkey"} => pc'[q] = pc[q]
      BY <1>0, <2>1, <2>3
    <3> QED
      BY <2>1, <2>3, <3>1, <3>2, <3>3 DEF KeyInv
  <2> QED
    BY <1>11, <2>2, <2>3 DEF Encrypt
<1>12. ASSUME NEW p \in Editors, OpenEnv(p) PROVE KeyInv'
  <2>1. UNCHANGED <<key, spoilt>> /\ pc[p] = "open"
    BY <1>12 DEF OpenEnv, past
  <2>2. CASE Return(p) /\ UNCHANGED env
    BY <1>2, <2>1, <2>2, KeyFrame
  <2>3. CASE /\ env' = [text |-> "empty", by |-> 0, names |-> {}]
             /\ linked' = [linked EXCEPT ![p] = TRUE]
             /\ pc' = [pc EXCEPT ![p] = "env"] /\ UNCHANGED cipher
    BY <1>0, <2>1, <2>3 DEF KeyInv
  <2> QED
    BY <1>12, <2>2, <2>3 DEF OpenEnv
<1>13. ASSUME NEW p \in Editors, WriteEnv(p) PROVE KeyInv'
  <2>1. /\ pc[p] = "env" /\ key' = key
        /\ AfterSecret(p)
    BY <1>13 DEF WriteEnv
  <2>2. spoilt' <=> spoilt \/ (linked[p] /\ (env.text # "empty" \/ cipher[p] # key))
    BY <1>13, Zenon DEF WriteEnv
  <2>3. /\ \A q \in Editors \ {p} : pc'[q] = pc[q] /\ cipher'[q] = cipher[q]
                                   /\ linked'[q] = linked[q]
        /\ pc'[p] \in {"idle", "save"}
    BY <1>0, <2>1 DEF AfterSecret, Return, Goto, work
  <2>4. CASE linked[p]
    <3>1. \/ env' = [text |-> "whole", by |-> cipher[p], names |-> names[p]]
          \/ env' = [text |-> "mixed", by |-> 0, names |-> {}]
             /\ env.text \in {"whole", "mixed"}
      BY <1>13, <2>4 DEF WriteEnv, EnvBy
    <3>2. cipher[p] # 0
      BY <2>1 DEF KeyInv
    <3> QED
      BY <2>1, <2>2, <2>3, <2>4, <3>1, <3>2 DEF KeyInv
  <2>5. CASE ~linked[p]
    <3>1. env' = env
      BY <1>13, <2>5 DEF WriteEnv
    <3> QED
      BY <2>1, <2>2, <2>3, <2>5, <3>1 DEF KeyInv
  <2> QED
    BY <2>4, <2>5
<1>14. ASSUME NEW p \in Editors, Truncate(p) PROVE KeyInv'
  <2>1. Elsewhere(p)
    BY <1>0, <1>14 DEF Truncate, Elsewhere, PC
  <2> QED
    BY <1>14, <2>1, KeyFrame DEF Truncate, past
<1>15. ASSUME NEW p \in Editors, Write(p) PROVE KeyInv'
  <2>1. UNCHANGED <<key, env, spoilt>> /\ pc[p] = "write" /\ (Return(p) \/ Goto(p, "key"))
    BY <1>15 DEF Write
  <2> QED
    BY <1>2, <1>3, <2>1, KeyFrame DEF PC
<1>16. ASSUME NEW p \in Editors, GenerateKey(p) PROVE KeyInv'
  <2>1. UNCHANGED <<key, env, spoilt>> /\ pc[p] = "key"
    BY <1>16 DEF GenerateKey, files, past
  <2>2. CASE key = 0 /\ Goto(p, "newkey")
    <3>1. /\ \A q \in Editors \ {p} : pc'[q] = pc[q]
          /\ pc'[p] = "newkey" /\ UNCHANGED <<cipher, linked>>
      BY <1>0, <2>2 DEF Goto, work
    <3> QED
      BY <2>1, <2>2, <3>1 DEF KeyInv
  <2>3. CASE Return(p)
    BY <1>2, <2>1, <2>3, KeyFrame
  <2> QED
    BY <1>16, <2>2, <2>3 DEF GenerateKey
<1>17. ASSUME NEW p \in Editors, WriteKey(p) PROVE KeyInv'
  <2>1. pc[p] = "newkey" /\ UNCHANGED <<env, cipher, linked>> /\ key' # 0
    BY <1>0, <1>17 DEF WriteKey
  <2>2. spoilt' <=> spoilt \/ \E q \in Editors \ {p} : pc[q] = "newkey"
    BY <1>17, Zenon DEF WriteKey
  <2>3. pc'[p] = "save" /\ \A q \in Editors \ {p} : pc'[q] = pc[q]
    BY <1>0, <1>17 DEF WriteKey
  <2> QED
    BY <2>1, <2>2, <2>3 DEF KeyInv
<1>18. CASE Serve \/ UNCHANGED vars
  BY <1>18, KeyFrame DEF Serve, vars, files, editors, work, past
<1> QED
  BY <1>1, <1>5, <1>6, <1>7, <1>8, <1>9, <1>10, <1>11, <1>12, <1>13, <1>14, <1>15, <1>16,
     <1>17, <1>18, CommandForms DEF Next

\* Whatever is run on the name, the secrets are encrypted with the key that
\* is there ("keys are immutable for the life of the instance",
\* secrets.py:180) when no store and no deletion is under way.  The code
\* loses that, until the next whole deletion, when two creations find no key
\* at one moment, a store meets another one or the removal of its key
\* (secrets.py:88-92), or a store or a deletion ends half-way.
THEOREM SecretsReadableHolds == Spec => []SecretsReadable
<1>1. Init => ConfigTypeOK /\ KeyInv
  <2> SUFFICES ASSUME Init PROVE ConfigTypeOK /\ KeyInv
    OBVIOUS
  <2>1. \/ key = 0 /\ env = [text |-> "none", by |-> 0, names |-> {}]
        \/ key = 1 /\ env = [text |-> "whole", by |-> 1, names |-> Headers]
    BY KeyInit
  <2>2. \A p \in Editors : pc[p] = "idle"
    BY DEF Init
  <2> QED
    BY <2>1, <2>2, ConfigTypeInit DEF KeyInv
<1>2. ConfigTypeOK /\ KeyInv /\ [Next]_vars => (ConfigTypeOK /\ KeyInv)'
  BY ConfigTypeStep, KeyInvStep
<1>3. ConfigTypeOK /\ KeyInv => SecretsReadable
  <2>1. ConfigTypeOK => env.text \in {"none", "empty", "whole", "mixed"}
    BY DEF ConfigTypeOK, Env
  <2> QED
    BY <2>1 DEF KeyInv, SecretsReadable, Readable
<1> QED
  BY <1>1, <1>2, <1>3, PTL DEF Spec
=============================================================================
