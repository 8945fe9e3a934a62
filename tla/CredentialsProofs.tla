------------------------- MODULE CredentialsProofs --------------------------
(***************************************************************************)
(* Proofs about JobCredentials for any number of concurrent runs and of    *)
(* installation tokens, in every time zone.                                *)
(***************************************************************************)
EXTENDS JobCredentials, TLAPS

\* The steps of a run before it may hold an installation token, and those
\* during which it may hold a grant.
BeforeToken == {"idle", "network", "inspect", "remove", "run", "health",
                "connect", "register", "mint", "ask"}
Granted == {"mint", "ask", "agent", "deliver", "teardown"}

\* The grant of a run ends with its teardown, and the broker knows only
\* tokens of runs that hold theirs, or lost it.
Grants ==
    /\ \A r \in grant : pc[r] \in Granted
    /\ \A r \in reg : r \in grant \/ r \in lost.runs

\* Before the workspace is prepared a run holds no token.
NoTokenYet == \A r \in Runs : pc[r] \in BeforeToken => git[r] = None

\* A token that is held or cached was minted; one that was narrowed to the
\* repositories of a run is held by nobody else.
Held ==
    /\ \A r \in Runs : git[r] # None => state[git[r]] # "unused"
    /\ cache # None => state[cache] # "unused"
    /\ \A r \in WithRepos : git[r] # None =>
          cache # git[r] /\ \A q \in Runs \ {r} : git[q] # git[r]

TokenInv == Held /\ GitTokenHolds /\ NoStrayToken

CredInv == Grants /\ NoTokenYet /\ TokenInv

LEMMA NoneIsNoToken == None \notin Tokens /\ None = 0
  BY CredentialsAssumption DEF None, Tokens

LEMMA CredTypeInit == Init => CredTypeOK
<1> SUFFICES ASSUME Init PROVE CredTypeOK
  OBVIOUS
<1>1. network \in BOOLEAN /\ attached \in BOOLEAN
  BY Zenon DEF Init
<1> QED
  BY <1>1 DEF Init, CredTypeOK, PC, TokenState

\* The part of the type invariant without the Boolean variables.
Shape ==
    /\ broker \in {"absent", "starting", "up"}
    /\ reg \subseteq Runs /\ open \subseteq Runs
    /\ pc \in [Runs -> PC]
    /\ grant \subseteq Runs /\ agent \subseteq Runs
    /\ git \in [Runs -> Tokens \cup {None}]
    /\ state \in [Tokens -> TokenState]
    /\ cache \in Tokens \cup {None}
    /\ lost \in [runs : SUBSET Runs, tokens : SUBSET Tokens]
    /\ broker # "up" => reg = {} /\ open = {}

LEMMA SwitchStep == CredTypeOK /\ [Next]_vars =>
                        network' \in BOOLEAN /\ attached' \in BOOLEAN
<1> SUFFICES ASSUME CredTypeOK, [Next]_vars
             PROVE  network' \in BOOLEAN /\ attached' \in BOOLEAN
  OBVIOUS
<1>0. network \in BOOLEAN /\ attached \in BOOLEAN /\ (broker # "absent") \in BOOLEAN
  BY Zenon DEF CredTypeOK
<1>1. network' = network \/ network' = TRUE
  BY DEF Next, vars, docker, Inspect, CreateNetwork, ContainerRunning, RemoveBroker,
      RunBroker, WaitHealthy, EnsureConnected, Register, Prepare, AskToken,
      AgentEnds, Deliver, Teardown, Revoke, Connect, Close, AgentExits, Age, Crash, BrokerServes,
      BrokerRestarts
<1>2. attached' = attached \/ attached' = FALSE \/ attached' = (broker # "absent")
  BY DEF Next, vars, docker, Inspect, CreateNetwork, ContainerRunning, RemoveBroker,
      RunBroker, WaitHealthy, EnsureConnected, Register, Prepare, AskToken,
      AgentEnds, Deliver, Teardown, Revoke, Connect, Close, AgentExits, Age, Crash, BrokerServes,
      BrokerRestarts
<1> QED
  BY <1>0, <1>1, <1>2, Zenon

\* What minting does to the type of what it changes.
LEMMA MintType ==
    ASSUME CredTypeOK, NEW r \in Runs, Mint(r)
    PROVE  /\ git' \in [Runs -> Tokens \cup {None}]
           /\ state' \in [Tokens -> TokenState]
           /\ cache' \in Tokens \cup {None}
           /\ lost' \in [runs : SUBSET Runs, tokens : SUBSET Tokens]
           /\ lost'.runs = lost.runs
  BY DEF Mint, CredTypeOK, TokenState, Used, Cached

LEMMA CredTypeStep == CredTypeOK /\ [Next]_vars => CredTypeOK'
<1> SUFFICES ASSUME CredTypeOK, [Next]_vars PROVE Shape'
  BY SwitchStep DEF CredTypeOK, Shape
<1>0. Shape
  BY DEF CredTypeOK, Shape
<1> USE DEF docker, At, Goto, Fail
<1>1. ASSUME NEW r \in Runs,
             \/ Inspect(r) \/ CreateNetwork(r) \/ ContainerRunning(r)
             \/ RemoveBroker(r) \/ RunBroker(r) \/ WaitHealthy(r)
             \/ EnsureConnected(r)
      PROVE  Shape'
  BY <1>0, <1>1 DEF PC, Shape, Inspect, CreateNetwork, ContainerRunning, RemoveBroker,
      RunBroker, WaitHealthy, EnsureConnected
<1>2. ASSUME NEW r \in Runs, Register(r) PROVE Shape'
  BY <1>0, <1>2 DEF PC, Shape, Register
<1>3. ASSUME NEW r \in Runs, Prepare(r) \/ AskToken(r) PROVE Shape'
  <2>1. CASE Prepare(r)
    BY <1>0, <2>1 DEF PC, Shape, Prepare, StartAgent
  <2>2. CASE AskToken(r)
    BY <1>0, <2>2, MintType DEF PC, Shape, AskToken, StartAgent
  <2> QED
    BY <1>3, <2>1, <2>2
<1>4. ASSUME NEW r \in Runs, AgentEnds(r) PROVE Shape'
  BY <1>0, <1>4 DEF PC, Shape, AgentEnds
<1>5. ASSUME NEW r \in Runs, Deliver(r) PROVE Shape'
  BY <1>0, <1>5, MintType DEF PC, Shape, Deliver
<1>6. ASSUME NEW r \in Runs, Teardown(r) PROVE Shape'
  BY <1>0, <1>6 DEF PC, Shape, Teardown
<1>7. ASSUME NEW r \in Runs, Revoke(r) PROVE Shape'
  BY <1>0, <1>7 DEF PC, Shape, Revoke, TokenState
<1>8. ASSUME NEW r \in Runs, Connect(r) \/ Close(r) \/ AgentExits(r) PROVE Shape'
  BY <1>0, <1>8 DEF Shape, Connect, Close, AgentExits
<1>9. ASSUME NEW t \in Tokens, Age(t) PROVE Shape'
  BY <1>0, <1>9 DEF Shape, Age, TokenState
<1>10. CASE Crash
  BY <1>0, <1>10 DEF PC, Shape, Crash
<1>11. CASE BrokerServes \/ BrokerRestarts
  BY <1>0, <1>11 DEF Shape, BrokerServes, BrokerRestarts
<1>12. CASE UNCHANGED vars
  BY <1>0, <1>12 DEF Shape, vars
<1> QED
  BY <1>1, <1>2, <1>3, <1>4, <1>5, <1>6, <1>7, <1>8, <1>9, <1>10, <1>11, <1>12
     DEF Next

\* Every variable keeps its type: the run of a job is at one of the steps of
\* run_job, and a broker that is not serving knows nothing.
THEOREM CredTypeCorrect == Spec => []CredTypeOK
  BY CredTypeInit, CredTypeStep, PTL DEF Spec
-----------------------------------------------------------------------------
LEMMA CredInvInit == Init => CredInv
  BY NoneIsNoToken, CredentialsAssumption DEF Init, CredInv, Grants, NoTokenYet,
      TokenInv, Held, GitTokenHolds, NoStrayToken, Live

LEMMA GrantsStep == CredTypeOK /\ Grants /\ [Next]_vars => Grants'
<1> SUFFICES ASSUME CredTypeOK, Grants, [Next]_vars PROVE Grants'
  OBVIOUS
<1> USE DEF docker, At, Goto, Fail, Granted, Grants, CredTypeOK
<1>1. ASSUME NEW r \in Runs,
             \/ Inspect(r) \/ CreateNetwork(r) \/ ContainerRunning(r)
             \/ RemoveBroker(r) \/ RunBroker(r) \/ WaitHealthy(r)
             \/ EnsureConnected(r) \/ AgentEnds(r)
      PROVE  Grants'
  BY <1>1 DEF Inspect, CreateNetwork, ContainerRunning, RemoveBroker, RunBroker,
      WaitHealthy, EnsureConnected, AgentEnds
<1>2. ASSUME NEW r \in Runs, Register(r) PROVE Grants'
  BY <1>2 DEF Register
<1>3. ASSUME NEW r \in Runs, Prepare(r) \/ AskToken(r) PROVE Grants'
  BY <1>3, MintType DEF Prepare, AskToken, StartAgent
<1>4. ASSUME NEW r \in Runs, Deliver(r) PROVE Grants'
  BY <1>4, MintType DEF Deliver
<1>5. ASSUME NEW r \in Runs, Teardown(r) PROVE Grants'
  BY <1>5 DEF Teardown
<1>6. ASSUME NEW r \in Runs, Revoke(r) PROVE Grants'
  BY <1>6 DEF Revoke
<1>7. ASSUME NEW r \in Runs, Connect(r) \/ Close(r) \/ AgentExits(r) PROVE Grants'
  BY <1>7 DEF Connect, Close, AgentExits
<1>8. ASSUME NEW t \in Tokens, Age(t) PROVE Grants'
  BY <1>8 DEF Age
<1>9. CASE Crash
  BY <1>9 DEF Crash
<1>10. CASE BrokerServes \/ BrokerRestarts
  BY <1>10 DEF BrokerServes, BrokerRestarts
<1>11. CASE UNCHANGED vars
  BY <1>11 DEF vars
<1> QED
  BY <1>1, <1>2, <1>3, <1>4, <1>5, <1>6, <1>7, <1>8, <1>9, <1>10, <1>11 DEF Next
-----------------------------------------------------------------------------
(* Tokens.                                                                 *)

\* A run that holds none gets the smallest unused one.
LEMMA MintKeepsTokens ==
    ASSUME CredTypeOK, TokenInv, NEW r \in Runs, git[r] = None, Mint(r)
    PROVE  TokenInv' /\ \A q \in Runs \ {r} : git'[q] = git[q]
<1> USE NoneIsNoToken, CredentialsAssumption DEF CredTypeOK
<1>1. ASSUME NEW t \in Tokens \ Used,
             state' = [state EXCEPT ![t] = "fresh"],
             \/ /\ git' = [git EXCEPT ![r] = t]
                /\ cache' = IF Cached(r) THEN t ELSE cache
                /\ UNCHANGED lost
             \/ /\ lost' = [lost EXCEPT !.tokens = @ \cup {t}]
                /\ UNCHANGED <<git, cache>>
      PROVE  TokenInv' /\ \A q \in Runs \ {r} : git'[q] = git[q]
  <2>1. state[t] = "unused"
    BY <1>1 DEF Used
  <2>2. Held'
    BY <1>1, <2>1 DEF TokenInv, Held, Cached
  <2>3. GitTokenHolds'
    BY <1>1, <2>1 DEF TokenInv, GitTokenHolds, Held
  <2>4. NoStrayToken'
    BY <1>1 DEF TokenInv, NoStrayToken, Live
  <2> QED
    BY <1>1, <2>2, <2>3, <2>4 DEF TokenInv
<1>2. CASE UNCHANGED <<git, state, cache, lost>>
  BY <1>2 DEF TokenInv, Held, GitTokenHolds, NoStrayToken, Live
<1> QED
  BY <1>1, <1>2 DEF Mint

\* ... or the cached one, which is no run's alone.
LEMMA HitKeepsTokens ==
    ASSUME CredTypeOK, TokenInv, NEW r \in Runs, Cached(r), cache # None,
           git' = [git EXCEPT ![r] = cache], git[r] = None, UNCHANGED <<state, cache, lost>>
    PROVE  TokenInv'
<1> USE NoneIsNoToken, CredentialsAssumption DEF CredTypeOK
<1>1. Held'
  BY DEF TokenInv, Held, Cached
<1>2. GitTokenHolds'
  BY DEF TokenInv, GitTokenHolds, Cached
<1>3. NoStrayToken'
  BY DEF TokenInv, NoStrayToken, Live
<1> QED
  BY <1>1, <1>2, <1>3 DEF TokenInv

LEMMA TokensStep ==
    CredTypeOK /\ NoTokenYet /\ TokenInv /\ [Next]_vars
        => NoTokenYet' /\ TokenInv'
<1> SUFFICES ASSUME CredTypeOK, NoTokenYet, TokenInv, [Next]_vars
             PROVE  NoTokenYet' /\ TokenInv'
  OBVIOUS
<1> USE NoneIsNoToken, CredentialsAssumption
    DEF docker, At, Goto, Fail, BeforeToken, NoTokenYet, CredTypeOK
<1>1. ASSUME NEW r \in Runs, UNCHANGED <<git, state, cache>>,
             lost'.tokens = lost.tokens,
             \A q \in Runs : pc'[q] \in BeforeToken => pc[q] \in BeforeToken
      PROVE  NoTokenYet' /\ TokenInv'
  BY <1>1 DEF TokenInv, Held, GitTokenHolds, NoStrayToken, Live
<1>2. ASSUME NEW r \in Runs,
             \/ Inspect(r) \/ CreateNetwork(r) \/ ContainerRunning(r)
             \/ RemoveBroker(r) \/ RunBroker(r) \/ WaitHealthy(r)
             \/ EnsureConnected(r) \/ Register(r) \/ AgentEnds(r) \/ Teardown(r)
             \/ Connect(r) \/ Close(r) \/ AgentExits(r)
      PROVE  NoTokenYet' /\ TokenInv'
  <2>1. UNCHANGED <<git, state, cache>> /\ lost'.tokens = lost.tokens
    BY <1>2 DEF Inspect, CreateNetwork, ContainerRunning, RemoveBroker, RunBroker,
        WaitHealthy, EnsureConnected, Register, AgentEnds, Teardown, Connect, Close,
        AgentExits
  <2>2. \A q \in Runs : pc'[q] \in BeforeToken => pc[q] \in BeforeToken
    BY <1>2 DEF Inspect, CreateNetwork, ContainerRunning, RemoveBroker, RunBroker,
        WaitHealthy, EnsureConnected, Register, AgentEnds, Teardown, Connect, Close,
        AgentExits
  <2> QED
    BY <1>1, <2>1, <2>2
<1>3. ASSUME NEW r \in Runs, Prepare(r) \/ AskToken(r) PROVE NoTokenYet' /\ TokenInv'
  <2>1. CASE Prepare(r)
    <3>1. pc[r] = "mint" /\ git[r] = None /\ UNCHANGED <<state, cache, lost>>
      BY <2>1 DEF Prepare
    <3>2. CASE /\ Cached(r) /\ cache # None
               /\ git' = [git EXCEPT ![r] = cache] /\ StartAgent(r)
      <4>1. TokenInv'
        BY <3>1, <3>2, HitKeepsTokens
      <4> QED
        BY <3>2, <4>1 DEF StartAgent
    <3>3. CASE git' = git /\ pc' = [pc EXCEPT ![r] = "ask"]
      BY <1>1, <3>1, <3>3
    <3> QED
      BY <2>1, <3>2, <3>3 DEF Prepare
  <2>2. CASE AskToken(r)
    <3>1. git[r] = None /\ Mint(r)
      BY <2>2 DEF AskToken
    <3>2. TokenInv' /\ \A q \in Runs \ {r} : git'[q] = git[q]
      BY <3>1, MintKeepsTokens
    <3>3. NoTokenYet'
      BY <2>2, <3>2 DEF AskToken, StartAgent
    <3> QED
      BY <3>2, <3>3
  <2> QED
    BY <1>3, <2>1, <2>2
<1>4. ASSUME NEW r \in Runs, Deliver(r) PROVE NoTokenYet' /\ TokenInv'
  <2>1. pc' = [pc EXCEPT ![r] = "teardown"]
    BY <1>4 DEF Deliver
  <2>2. CASE r \in WithRepos /\ NeedsToken(r)
    <3>1. TokenInv' /\ \A q \in Runs \ {r} : git'[q] = git[q]
      BY <1>4, <2>2, MintKeepsTokens DEF Deliver, NeedsToken
    <3> QED
      BY <2>1, <3>1
  <2>3. CASE ~(r \in WithRepos /\ NeedsToken(r))
    BY <1>4, <2>1, <2>3, <1>1 DEF Deliver
  <2> QED
    BY <2>2, <2>3
<1>5. ASSUME NEW r \in Runs, Revoke(r) PROVE NoTokenYet' /\ TokenInv'
  <2>1. NoTokenYet'
    BY <1>5 DEF Revoke
  <2>2. Held'
    BY <1>5 DEF Revoke, TokenInv, Held, Live
  <2>3. GitTokenHolds'
    BY <1>5 DEF Revoke, TokenInv, Held, GitTokenHolds, Live
  <2>4. NoStrayToken'
    BY <1>5 DEF Revoke, TokenInv, NoStrayToken, Live
  <2> QED
    BY <2>1, <2>2, <2>3, <2>4 DEF TokenInv
<1>6. ASSUME NEW t \in Tokens, Age(t) PROVE NoTokenYet' /\ TokenInv'
  BY <1>6 DEF Age, TokenInv, Held, GitTokenHolds, NoStrayToken, Live
<1>7. CASE Crash
  <2>1. NoTokenYet' /\ Held' /\ GitTokenHolds'
    BY <1>7 DEF Crash, Held, GitTokenHolds
  <2>2. NoStrayToken'
    BY <1>7 DEF Crash, TokenInv, NoStrayToken, Live
  <2> QED
    BY <2>1, <2>2 DEF TokenInv
<1>8. CASE BrokerServes \/ BrokerRestarts \/ UNCHANGED vars
  BY <1>8 DEF BrokerServes, BrokerRestarts, vars, TokenInv, Held, GitTokenHolds,
      NoStrayToken, Live
<1> QED
  BY <1>2, <1>3, <1>4, <1>5, <1>6, <1>7, <1>8 DEF Next
-----------------------------------------------------------------------------
\* The inductive invariant holds in every reachable state: grants go with the
\* steps of a run that may hold one, no run holds an installation token before
\* its workspace is prepared, and a narrowed token has one holder, so the
\* revocation at the end of a run takes nothing from another.
THEOREM CredInvariant == Spec => [](CredTypeOK /\ CredInv)
<1>1. Init => CredTypeOK /\ CredInv
  BY CredTypeInit, CredInvInit
<1>2. CredTypeOK /\ CredInv /\ [Next]_vars => (CredTypeOK /\ CredInv)'
  BY CredTypeStep, GrantsStep, TokensStep DEF CredInv
<1> QED
  BY <1>1, <1>2, PTL DEF Spec

\* Whatever fails and however other runs restart the broker, it knows no
\* token of a run that is over but one whose return was lost, with an
\* answer or with the server.
THEOREM NoStrayGrantHolds == Spec => []NoStrayGrant
<1>1. CredInv => NoStrayGrant
  BY DEF CredInv, Grants, Granted, NoStrayGrant
<1> QED
  BY <1>1, CredInvariant, PTL

\* Nobody revokes the token with which a run clones and pushes.
THEOREM GitTokenAlwaysHolds == Spec => []GitTokenHolds
<1>1. CredInv => GitTokenHolds
  BY DEF CredInv, TokenInv
<1> QED
  BY <1>1, CredInvariant, PTL

\* Every token that is still good belongs to a run that will revoke it, but
\* for those whose answer or revocation was lost, or whose server died.
THEOREM NoStrayTokenHolds == Spec => []NoStrayToken
<1>1. CredInv => NoStrayToken
  BY DEF CredInv, TokenInv
<1> QED
  BY <1>1, CredInvariant, PTL

\* A container gets no new way out once its run has been finalized.
THEOREM NoEgressAfterRunHolds == Spec => NoEgressAfterRun
<1>1. CredTypeOK /\ CredInv /\ [Next]_vars
        => [\A r \in open' \ open : pc[r] \notin {"revoke", "done"}
                                    \/ r \in lost.runs]_vars
  <2> SUFFICES ASSUME CredTypeOK, CredInv, [Next]_vars, NEW r \in open' \ open
               PROVE  pc[r] \notin {"revoke", "done"} \/ r \in lost.runs
    OBVIOUS
  <2>1. r \in reg
    BY DEF Next, vars, docker, Inspect, CreateNetwork, ContainerRunning,
        RemoveBroker, RunBroker, WaitHealthy, EnsureConnected, Register, Prepare,
        AskToken, AgentEnds, Deliver, Teardown, Revoke, Connect, Close, AgentExits, Age, Crash,
        BrokerServes, BrokerRestarts, Lookup
  <2> QED
    BY <2>1 DEF CredInv, Grants, Granted
<1> QED
  BY <1>1, CredInvariant, PTL DEF Spec, NoEgressAfterRun
=============================================================================
