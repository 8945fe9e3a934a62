--------------------------- MODULE JobCredentials ---------------------------
(***************************************************************************)
(* What a run is lent and has to give back: its route out of the container *)
(* network (a token registered with the egress broker, which holds the     *)
(* model's key and the allowed hosts in memory) and its GitHub App token.  *)
(* The steps of run_job that borrow and return them interleave with those  *)
(* of other runs, with the broker container, with GitHub, and with what a  *)
(* run leaves behind in its own container.                                 *)
(***************************************************************************)
EXTENDS Naturals

CONSTANTS
    Runs,       \* the runs of jobs, in Docker with egress_enabled
    WithRepos,  \* those of a job that selects repositories
    MaxTokens,  \* bound: installation tokens minted
    Zone        \* the host's time zone: "utc", "west" or "east" of it

ASSUME CredentialsAssumption ==
    /\ WithRepos \subseteq Runs
    /\ MaxTokens \in Nat
    /\ Zone \in {"utc", "west", "east"}

Tokens == 1..MaxTokens
None == 0

VARIABLES
    network,   \* the internal network and the one to the internet exist
    broker,    \* the container: "absent", "starting" or "up"
    attached,  \* it is on the internal network
    reg,       \* _REG: the runs whose token the broker knows
    open,      \* the runs with a request or a tunnel through the broker
    pc,        \* where each run is
    grant,     \* ctx.egress is set
    agent,     \* the runs whose container is alive
    git,       \* ctx.git_token
    state,     \* each installation token: "fresh", "late", "expired", ...
    cache,     \* _CACHE
    lost       \* history: runs and tokens whose return was lost, with an
               \* answer or when the server died, until the broker or
               \* the clock ended them anyway

docker == <<network, broker, attached>>
vars == <<docker, reg, open, pc, grant, agent, git, state, cache, lost>>

PC == {"idle", "network", "inspect", "remove", "run", "health", "connect",
       "register", "mint", "ask", "agent", "deliver", "teardown", "revoke", "done"}
TokenState == {"unused", "fresh", "late", "expired", "revoked"}
Live(t) == state[t] \in {"fresh", "late"}

Init ==
    /\ network = FALSE
    /\ broker = "absent"
    /\ attached = FALSE
    /\ reg = {}
    /\ open = {}
    /\ pc = [r \in Runs |-> "idle"]
    /\ grant = {}
    /\ agent = {}
    /\ git = [r \in Runs |-> None]
    /\ state = [t \in Tokens |-> "unused"]
    /\ cache = None
    /\ lost = [runs |-> {}, tokens |-> {}]
-----------------------------------------------------------------------------
Goto(r, next) == pc' = [pc EXCEPT ![r] = next]

At(r, label, next) ==
    /\ pc[r] = label
    /\ Goto(r, next)

\* Mutant: an exception leaves the grant for the broker to forget.
FailEarly(r) == Goto(r, "revoke")

\* Every exception of the run ends in _finalize.
Fail(r) == Goto(r, "teardown")

(* _setup_egress and ensure_broker, one docker command at a time.          *)

Inspect(r) ==
    /\ At(r, "idle", IF network THEN "inspect" ELSE "network")
    /\ UNCHANGED <<docker, reg, open, grant, agent, git, state, cache, lost>>

\* A network of that name that appeared meanwhile is an error.
CreateNetwork(r) ==
    /\ pc[r] = "network"
    /\ network' = TRUE
    /\ IF network THEN Fail(r) ELSE Goto(r, "inspect")
    /\ UNCHANGED <<broker, attached, reg, open, grant, agent, git, state, cache,
                   lost>>

\* _container_running, which a container that is not serving yet also is.
ContainerRunning(r) ==
    /\ At(r, "inspect", IF broker = "absent" THEN "remove" ELSE "connect")
    /\ UNCHANGED <<docker, reg, open, grant, agent, git, state, cache, lost>>

\* docker rm -f, whatever has that name by now.
RemoveBroker(r) ==
    /\ At(r, "remove", "run")
    /\ broker' = "absent"
    /\ attached' = FALSE
    /\ reg' = {}
    /\ lost' = [lost EXCEPT !.runs = {}]
    /\ open' = {}
    /\ UNCHANGED <<network, grant, agent, git, state, cache>>

\* docker run --name: refused when the name is taken.
RunBroker(r) ==
    /\ pc[r] = "run"
    /\ IF broker = "absent" THEN broker' = "starting" /\ Goto(r, "health")
       ELSE Fail(r) /\ UNCHANGED broker
    /\ UNCHANGED <<network, attached, reg, open, grant, agent, git, state,
                   cache, lost>>

\* _wait_healthy, or its thirty tries are over.
WaitHealthy(r) ==
    /\ pc[r] = "health"
    /\ \/ broker = "up" /\ Goto(r, "connect")
       \/ broker # "up" /\ Fail(r)
    /\ UNCHANGED <<docker, reg, open, grant, agent, git, state, cache, lost>>

\* _ensure_connected checks no exit status.
EnsureConnected(r) ==
    /\ At(r, "connect", "register")
    /\ attached' \in {attached, broker # "absent"}
    /\ UNCHANGED <<network, broker, reg, open, grant, agent, git, state, cache,
                   lost>>

\* The broker records the token before it answers; without the answer the
\* run has no grant.
Register(r) ==
    /\ pc[r] = "register"
    /\ \/ /\ broker = "up"
          /\ reg' = reg \cup {r}
          /\ \/ Goto(r, "mint") /\ grant' = grant \cup {r} /\ UNCHANGED lost
             \/ Fail(r) /\ lost' = [lost EXCEPT !.runs = @ \cup {r}]
                /\ UNCHANGED grant
       \/ Fail(r) /\ UNCHANGED <<reg, grant, lost>>
    /\ UNCHANGED <<docker, open, agent, git, state, cache>>
-----------------------------------------------------------------------------
(* _mint_git_token: when the workspace is prepared and, if there is none   *)
(* yet, when the deliverable is applied.                                   *)

\* Whether mint takes a token from the cache.  GitHub's UTC time is read as
\* local time, so west of it a token stays for hours after it expired, and
\* east of it none is found.
Hit(t) ==
    CASE Zone = "utc"  -> state[t] \in {"fresh", "revoked"}
      [] Zone = "west" -> state[t] # "unused"
      [] Zone = "east" -> FALSE

Used == {t \in Tokens : state[t] # "unused"}

\* Mutant: the tokens of jobs with repositories are cached as well.
CachedAlways(r) == TRUE

\* A token narrowed to repositories bypasses the cache.
Cached(r) == r \notin WithRepos

\* Mutant: every use mints a token of its own.
NeedsAlways(r) == TRUE

NeedsToken(r) == git[r] = None

\* Mint at GitHub, outside the lock, and cache the answer; a reply that is
\* lost leaves a token nobody holds, and a failure leaves the static
\* credentials.
Mint(r) ==
    \/ \E t \in Tokens \ Used :
          /\ \A u \in Tokens \ Used : t <= u
          /\ state' = [state EXCEPT ![t] = "fresh"]
          /\ \/ /\ git' = [git EXCEPT ![r] = t]
                /\ cache' = IF Cached(r) THEN t ELSE cache
                /\ UNCHANGED lost
             \/ /\ lost' = [lost EXCEPT !.tokens = @ \cup {t}]
                /\ UNCHANGED <<git, cache>>
    \/ UNCHANGED <<git, state, cache, lost>>

\* Then the engine's container is started, or the checkout failed.
StartAgent(r) ==
    \/ Goto(r, "agent") /\ agent' = agent \cup {r}
    \/ Fail(r) /\ UNCHANGED agent

\* _prepare_workspace mints even for a job without repositories.  What the
\* cache holds now is taken; else GitHub is asked, while others may be asking.
Prepare(r) ==
    /\ pc[r] = "mint"
    /\ IF Cached(r) /\ cache # None /\ Hit(cache)
       THEN git' = [git EXCEPT ![r] = cache] /\ StartAgent(r)
       ELSE Goto(r, "ask") /\ UNCHANGED <<git, agent>>
    /\ UNCHANGED <<docker, reg, open, grant, state, cache, lost>>

AskToken(r) ==
    /\ pc[r] = "ask"
    /\ Mint(r)
    /\ StartAgent(r)
    /\ UNCHANGED <<docker, reg, open, grant>>

\* The engine ends, or a timeout kills its client and leaves the container.
AgentEnds(r) ==
    /\ pc[r] = "agent"
    /\ \/ Goto(r, "deliver") /\ agent' = agent \ {r} /\ open' = open \ {r}
       \/ Fail(r) /\ agent' = agent \ {r} /\ open' = open \ {r}
       \/ Fail(r) /\ UNCHANGED <<agent, open>>
    /\ UNCHANGED <<docker, reg, grant, git, state, cache, lost>>

\* _apply_deliverable, which a job without repositories leaves at once; the
\* others never look into the cache.
Deliver(r) ==
    /\ At(r, "deliver", "teardown")
    /\ IF r \in WithRepos /\ NeedsToken(r) THEN Mint(r)
       ELSE UNCHANGED <<git, state, cache, lost>>
    /\ UNCHANGED <<docker, reg, open, grant, agent>>
-----------------------------------------------------------------------------
(* _finalize.                                                              *)

\* deregister is best effort: the request, or its answer, may be lost.
Teardown(r) ==
    /\ At(r, "teardown", "revoke")
    /\ grant' = grant \ {r}
    /\ \/ r \notin grant /\ UNCHANGED <<reg, lost>>
       \/ r \in grant /\ broker = "up" /\ reg' = reg \ {r} /\ UNCHANGED lost
       \/ /\ r \in grant
          /\ lost' = IF r \in reg THEN [lost EXCEPT !.runs = @ \cup {r}] ELSE lost
          /\ UNCHANGED reg
    /\ UNCHANGED <<docker, open, agent, git, state, cache>>

\* So is revoke.  The cache keeps the token.
Revoke(r) ==
    /\ At(r, "revoke", "done")
    /\ git' = [git EXCEPT ![r] = None]
    /\ LET t == git[r] IN
       \/ t = None /\ UNCHANGED <<state, lost>>
       \/ /\ t # None
          /\ state' = IF Live(t) THEN [state EXCEPT ![t] = "revoked"] ELSE state
          /\ UNCHANGED lost
       \/ /\ t # None
          /\ lost' = [lost EXCEPT !.tokens = @ \cup {t}]
          /\ UNCHANGED state
    /\ UNCHANGED <<docker, reg, open, grant, agent, cache>>

\* The server's process ends without _finalize, and what its runs had to
\* return is lost.
Crash ==
    /\ \E r \in Runs : pc[r] \notin {"idle", "done"}
    /\ pc' = [r \in Runs |-> IF pc[r] = "idle" THEN "idle" ELSE "done"]
    /\ lost' = [runs |-> lost.runs \cup reg,
                tokens |-> lost.tokens \cup {t \in Tokens : Live(t)}]
    /\ grant' = {}
    /\ git' = [r \in Runs |-> None]
    /\ cache' = None
    /\ UNCHANGED <<docker, reg, open, agent, state>>
-----------------------------------------------------------------------------
(* The broker and the containers.                                          *)

BrokerServes ==
    /\ broker = "starting"
    /\ broker' = "up"
    /\ UNCHANGED <<network, attached, reg, open, pc, grant, agent, git, state,
                   cache, lost>>

\* Mutant: the registrations outlive the broker's process.
BrokerKeepsRegistry ==
    /\ broker = "up"
    /\ broker' = "starting"
    /\ open' = {}
    /\ UNCHANGED <<network, attached, reg, pc, grant, agent, git, state, cache,
                   lost>>

\* It is restarted unless stopped, and its registrations were in memory.
BrokerRestarts ==
    /\ broker = "up"
    /\ broker' = "starting"
    /\ reg' = {}
    /\ lost' = [lost EXCEPT !.runs = {}]
    /\ open' = {}
    /\ UNCHANGED <<network, attached, pc, grant, agent, git, state, cache>>

\* Mutant: the broker asks for no token.
LookupAny(r) == TRUE

Lookup(r) == r \in reg

\* do_CONNECT and _gateway look the token up when a request begins; the
\* tunnel, or the request with the key, goes on until it is closed.
Connect(r) ==
    /\ r \in agent \ open
    /\ broker = "up" /\ attached
    /\ Lookup(r)
    /\ open' = open \cup {r}
    /\ UNCHANGED <<docker, reg, pc, grant, agent, git, state, cache, lost>>

Close(r) ==
    /\ r \in open
    /\ open' = open \ {r}
    /\ UNCHANGED <<docker, reg, pc, grant, agent, git, state, cache, lost>>

\* A container that was left behind ends by itself.
AgentExits(r) ==
    /\ r \in agent /\ pc[r] # "agent"
    /\ agent' = agent \ {r}
    /\ open' = open \ {r}
    /\ UNCHANGED <<docker, reg, pc, grant, git, state, cache, lost>>

\* Time: within five minutes of its expiry, and past it.
Age(t) ==
    /\ Live(t)
    /\ state' = [state EXCEPT ![t] = IF @ = "fresh" THEN "late" ELSE "expired"]
    /\ lost' = IF state[t] = "late" THEN [lost EXCEPT !.tokens = @ \ {t}] ELSE lost
    /\ UNCHANGED <<docker, reg, open, pc, grant, agent, git, cache>>
-----------------------------------------------------------------------------
Next ==
    \/ \E r \in Runs :
        \/ Inspect(r) \/ CreateNetwork(r) \/ ContainerRunning(r)
        \/ RemoveBroker(r) \/ RunBroker(r) \/ WaitHealthy(r)
        \/ EnsureConnected(r) \/ Register(r) \/ Prepare(r) \/ AskToken(r)
        \/ AgentEnds(r) \/ Deliver(r) \/ Teardown(r) \/ Revoke(r)
        \/ Connect(r) \/ Close(r) \/ AgentExits(r)
    \/ \E t \in Tokens : Age(t)
    \/ Crash \/ BrokerServes \/ BrokerRestarts

Spec == Init /\ [][Next]_vars
-----------------------------------------------------------------------------
(* Properties.                                                             *)

CredTypeOK ==
    /\ network \in BOOLEAN /\ attached \in BOOLEAN
    /\ broker \in {"absent", "starting", "up"}
    /\ reg \subseteq Runs /\ open \subseteq Runs
    /\ pc \in [Runs -> PC]
    /\ grant \subseteq Runs /\ agent \subseteq Runs
    /\ git \in [Runs -> Tokens \cup {None}]
    /\ state \in [Tokens -> TokenState]
    /\ cache \in Tokens \cup {None}
    /\ lost \in [runs : SUBSET Runs, tokens : SUBSET Tokens]
    /\ broker # "up" => reg = {} /\ open = {}

\* "Tokens are per-job and revoked when the job finalizes"
\* (egress/broker.py:24): whatever fails, and however other runs restart the
\* broker, it knows no token of a run that is over unless the answer to its
\* registration, or its deregistration, was lost, or the server died before.
NoStrayGrant ==
    \A r \in reg : \/ pc[r] \in {"mint", "ask", "agent", "deliver", "teardown"}
                   \/ r \in lost.runs

\* A container left behind by a timeout gets no new way out once its run has
\* been finalized, unless the broker was never told: the deregistration was
\* lost, or the server died.  (What it had open goes on.)
NoEgressAfterRun ==
    [][\A r \in open' \ open : pc[r] \notin {"revoke", "done"}
                               \/ r \in lost.runs]_vars

\* No other run revokes the token with which a run clones and pushes: the
\* ones that are shared belong to runs without repositories.
GitTokenHolds ==
    \A r \in WithRepos : git[r] # None => state[git[r]] # "revoked"

\* Every installation token that can still be used belongs to a run that is
\* going to revoke it, unless GitHub's answer or the revocation was lost, or
\* the server died before.
NoStrayToken ==
    \A t \in Tokens : Live(t) =>
        (\E r \in Runs : git[r] = t) \/ t \in lost.tokens
-----------------------------------------------------------------------------
(* What a comment says and concurrent runs break.                          *)

\* "Idempotently ensure the internal network + broker container are up"
\* (egress/__init__.py:78): starting a run takes no route from another.
EnsureKeepsBroker ==
    [][\A r \in Runs : pc[r] = "remove" /\ pc'[r] = "run" => broker # "up"]_vars
=============================================================================
