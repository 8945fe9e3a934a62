------------------------------- MODULE Intake -------------------------------
(***************************************************************************)
(* How jobs come in by themselves: webhook requests, through the two token *)
(* buckets, the instance's authentication and the idempotency key; and the *)
(* cron schedules.  Both read the wall clock, which an operator or NTP may *)
(* set back, and both forget what they know when the server restarts.  A   *)
(* request is handled in the event loop, which switches to another only    *)
(* while it waits for the body.                                            *)
(***************************************************************************)
EXTENDS Integers, FiniteSets

CONSTANTS
    Clients,     \* the addresses requests come from
    Requests,    \* the requests that may be in progress at once
    From,        \* the address of each
    Idem,        \* idempotency keys they send
    Rate,        \* units a bucket of each scope gains in a unit of time
    Burst,       \* its capacity, in requests
    Cost,        \* units a request costs
    PruneEvery,  \* _PRUNE_EVERY_S
    Schedules,   \* cron schedules of the instance
    Due,         \* the times each is due
    Tick,        \* tick_s
    MaxTime,     \* bound: units of time that pass
    MaxBack      \* bound: how far the clock is set back

Scope == {"ip", "inst"}
Buckets == Scope \X Clients

ASSUME IntakeAssumption ==
    /\ From \in [Requests -> Clients]
    /\ Rate \in [Scope -> Nat \ {0}] /\ Burst \in [Scope -> Nat \ {0}]
    /\ {Cost, PruneEvery, Tick} \subseteq Nat \ {0}
    /\ Due \in [Schedules -> SUBSET Nat]
    /\ MaxTime \in Nat /\ MaxBack \in Nat

VARIABLES
    time,    \* time that passed
    back,    \* how far the clock was set back
    bucket,  \* _buckets: units and last refill
    pruned,  \* _last_prune
    paused,  \* of instance.yaml
    req,     \* the requests whose body is awaited, with the instance loaded
    made,    \* rows with each idempotency key
    tick,    \* time left of the scheduler's wait
    last,    \* _last: the latest firing of each schedule
    passed,  \* history: requests each bucket let through since the start
    low,     \* history: the earliest clock since the start
    high,    \* history: the latest
    retry,   \* history: when the client was told to come back
    clash,   \* history: an insert met the unique index
    fired,   \* history: firings that covered each due time since the start
    first    \* history: when a schedule first fired since the start

limits == <<bucket, pruned, passed, retry>>
cron == <<tick, last, fired, first>>
vars == <<time, back, paused, req, made, low, high, clash, limits, cron>>

clock == time - back
Never == -1
NoBucket == [units |-> Never, at |-> Never]
NoRequest == [paused |-> FALSE, key |-> "none", known |-> FALSE]
Max2(a, b) == IF a > b THEN a ELSE b

Fresh ==
    /\ bucket' = [k \in Buckets |-> NoBucket]
    /\ pruned' = 0
    /\ passed' = [k \in Buckets |-> 0]
    /\ retry' = [k \in Buckets |-> Never]
    /\ last' = [s \in Schedules |-> Never]
    /\ fired' = [s \in Schedules |-> [d \in Due[s] |-> 0]]
    /\ first' = [s \in Schedules |-> Never]

\* The clock starts late enough to be set back, and the first prune is due.
Init ==
    /\ time = PruneEvery + MaxBack
    /\ back = 0
    /\ bucket = [k \in Buckets |-> NoBucket]
    /\ pruned = 0
    /\ paused = FALSE
    /\ req = [q \in Requests |-> NoRequest]
    /\ made = [i \in Idem |-> 0]
    /\ tick = Tick
    /\ last = [s \in Schedules |-> Never]
    /\ passed = [k \in Buckets |-> 0]
    /\ low = time
    /\ high = time
    /\ retry = [k \in Buckets |-> Never]
    /\ clash = FALSE
    /\ fired = [s \in Schedules |-> [d \in Due[s] |-> 0]]
    /\ first = [s \in Schedules |-> Never]
-----------------------------------------------------------------------------
(* ratelimit.check.                                                        *)

\* _prune: buckets that were idle for long are dropped, full or not.
Prune(b) ==
    IF clock - pruned < PruneEvery THEN b
    ELSE [k \in Buckets |->
            IF b[k] # NoBucket /\ clock - b[k].at > PruneEvery THEN NoBucket
            ELSE b[k]]

Capacity(k) == Cost * Burst[k[1]]

\* Mutant: a clock that was set back costs nothing.
LevelForward(b, k, n) ==
    IF b[k] = NoBucket THEN Capacity(k)
    ELSE LET u == b[k].units + Rate[k[1]] * Max2(0, n - b[k].at)
         IN  IF u > Capacity(k) THEN Capacity(k) ELSE u

\* What bucket k holds at time n.
Level(b, k, n) ==
    IF b[k] = NoBucket THEN Capacity(k)
    ELSE LET u == b[k].units + Rate[k[1]] * (n - b[k].at)
         IN  IF u > Capacity(k) THEN Capacity(k) ELSE u

\* Mutant: rounded down.
RetryShort(k, u) == (Cost - u) \div Rate[k[1]]

\* Whole units of time until a request would be let through.
RetryAfter(k, u) == (Cost - u) \div Rate[k[1]] + 1

\* The checks of one request, in order, up to the first that refuses: both
\* buckets are the event loop's own while it runs.
Take(ks, refused) ==
    LET b == Prune(bucket)
        u(k) == Level(b, k, clock)
    IN  /\ bucket' = [k \in Buckets |->
              IF k \in ks THEN [units |-> u(k) - Cost, at |-> clock]
              ELSE IF k \in refused THEN [units |-> u(k), at |-> clock]
              ELSE b[k]]
        /\ pruned' = IF clock - pruned < PruneEvery THEN pruned ELSE clock
        /\ passed' = [k \in Buckets |->
              IF k \in ks THEN passed[k] + 1 ELSE passed[k]]
        /\ retry' = [k \in Buckets |->
              IF k \in refused THEN clock + RetryAfter(k, u(k))
              ELSE IF k \in ks THEN Never ELSE retry[k]]

Passes(k) == Level(Prune(bucket), k, clock) >= Cost
-----------------------------------------------------------------------------
(* _authed_instance and _handle_hook.                                      *)

\* The instance is loaded; then the body is awaited.
Arrive(q, i) ==
    /\ req[q] = NoRequest
    /\ req' = [req EXCEPT ![q] = [paused |-> paused, key |-> i,
                                  known |-> made[i] > 0]]
    /\ UNCHANGED <<time, back, paused, made, low, high, clash, limits, cron>>

\* Mutant: looked up when the request arrived.
KnownThen(q) == req[q].known

\* find_by_idempotency.
Known(q) == made[req[q].key] > 0

\* Answered before any check: too large, or its sender went away.
Drop(q) ==
    /\ req[q] # NoRequest
    /\ req' = [req EXCEPT ![q] = NoRequest]
    /\ UNCHANGED <<time, back, paused, made, low, high, clash, limits, cron>>

Ip(q) == <<"ip", From[q]>>
Budget(q) == <<"inst", From[q]>>

\* 429 before the credentials are looked at.
RefuseFlood(q) ==
    /\ req[q] # NoRequest
    /\ ~Passes(Ip(q))
    /\ Take({}, {Ip(q)})
    /\ req' = [req EXCEPT ![q] = NoRequest]
    /\ UNCHANGED <<time, back, paused, made, low, high, clash, cron>>

\* 401, which an instance without schemes never answers.
Unauthorized(q) ==
    /\ req[q] # NoRequest
    /\ Passes(Ip(q))
    /\ Take({Ip(q)}, {})
    /\ req' = [req EXCEPT ![q] = NoRequest]
    /\ UNCHANGED <<time, back, paused, made, low, high, clash, cron>>

\* 429 for this instance.
RefuseBudget(q) ==
    /\ req[q] # NoRequest
    /\ Passes(Ip(q)) /\ ~Passes(Budget(q))
    /\ Take({Ip(q)}, {Budget(q)})
    /\ req' = [req EXCEPT ![q] = NoRequest]
    /\ UNCHANGED <<time, back, paused, made, low, high, clash, cron>>

\* 404 or 422 for its parameters, its repositories or its session.
Unprocessable(q) ==
    /\ req[q] # NoRequest /\ ~req[q].paused /\ ~Known(q)
    /\ Passes(Ip(q)) /\ Passes(Budget(q))
    /\ Take({Ip(q), Budget(q)}, {})
    /\ req' = [req EXCEPT ![q] = NoRequest]
    /\ UNCHANGED <<time, back, paused, made, low, high, clash, cron>>

\* 409 when the instance was paused at the load; the job with that key; or
\* a new one, which the unique index may still refuse.
Accept(q) ==
    /\ req[q] # NoRequest
    /\ Passes(Ip(q)) /\ Passes(Budget(q))
    /\ Take({Ip(q), Budget(q)}, {})
    /\ IF req[q].paused \/ Known(q) THEN UNCHANGED <<made, clash>>
       ELSE /\ clash' = (clash \/ made[req[q].key] > 0)
            /\ made' = [made EXCEPT ![req[q].key] = 1]
    /\ req' = [req EXCEPT ![q] = NoRequest]
    /\ UNCHANGED <<time, back, paused, low, high, cron>>

TogglePause ==
    /\ paused' = ~paused
    /\ UNCHANGED <<time, back, req, made, low, high, clash, limits, cron>>
-----------------------------------------------------------------------------
(* The scheduler.                                                          *)

\* Mutant: every scan looks back one tick.
BaseTick(s) == clock - Tick

Base(s) == IF last[s] = Never THEN clock - Tick ELSE last[s]

Covered(s) == {d \in Due[s] : Base(s) < d /\ d <= clock}

\* _scan, a tick after the last one at the earliest.  An exception, from an
\* unreadable instance or a bad schedule, ends it: what it reached is done.
Scan ==
    /\ tick = 0
    /\ \E reached \in SUBSET Schedules :
         LET now == {s \in reached : ~paused /\ Covered(s) # {}} IN
         /\ last' = [s \in Schedules |-> IF s \in now THEN clock ELSE last[s]]
         /\ fired' = [s \in Schedules |-> [d \in Due[s] |->
                IF s \in now /\ d \in Covered(s) THEN fired[s][d] + 1
                ELSE fired[s][d]]]
         /\ first' = [s \in Schedules |->
                IF s \in now /\ first[s] = Never THEN clock ELSE first[s]]
    /\ tick' = Tick
    /\ UNCHANGED <<time, back, paused, req, made, low, high, clash, limits>>
-----------------------------------------------------------------------------
(* Time, the clock, a restart.                                             *)

Pass ==
    /\ time < PruneEvery + MaxBack + MaxTime
    /\ time' = time + 1
    /\ high' = Max2(high, clock + 1)
    /\ tick' = IF tick = 0 THEN 0 ELSE tick - 1
    /\ UNCHANGED <<back, paused, req, made, low, clash, limits, last, fired,
                   first>>

SetBack ==
    /\ back < MaxBack
    /\ back' = back + 1
    /\ low' = IF clock - 1 < low THEN clock - 1 ELSE low
    /\ UNCHANGED <<time, paused, req, made, high, clash, limits, cron>>

Restart ==
    /\ Fresh
    /\ low' = clock /\ high' = clock /\ tick' = Tick
    /\ req' = [q \in Requests |-> NoRequest]
    /\ UNCHANGED <<time, back, paused, made, clash>>
-----------------------------------------------------------------------------
Next ==
    \/ \E q \in Requests :
        \/ \E i \in Idem : Arrive(q, i)
        \/ Drop(q) \/ RefuseFlood(q) \/ Unauthorized(q) \/ RefuseBudget(q)
        \/ Unprocessable(q) \/ Accept(q)
    \/ TogglePause \/ Scan \/ Pass \/ SetBack \/ Restart

Spec == Init /\ [][Next]_vars
-----------------------------------------------------------------------------
(* Properties.                                                             *)

IntakeTypeOK ==
    /\ time \in Nat /\ back \in 0..MaxBack /\ low \in Nat
    /\ \A k \in Buckets : bucket[k] # NoBucket =>
          bucket[k].units <= Capacity(k) /\ bucket[k].at \in Nat
    /\ pruned \in Nat
    /\ paused \in BOOLEAN
    /\ made \in [Idem -> 0..1]
    /\ tick \in 0..Tick
    /\ last \in [Schedules -> Nat \cup {Never}]
    /\ passed \in [Buckets -> Nat]
    /\ low <= clock /\ clock <= high

\* "The bucket refills continuously at rate tokens/second up to burst"
\* (ratelimit.py:12): over the life of the process no client gets more than
\* a burst and what the way from the earliest clock to the latest refills,
\* although idle buckets are dropped and the clock is set back on the way.
\* This needs a limit that refills within the time of an idle bucket, which
\* is not tested when one is dropped.
RefillsWhenIdle(s) == Rate[s] * (PruneEvery - MaxBack) >= Cost * Burst[s]

RateBound ==
    \A k \in Buckets : RefillsWhenIdle(k[1]) =>
        Cost * passed[k] <= Capacity(k) + Rate[k[1]] * (high - low)

\* "retry_after is a whole number of seconds until the next token"
\* (ratelimit.py:56): a client that waits as long as it was told is let
\* through by that bucket, whatever the others did to the table meanwhile.
RetryHolds ==
    \A k \in Buckets : retry[k] # Never => Level(bucket, k, retry[k]) >= Cost

\* "Same key: returns the existing job, does not duplicate" (DESIGN.md:794):
\* of requests with one key that are in progress at once none meets the
\* unique index, although the lookup and the insert are two statements.
RetriesAnswered == ~clash

\* Within the life of a server process a due time is never served twice, by
\* late scans, after a pause or with the clock set back; and once a schedule
\* has fired, every due time up to its latest firing is served.
ServedOnce ==
    \A s \in Schedules : \A d \in Due[s] :
        /\ fired[s][d] <= 1
        /\ first[s] # Never /\ first[s] < d /\ d <= last[s] => fired[s][d] = 1
=============================================================================
