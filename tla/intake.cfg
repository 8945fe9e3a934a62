CONSTANTS
    c1 = c1
    c2 = c2
    q1 = q1
    q2 = q2
    k1 = k1
    s1 = s1
    Clients = {c1}
    Requests = {q1, q2}
    From <- OneClient
    Idem = {k1}
    Rate <- Rates
    Burst <- Bursts
    Cost = 3
    PruneEvery = 3
    Schedules = {s1}
    Due <- DueTimes
    Tick = 1
    MaxTime = 4
    MaxBack = 1
SPECIFICATION Spec
SYMMETRY RequestSymmetry
INVARIANTS
    RateBound
    RetryHolds
    RetriesAnswered
    ServedOnce
