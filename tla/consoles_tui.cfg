CONSTANTS
    i1 = i1
    s1 = s1
    t1 = t1
    t2 = t2
    c1 = c1
    NoSession = NoSession
    MaxJobs = 2
    Instances = {i1}
    Sessions = {s1}
    Threads = {t1}
    QueueLimit = 2
    Concurrency <- TwoSlots
    AutoApply = {}
    PlanCapable = {i1}
    Managed = {}
    HookRequests <- PlanHooks
    OperatorRequests = {}
    EngineFailures = {}
    ReportsFail = FALSE
    Clis = {}
SPECIFICATION CSpec
INVARIANTS
    CTypeOK
    ReviewedPushes
    PushedAtMostOnce
    NoLeakedSlot
