CONSTANTS
    i1 = i1
    i2 = i2
    s1 = s1
    t1 = t1
    t2 = t2
    NoSession = NoSession
    MaxJobs = 2
    Instances = {i1, i2}
    Sessions = {s1}
    Threads = {t1}
    QueueLimit = 1
    Concurrency <- OneSlot
    AutoApply = {}
    PlanCapable = {i1}
    Managed = {i1}
    HookRequests <- LifeHooks
    OperatorRequests = {}
    EngineFailures = {"error"}
    ReportsFail = FALSE
SPECIFICATION FairSpec
INVARIANTS
    ConcurrencyBound
PROPERTIES
    ImplementsLifecycle
    
    RunsConclude
