CONSTANTS
    i1 = i1
    i2 = i2
    s1 = s1
    t1 = t1
    t2 = t2
    NoSession = NoSession
    MaxJobs = 2
    Instances = {i1}
    Sessions = {s1}
    Threads = {t1, t2}
    QueueLimit = 2
    Concurrency <- TwoSlots
    AutoApply = {}
    PlanCapable = {i1}
    Managed = {i1}
    HookRequests <- ChatHooks
    OperatorRequests <- OperatorCommit
    EngineFailures <- Failures
    ReportsFail = TRUE
SPECIFICATION Spec
SYMMETRY ThreadSymmetry
INVARIANTS
    TypeOK
    SingleExecution
    SerialMutations
    SerialSessions
    NoLeakedSlot
    CopiesAgree
