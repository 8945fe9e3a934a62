CONSTANTS
    i1 = i1
    s1 = s1
    NoSession = NoSession
    MaxJobs = 1
    Instances = {i1}
    Sessions = {s1}
    NumRepos = 2
    MaxAttempts = 2
    MaxFix = 2
    Requests <- AllRequests
    Settings <- AllSettings
    EarlierRuns <- NewOrUsed
SPECIFICATION FairSpec
INVARIANTS
    RunTypeOK
    AttemptsBounded
    GateHolds
    StatusTellsDelivery
PROPERTIES
    ImplementsLifecycle
    RunEnds
