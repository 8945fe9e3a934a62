CONSTANTS
    i1 = i1
    i2 = i2
    h1 = h1
    h2 = h2
    Instances = {i1}
    Handlers = {h1, h2}
    MaxLogins = 2
SPECIFICATION FairSpec
CHECK_DEADLOCK FALSE
INVARIANTS
    NoLeakedLogin
    OnePendingUnlessOverlap
PROPERTIES
    RequestsEnd
