CONSTANTS
    t1 = t1
    t2 = t2
    j1 = j1
    j2 = j2
    Threads = {t1, t2}
    Jwts = {j1, j2}
    Exp <- Expiries
    MaxTtl = 2
    Idle = 1
    ResetTtl = 1
    MaxSessions = 1
    MaxPasswords = 2
    MaxClock = 1
    NoJwt = NoJwt
SPECIFICATION Spec
SYMMETRY ThreadSymmetry
INVARIANTS
    AdminTypeOK
    AcceptedOnce
    ResetRevokes
