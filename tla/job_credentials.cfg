CONSTANTS
    r1 = r1
    r2 = r2
    r3 = r3
    Runs = {r1, r2, r3}
    WithRepos = {r1}
    MaxTokens = 2
    Zone = "west"
SPECIFICATION Spec
CHECK_DEADLOCK FALSE
SYMMETRY RunSymmetry
INVARIANTS
    CredTypeOK
    
    GitTokenHolds
    
PROPERTIES
    NoEgressAfterRun
