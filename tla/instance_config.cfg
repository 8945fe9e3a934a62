CONSTANTS
    e1 = e1
    e2 = e2
    r1 = r1
    r2 = r2
    h1 = h1
    k1 = k1
    token = token
    none = none
    empty = empty
    torn = torn
    Editors = {e1, e2}
    Repos = {r1, r2}
    LegacyRepo = r1
    Headers = {h1}
    Skills = {k1}
    Settings = {"v0", "v1"}
    Default = "v0"
    Token = token
    NoFile = none
    Empty = empty
    Torn = torn
    MaxCommands = 3
SPECIFICATION Spec
SYMMETRY EditorSymmetry
CHECK_DEADLOCK FALSE
INVARIANTS
    OpenOnlyIfSavedOpen
    SecretsReadable
