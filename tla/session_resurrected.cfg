CONSTANTS
    Procs = {p1, p2}
    Google = {gwork}
    Microsoft = {}
    SingleUse = FALSE
    Scopes = {}
    DefaultScopes = {}
    ExpiresIn = 4
    Faults = {}
    MaxNow = 3
    Grants = {g1}
    MaxRefreshes = 2
    NoRecord = NoRecord
SPECIFICATION Spec
PROPERTIES AppearsBySignIn
