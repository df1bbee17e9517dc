CONSTANTS
    Procs = {p1}
    Google = {gwork}
    Microsoft = {}
    SingleUse = FALSE
    Scopes = {}
    DefaultScopes = {}
    ExpiresIn = 4
    Faults = {"net"}
    MaxNow = 2
    Grants = {g1}
    MaxRefreshes = 1
    NoRecord = NoRecord
SPECIFICATION Spec
PROPERTIES ForgottenIsRevoked
