CONSTANTS
    Procs = {p1}
    Google = {gwork}
    Microsoft = {mshome}
    SingleUse = TRUE
    Scopes = {files}
    DefaultScopes = {}
    ExpiresIn = 3
    Faults = {"net", "store", "kill", "api"}
    MaxNow = 2
    Grants = {g1, g2}
    MaxRefreshes = 1
    NoRecord = NoRecord
SPECIFICATION FairSpec
INVARIANTS TypeOK StoredTokenHonoured
PROPERTIES ForgottenOrWarned AppearsBySignIn ExitTellsServed KeptTokenLives CallsEnd
