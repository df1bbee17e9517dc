CONSTANTS
    Providers = {"google"}
    Other = "none"
    FaultSets = {{}}
    Apps = {}
    NoJournal = NoJournal
    NoConfig = NoConfig
SPECIFICATION FairSpec
PROPERTIES SetupCompletes
