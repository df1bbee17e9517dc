CONSTANTS
    Providers = {"google", "ms"}
    Other = "full"
    FaultSets = {{}, {"kill", "save", "tool"}, {"kill", "tool", "stray"}, {"kill", "save", "tool", "stray"}}
    Apps = {a1, a2}
    NoJournal = NoJournal
    NoConfig = NoConfig
SPECIFICATION FairSpec
INVARIANTS TypeOK ConfigIsUsable SuspendedIsSaved
PROPERTIES DoneBeforeNext StepsStayDone MicrosoftCompletes
