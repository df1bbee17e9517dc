CONSTANTS
    Flows = {f1, f2}
    Ports = {q1}
    Requests = {r1, r2}
    Cancellable = {f1}
    Faults = {"kill", "url", "open", "net"}
    NoPort = NoPort
    NoFlow = NoFlow
SPECIFICATION FairSpec
INVARIANTS TypeOK OwnConsentOnly OnlyCallerCancels PagesServed
PROPERTIES FirstCallbackDecides ImplementsSignIn CallbackEndsFlow ReturnReleases
CHECK_DEADLOCK FALSE
