CONSTANTS
    Labels = {work, home}
    NoLabel = NoLabel
    Accounts = {ann, bob}
    Projects = {j1}
    Apps = {a1}
    Permissions = {mail, chat}
    OptIn = {recording}
    FaultSets = {{"tool", "save", "kill"}, {"other"}}
    NoEntry = NoEntry
    Damaged = Damaged
    NoOne = NoOne
SPECIFICATION FairSpec
INVARIANTS TypeOK ConfiguredIsReady ActsAsPicked
PROPERTIES AllOrNothing OtherEntriesKept DamagedFileKept SetupEnds
