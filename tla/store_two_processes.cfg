CONSTANTS
    t1 = t1
    t2 = t2
    p1 = p1
    p2 = p2
    Threads = {t1, t2}
    Processes = {p1, p2}
    ProcessOf <- OwnProcesses
    NoThread = NoThread
    Handles = {gwork}
    Records = {r1}
    NoRecord = NoRecord
    Keys = {k1, k2}
    NoKey = NoKey
    NoFile = NoFile
    Garbage = Garbage
    Installs = {"keyed", "established", "foreign", "damaged"}
SPECIFICATION Spec
PROPERTIES OnlyWholeFilesAppear UnreadableFileKept
