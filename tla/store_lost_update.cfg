CONSTANTS
    t1 = t1
    t2 = t2
    p1 = p1
    p2 = p2
    Threads = {t1, t2}
    Processes = {p1, p2}
    ProcessOf <- OwnProcesses
    NoThread = NoThread
    Handles = {gwork, mshome}
    Records = {r1}
    NoRecord = NoRecord
    Keys = {k1}
    NoKey = NoKey
    NoFile = NoFile
    Garbage = Garbage
    Installs = {"established"}
SPECIFICATION Spec
PROPERTIES NoAccountLost
