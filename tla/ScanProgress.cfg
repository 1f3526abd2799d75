CONSTANTS
    s1 = s1
    s2 = s2
    u1 = u1
    t1 = t1
    w1 = w1
    w2 = w2
    NoScan = NoScan
    NoWorker = NoWorker
    Scan <- OneScan
    User = {u1}
    Target = {t1}
    Worker = {w1}
    Owner <- OneOwner
    TargetOf <- OneTarget
    EngineScan = {s1}
    MaxWorkspaceScans = 1
    MaxAttempts = 2
    MaxStalled = 2
    Faults <- CrashUnproven
SPECIFICATION FairSpec
PROPERTIES
    StopFreesSlot
CHECK_DEADLOCK FALSE
