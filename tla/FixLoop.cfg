SPECIFICATION FairSpec
CONSTANTS
    a1 = a1  a2 = a2  p1 = p1  p2 = p2  h1 = h1  h2 = h2
    Approval = {a1, a2}
    Credential = {a2}
    Request = {p1, p2}
    NoApproval = NoApproval
    Handler = {h1, h2}
    MaxAttempts = 3
    MaxBusy = 2
    Mishaps <- Every
    MaxMishaps = 1
INVARIANTS TypeOK OneExecution RecordMatchesRemote OneRetest
PROPERTY DeferredIsResolved
CHECK_DEADLOCK FALSE
