SPECIFICATION FairSpec
CONSTANTS
    a1 = a1  a2 = a2  p1 = p1  p2 = p2  h1 = h1  h2 = h2
    Approval = {a1}
    Credential = {}
    Request = {p1}
    NoApproval = NoApproval
    Handler = {h1}
    MaxAttempts = 3
    MaxBusy = 1
    Mishaps <- Calmly
    MaxMishaps = 0
PROPERTY MergeIsFollowed
CHECK_DEADLOCK FALSE
