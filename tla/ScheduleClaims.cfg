SPECIFICATION Spec
CONSTANTS
    p1 = p1
    p2 = p2
    h1 = h1
    h2 = h2
    u1 = u1
    Last = 1
    Poll = {p1, p2}
    Host = {h1, h2}
    User = {u1}
    HostOf <- TwoHosts
    Owner <- OneOwner
    Page = 2
    Unready = {}
    Unsupported = {}
    Edited = {1}
    MaxTime = 2
    Mishaps <- AnyMishap
    MaxMishaps = 2
INVARIANTS TypeOK OccurrenceRunsOnce
PROPERTIES CurrentSettings
CHECK_DEADLOCK FALSE
