SPECIFICATION Spec
CONSTANTS
    p1 = p1
    p2 = p2
    h1 = h1
    h2 = h2
    u1 = u1
    Last = 4
    Poll = {p1, p2}
    Host = {h1}
    User = {u1}
    HostOf <- OneHost
    Owner <- OneOwner
    Page = 2
    Unready = {1}
    Unsupported = {2}
    Edited = {}
    MaxTime = 0
    Mishaps <- Outage
    MaxMishaps = 2
PROPERTIES EveryDueIsServed
CHECK_DEADLOCK FALSE
