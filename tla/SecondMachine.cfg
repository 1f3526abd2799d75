SPECIFICATION Spec
CONSTANTS
    Event = {e1}
    Caller = {}
    Reader = {r1}
    Machine = {m1, m2}
    Cap = 3
    MaxTries = 1
    Mishaps <- NoMishap
    MaxMishaps = 0
INVARIANTS ActiveMachineKeepsLicense
CHECK_DEADLOCK FALSE
