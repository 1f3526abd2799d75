SPECIFICATION Spec
CONSTANTS
    Event = {e1}
    Caller = {c1}
    Reader = {r1}
    Machine = {m1, m2}
    Cap = 1
    MaxTries = 2
    Mishaps <- AnyMishap
    MaxMishaps = 2
INVARIANTS TypeOK SuccessMeansMailed RetrievedFileVerifies CapHolds FileNamesMachine
PROPERTIES OrderIsSettled
CHECK_DEADLOCK FALSE
