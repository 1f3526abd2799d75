CONSTANTS
    Last = 2
    MinutesNeeded <- TwoMinutes
    Multiplier <- SecondIsDeep
    NumPacks = 1
    PackMinutes = 2
    PoolGrant = 3
    GraceCap = 1
    SpendLimits = {0, 1}
    Intervals = {"monthly", "annual"}
    MaxCycle = 2
    MaxResets = 1
    Mishaps <- Losses
SPECIFICATION Spec
INVARIANTS
    TypeOK
    AllowanceCovered
    PacksCovered
PROPERTIES
    ReviewFreezes
    CheapestFirst
    WaiterIsFunded
CHECK_DEADLOCK FALSE
