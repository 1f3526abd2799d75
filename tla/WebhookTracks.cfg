SPECIFICATION Spec
CONSTANTS
    Events <- OneTrack
    Request = {d1}
    Worker = {w1}
    MaxAttempts = 2
    MaxRecoveries = 1
    ReviewApplies = TRUE
    Mishaps <- AnyMishap
    MaxMishaps = 1
INVARIANTS TypeOK AckMeansResolved NoBlindReplay AttemptBudget
PROPERTIES EveryTrackEnds ImplementsLedger
CHECK_DEADLOCK FALSE
