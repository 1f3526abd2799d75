SPECIFICATION AttendedSpec
CONSTANTS
    Events <- Entitlement
    Request = {d1}
    Worker = {w1}
    MaxAttempts = 2
    MaxRecoveries = 1
    ReviewApplies = FALSE
    Mishaps <- NoMishap
    MaxMishaps = 0
PROPERTIES ParkedIsReviewed
CHECK_DEADLOCK FALSE
