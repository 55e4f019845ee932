SPECIFICATION FairSpec
CONSTANTS
    Threshold = 2
    HalfOpenMax = 1
    N = 2
    Callers = {c1, c2}
    MaxCancels = 2
INVARIANTS
    TypeOK
    BreakersConsistent
    BreakerSurvivesFewCancels
PROPERTY HealthyProvidersServe
