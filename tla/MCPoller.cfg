SPECIFICATION Spec
CONSTANTS
    a1 = a1  w1 = w1  w2 = w2  h1 = h1  h2 = h2
    WatchIDs = {w1, w2}
    Addresses = {a1}
    Hashes = {h1, h2}
    NoWatch = NoWatch
    NoAddress = NoAddress
    NoRaw = NoRaw
    Chain <- OneBtcAddress
    Pays <- PaysOne
    PointValues = {0, 1}
    MaxActiveWatches = 1
    MaxTime = 1
    MaxFaults = 1
    Claimers = {c1}
    MaxRestarts = 1
CONSTRAINTS RaceOrBatch OneFailure
SYMMETRY Symmetric
INVARIANTS
    TypeOK
    MismatchOnlyInFlight
    NeverOverCredited
    ClaimedWithinAwarded
    CompletedMeansSettled
    ActiveIsPolled
    ConfirmedMeansFinal
PROPERTIES
    TerminalStatusIsFinal
    ImplementsLifecycle
CHECK_DEADLOCK FALSE
