SPECIFICATION Spec
CONSTANTS
    q1 = q1
    q2 = q2
    w1 = w1
    w2 = w2
    Requests = {q1, q2}
    Wallets = {w1, w2}
    First = w1
    NoRequest = NoRequest
    NoHash = NoHash
    MaxFaults = 1
    MaxRestarts = 1
INVARIANTS
    TypeOK
    ConfirmedIsMined
    OpenRowsAreWatched
    HistoryFollows
    SentIsRecorded
PROPERTIES
    StatusMovesForward
    OpenRowsSettle
    LocksAreReleased
    ImplementsTransferLifecycle
CHECK_DEADLOCK FALSE
CONSTRAINTS
    InOrder
    OneSweepEnds
    OneMishap
    SecondAddress
