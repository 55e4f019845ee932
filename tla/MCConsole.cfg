SPECIFICATION Spec
CONSTANTS
    Workers = {w1, w2}
    IPs = {ip1}
    Priced = {"BTC"}
    Coins = {"BTC", "SOL"}
    CacheDuration = 1
    StaleTolerance = 2
    FetchTimeout = 1
    TierInputs <- Bodies
    DefaultTiers <- TwoTiers
    PriceRetryCount = 2
    MaxWork = 4
    MaxTime = 3
    MaxFaults = 2
SYMMETRY Symmetry
CHECK_DEADLOCK FALSE
INVARIANTS TypeOK AllowlistFollowsTable TiersFollowFile AmountsHaveOneTier PricesAreRecent
