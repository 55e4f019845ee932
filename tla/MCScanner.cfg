SPECIFICATION Spec
CONSTANTS
    Chains = {"BSC"}
    Index = {0, 1, 2}
    AddressCount <- BscAddresses
    Tokens <- BscTokens
    Threshold = 2
    HalfOpenMax = 1
    Clients = {k}
    QueueCap = 2
    MaxScans = 2
    MaxIDs = {1, 3}
    Pools <- BscPools
    BatchSize <- BscBatch
    MaxConsecutivePoolFails = 2
    OnChain <- BscFunds
    MaxFaults = 2
    MaxStops = 1
    MaxResets = 1
    MaxRestarts = 1
CHECK_DEADLOCK FALSE
PROPERTY ScansEnd
INVARIANTS TypeOK LiveScanOwnsChain PositionCoversBalances EventsInScanOrder HealthFollowsBreakers
