SPECIFICATION Spec
CONSTANTS
    Chains = {"BSC"}
    Index = {0, 1, 2}
    AddressCount <- BscAddresses
    Tokens <- BscTokens
    Threshold = 2
    HalfOpenMax = 1
    Clients = {k}
    QueueCap = 2
    MaxScans = 2
    MaxIDs = {1, 3}
    Pools <- BscPools
    BatchSize <- BscBatch
    MaxConsecutivePoolFails = 2
    OnChain <- BscFunds
    MaxFaults = 1
    MaxStops = 0
    MaxResets = 0
    MaxRestarts = 0
CHECK_DEADLOCK FALSE
INVARIANT FundsStayListed
