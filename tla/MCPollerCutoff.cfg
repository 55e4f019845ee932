SPECIFICATION Spec
CONSTANTS
    a1 = a1  w1 = w1  w2 = w2  h1 = h1  h2 = h2
    WatchIDs = {w1, w2}
    Addresses = {a1}
    Hashes = {h1, h2}
    NoWatch = NoWatch
    NoAddress = NoAddress
    NoRaw = NoRaw
    Chain <- OneBtcAddress
    Pays <- PaysOne
    PointValues = {1}
    MaxActiveWatches = 1
    MaxTime = 2
    MaxFaults = 0
    Claimers = {}
    MaxRestarts = 0
INVARIANT CutoffHidesOnlySeen
CHECK_DEADLOCK FALSE
