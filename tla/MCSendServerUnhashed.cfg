SPECIFICATION Spec
CONSTANTS
    q1 = q1
    q2 = q2
    w1 = w1
    w2 = w2
    Requests = {q1}
    Wallets = {w1}
    First = w1
    NoRequest = NoRequest
    NoHash = NoHash
    MaxFaults = 0
    MaxRestarts = 1
INVARIANTS
    UnhashedNeverBroadcast
CHECK_DEADLOCK FALSE
