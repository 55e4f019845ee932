SPECIFICATION Spec
CONSTANTS
    Requests <- TwoRequests
    Targets <- TwoTargets
    Prices = {1, 2}
    MaxFaults = 1
CHECK_DEADLOCK FALSE
INVARIANTS TypeOK ConfirmedIsPaid NoNonceGap PaidOncePerEntry
PROPERTY AttemptsGetVerdicts
