CONSTANTS
    Callers = {c1, c2, c3}
    Limits = {0, 2}
    ChanCap = 2
    MaxWaiting = 4
    Requests = {r1, r2, r3, r4}
    Limit = 2
    Faults <- AllFaults
    Spenders = {p1, p2}
    Budget = 2
    MaxTokens = 2
    LastDay = 1
    MaxOutages = 1
SPECIFICATION Spec
CHECK_DEADLOCK FALSE
INVARIANTS SlotsCounted GuardCounts SpendBounded
PROPERTY NobodyStarves
