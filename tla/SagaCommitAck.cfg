SPECIFICATION Spec
CONSTANTS
    a1 = a1
    a2 = a2
    k1 = k1
    k2 = k2
    None = None
    Attempts = {p1, p2}
    Accounts <- MCAccounts
    Keys <- MCKeys
    Requests <- MCRequests
    Funding <- MCFunding
    DailyOut <- MCDailyOut
    Faults <- AllFaults
INVARIANTS
    CompensatesOnlyUnposted
CHECK_DEADLOCK FALSE
