SPECIFICATION Spec
CONSTANTS
    r1 = r1
    r2 = r2
    r3 = r3
    Root = Root
    None = None
    MaxInFlight = 2
    MaxRunOuts = 2
    Requests <- MCRequests
SYMMETRY RequestSymmetry
INVARIANTS
    LogoutEndsSession
CHECK_DEADLOCK FALSE
