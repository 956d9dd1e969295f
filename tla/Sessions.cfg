SPECIFICATION Spec
CONSTANTS
    r1 = r1
    r2 = r2
    r3 = r3
    Root = Root
    None = None
    MaxInFlight = 2
    MaxRunOuts = 1
    Requests <- MCRequests
SYMMETRY RequestSymmetry
INVARIANTS
    SessionsInv
    OneLiveSession
    SerialBrowserKeepsSession
    LogoutEndsUnrefreshed
CHECK_DEADLOCK FALSE
