SPECIFICATION Spec
CONSTANTS
    a1 = a1
    a2 = a2
    credit = credit
    j1 = j1
    j2 = j2
    None = None
    Accounts <- MCAccounts
    Journals <- MCJournals
    Posting <- MCPosting
    Froms = {0, 1}
    Sizes = {1, 2}
    Second = 2
    MaxClock = 4
SYMMETRY PaymentSymmetry
INVARIANTS
    RefreshShowsMovement
CHECK_DEADLOCK FALSE
