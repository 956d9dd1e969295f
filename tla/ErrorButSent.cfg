SPECIFICATION Spec
CONSTANTS
    t1 = t1
    t2 = t2
    o1 = o1
    o2 = o2
    o3 = o3
    p1 = p1
    p2 = p2
    acc1 = acc1
    acc2 = acc2
    None = None
    Tabs <- MCTabs
    Orders <- MCOrders
    Attempts <- MCAttempts
    Accounts <- MCAccounts
    Tab <- MCTab
    Src <- MCSrc
    Price <- MCPrice
    Funding <- MCFunding
    MaxReloads = 1
SYMMETRY ClickSymmetry
INVARIANTS
    ErrorMeansNotSent
