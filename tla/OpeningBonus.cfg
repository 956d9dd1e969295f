SPECIFICATION Spec
CONSTANTS
    o1 = o1
    o2 = o2
    o3 = o3
    k1 = k1
    None = None
    Attempts <- MCAttempts
    Keys <- MCKeys
    KeyOf <- MCKeyOf
SYMMETRY RetrySymmetry
INVARIANTS
    BonusOnce
    OpeningInv
    SerialRetriesAgree
PROPERTIES
    AnchorsStay
CHECK_DEADLOCK FALSE
