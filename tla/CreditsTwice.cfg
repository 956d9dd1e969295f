SPECIFICATION CreditsSpec
CONSTANTS
    a1 = a1
    a2 = a2
    a3 = a3
    a4 = a4
    a5 = a5
    k1 = k1
    k2 = k2
    None = None
    Attempts <- MCAttempts
    Keys <- MCKeys
    KeyOf <- MCKeyOf
INVARIANTS
    OneJournalPerKey
CHECK_DEADLOCK FALSE
