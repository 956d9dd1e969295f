SPECIFICATION Spec
CONSTANTS
    c1 = c1
    c2 = c2
    a1 = a1
    a2 = a2
    l1 = l1
    IdFront = IdFront
    Selfie = Selfie
    None = None
    Confirms <- MCConfirms
    Activations <- MCActivations
    Logins <- MCLogins
SYMMETRY RetrySymmetry
INVARIANTS
    CustomerOnce
CHECK_DEADLOCK FALSE
