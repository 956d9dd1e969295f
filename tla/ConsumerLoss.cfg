SPECIFICATION Spec
CONSTANTS
    m1 = m1
    m2 = m2
    m3 = m3
    i1 = i1
    i2 = i2
    Messages <- MCMessages
    Ids <- MCIds
    IdOf <- MCIdOf
    Unparsable <- MCUnparsable
    Consumers = {c1, c2}
    BatchSize = 2
    MaxReceives = 2
INVARIANTS
    DurableQueue
CHECK_DEADLOCK FALSE
