SPECIFICATION FairSpec
CONSTANTS
    Events <- TwoEvents
    Workers = {w1, w2}
    BatchSize = 2
INVARIANTS
    OutboxInv
    DeliveredOnce
PROPERTIES
    ImplementsAtLeastOnceDelivery
    EveryEventPublished
CHECK_DEADLOCK FALSE
