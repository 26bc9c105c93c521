\* A pass never outlasts its lease.
SPECIFICATION FairSpec
CONSTANTS
    w1 = w1
    w2 = w2
    e1 = e1
    e2 = e2
    NoWorker = NoWorker
    NoEvent = NoEvent
    Worker <- TwoPasses
    Renewing <- NoRenewers
    Event <- OneEvent
    LEASE = 2
    RUN = 2
    STUCK = 2
    MAX = 2
    Backoff <- BackoffTicks
    RetryAfter <- RetryAfterTicks
    LIMIT = 1
    FAULTS = 2
    REVIVALS = 1
    StartsConfigured = TRUE
INVARIANTS TypeOK DeliveredMeansTaken DeadForAReason
PROPERTIES BackoffRespected EveryEventSettles
