\* A pass may outlast its lease (375 s of posts against 300 s) but is over
\* before its rows count as abandoned (900 s): ticks are 300 s.
SPECIFICATION Spec
CONSTANTS
    w1 = w1
    w2 = w2
    e1 = e1
    e2 = e2
    NoWorker = NoWorker
    NoEvent = NoEvent
    Worker <- TwoPasses
    Renewing <- NoRenewers
    Event <- TwoEvents
    LEASE = 1
    RUN = 2
    STUCK = 2
    MAX = 2
    Backoff <- ShortBackoff
    RetryAfter <- NoRetryAfter
    LIMIT = 2
    FAULTS = 1
    REVIVALS = 0
    StartsConfigured = FALSE
SYMMETRY Symmetric
INVARIANT OneDeliverer
PROPERTIES OwedPromise OnlyItsHolderEndsALease
