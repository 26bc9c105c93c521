\* No run outlasts its lease: LEASE = RUN is the tightest such case, where an
\* off-by-one in the expiry comparison shows.
SPECIFICATION FairLeaseSpec
CONSTANTS
    w1 = w1
    w2 = w2
    w3 = w3
    NoWorker = NoWorker
    Worker <- Runners
    Renewing <- Renewers
    LEASE = 3
    RUN = 3
INVARIANTS LeaseTypeOK OneRunner
PROPERTY JobKeepsRunning
