\* The ceilings per minute and per day in force - of the two daily ones that of
\* business development bites first - one pass at a time, the kill switch, a
\* fault, a person who puts a failed mail back.
SPECIFICATION FairSpec
CONSTANTS
    w1 = w1
    w2 = w2
    m1 = m1
    m2 = m2
    NoWorker = NoWorker
    Worker <- OnePass
    Renewing <- NoRenewers
    Mail <- TwoMails
    Batch <- Alone
    LEASE = 1
    RUN = 1
    STUCK = 1
    MAX = 1
    Backoff <- ShortBackoff
    CLAIM = 2
    RATE = 1
    MINUTE = 1
    CAP = 2
    Business <- TwoMails
    BDCAP = 1
    NOTIFY = TRUE
    FAULTS = 1
    REVIVALS = 1
INVARIANTS MailTypeOK HeldCostsNothing StampedRate StampedDay
PROPERTY EveryMailSettles
