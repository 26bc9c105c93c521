\* A pass may outlast its lease but is over before its rows count as
\* abandoned; two mails that travel as one message.
SPECIFICATION Spec
CONSTANTS
    w1 = w1
    w2 = w2
    m1 = m1
    m2 = m2
    NoWorker = NoWorker
    Worker <- TwoPasses
    Renewing <- NoRenewers
    Mail <- TwoMails
    Batch <- Together
    LEASE = 1
    RUN = 2
    STUCK = 2
    MAX = 2
    Backoff <- ShortBackoff
    CLAIM = 2
    RATE = 0
    MINUTE = 0
    CAP = 0
    Business = {}
    BDCAP = 0
    NOTIFY = TRUE
    FAULTS = 1
    REVIVALS = 0
SYMMETRY Symmetric
INVARIANTS OneSender CopiesAccountedFor
PROPERTY MailPromise
