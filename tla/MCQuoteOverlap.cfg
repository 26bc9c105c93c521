\* Three workers on one quotation; nothing fails once a win is committed.
SPECIFICATION FairSpec
CONSTANTS
    q1 = q1
    q2 = q2
    q3 = q3
    pic = pic
    head = head
    boss = boss
    None = None
    Clerk = {c1, c2, c3}
    Quote <- OneQuote
    Preparer <- PreparedByPic
    Forwarding <- Nobody
    Price = {1}
    Tax = {0}
    Beyond = {}
    Person = {pic, boss}
    Head = {}
    Director = {boss}
    Unrestricted = {boss}
    MARGIN_GATE = FALSE
    FAULTS = 0
INVARIANTS QuoteTypeOK SentWasApproved
PROPERTIES WonIsFiled WonIsOwed
