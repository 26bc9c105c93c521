\* One worker, and a price only a director may approve.
SPECIFICATION Spec
CONSTANTS
    q1 = q1
    q2 = q2
    q3 = q3
    pic = pic
    head = head
    boss = boss
    None = None
    Clerk = {c1}
    Quote <- TwoQuotes
    Preparer <- PreparedByPic
    Forwarding <- Nobody
    Price = {1, 3}
    Tax = {0, 1}
    Beyond = {3, 4}
    Person = {pic, head, boss}
    Head = {head}
    Director = {boss}
    Unrestricted = {boss}
    MARGIN_GATE = TRUE
    FAULTS = 0
PROPERTIES ApprovedWithinAuthority
