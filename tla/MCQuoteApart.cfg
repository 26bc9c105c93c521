\* Two workers whose deciding requests keep off each other's rows, three
\* versions or quotations; any may be confirmed by mail, and one failure
\* follows a committed win.
SPECIFICATION ApartSpec
CONSTANTS
    q1 = q1
    q2 = q2
    q3 = q3
    pic = pic
    head = head
    boss = boss
    None = None
    Clerk = {c1, c2}
    Quote <- ThreeQuotes
    Preparer <- PreparedByPic
    Forwarding <- ThreeQuotes
    Price = {1}
    Tax = {0}
    Beyond = {}
    Person = {pic, boss}
    Head = {}
    Director = {boss}
    Unrestricted = {boss}
    MARGIN_GATE = TRUE
    FAULTS = 1
INVARIANTS OneVersionCounts DistinctRevisions
PROPERTIES FinalStaysFinal
SYMMETRY Symmetric
