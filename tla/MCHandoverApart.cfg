\* Two workers whose requests keep apart.  One reference is enough for two
\* handovers to clash.
SPECIFICATION ApartSpec
CONSTANTS
    h1 = h1
    h2 = h2
    h3 = h3
    h4 = h4
    o1 = o1
    q1 = q1
    a1 = a1
    a2 = a2
    None = None
    Clerk = {c1, c2}
    Row <- FourRows
    Opportunity <- SharedOpportunity
    Quoted <- SharedQuote
    ByWin <- Won
    Linked <- OneOfEach
    Customer <- Accounts
    Ref = {p1}
    Project = {}
INVARIANTS OneHandoverPerDeal
PROPERTIES CancelledStays OnePoOneHandover
\* Every handover may be cancelled.
SYMMETRY Alike
CHECK_DEADLOCK FALSE
