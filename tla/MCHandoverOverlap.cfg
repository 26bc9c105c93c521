\* Two requests that overlap on one handover without an account.
SPECIFICATION Spec
CONSTANTS
    h1 = h1
    h2 = h2
    h3 = h3
    h4 = h4
    o1 = o1
    q1 = q1
    a1 = a1
    a2 = a2
    None = None
    Clerk = {c1, c2}
    Row <- OneRow
    Opportunity <- NoOpportunity
    Quoted <- NoQuote
    ByWin = {}
    Linked = {}
    Customer <- Accounts
    Ref = {p1, p2}
    Project = {t1}
INVARIANTS HandoverTypeOK PoBeforeProject
PROPERTIES PoIsKept
SYMMETRY Alike
\* Every handover may be cancelled.
CHECK_DEADLOCK FALSE
