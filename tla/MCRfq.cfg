\* One request at a time; a chain of four steps, one of them optional, which has
\* one approval and quotation step.
SPECIFICATION Spec
CONSTANTS
    None = None
    Clerk = {c1}
    Slot = {1, 2, 3, 4}
    Step = {2, 4, 8, 11}
    First = 2
    Registration = 2
    Costing = 8
    Approval = 8
    Submission = 8
    Award = 11
    Confirmed = {4}
    Optional = {4}
    Last = 11
    Priority = {"High", "Low"}
    Standard <- Hours
    HORIZON = 3
INVARIANTS RfqTypeOK OneLiveStep HoldsCostNobody
