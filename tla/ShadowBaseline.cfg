\* Two processes, three approvals, a chain one longer than the limit.
SPECIFICATION FairRotationSpec
CONSTANTS
    a = a  b = b  c = c  d = d
    Writer = {w1, w2}
    Candidate = {a, b, c, d}
    Approver = {x}
    NoApprover = none
    Passing <- Reports
    MaxLineage = 3
    MaxApprovals = 3
    Heir = {h1, h2}
    Rotator = {r1, r2}
    Budgets <- AllBudgets
INVARIANTS
    RotationTypeOK
    OneHistory
    LineagesVerify
    OneHandover
PROPERTIES
    ImplementsHistory
    ClaimsArePublished
