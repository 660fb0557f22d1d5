SPECIFICATION Spec
CONSTANTS
    Expense = {e1}
    User = {u1, u2, u3}
    Approver = {u2, u3}
    Request = {r1, r2}
    Content = {c1, c2}
    Nobody = Nobody
    NoRow = NoRow
    NoContent = NoContent
    MaxRequests = 4
SYMMETRY Symmetry
CHECK_DEADLOCK FALSE
INVARIANTS
    DecisionAudited
    DecisionsInOrder
    DecisionColumnsAgree
    NobodyDecidesTheirOwn
    AuditAccountsForEveryVersion
    RefusalsWroteNothing
    NoticesFollowTheTrail
PROPERTIES
    WritesOnWhatWasRead
    ImplementsContract
