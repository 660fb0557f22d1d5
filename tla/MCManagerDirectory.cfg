SPECIFICATION DirectorySpec
CONSTANTS
    Employee = {e1}
    Manager = {m1, m2}
    Request = {r1, r2}
    None = None
    First <- AllUnderOne
    MaxMoves = 1
CHECK_DEADLOCK FALSE
INVARIANTS
    DecisionsAreLive
PROPERTIES
    HealsEventually
