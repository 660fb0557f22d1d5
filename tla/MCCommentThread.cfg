SPECIFICATION Spec
CONSTANTS
    Expense = {1, 2}
    Call = {c1, c2}
    MaxDrafts = 2
    MaxClicks = 6
    MaxOthers = 1
SYMMETRY Calls
CHECK_DEADLOCK FALSE
INVARIANTS
    WholeUnlessRaced
    OneRowPerText
    OnlyOvertakenAreLate
