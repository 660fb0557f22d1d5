SPECIFICATION Spec
CONSTANTS
    Expense = {1, 2}
    Mine = {1}
    Amount = {1, 2}
    Call = {c1, c2}
    MaxClicks = 4
    MaxOthers = 1
CHECK_DEADLOCK FALSE
INVARIANTS
    SavesOnlyTheEdit
    OneFilingPerForm
    ReadsItsWrites
    UrlsAreReleased
