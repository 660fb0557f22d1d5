SPECIFICATION Spec
CONSTANTS
    Expense <- TwoExpenses
    PageSize = 1
    Blank = Blank
    Term = Term
    Titled = {1}
    Filters = {"ALL", "PENDING"}
    Mutation = {m1, m2}
    MaxClicks = 3
    MaxOthers = 1
CHECK_DEADLOCK FALSE
INVARIANTS
    PageBelongsToItsSearch
    DecidedStayGone
PROPERTIES
    ScreenSettles
