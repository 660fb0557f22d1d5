SPECIFICATION SessionSpec
CONSTANTS
    Role = {1, 2}
    MaxClicks = 3
    MaxOthers = 2
CHECK_DEADLOCK FALSE
INVARIANTS
    RoleFollowsChoice
PROPERTIES
    EndedSessionsLeave
