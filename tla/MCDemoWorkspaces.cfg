SPECIFICATION Spec
CONSTANTS
    Workspace = {w1,w2,w3}
    Real = Real
    Launch = {l1,l2}
    Request = {r1}
    Reaper = {t1,t2}
    Cap = 1
    Batch = 2
    AdminReach = {Real, w1}
CHECK_DEADLOCK FALSE
INVARIANTS
    OvershootBounded
    SessionsStayInside
PROPERTIES
    ExpiredWorkspacesGo
