SPECIFICATION Spec
CONSTANTS
    User = {1, 2, 3}
    Me = 1
    Nobody = 0
    Group = {1, 2}
    MaxDepth = 2
    NodeCaps = {2, 3}
    MaxKeys = 1
    MaxEvents = 1
INVARIANTS
    CapCutsTheFarthest
    NoHalfLists
PROPERTIES
    DrawnCanBeOpened
