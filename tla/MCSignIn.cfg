SPECIFICATION SignInSpec
CONSTANTS
    o1 = o1
    o2 = o2
    a = a
    b = b
    c = c
    Oid <- People
    Email <- Addresses
    Address <- FirstAddress
    Known = {o1}
    Request = {r1, r2}
    NoRow = NoRow
    Window = 1
    MaxEntries = 1
    MaxTicks = 3
    MaxEvents = 2
CHECK_DEADLOCK FALSE

    
PROPERTIES
    RoleSettles
