SPECIFICATION BellSpec
CONSTANTS
    Owner = Owner
    Manager = Manager
    Admin = Admin
    Me = Owner
    MaxPosts = 2
    MaxMarks = 2
    ListSize = 1
    MaxClicks = 3
    MaxOthers = 1
INVARIANTS
    ReadStaysRead
    MutedStaysQuiet
PROPERTIES
    BadgeSettles
