SPECIFICATION Spec
CONSTANTS
    MaxBuffer = 3
    MaxBatch = 2
    MaxLines = 6
    MaxOutages = 2
CHECK_DEADLOCK FALSE
INVARIANTS
    LinesKeepTheirOrder
PROPERTIES
    ImplementsLossyQueue
    EverythingIsShipped
