CONSTANTS
    Rows = 3
    LastInstant = 2
    Lag = 1
    DefaultSize = 1
    MaxSize = 2
    AskedPages <- FirstPages
    AskedSizes <- PageSizes
SPECIFICATION Spec
INVARIANTS
    NothingMissed
    NothingRepeated
