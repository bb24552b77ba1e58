CONSTANTS
    Processes = {p1, p2}
    Last = 2
    Codes = {k1, k2}
    Attempts = 2
    Outages = 2
    Purgeable = {}
SPECIFICATION FairSpec
INVARIANTS
    TypeOK
    SeedWhole
    ServingMeansSeeded
PROPERTIES
    DeletedStaysDeleted
    FilledOnce
    ServesAgain
