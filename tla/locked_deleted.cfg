CONSTANTS
    Kind = "PrintRun"
    Requests = {r1, r2}
    Callers <- OperatorAdmin
    Lookahead = 0
    Seeder = seeder
SPECIFICATION FairSpec
PROPERTIES
    LockedNeverDeleted
