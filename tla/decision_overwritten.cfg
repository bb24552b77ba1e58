CONSTANTS
    Kind = "ReleaseDecision"
    Requests = {r1, r2, r3}
    Callers <- OperatorAdmin
    Lookahead = 1
    Seeder = seeder
SPECIFICATION FairSpec
PROPERTIES
    ResolvedDecisionImmutable
