CONSTANTS
    Kind = "ReleaseDecision"
    Requests = {r1, r2}
    Callers <- OperatorAdmin
    Lookahead = 0
    Seeder = seeder
SPECIFICATION Spec
INVARIANTS
    EveryChangeAudited
