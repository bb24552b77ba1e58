CONSTANTS
    Kind = "ReleaseDecision"
    Requests = {r1, r2, r3}
    Callers <- OperatorAdmin
    Lookahead = 0
    Seeder = seeder
SPECIFICATION Spec
SYMMETRY Symmetry
INVARIANTS
    TypeOK
    RevisionChain
    OneWinner
    ReadStillCurrent
    ConflictMeansMoved
    AckedIsAudited
    RefusedLeavesNoTrace
    AuditMatchesHistory
PROPERTIES
    ReviewGate
    ResolvedDecisionImmutable
    AtomicRow
