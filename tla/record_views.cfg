CONSTANTS
    Kind = "PrintRun"
    Requests = {r1, r2}
    Callers = {"admin"}
    Lookahead = 0
    Seeder = seeder
    Readers = {x}
SPECIFICATION FairReaders
INVARIANTS
    ShownWithItsRevision
    AckedIsVisible
    SummaryOrdered
    SummaryCountsAcked
PROPERTIES
    EveryRequestAnswered
