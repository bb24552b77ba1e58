CONSTANTS
    Configs <- Decisions
    Records = {a, b}
    Fresh = {b}
    Terms = {}
    Found = {}
    PageSize = 1
    Calls = {c1, c2}
    Users = {"operator", "admin"}
    MaxVersion <- Seldom
SPECIFICATION FairSpec
INVARIANTS
    RefusedMeansMoved
    SpinnerStops
PROPERTIES
    ConfirmedMoveIsMade
    ConfirmAnswered
