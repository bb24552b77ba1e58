CONSTANTS
    Configs <- Decisions
    Records = {a, b}
    Fresh = {}
    Terms = {"late"}
    Found = {a}
    PageSize = 1
    Calls = {c1}
    Users = {"admin"}
    MaxVersion <- Twice
SPECIFICATION Spec
INVARIANT ListIsWhatWasAsked
CHECK_DEADLOCK FALSE
