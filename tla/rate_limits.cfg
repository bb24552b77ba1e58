CONSTANTS
    Keys = {k1, k2, k3}
    Calls = {c1, c2, c3, c4}
    Limit = 1
    CleanupAt = 2
    LastWindow = 2
    Patience = 1
SPECIFICATION Spec
SYMMETRY Symmetry
INVARIANTS
    AdmittedWithinLimit
    RejectedOnlyOverLimit
    StaleBucketsBounded
