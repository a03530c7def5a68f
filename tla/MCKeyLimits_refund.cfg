SPECIFICATION Spec
CONSTANTS
    Requests = {r1, r2}
    KeyLimit = 2
    QuotaLimit = 4
    Estimates = {2}
    Usages = {1, 5}
    MaxAttempts = 1
    MonthlyQuota = TRUE
    MayCrash = FALSE
    MayThrow = TRUE
SYMMETRY Symmetry
INVARIANT UnknownUsageKept
CHECK_DEADLOCK FALSE
