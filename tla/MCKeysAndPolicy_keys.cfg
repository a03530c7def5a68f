\* Keys: three requests, two attempts each, usage below and above the estimate.
\* Rules: two projects, two stints in each, two transactions at a time, three months, weights
\* of which no two that are larger fit together.
SPECIFICATION BothSpec
CONSTANTS
    Requests = {r1, r2, r3}
    KeyLimit = 2
    QuotaLimit = 4
    Estimates = {2}
    Usages = {1, 5}
    MaxAttempts = 2
    MonthlyQuota = FALSE
    MayCrash = TRUE
    MayThrow = TRUE
    LastProject = 2
    MaxStints = 2
    Writers = {t1, t2}
    Weights = {6}
    Limit = 10
    Horizon = 3
    Amounts <- LineAmounts
    MaxBegun = 3
SYMMETRY Symmetry
INVARIANT TypeOK
INVARIANT KeyConcurrencyBounded
INVARIANT UsedMatchesBooks
INVARIANT NoKeyOverrun
INVARIANT PolicyTypeOK
INVARIANT RulesFit
INVARIANT SplitsExactly
PROPERTY OthersUntouched
PROPERTY ChangesAreMarked
CHECK_DEADLOCK FALSE
