\* Monthly quota periods, two plan resources, crashes, one close of the month.
SPECIFICATION Spec
CONSTANTS
    r1 = r1
    r2 = r2
    api1 = api1
    plan1 = plan1
    plan2 = plan2
    None = None
    Requests <- TwoRequests
    Resources <- TwoPlans
    CodingPlan <- TwoPlans
    MaxAttempts = 2
    LeaseLimit = 1
    Estimate = 2
    QuotaLimit = 4
    AllowOverage = FALSE
    Measured <- Consumed
    MonthlyQuota = TRUE
    MayCrash = TRUE
    MaxCloses = 1
SYMMETRY Symmetry
CHECK_DEADLOCK FALSE
INVARIANTS
    ProviderConcurrencyBounded
    QuotaMatchesLedger
    NoConcurrentOverrun
PROPERTIES
    SettledOnce
