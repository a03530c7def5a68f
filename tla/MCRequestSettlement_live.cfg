\* No crashes, one close of the month: does every claimed request end?
SPECIFICATION FairSpec
CONSTANTS
    r1 = r1
    r2 = r2
    api1 = api1
    plan1 = plan1
    plan2 = plan2
    None = None
    Requests <- TwoRequests
    Resources <- TwoPlans
    CodingPlan <- TwoPlans
    MaxAttempts = 2
    LeaseLimit = 1
    Estimate = 2
    QuotaLimit = 2
    AllowOverage = TRUE
    Measured <- Overrun
    MonthlyQuota = FALSE
    MayCrash = FALSE
    MaxCloses = 1
CHECK_DEADLOCK FALSE
PROPERTIES
    EveryRequestEnds
