\* A crash: is the lease taken back or the request recovered?
SPECIFICATION FairSpec
CONSTANTS
    r1 = r1
    r2 = r2
    api1 = api1
    plan1 = plan1
    plan2 = plan2
    None = None
    Requests <- OneRequest
    Resources <- PlanAndApi
    CodingPlan <- OnePlan
    MaxAttempts = 1
    LeaseLimit = 1
    Estimate = 2
    QuotaLimit = 2
    AllowOverage = FALSE
    Measured <- Consumed
    MonthlyQuota = FALSE
    MayCrash = TRUE
    MaxCloses = 1
CHECK_DEADLOCK FALSE
PROPERTIES
    OrphanIsRepaired
