\* LEGACY quota, one plan and one API resource, crashes, one close of the month.
SPECIFICATION Spec
CONSTANTS
    r1 = r1
    r2 = r2
    api1 = api1
    plan1 = plan1
    plan2 = plan2
    None = None
    Requests <- TwoRequests
    Resources <- PlanAndApi
    CodingPlan <- OnePlan
    MaxAttempts = 2
    LeaseLimit = 1
    Estimate = 2
    QuotaLimit = 3
    AllowOverage = FALSE
    Measured <- Consumed
    MonthlyQuota = FALSE
    MayCrash = TRUE
    MaxCloses = 1
SYMMETRY Symmetry
CHECK_DEADLOCK FALSE
INVARIANTS
    TypeOK
    TerminalReleasesAll
    TerminalIsComplete
    QuotaMatchesLedger
    NoConcurrentOverrun
    ClosedMonthIsFinal
    CommittedAttemptIsLast
PROPERTIES
    TerminalIsForever
