SPECIFICATION Spec
CONSTANTS
    Requests = {r1, r2}
    Cooldowns = {1}
    LeaseLen = 2
    MaxHold = 2
    FailureIds = {f1, f2, f3}
    NoFailure = NoFailure
    MayCrash = FALSE
SYMMETRY Symmetry
INVARIANT RejectedGetsNoTraffic
