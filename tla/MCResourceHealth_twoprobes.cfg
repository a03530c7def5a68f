SPECIFICATION Spec
CONSTANTS
    Requests = {r1, r2, r3}
    Cooldowns = {1}
    LeaseLen = 3
    MaxHold = 3
    FailureIds = {f1, f2, f3}
    NoFailure = NoFailure
    MayCrash = FALSE
SYMMETRY Symmetry
INVARIANT OneProbeAtATime
