\* Two handlers that may die, two cooldowns; time passes and live handlers go on.
SPECIFICATION FairSpec
CONSTANTS
    Requests = {r1, r2}
    Cooldowns = {1, 2}
    LeaseLen = 2
    MaxHold = 2
    FailureIds = {f1, f2, f3}
    NoFailure = NoFailure
    MayCrash = TRUE
INVARIANT TypeOK
INVARIANT ProbeOwnsSlot
INVARIANT TokensDistinct
INVARIANT OneProbePerWave
PROPERTY StaleChatNeverRecovers
PROPERTY ProbeComesFree
