SPECIFICATION Spec
SYMMETRY Symmetry
CONSTANTS
    b1 = b1
    b2 = b2
    dayClaim = dayClaim
    Bundles = {b1, b2}
    Claims = {dayClaim}
    ClaimsOf <- DayClaims
    Workers = {p1, p2}
    Commands = {p2}
    MaxAttempts = 2
    MaxVersion = 2
    NoOne = NoOne
    NoBundle = NoBundle
INVARIANTS
    TypeOK
    AttemptsTellAll
    DiscoveredIsComplete
PROPERTIES
    PromiseKept
