SPECIFICATION LiveSpec
CONSTANTS
    Queries = {q1, q2}
    Automatic = {q1}
    Calls = {c1, c2}
    Unreadable = TRUE
INVARIANTS
    TypeOK
    FaultsStayBlocked
    EventsFollowBlock
PROPERTIES
    CalmReopens
