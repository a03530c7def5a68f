\* Two executors, one part that may return to an earlier value, one ledger line.
SPECIFICATION OneStart
CONSTANTS
    Executors = {x1, x2}
    Parts = {assignments}
    Values = {a, b}
    Lines = {l1}
    MaxFailures = 2
    MaxChanges = 2
INVARIANT TypeOK
INVARIANT ClosableReflects
PROPERTY NeverOlder
PROPERTY CalmPublishes
