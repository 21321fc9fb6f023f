SPECIFICATION Spec
CONSTANTS
    Events = {1, 2}
    Requests = {r1, r2}
    None = None
    MaxTries = 2
    MaxFaults = 2
    MaxQuotes = 3
SYMMETRY MCSymmetry
CHECK_DEADLOCK FALSE
INVARIANTS
    TypeOK
    NoSilentLoss
    LinkIsRight
PROPERTIES
    LinkFollowsQuotes
