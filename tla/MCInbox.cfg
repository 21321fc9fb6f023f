SPECIFICATION Spec
CONSTANTS
    Users = {u1, s1}
    Superadmins = {s1}
    Messages = {m1}
    Jobs = {j1, j2}
    None = None
    LockTtl = 1
    LockWait = 1
    JobTimeout = 1
    MaxCommands = 2
    MaxFaults = 2
SYMMETRY MCSymmetry
CHECK_DEADLOCK FALSE
INVARIANTS
    TypeOK
    OneTurnAtATime
    TakenIsOpen
PROPERTIES
    HandsChangeByRight
