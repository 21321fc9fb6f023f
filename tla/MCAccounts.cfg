SPECIFICATION Spec
CONSTANTS
    Users = {u1, u2, u3}
    FirstSuperadmins = {u1, u2}
    Tokens = {t1, t2, t3}
    Requests = {r1, r2}
    None = None
    Lifetime = 1
    MaxPasswords = 1
    MaxRequests = 5
SYMMETRY MCSymmetry
CHECK_DEADLOCK FALSE
INVARIANTS
    TypeOK
    SuperadminRemains
    LiveTokensAreCurrent
PROPERTIES
    SessionsEndForGood
