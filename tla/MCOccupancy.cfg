SPECIFICATION Spec
CONSTANTS
    e1 = e1
    e2 = e2
    e3 = e3
    e4 = e4
    c1 = c1
    d1 = d1
    d2 = d2
    Events = {e1, e2, e3, e4}
    Booked = {e1, e2}
    Manual = {e4}
    Items = {i1}
    Crews = {c1}
    Requests = {r1, r2}
    Day = 6
    Threshold = 2
    RestBuffer = 1
    None = None
    Slot <- MCSlot
    District <- MCDistrict
    Periods <- MCPeriods
    Advance = 1
    Due = 2
    Verified <- MCVerified
    Legacy <- MCLegacy
    Assigned <- MCAssigned
    First <- MCFirst
    Durations = {1, 6, 8}
    Stocks = {1, 3}
    Quantities = {1, 2}
    Costs = {1, 2}
    Minutes = {1}
    Rates = {1}
    Intervals = {0}
    Offset = 5
    Horizon = 1
    MaxEdits = 1
SYMMETRY MCSymmetry
CHECK_DEADLOCK FALSE
INVARIANTS
    TypeOK
    ShowsWithinThreshold
    CrewsInOnePlace
    EvidenceOfCharges
    ReservationsFollowEvent
    SettledAddsUp
PROPERTIES
    BookedWithinStock
    ReportsAreStable
