SPECIFICATION Spec
CONSTANTS
    e1 = e1
    e2 = e2
    e3 = e3
    e4 = e4
    c1 = c1
    d1 = d1
    d2 = d2
    Events = {e1}
    Booked = {e1}
    Manual = {}
    Items = {i1}
    Crews = {c1}
    Requests = {}
    Day = 6
    Threshold = 2
    RestBuffer = 1
    None = None
    Slot <- MCSlot
    District <- MCDistrict
    Periods <- MCPeriods
    Advance = 1
    Due = 2
    Verified <- MCVerified
    Legacy <- MCLegacy
    Assigned <- MCAssigned
    First <- MCFirst
    Durations = {1, 2}
    Stocks = {0, 1}
    Quantities = {1}
    Costs = {1, 2}
    Minutes = {1}
    Rates = {1}
    Intervals = {0}
    Offset = 2
    Horizon = 3
    MaxEdits = 1
CHECK_DEADLOCK FALSE
PROPERTIES
    StockKeepsReservations
