SPECIFICATION Spec
CONSTANTS
    Messages = {m1}
    None = None
    MaxMisses = 2
    MaxReplies = 1
    MaxQuotes = 1
    MaxUpsets = 0
CHECK_DEADLOCK FALSE
PROPERTIES
    ObservationsAreQuoted
