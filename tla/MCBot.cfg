SPECIFICATION Spec
CONSTANTS
    Messages = {m1, m2}
    None = None
    MaxMisses = 2
    MaxReplies = 2
    MaxQuotes = 2
    MaxUpsets = 1
SYMMETRY MCSymmetry
CHECK_DEADLOCK FALSE
INVARIANTS
    TypeOK
PROPERTIES
    QuotedAsAnswered
    PaysNewestQuote
    NoFallbackAfterEffects
