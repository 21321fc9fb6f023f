SPECIFICATION Spec
CONSTANTS
    Quotes = {q1}
    Staff = {s1, s2}
    NoQuote = NoQuote
    MaxPayments = 2
    MaxVersions = 0
CHECK_DEADLOCK FALSE
INVARIANT
    OneActiveAdvance
