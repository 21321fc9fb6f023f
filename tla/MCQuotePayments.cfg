SPECIFICATION FairSpec
CONSTANTS
    Quotes = {q1}
    Staff = {s1, s2}
    NoQuote = NoQuote
    MaxPayments = 3
    MaxVersions = 1
CHECK_DEADLOCK FALSE
INVARIANTS
    BookedIffPaid
    ContractMatchesBooking
    RefundsCloseQuotes
PROPERTIES
    MoneyDecisionsAreFinal
    ClosingSparesReviews
    DueQuotesClose
