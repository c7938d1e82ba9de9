\* No race at all: an invoice approved before its month is closed.
SPECIFICATION QuietSpec
CONSTANTS
    Invoices <- OneInvoice
    Users = {ann, bob}
    NoOne = NoOne
    References = {b1}
    NoReference = NoReference
    MaxDay = 2
    MaxAmount = 1
    MonthOf <- MCMonthOf
    YearOf <- MCYearOf
    Admins = {ann}
    Accountants = {bob}
    ann = ann
    bob = bob
    c1 = c1
    Contents = {c1}
    Blank = Blank
    AmountOf <- MCAmountOf
    BatchIds <- MCBatchIds
    Sessions = {r1, k1}
    Requests = {r1}
    NoSession = NoSession
    Calls <- OutgoingCalls
    DueDates = {2}
    ProcessingMoves = {"PENDING", "COMPLETED"}
    MaxReviews = 2
CHECK_DEADLOCK FALSE
INVARIANT RecountMatches
