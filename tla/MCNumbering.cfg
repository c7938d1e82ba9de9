\* Two drafts or bills at a time compete for numbers, over three days and two years.
SPECIFICATION FairSpec
CONSTANTS
    Invoices <- MCInvoices
    Users = {ann, bob}
    NoOne = NoOne
    References = {b1, b2}
    NoReference = NoReference
    MaxDay = 3
    MaxAmount = 0
    MonthOf <- MCMonthOf
    YearOf <- MCYearOf
    Admins = {ann}
    Accountants = {bob}
    c1 = c1
    c2 = c2
    Contents = {c1}
    Blank = Blank
    AmountOf <- ZeroAmountOf
    BatchIds <- MCBatchIds
    Sessions = {r1, r2}
    Requests = {r1, r2}
    NoSession = NoSession
    Calls <- NumberingCalls
    DueDates = {3}
    ProcessingMoves = {"COMPLETED"}
    MaxReviews = 1
CHECK_DEADLOCK FALSE
INVARIANTS Gapless NumbersFollowDates
PROPERTY EveryRequestEnds
