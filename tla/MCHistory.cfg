\* Two requests at a time on one invoice, looking for a history that leaves the flow.
SPECIFICATION Spec
CONSTANTS
    Invoices <- OneInvoice
    Users = {ann, bob}
    NoOne = NoOne
    References = {b1}
    NoReference = NoReference
    MaxDay = 1
    MaxAmount = 1
    MonthOf <- MCMonthOf
    YearOf <- MCYearOf
    Admins = {ann}
    Accountants = {bob}
    c1 = c1
    c2 = c2
    Contents = {c1}
    Blank = Blank
    AmountOf <- MCAmountOf
    BatchIds <- MCBatchIds
    Sessions = {r1, r2}
    Requests = {r1, r2}
    NoSession = NoSession
    Calls <- LifecycleCalls
    DueDates = {1}
    ProcessingMoves = {"PENDING", "COMPLETED"}
    MaxReviews = 3
SYMMETRY Symmetry
CHECK_DEADLOCK FALSE
INVARIANT HistoryFollowsFlow
