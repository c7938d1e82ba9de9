\* Two closes and one invoice request at a time, an invoice we issue and a bill.
SPECIFICATION ApprovedSpec
CONSTANTS
    Invoices <- MCInvoices
    Users = {ann, bob}
    NoOne = NoOne
    References = {b1}
    NoReference = NoReference
    MaxDay = 2
    MaxAmount = 0
    MonthOf <- MCMonthOf
    YearOf <- MCYearOf
    Admins = {ann}
    Accountants = {bob}
    ann = ann
    bob = bob
    c1 = c1
    Contents = {c1}
    Blank = Blank
    AmountOf <- MCAmountOf
    BatchIds <- MCBatchIds
    Sessions = {r1, k1, k2}
    Requests = {r1}
    NoSession = NoSession
    Calls <- CloseCalls
    DueDates = {2}
    ProcessingMoves = {"PENDING", "COMPLETED"}
    MaxReviews = 2
SYMMETRY Symmetry
CHECK_DEADLOCK FALSE
INVARIANTS BooksTypeOK CountedStaysAsCounted CirclesAreOfOneMonth SomeoneGoesOn
PROPERTIES ClosedIsForever ArchivedIsOnlyPaid
