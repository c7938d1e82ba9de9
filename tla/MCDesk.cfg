\* The reminder job in two processes, the contact form, leave requests.
SPECIFICATION Spec
CONSTANTS
    ann = ann
    eve = eve
    cal = cal
    inv = inv
    People = {ann, eve, cal}
    Admins = {ann, eve}
    Accountants = {cal}
    NoOne = NoOne
    Invoices = {inv}
    AuthorOf <- MCAuthorOf
    DelayOf <- MCDelayOf
    Enquiries = {q1, q2, q3}
    Leaves = {l1, l2}
    Workers = {w1, w2}
    Tasks = {t1, t2}
    Senders = {s1, s2, s3}
    PerSender = 1
    Total = 2
    Hour = 1
    MaxTime = 3
    Scenarios <- MCScenarios
CHECK_DEADLOCK FALSE
INVARIANTS DeskTypeOK OneReminderPerPeriod MailsAreOfStoredRows EnquiriesWithinLimits DecisionsAreOnRecord
PROPERTY EveryoneIsReminded
