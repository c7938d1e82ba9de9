----------------------------- MODULE InvoiceFlow -----------------------------
(***************************************************************************)
(* The invoice endpoints of app/routers/invoicing.py, each request running *)
(* in its own database session, as transactions over the table `invoices`  *)
(* that interleave the way PostgreSQL's READ COMMITTED lets them.          *)
(*                                                                         *)
(* A request loads the row and checks it (the action named after the       *)
(* handler), and only later, in separate statements, takes a number from   *)
(* the series, deletes the lines it loaded, flushes its row and commits.   *)
(* Between any two of these steps other requests, the calendar or a lost   *)
(* connection may intervene.  A request that the handler's own checks      *)
(* refuse has no effect and is no step at all.                             *)
(*                                                                         *)
(* Written rows are visible to others only after the commit.  An UPDATE    *)
(* waits for the row's lock and then writes the columns the session        *)
(* changed over the row as it is by then; triggers see that row.           *)
(***************************************************************************)
EXTENDS InvoiceRules, Sequences, FiniteSets, FiniteSetsExt

CONSTANTS
    Admins, Accountants, \* users who held the role at the time of some request
    Contents,            \* what a set of invoice lines can say
    Blank,               \* the content of an invoice created with no line
    AmountOf,            \* total of a content, as _compute_totals gives it
    BatchIds,            \* identities of the sets of rows inserted by one request
    Sessions,            \* database sessions
    Requests,            \* sessions that serve an invoice request
    NoSession,           \* the holder of a free lock
    Calls,               \* operations that clients call, with the invoice and the user
    DueDates,            \* due dates that clients type
    ProcessingMoves,     \* processing statuses that clients ask for
    MaxReviews           \* bound: no submission once a history is this long

ASSUME UsersAssumption == Admins \subseteq Users /\ Accountants \subseteq Users
ASSUME ContentAssumption ==
    /\ Blank \notin Contents
    /\ AmountOf \in [Contents \cup {Blank} -> Amounts]
ASSUME SessionsAssumption == Requests \subseteq Sessions /\ NoSession \notin Sessions
ASSUME BatchIdsAssumption == BatchIds \subseteq Nat
ASSUME InputsAssumption ==
    DueDates \subseteq Days /\ ProcessingMoves \subseteq ProcessingStatuses

VARIABLES
    invoices, \* the committed table
    lines,    \* committed lines of each invoice, by the request that wrote them
    reviews,  \* committed review history of each invoice
    counter,  \* invoice_sequences.last_number of each direction and year
    periods,  \* accounting_periods; a month with no row is OPEN
    lock,     \* session that holds the row lock of an invoice
    txn,      \* what each request's session has in memory
    today     \* the calendar of the server and of the database

database == <<invoices, lines, reviews, counter, periods, lock>>
vars == <<invoices, lines, reviews, counter, periods, lock, txn, today>>

Operations == {"create", "bill", "processing", "edit", "submit", "approve", "reject",
               "send", "pay", "cancel"}
ReviewActions == {"SUBMITTED", "APPROVED", "REJECTED"}

\* A session between two requests.
Idle == [pc |-> "idle", op |-> "none", by |-> NoOne, inv |-> 0, seen |-> Absent,
         want |-> Absent, content |-> Blank, loaded |-> {}]

Transaction ==
    [pc : {"idle", "load", "delete", "allocate", "flush", "commit"},
     op : Operations \cup {"none"},
     by : Users \cup {NoOne},
     inv : Invoices \cup {0},
     seen : Row,                         \* the row as the session loaded it
     want : Row,                         \* the row after the handler's assignments
     content : Contents \cup {Blank},    \* the lines of the request body
     loaded : SUBSET BatchIds]           \* the lines the session loaded

Open == [state |-> "OPEN", figures |-> {}]

TypeOK ==
    /\ invoices \in [Invoices -> Row]
    /\ lines \in [Invoices -> SUBSET [id : BatchIds, what : Contents]]
    /\ reviews \in [Invoices -> Seq([action : ReviewActions, actor : Users])]
    /\ counter \in [Directions -> [Years -> Nat]]
    /\ periods \in [Months -> [state : {"OPEN", "CLOSED"}, figures : SUBSET (Invoices \X Amounts)]]
    /\ lock \in [Invoices -> Sessions \cup {NoSession}]
    /\ txn \in [Requests -> Transaction]
    /\ today \in Days

Init ==
    /\ invoices = [i \in Invoices |-> Absent]
    /\ lines = [i \in Invoices |-> {}]
    /\ reviews = [i \in Invoices |-> <<>>]
    /\ counter = [s \in Directions |-> [y \in Years |-> 0]]
    /\ periods = [m \in Months |-> Open]
    /\ lock = [i \in Invoices |-> NoSession]
    /\ txn = [r \in Requests |-> Idle]
    /\ today = 1

-----------------------------------------------------------------------------
(***************************************************************************)
(* The handlers, up to the point where they have loaded and checked.       *)
(***************************************************************************)

\* Request r passed the checks of its handler with row `seen` loaded and
\* `want` to be written, and goes on at pc.
Begin(r, op, u, i, seen, want, content, pc) ==
    /\ txn[r] = Idle
    /\ <<op, i, u>> \in Calls
    /\ txn' = [txn EXCEPT ![r] = [pc |-> pc, op |-> op, by |-> u, inv |-> i, seen |-> seen,
                                  want |-> want, content |-> content, loaded |-> {}]]
    /\ UNCHANGED <<database, today>>

\* The identifier the next INSERT gets.
IsNextId(i) ==
    LET free == {j \in Invoices : ~ Exists(invoices[j]) /\ \A q \in Requests : txn[q].inv # j}
    IN  i \in free /\ \A j \in free : i <= j

\* POST /invoices, without an Idempotency-Key
CreateInvoice(r, u, i, due, content) ==
    /\ u \in Admins
    /\ IsNextId(i)
    /\ due >= today
    /\ Begin(r, "create", u, i, Absent,
             [Absent EXCEPT !.statut = "BROUILLON", !.issued = today, !.due = due,
                            !.amount = AmountOf[content], !.by = u],
             content, "flush")

\* POST /supplier-invoices
CreateSupplierInvoice(r, u, i, issued, due, amount, ref) ==
    /\ u \in Admins \cup Accountants
    /\ IsNextId(i)
    /\ due >= issued
    /\ Begin(r, "bill", u, i, Absent,
             [Absent EXCEPT !.direction = "INCOMING", !.statut = "ENVOYEE", !.issued = issued,
                            !.due = due, !.amount = amount, !.by = u, !.ref = ref],
             Blank, "allocate")

\* PATCH /invoices/{id}/processing-status
SetProcessingStatus(r, u, i, processing) ==
    /\ u \in Admins \cup Accountants
    /\ Exists(invoices[i])
    /\ Begin(r, "processing", u, i, invoices[i],
             [invoices[i] EXCEPT !.processing = processing], Blank, "flush")

\* PATCH /invoices/{id}
UpdateInvoice(r, u, i, due, content) ==
    LET row == invoices[i]
    IN  /\ u \in Admins
        /\ row.direction = "OUTGOING"
        /\ row.statut = "BROUILLON"
        /\ row.review \notin {"SUBMITTED", "APPROVED"}
        /\ due >= row.issued
        /\ Begin(r, "edit", u, i, row,
                 [row EXCEPT !.due = due, !.amount = AmountOf[content]], content, "load")

\* POST /invoices/{id}/submit
SubmitInvoice(r, u, i) ==
    LET row == invoices[i]
    IN  /\ u \in Admins
        /\ row.direction = "OUTGOING"
        /\ row.statut = "BROUILLON"
        /\ row.review \in {"NOT_SUBMITTED", "REJECTED"}
        /\ lines[i] # {}
        /\ Len(reviews[i]) < MaxReviews
        /\ Begin(r, "submit", u, i, row, [row EXCEPT !.review = "SUBMITTED"], Blank, "flush")

AwaitingReview(row) ==
    row.direction = "OUTGOING" /\ row.statut = "BROUILLON" /\ row.review = "SUBMITTED"

\* POST /invoices/{id}/approve; a draft that already has a number keeps it
ApproveInvoice(r, u, i) ==
    LET row == invoices[i]
    IN  /\ u \in Accountants
        /\ AwaitingReview(row)
        /\ row.by # u
        /\ row.due >= today
        /\ IF Numbered(row)
           THEN Begin(r, "approve", u, i, row, [row EXCEPT !.review = "APPROVED"], Blank, "flush")
           ELSE Begin(r, "approve", u, i, row,
                      [row EXCEPT !.review = "APPROVED", !.issued = today], Blank, "allocate")

\* POST /invoices/{id}/reject
RejectInvoice(r, u, i) ==
    /\ u \in Accountants
    /\ AwaitingReview(invoices[i])
    /\ invoices[i].by # u
    /\ Begin(r, "reject", u, i, invoices[i],
             [invoices[i] EXCEPT !.review = "REJECTED"], Blank, "flush")

\* POST /invoices/{id}/send
SendInvoice(r, u, i) ==
    LET row == invoices[i]
    IN  /\ u \in Admins
        /\ row.direction = "OUTGOING"
        /\ row.statut = "BROUILLON"
        /\ row.review = "APPROVED"
        /\ Begin(r, "send", u, i, row, [row EXCEPT !.statut = "ENVOYEE"], Blank, "flush")

\* POST /invoices/{id}/pay
PayInvoice(r, u, i, day) ==
    LET row == invoices[i]
    IN  /\ u \in Admins \cup Accountants
        /\ row.statut = "ENVOYEE"
        /\ day <= today
        /\ day >= row.issued
        /\ Begin(r, "pay", u, i, row, [row EXCEPT !.statut = "PAYEE", !.paid = day], Blank, "flush")

\* POST /invoices/{id}/cancel
CancelInvoice(r, u, i) ==
    LET row == invoices[i]
    IN  /\ u \in Admins
        /\ row.statut \in {"BROUILLON", "ENVOYEE"}
        /\ ~ (row.review = "SUBMITTED" /\ row.statut = "BROUILLON")
        /\ row.processing # "ARCHIVED"
        /\ Begin(r, "cancel", u, i, row, [row EXCEPT !.statut = "ANNULEE"], Blank, "flush")

-----------------------------------------------------------------------------
(***************************************************************************)
(* The statements of a transaction.                                        *)
(***************************************************************************)

Dirty(t) == t.want # t.seen
TakesNumber(t) == t.want.numero # t.seen.numero
Inserts(t) == t.op \in {"create", "bill"}
WritesLines(t) == t.op \in {"create", "edit"}
Reviews(t) == t.op \in {"submit", "approve", "reject"}

\* The row of transaction t once it is written.
After(t) == IF Inserts(t) THEN t.want ELSE Written(t.seen, t.want, invoices[t.inv])

\* Mutant: the connection goes back to the pool with its locks.
ForgetsLocks(r) ==
    /\ txn' = [txn EXCEPT ![r] = Idle]
    /\ UNCHANGED <<database, today>>

\* The transaction ends with nothing written: everything rolls back.
Rollback(r) ==
    /\ txn' = [txn EXCEPT ![r] = Idle]
    /\ lock' = [i \in Invoices |-> IF lock[i] = r THEN NoSession ELSE lock[i]]
    /\ UNCHANGED <<invoices, lines, reviews, counter, periods, today>>

\* The counter's row is locked from the allocation to the end of the transaction.
HoldsCounter(q, direction, year) ==
    /\ TakesNumber(txn[q])
    /\ txn[q].want.direction = direction
    /\ txn[q].want.numero.year = year

\* Mutant: the counter moves outside of the transaction, like a SEQUENCE.
AllocateForGood(r) ==
    LET t == txn[r]
        s == t.want.direction
        y == YearOf[t.want.issued]
    IN  /\ t.pc = "allocate"
        /\ counter' = [counter EXCEPT ![s][y] = @ + 1]
        /\ txn' = [txn EXCEPT ![r] =
                     [t EXCEPT !.pc = "flush",
                               !.want = [@ EXCEPT !.numero = [year |-> y, n |-> counter[s][y] + 1]]]]
        /\ UNCHANGED <<invoices, lines, reviews, periods, lock, today>>

\* _allocate_invoice_number
Allocate(r) ==
    LET t == txn[r]
        s == t.want.direction
        y == YearOf[t.want.issued]
    IN  /\ t.pc = "allocate"
        /\ \A q \in Requests : ~ HoldsCounter(q, s, y)
        /\ txn' = [txn EXCEPT ![r] =
                     [t EXCEPT !.pc = "flush",
                               !.want = [@ EXCEPT !.numero = [year |-> y, n |-> counter[s][y] + 1]]]]
        /\ UNCHANGED <<database, today>>

Ids(i) == {b.id : b \in lines[i]}

\* An edit loads the lines in a statement of its own, after the row.
LoadLines(r) ==
    /\ txn[r].pc = "load"
    /\ txn' = [txn EXCEPT ![r] = [txn[r] EXCEPT !.pc = "delete", !.loaded = Ids(txn[r].inv)]]
    /\ UNCHANGED <<database, today>>

\* Lines another edit has deleted and not yet committed are locked.
HoldsLines(q, r) ==
    /\ txn[q].op = "edit" /\ txn[q].inv = txn[r].inv /\ txn[q].pc \in {"flush", "commit"}
    /\ txn[q].loaded \cap txn[r].loaded \cap Ids(txn[r].inv) # {}

LinesAreFree(r) == \A q \in Requests \ {r} : ~ HoldsLines(q, r)

\* The trigger runs for each line still there; a line deleted meanwhile by
\* another edit matches no row, and the session goes on.
DeletePasses(t) == t.loaded \cap Ids(t.inv) # {} => LinesFollow(invoices[t.inv])

\* The first flush of update_invoice
DeleteLines(r) ==
    /\ txn[r].pc = "delete"
    /\ LinesAreFree(r)
    /\ DeletePasses(txn[r])
    /\ txn' = [txn EXCEPT ![r] = [txn[r] EXCEPT !.pc = "flush"]]
    /\ UNCHANGED <<database, today>>

DeleteRefused(r) ==
    /\ txn[r].pc = "delete"
    /\ LinesAreFree(r)
    /\ ~ DeletePasses(txn[r])
    /\ Rollback(r)

\* A flush that sets the number waits for sessions that inserted lines of the
\* row, and they wait for it (foreign keys lock the parent row).  A second bill
\* with a supplier's reference waits for the first one's outcome.
HoldsFlush(q, r) ==
    LET t == txn[r]
        o == txn[q]
    IN  /\ o.pc = "commit"
        /\ \/ o.inv = t.inv /\ TakesNumber(t) /\ o.op = "edit"
           \/ o.inv = t.inv /\ TakesNumber(o) /\ t.op = "edit"
           \/ t.op = "bill" /\ o.op = "bill" /\ t.want.ref = o.want.ref

\* An UPDATE waits for the row's lock.
NeedsRowLock(t) == ~ Inserts(t) /\ Dirty(t)

FlushIsFree(r) ==
    /\ NeedsRowLock(txn[r]) => lock[txn[r].inv] = NoSession
    /\ \A q \in Requests \ {r} : ~ HoldsFlush(q, r)

\* Every trigger and constraint lets the statements of the flush pass.
FlushPasses(t) ==
    /\ Inserts(t) => InsertAllowed(invoices, periods, t.want)
    /\ ~ Inserts(t) /\ Dirty(t) =>
          UpdateAllowed(invoices, periods, today, t.seen, t.want, invoices[t.inv])
    /\ WritesLines(t) => LinesFollow(After(t))
    /\ t.op \in {"approve", "reject"} => After(t).by # t.by   \* trg_invoice_review_is_valid

Flush(r) ==
    /\ txn[r].pc = "flush"
    /\ FlushIsFree(r)
    /\ FlushPasses(txn[r])
    /\ txn' = [txn EXCEPT ![r] = [txn[r] EXCEPT !.pc = "commit"]]
    /\ lock' = IF Dirty(txn[r]) THEN [lock EXCEPT ![txn[r].inv] = r] ELSE lock
    /\ UNCHANGED <<invoices, lines, reviews, counter, periods, today>>

\* Mutant: the history row is committed before the decision is.
RefusedButRecorded(r) ==
    LET t == txn[r]
    IN  /\ t.pc = "flush"
        /\ FlushIsFree(r)
        /\ ~ FlushPasses(t)
        /\ txn' = [txn EXCEPT ![r] = Idle]
        /\ reviews' = IF Reviews(t)
                      THEN [reviews EXCEPT ![t.inv] = Append(@, [action |-> t.want.review, actor |-> t.by])]
                      ELSE reviews
        /\ UNCHANGED <<invoices, lines, counter, periods, lock, today>>

\* The handler answers 409 (or 500 where it catches nothing) and rolls back.
FlushRefused(r) ==
    /\ txn[r].pc = "flush"
    /\ FlushIsFree(r)
    /\ ~ FlushPasses(txn[r])
    /\ Rollback(r)

\* An identity that no line of i has and no session remembers.
IsFreshId(k, i) ==
    LET taken(j) == j \in Ids(i) \/ \E q \in Requests : txn[q].inv = i /\ j \in txn[q].loaded
    IN  ~ taken(k) /\ \A j \in BatchIds : j < k => taken(j)

\* The lines of the invoice after t, its new ones under identity k.
LinesAfter(t, k) ==
    {b \in lines[t.inv] : b.id \notin t.loaded}
        \cup (IF t.content = Blank THEN {} ELSE {[id |-> k, what |-> t.content]})

\* Mutant: the history records the status before the decision.
RecordsOldStatus(t) == t.seen.review

ReviewActionOf(t) == t.want.review

Commit(r) ==
    LET t == txn[r]
        i == t.inv
    IN  /\ t.pc = "commit"
        /\ invoices' = [invoices EXCEPT ![i] = After(t)]
        /\ IF WritesLines(t)
           THEN \E k \in BatchIds : IsFreshId(k, i) /\ lines' = [lines EXCEPT ![i] = LinesAfter(t, k)]
           ELSE UNCHANGED lines
        /\ reviews' = IF Reviews(t)
                      THEN [reviews EXCEPT ![i] = Append(@, [action |-> ReviewActionOf(t), actor |-> t.by])]
                      ELSE reviews
        /\ counter' = IF TakesNumber(t)
                      THEN [counter EXCEPT ![t.want.direction][t.want.numero.year] = t.want.numero.n]
                      ELSE counter
        /\ lock' = [lock EXCEPT ![i] = IF @ = r THEN NoSession ELSE @]
        /\ txn' = [txn EXCEPT ![r] = Idle]
        /\ UNCHANGED <<periods, today>>

\* The process dies, the connection drops or building the response fails
\* before the commit: PostgreSQL rolls the transaction back.
Abort(r) ==
    /\ txn[r].pc # "idle"
    /\ Rollback(r)

Midnight ==
    /\ today < MaxDay
    /\ today' = today + 1
    /\ UNCHANGED <<database, txn>>

-----------------------------------------------------------------------------
Handlers(r) ==
    \/ \E u \in Users, i \in Invoices, due \in DueDates, c \in Contents \cup {Blank} :
          CreateInvoice(r, u, i, due, c)
    \/ \E u \in Users, i \in Invoices, issued \in Days, due \in DueDates, a \in Amounts, ref \in References :
          CreateSupplierInvoice(r, u, i, issued, due, a, ref)
    \/ \E u \in Users, i \in Invoices, p \in ProcessingMoves : SetProcessingStatus(r, u, i, p)
    \/ \E u \in Users, i \in Invoices, due \in DueDates, c \in Contents : UpdateInvoice(r, u, i, due, c)
    \/ \E u \in Users, i \in Invoices : SubmitInvoice(r, u, i)
    \/ \E u \in Users, i \in Invoices : ApproveInvoice(r, u, i)
    \/ \E u \in Users, i \in Invoices : RejectInvoice(r, u, i)
    \/ \E u \in Users, i \in Invoices : SendInvoice(r, u, i)
    \/ \E u \in Users, i \in Invoices, day \in Days : PayInvoice(r, u, i, day)
    \/ \E u \in Users, i \in Invoices : CancelInvoice(r, u, i)

\* What the database does for a request that is under way.
Statements(r) ==
    \/ Allocate(r)
    \/ LoadLines(r)
    \/ DeleteLines(r)
    \/ DeleteRefused(r)
    \/ Flush(r)
    \/ FlushRefused(r)
    \/ Commit(r)

Next ==
    \/ \E r \in Requests : Handlers(r) \/ Statements(r) \/ Abort(r)
    \/ Midnight

Spec == Init /\ [][Next]_vars

\* A statement that can run is run; one that waits for a lock gets its turn,
\* because PostgreSQL queues the waiters of a lock in order.
Fairness == \A r \in Requests : SF_vars(Statements(r))

FairSpec == Spec /\ Fairness

-----------------------------------------------------------------------------
(***************************************************************************)
(* Properties.                                                             *)
(***************************************************************************)

NumberedRows == {i \in Invoices : Numbered(invoices[i])}

InSeries(i, direction, year) ==
    Numbered(invoices[i]) /\ invoices[i].direction = direction /\ invoices[i].numero.year = year

\* The numbers of a series and year are 1, 2, ... up to the counter, each
\* given once: no gap and no duplicate, whatever was refused, rolled back or
\* raced (_allocate_invoice_number; uniqueness of invoices.numero).
Gapless ==
    \A s \in Directions, y \in Years :
        /\ \A i \in Invoices : InSeries(i, s, y) => invoices[i].numero.n \in 1 .. counter[s][y]
        /\ \A n \in 1 .. counter[s][y] : \E i \in Invoices : InSeries(i, s, y) /\ invoices[i].numero.n = n
        /\ \A i, j \in Invoices :
              InSeries(i, s, y) /\ InSeries(j, s, y) /\ invoices[i].numero = invoices[j].numero => i = j

\* Among the invoices we issue, a lower number never has a later date, even
\* when approvals straddle midnight (approve_invoice reads the date before
\* it waits for the counter; trg_invoice_number_follows_date).
NumbersFollowDates ==
    \A i, j \in NumberedRows :
        /\ invoices[i].direction = "OUTGOING" /\ invoices[j].direction = "OUTGOING"
        /\ invoices[i].numero.year = invoices[j].numero.year
        /\ invoices[i].numero.n < invoices[j].numero.n
        => invoices[i].issued <= invoices[j].issued

\* The review history and the row never disagree: the row's review status is
\* the action recorded last, although the two are written by different
\* statements of racing requests (_commit_review).
HistoryExplainsStatus ==
    \A i \in Invoices :
        IF reviews[i] = <<>>
        THEN invoices[i].review = "NOT_SUBMITTED"
        ELSE invoices[i].review = reviews[i][Len(reviews[i])].action

\* An invoice we issue has a number exactly when its history holds one
\* approval, by someone other than its author (separation of duties).
NumberedByOneOtherPerson ==
    \A i \in Invoices :
        LET approvals == {k \in DOMAIN reviews[i] : reviews[i][k].action = "APPROVED"}
        IN  Exists(invoices[i]) /\ invoices[i].direction = "OUTGOING" =>
              /\ Numbered(invoices[i]) <=> Cardinality(approvals) = 1
              /\ \A k \in approvals : reviews[i][k].actor # invoices[i].by
              /\ Cardinality(approvals) <= 1

\* The history of an invoice follows the flow: every decision answers one
\* submission, and only a rejected invoice is submitted again.  The comment
\* above _outgoing_draft says a race between a check and its write is caught
\* by the triggers.
HistoryFollowsFlow ==
    \A i \in Invoices : \A k \in DOMAIN reviews[i] :
        LET before == IF k = 1 THEN "REJECTED" ELSE reviews[i][k - 1].action
        IN  IF reviews[i][k].action = "SUBMITTED" THEN before = "REJECTED" ELSE before = "SUBMITTED"

\* The total of an invoice we issue is the total of its lines (update_invoice:
\* "the order keeps the invoice and its lines consistent at every statement").
TotalsMatchLines ==
    \A i \in Invoices :
        Exists(invoices[i]) /\ invoices[i].direction = "OUTGOING" =>
            invoices[i].amount = MapThenSumSet(LAMBDA b : AmountOf[b.what], lines[i])

\* What the accountant verifies stays what was submitted: the lines of an
\* invoice in review or approved do not change (submit_invoice: "From here the
\* content is frozen"; trg_invoice_lines_follow_their_invoice).
ContentIsFrozen ==
    [][\A i \in Invoices :
          invoices[i].direction = "OUTGOING" /\ invoices[i].review \in {"SUBMITTED", "APPROVED"} =>
              {b.what : b \in lines'[i]} = {b.what : b \in lines[i]}]_vars

\* Once the database has started on a request it comes to an end: no two
\* requests wait for each other's locks for ever.
EveryRequestEnds == \A r \in Requests : txn[r].pc # "idle" ~> txn[r].pc = "idle"

-----------------------------------------------------------------------------
(***************************************************************************)
(* Why the series are gapless: the inductive invariant.                    *)
(***************************************************************************)

\* A session at work is about one invoice, which exists by now unless the
\* session is inserting it; no one else is about one being inserted.
AboutOneInvoice(r) ==
    LET t == txn[r]
    IN  /\ t.inv \in Invoices
        /\ t.by \in Users
        /\ Reviews(t) => t.want.review \in ReviewActions
        /\ Exists(t.want)
        /\ Inserts(t) =>
              /\ t.seen = Absent
              /\ ~ Exists(invoices[t.inv])
              /\ \A q \in Requests \ {r} : txn[q].inv # t.inv
        /\ ~ Inserts(t) =>
              /\ Exists(invoices[t.inv])
              /\ t.want.direction = invoices[t.inv].direction

\* A number in a session's memory is the next one of its series, kept from
\* everyone else by the counter's lock until the row that takes it commits.
HoldsNextNumber(r) ==
    LET t == txn[r]
    IN  /\ t.pc = "allocate" =>
              t.seen.numero = NoNumber /\ t.want.numero = NoNumber /\ t.want.issued \in Days
        /\ TakesNumber(t) =>
              /\ t.pc \in {"flush", "commit"}
              /\ t.want.numero.year \in Years
              /\ t.want.numero.n = counter[t.want.direction][t.want.numero.year] + 1
        /\ (t.pc = "allocate" \/ TakesNumber(t)) /\ ~ Inserts(t) => t.want.direction = "OUTGOING"

\* What a session has flushed is locked, and if it gives the row a number the
\* row had none.
HoldsItsRow(r) ==
    LET t == txn[r]
    IN  t.pc = "commit" /\ Dirty(t) =>
            /\ lock[t.inv] = r
            /\ TakesNumber(t) => ~ Numbered(invoices[t.inv])

SessionInv(r) ==
    IF txn[r].pc = "idle"
    THEN txn[r] = Idle
    ELSE AboutOneInvoice(r) /\ HoldsNextNumber(r) /\ HoldsItsRow(r)

OneHolder ==
    \A q, r \in Requests :
        /\ TakesNumber(txn[q]) /\ TakesNumber(txn[r])
        /\ txn[q].want.direction = txn[r].want.direction
        /\ txn[q].want.numero.year = txn[r].want.numero.year
        => q = r

AbsentIsBlank == \A i \in Invoices : ~ Exists(invoices[i]) => invoices[i] = Absent

GaplessInv ==
    /\ TypeOK
    /\ Gapless
    /\ AbsentIsBlank
    /\ \A r \in Requests : SessionInv(r)
    /\ OneHolder

-----------------------------------------------------------------------------
(***************************************************************************)
(* The transactions implement the life of an invoice.                      *)
(***************************************************************************)

StageOf(row) ==
    CASE row.statut = "NONE" -> "absent"
      [] row.statut = "ENVOYEE" -> "sent"
      [] row.statut = "PAYEE" -> "paid"
      [] row.statut = "ANNULEE" -> "cancelled"
      [] row.statut = "BROUILLON" ->
            (CASE row.review = "NOT_SUBMITTED" -> "draft"
               [] row.review = "SUBMITTED" -> "submitted"
               [] row.review = "REJECTED" -> "rejected"
               [] row.review = "APPROVED" -> "approved")

TermsOf(row) == [due |-> row.due, amount |-> row.amount]

Lifecycle == INSTANCE InvoiceLifecycle WITH
    Terms <- [due : Days, amount : Amounts],
    NoTerms <- TermsOf(Absent),
    stage <- [i \in Invoices |-> StageOf(invoices[i])],
    kind <- [i \in Invoices |-> invoices[i].direction],
    terms <- [i \in Invoices |-> TermsOf(invoices[i])],
    number <- [i \in Invoices |-> invoices[i].numero]

\* However its statements interleave with others', a committed request is one
\* step of an invoice's life: terms are frozen from submission on, a number is
\* the next of its series and final, and paid and cancelled are final
\* (the flow drawn above _outgoing_draft and above AWAITING_PAYMENT).
FollowsLifecycle == Lifecycle!LifeSpec
=============================================================================
