------------------------------ MODULE MonthClose ------------------------------
(***************************************************************************)
(* Closing a month (app/routers/accounting.py) while invoice requests run. *)
(*                                                                         *)
(* POST /periods/{month}/close is one transaction of five statements, each *)
(* with a snapshot of its own: is the month closed, which invoices block   *)
(* it, what are its figures, archive its invoices (row by row, waiting for *)
(* each row's lock), insert the period's row.  A month has a row only once *)
(* it is closed, so the first statement's FOR UPDATE locks nothing; the    *)
(* unique key on accounting_periods.periode decides between two closes.    *)
(***************************************************************************)
EXTENDS InvoiceFlow

VARIABLE closing \* what each closing session has in memory

booksVars == <<vars, closing>>

Closers == Sessions \ Requests

NoClose == [pc |-> "idle", month |-> 0, figures |-> {}, todo |-> {}, row |-> 0]

Close ==
    [pc : {"idle", "blocking", "summarise", "select", "archive", "seal"},
     month : Months \cup {0},
     figures : SUBSET (Invoices \X Amounts), \* what _summarise found
     todo : SUBSET Invoices,                 \* rows the UPDATE has still to visit
     row : Invoices \cup {0}]                \* the one of them it has come to

BooksTypeOK == TypeOK /\ closing \in [Closers -> Close]

BooksInit == Init /\ closing = [k \in Closers |-> NoClose]

\* Mutant: the filter on the month is left out.
InAnyMonth(row, m) == Exists(row)

InMonth(row, m) == Exists(row) /\ MonthOf[row.issued] = m

\* _in_the_books
InTheBooks(row) ==
    ~ (row.direction = "OUTGOING" /\ (row.statut = "BROUILLON" \/ ~ Numbered(row)))

MonthBooks(m) == {i \in Invoices : InMonth(invoices[i], m) /\ InTheBooks(invoices[i])}

\* _blocking
Blocking(m) == {i \in MonthBooks(m) : invoices[i].processing # "COMPLETED"}

\* _summarise: the counted invoices with their totals stand for the figures.
Summary(m) == {<<i, invoices[i].amount>> : i \in MonthBooks(m)}

\* GET /periods/{month}: what a close would do, as of now
Preview(m) == [state |-> periods[m].state, blocking |-> Blocking(m), figures |-> Summary(m)]

AlreadyClosed(m) == periods[m].state = "CLOSED"

\* Mutant: nothing keeps a month from being closed twice.
KeyIsAlwaysFree(m) == TRUE

\* The unique key on accounting_periods.periode.
KeyIsFree(m) == ~ AlreadyClosed(m)

\* The UPDATE has no ORDER BY: it comes to its rows in an order that is the
\* database's, and two closes of one month may take opposite ones.
ComesTo(i, todo) == IF todo = {} THEN i = 0 ELSE i \in todo

\* Mutant: the invoice takes the period's state.
SealedRow(row) == [row EXCEPT !.processing = "CLOSED"]

ArchivedRow(row) == [row EXCEPT !.processing = "ARCHIVED"]

-----------------------------------------------------------------------------
Goes(k, close) == closing' = [closing EXCEPT ![k] = close]

\* Mutant: the connection goes back to the pool with its transaction open.
CloseForgetsLocks(k) == Goes(k, NoClose) /\ UNCHANGED vars

CloseRollback(k) ==
    /\ Goes(k, NoClose)
    /\ lock' = [i \in Invoices |-> IF lock[i] = k THEN NoSession ELSE lock[i]]
    /\ UNCHANGED <<invoices, lines, reviews, counter, periods, txn, today>>

\* close_period, up to the first check
CloseBegin(k, m) ==
    /\ closing[k] = NoClose
    /\ ~ AlreadyClosed(m)
    /\ Goes(k, [NoClose EXCEPT !.pc = "blocking", !.month = m])
    /\ UNCHANGED vars

\* Some invoice is not completed: answer 409, nothing written.
CloseBlocked(k) ==
    /\ closing[k].pc = "blocking"
    /\ Blocking(closing[k].month) # {}
    /\ CloseRollback(k)

CloseNotBlocked(k) ==
    /\ closing[k].pc = "blocking"
    /\ Blocking(closing[k].month) = {}
    /\ Goes(k, [closing[k] EXCEPT !.pc = "summarise"])
    /\ UNCHANGED vars

CloseSummarise(k) ==
    /\ closing[k].pc = "summarise"
    /\ Goes(k, [closing[k] EXCEPT !.pc = "select", !.figures = Summary(closing[k].month)])
    /\ UNCHANGED vars

\* The UPDATE finds its rows in the snapshot it starts with ...
CloseSelect(k) ==
    LET found == MonthBooks(closing[k].month)
    IN  /\ closing[k].pc = "select"
        /\ \E i \in Invoices \cup {0} :
             /\ ComesTo(i, found)
             /\ Goes(k, [closing[k] EXCEPT !.pc = "archive", !.todo = found, !.row = i])
        /\ UNCHANGED vars

\* ... and comes to them one by one.  It waits for the row's lock and checks
\* its WHERE clause again on the row as it is by then.  No trigger refuses:
\* an outgoing invoice in the books has left draft.
CloseArchiveRow(k) ==
    LET c == closing[k]
    IN  /\ c.pc = "archive"
        /\ c.row # 0 /\ lock[c.row] = NoSession
        /\ lock' = IF c.row \in MonthBooks(c.month) THEN [lock EXCEPT ![c.row] = k] ELSE lock
        /\ \E i \in Invoices \cup {0} :
             /\ ComesTo(i, c.todo \ {c.row})
             /\ Goes(k, [c EXCEPT !.todo = @ \ {c.row}, !.row = i])
        /\ UNCHANGED <<invoices, lines, reviews, counter, periods, txn, today>>

CloseArchived(k) ==
    /\ closing[k].pc = "archive"
    /\ closing[k].todo = {}
    /\ Goes(k, [closing[k] EXCEPT !.pc = "seal"])
    /\ UNCHANGED vars

\* The commit: the rows this session holds are archived, the month is closed.
CloseSeal(k) ==
    LET m == closing[k].month
    IN  /\ closing[k].pc = "seal"
        /\ KeyIsFree(m)
        /\ invoices' = [i \in Invoices |->
              IF lock[i] = k THEN ArchivedRow(invoices[i]) ELSE invoices[i]]
        /\ periods' = [periods EXCEPT ![m] = [state |-> "CLOSED", figures |-> closing[k].figures]]
        /\ lock' = [i \in Invoices |-> IF lock[i] = k THEN NoSession ELSE lock[i]]
        /\ Goes(k, NoClose)
        /\ UNCHANGED <<lines, reviews, counter, txn, today>>

\* Another close committed first: the period's unique key answers 500.
CloseSealRefused(k) ==
    /\ closing[k].pc = "seal"
    /\ ~ KeyIsFree(closing[k].month)
    /\ CloseRollback(k)

\* Session s can go on only once session t ends: t holds what the next
\* statement of s has to lock.
WaitsFor(s, t) ==
    \/ /\ s \in Requests /\ t \in Requests
       /\ \/ /\ txn[s].pc = "allocate"
             /\ HoldsCounter(t, txn[s].want.direction, YearOf[txn[s].want.issued])
          \/ txn[s].pc = "delete" /\ s # t /\ HoldsLines(t, s)
          \/ txn[s].pc = "flush" /\ s # t /\ HoldsFlush(t, s)
    \/ /\ s \in Requests
       /\ txn[s].pc = "flush" /\ NeedsRowLock(txn[s]) /\ lock[txn[s].inv] = t
    \/ /\ s \in Closers
       /\ closing[s].pc = "archive"
       /\ closing[s].row # 0 /\ lock[closing[s].row] = t

\* Each of the group waits for one of it, and one of it waits for each.
Circle(group) ==
    /\ group # {}
    /\ \A s \in group : \E t \in group : WaitsFor(s, t)
    /\ \A t \in group : \E s \in group : WaitsFor(s, t)

\* PostgreSQL ends a circle by failing a statement of one session in it:
\* that close answers 500.
CloseDeadlock(k) ==
    /\ \E group \in SUBSET Sessions : k \in group /\ Circle(group)
    /\ CloseRollback(k)

\* The connection drops before the commit.
CloseAbort(k) ==
    /\ closing[k].pc # "idle"
    /\ CloseRollback(k)

CloseStatements(k) ==
    \/ CloseBlocked(k)
    \/ CloseNotBlocked(k)
    \/ CloseSummarise(k)
    \/ CloseSelect(k)
    \/ CloseArchiveRow(k)
    \/ CloseArchived(k)
    \/ CloseSeal(k)
    \/ CloseSealRefused(k)
    \/ CloseDeadlock(k)

BooksNext ==
    \/ Next /\ UNCHANGED closing
    \/ \E k \in Closers : (\E m \in Months : CloseBegin(k, m)) \/ CloseStatements(k) \/ CloseAbort(k)

BooksSpec == BooksInit /\ [][BooksNext]_booksVars

-----------------------------------------------------------------------------
(***************************************************************************)
(* Properties.                                                             *)
(***************************************************************************)

\* What a close counted stays as it was counted: every invoice in the
\* figures of a closed month is archived, still in that month's books, and
\* has the total it was counted with, although the figures were read before
\* the rows were locked (_summarise runs before the archiving UPDATE).
CountedStaysAsCounted ==
    \A m \in Months : \A f \in periods[m].figures :
        LET row == invoices[f[1]]
        IN  /\ row.processing = "ARCHIVED"
            /\ row.amount = f[2]
            /\ f[1] \in MonthBooks(m)

\* A closed month is closed once and for all, with the same figures, even
\* when two accountants close it at the same moment (close_period).
ClosedIsForever ==
    [][\A m \in Months : AlreadyClosed(m) => periods'[m] = periods[m]]_booksVars

\* The only thing that can still happen to an archived invoice is that it is
\* paid: a cancellation, a processing status or an edit begun before the
\* close and flushed after it is refused (trg_invoice_archived_is_final,
\* trg_invoice_commercial_transitions).
ArchivedIsOnlyPaid ==
    [][\A i \in Invoices : invoices[i].processing = "ARCHIVED" =>
          \/ invoices'[i] = invoices[i]
          \/ /\ invoices[i].statut = "ENVOYEE"
             /\ invoices'[i] = [invoices[i] EXCEPT !.statut = "PAYEE", !.paid = invoices'[i].paid]
      ]_booksVars

\* Only closes of one and the same month, whose UPDATEs come to its rows in
\* different orders, ever wait for each other in a circle: a deadlock costs
\* the accountants one of two closes of which only one can succeed, never an
\* invoice request (_allocate_invoice_number; update_invoice; close_period's
\* UPDATE) and never the close of another month.
CirclesAreOfOneMonth ==
    \A group \in SUBSET Sessions : Circle(group) =>
        /\ group \subseteq Closers
        /\ \A s, t \in group : WaitsFor(s, t) => closing[s].month = closing[t].month

\* However the closes and the requests wait for each other, some statement
\* can run while a session is at work, without counting on a lost connection:
\* whoever waits, waits for a session at work or in a circle that the
\* database breaks (close_period, _allocate_invoice_number, update_invoice).
SomeoneGoesOn ==
    (\E r \in Requests : txn[r].pc # "idle") \/ (\E k \in Closers : closing[k].pc # "idle") =>
        (\E r \in Requests : ENABLED Statements(r)) \/ (\E k \in Closers : ENABLED CloseStatements(k))

\* The figures of a closed month match a recount at any later date
\* (models/accounting.py, the comment on AccountingPeriod.invoice_count).
RecountMatches == \A m \in Months : AlreadyClosed(m) => periods[m].figures = Preview(m).figures
=============================================================================
