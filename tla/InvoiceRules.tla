---------------------------- MODULE InvoiceRules ----------------------------
(***************************************************************************)
(* The rules PostgreSQL keeps on the rows of the table `invoices`: the     *)
(* triggers and CHECK constraints of the migrations, each an operator over *)
(* the row before (OLD), the row after (NEW) and the committed table.      *)
(* A rule is TRUE when the trigger lets the write pass.                    *)
(*                                                                         *)
(* A row that does not exist yet is the row Absent; its status "NONE" is   *)
(* the only one no existing row has.  Zero stands for a NULL date and      *)
(* NoNumber for a NULL legal number.  The series of a number (FA for what  *)
(* we issue, FF for supplier bills) follows from the row's direction, so a *)
(* number is a year and a position.  Amounts before and after VAT are one  *)
(* value, and cancelled_at with its reason is the status ANNULEE itself:   *)
(* the code sets them together and a CHECK keeps them together.            *)
(***************************************************************************)
EXTENDS Naturals

CONSTANTS
    Invoices,    \* identifiers of the table's rows, in the order of creation
    Users,       \* accounts
    NoOne,       \* cree_par_id of an absent row
    References,  \* numbers suppliers print on their bills
    NoReference, \* supplier_reference of an outgoing invoice
    MaxDay,      \* last day of the calendar explored
    MaxAmount,   \* largest total of an invoice
    MonthOf,     \* calendar month of a day
    YearOf       \* calendar year of a day

Days == 1 .. MaxDay
Amounts == 0 .. MaxAmount
Months == {MonthOf[d] : d \in Days}
Years == {YearOf[d] : d \in Days}

ASSUME InvoicesAssumption == Invoices \subseteq Nat \ {0}
ASSUME BoundsAssumption == MaxDay \in Nat \ {0} /\ MaxAmount \in Nat
ASSUME CalendarAssumption ==
    /\ MonthOf \in [Days -> Nat \ {0}]
    /\ YearOf \in [Days -> Nat \ {0}]
    /\ \A d, e \in Days : d <= e => MonthOf[d] <= MonthOf[e] /\ YearOf[d] <= YearOf[e]
ASSUME AbsentAssumption == NoOne \notin Users /\ NoReference \notin References

Directions == {"OUTGOING", "INCOMING"}
Statuts == {"BROUILLON", "ENVOYEE", "PAYEE", "ANNULEE"}
ReviewStatuses == {"NOT_SUBMITTED", "SUBMITTED", "APPROVED", "REJECTED"}
ProcessingStatuses == {"PENDING", "PROCESSED", "COMPLETED", "ARCHIVED"}

Numbers == [year : Nat, n : Nat]
NoNumber == [year |-> 0, n |-> 0]

Row == [direction : Directions, statut : Statuts \cup {"NONE"}, review : ReviewStatuses,
        processing : ProcessingStatuses, numero : Numbers, issued : Days \cup {0},
        due : Days \cup {0}, amount : Amounts, paid : Days \cup {0},
        by : Users \cup {NoOne}, ref : References \cup {NoReference}]

Absent == [direction |-> "OUTGOING", statut |-> "NONE", review |-> "NOT_SUBMITTED",
           processing |-> "PENDING", numero |-> NoNumber, issued |-> 0, due |-> 0,
           amount |-> 0, paid |-> 0, by |-> NoOne, ref |-> NoReference]

Exists(row) == row.statut # "NONE"
Numbered(row) == row.numero # NoNumber

-----------------------------------------------------------------------------
(***************************************************************************)
(* The legal series.                                                       *)
(***************************************************************************)

\* Positions committed in the series of a direction and a year.
Positions(table, direction, year) ==
    {table[i].numero.n : i \in {j \in DOMAIN table :
        /\ Numbered(table[j])
        /\ table[j].direction = direction
        /\ table[j].numero.year = year}}

\* h is the greatest position of a series, or 0 when the series is empty.
IsHighest(h, positions) ==
    /\ h \in positions \cup {0}
    /\ \A p \in positions : p <= h

\* trg_invoice_number_is_sequential
NumberIsSequential(table, old, new) ==
    \/ ~ Numbered(new)
    \/ new.numero = old.numero
    \/ /\ new.numero.n > 0
       /\ IsHighest(new.numero.n - 1, Positions(table, new.direction, new.numero.year))

\* Mutant: only the numbers after it count.
OrderedBefore(new, other) == other.numero.n > new.numero.n => other.issued >= new.issued

\* Two invoices of one series have their numbers in the order of their dates.
Ordered(new, other) ==
    /\ other.numero.n < new.numero.n => other.issued <= new.issued
    /\ other.numero.n > new.numero.n => other.issued >= new.issued

\* trg_invoice_number_follows_date
NumberFollowsDate(table, new) ==
    new.direction = "OUTGOING" /\ Numbered(new) =>
        \A j \in DOMAIN table :
            /\ table[j].direction = "OUTGOING"
            /\ Numbered(table[j])
            /\ table[j].numero.year = new.numero.year
            => Ordered(new, table[j])

-----------------------------------------------------------------------------
(***************************************************************************)
(* One row before and after.                                               *)
(***************************************************************************)

\* Mutant: a number may be replaced.
NumberMayChange(old, new) == TRUE

\* A number, once given, is final.
NumberIsFinal(old, new) == Numbered(old) => new.numero = old.numero

\* trg_invoice_review_rules
ReviewRules(old, new) ==
    new.direction = "OUTGOING" =>
        /\ NumberIsFinal(old, new)
        /\ ~ Numbered(old) /\ Numbered(new) => new.review = "APPROVED"
        /\ new.review # old.review =>
              /\ old.statut = "BROUILLON"
              /\ \/ old.review \in {"NOT_SUBMITTED", "REJECTED"} /\ new.review = "SUBMITTED"
                 \/ old.review = "SUBMITTED" /\ new.review \in {"APPROVED", "REJECTED"}
        /\ old.statut = "BROUILLON" /\ new.statut \notin {"BROUILLON", "ANNULEE"} =>
              new.review = "APPROVED"
        /\ new.processing # old.processing => new.statut # "BROUILLON"

\* The content of an outgoing invoice may change: it is a draft that nobody
\* is verifying and nobody has approved.
Editable(row) ==
    row.direction = "OUTGOING" =>
        row.statut = "BROUILLON" /\ row.review \notin {"SUBMITTED", "APPROVED"}

\* trg_invoice_draft_is_editable
DraftIsEditable(old, new) ==
    new.due # old.due \/ new.amount # old.amount => Editable(old)

\* trg_invoice_lines_follow_their_invoice, on the parent row it reads
LinesFollow(row) == row.processing # "ARCHIVED" /\ Editable(row)

\* Mutant: the processing status of an archived invoice may change.
ArchivedMayReopen(old, new) ==
    old.processing = "ARCHIVED" =>
        /\ new.numero = old.numero
        /\ new.issued = old.issued
        /\ new.due = old.due
        /\ new.amount = old.amount

\* trg_invoice_archived_is_final
ArchivedIsFinal(old, new) ==
    old.processing = "ARCHIVED" =>
        /\ new.processing = old.processing
        /\ new.numero = old.numero
        /\ new.issued = old.issued
        /\ new.due = old.due
        /\ new.amount = old.amount

\* Mutants: a cancellation is not checked against the review, or the books.
CancelsSubmitted(old) == old.processing # "ARCHIVED"
CancelsArchived(old) == old.review # "SUBMITTED"

Cancellable(old) == old.review # "SUBMITTED" /\ old.processing # "ARCHIVED"

\* trg_invoice_commercial_transitions; the overdue status is never stored
CommercialTransitions(old, new, today) ==
    IF old.statut \in {"PAYEE", "ANNULEE"}
    THEN new.statut = old.statut /\ new.paid = old.paid
    ELSE new.statut # old.statut =>
        /\ \/ old.statut = "BROUILLON" /\ new.statut \in {"ENVOYEE", "ANNULEE"}
           \/ old.statut = "ENVOYEE" /\ new.statut \in {"PAYEE", "ANNULEE"}
        /\ new.statut = "ANNULEE" => Cancellable(old)
        /\ new.statut = "PAYEE" => new.paid <= today

\* trg_invoice_period_is_open
PeriodIsOpen(periods, new) == periods[MonthOf[new.issued]].state # "CLOSED"

\* The CHECK constraints of the table
RowChecks(new) ==
    /\ new.due >= new.issued
    /\ \/ new.direction # "OUTGOING"
       \/ Numbered(new)
       \/ new.statut \in {"BROUILLON", "ANNULEE"} /\ new.review # "APPROVED"
    /\ (new.statut = "PAYEE") <=> (new.paid # 0)
    /\ new.paid # 0 => new.paid >= new.issued

\* uq_supplier_reference, for the one supplier of the model
ReferenceIsUnique(table, new) ==
    new.ref # NoReference => \A j \in DOMAIN table : table[j].ref # new.ref

-----------------------------------------------------------------------------
(***************************************************************************)
(* A statement.  Triggers declared on columns (UPDATE OF ...) fire only    *)
(* when the statement names the column, which an ORM update does for the   *)
(* columns the session changed: those where `want` differs from `seen`.    *)
(***************************************************************************)

Column(seen, want, latest) == IF want # seen THEN want ELSE latest

\* The row an UPDATE leaves: the columns the session changed since it loaded
\* the row, and for the others whatever is in the table by now.
Written(seen, want, latest) ==
    [direction  |-> latest.direction,
     statut     |-> Column(seen.statut, want.statut, latest.statut),
     review     |-> Column(seen.review, want.review, latest.review),
     processing |-> Column(seen.processing, want.processing, latest.processing),
     numero     |-> Column(seen.numero, want.numero, latest.numero),
     issued     |-> Column(seen.issued, want.issued, latest.issued),
     due        |-> Column(seen.due, want.due, latest.due),
     amount     |-> Column(seen.amount, want.amount, latest.amount),
     paid       |-> Column(seen.paid, want.paid, latest.paid),
     by         |-> latest.by,
     ref        |-> latest.ref]

\* Two cancellations carry two cancelled_at: the second one is a change of a
\* final invoice, which trg_invoice_commercial_transitions refuses.
CancelsOnce(seen, want, old) ==
    want.statut = "ANNULEE" /\ seen.statut # "ANNULEE" => old.statut # "ANNULEE"

UpdateAllowed(table, periods, today, seen, want, old) ==
    LET new == Written(seen, want, old)
    IN  /\ want.numero # seen.numero => NumberIsSequential(table, old, new)
        /\ want.numero # seen.numero \/ want.issued # seen.issued => NumberFollowsDate(table, new)
        /\ want.issued # seen.issued => PeriodIsOpen(periods, new)
        /\ ReviewRules(old, new)
        /\ DraftIsEditable(old, new)
        /\ ArchivedIsFinal(old, new)
        /\ CommercialTransitions(old, new, today)
        /\ CancelsOnce(seen, want, old)
        /\ RowChecks(new)

InsertAllowed(table, periods, new) ==
    /\ NumberIsSequential(table, Absent, new)
    /\ NumberFollowsDate(table, new)
    /\ PeriodIsOpen(periods, new)
    /\ RowChecks(new)
    /\ ReferenceIsUnique(table, new)
=============================================================================
