----------------------------- MODULE MCMonthClose -----------------------------
(***************************************************************************)
(* Small instances of MonthClose for TLC.                                  *)
(***************************************************************************)
EXTENDS MonthClose, TLC

MCInvoices == 1 .. 2
OneInvoice == {1}
MCMonthOf == [d \in Days |-> <<1, 2>>[d]]
MCYearOf == [d \in Days |-> 1]
MCBatchIds == 1 .. 4
MCAmountOf == [c \in Contents \cup {Blank} |-> IF c = Blank THEN 0 ELSE MaxAmount]

CONSTANTS ann, bob, c1

\* The books as they are after ann created invoice 1 and submitted it and bob
\* approved it, on the first day; nothing else has happened.
ApprovedDraft ==
    [Absent EXCEPT !.statut = "BROUILLON", !.review = "APPROVED", !.issued = 1, !.due = MaxDay,
                   !.numero = [year |-> 1, n |-> 1], !.amount = MaxAmount, !.by = ann]

ApprovedInit ==
    /\ invoices = [i \in Invoices |-> IF i = 1 THEN ApprovedDraft ELSE Absent]
    /\ lines = [i \in Invoices |-> IF i = 1 THEN {[id |-> 1, what |-> c1]} ELSE {}]
    /\ reviews = [i \in Invoices |->
         IF i = 1 THEN <<[action |-> "SUBMITTED", actor |-> ann], [action |-> "APPROVED", actor |-> bob]>>
         ELSE <<>>]
    /\ counter = [s \in Directions |-> [y \in Years |-> IF s = "OUTGOING" THEN 1 ELSE 0]]
    /\ periods = [m \in Months |-> Open]
    /\ lock = [i \in Invoices |-> NoSession]
    /\ txn = [r \in Requests |-> Idle]
    /\ today = 1
    /\ closing = [k \in Closers |-> NoClose]

ApprovedSpec == ApprovedInit /\ [][BooksNext]_booksVars

\* The invoice we issue goes out, a supplier's bill comes in.
CloseCalls ==
    ({"send", "cancel"} \X {1} \X {ann}) \cup {<<"bill", 2, bob>>}
        \cup ({"processing"} \X {1, 2} \X {bob}) \cup {<<"pay", 1, bob>>}

\* An invoice we issue, from its draft on.
OutgoingCalls ==
    ({"create", "submit", "send", "processing"} \X {1} \X {ann}) \cup {<<"approve", 1, bob>>}

\* No request runs while a close does: nothing races.
OneAtATime == (\A r \in Requests : txn[r] = Idle) \/ (\A k \in Closers : closing[k] = NoClose)

QuietSpec == BooksInit /\ [][BooksNext /\ OneAtATime']_booksVars

Symmetry == Permutations(Closers)
=============================================================================
