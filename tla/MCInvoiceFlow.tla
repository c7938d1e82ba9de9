---------------------------- MODULE MCInvoiceFlow ----------------------------
(***************************************************************************)
(* Small instances of InvoiceFlow for TLC.                                 *)
(***************************************************************************)
EXTENDS InvoiceFlow, TLC

CONSTANTS c1, c2

OneInvoice == {1}
MCInvoices == 1 .. 2
MCBatchIds == 1 .. 6

\* Two days of one month, then the first day of another year.
MCMonthOf == [d \in Days |-> <<1, 1, 2>>[d]]
MCYearOf == [d \in Days |-> <<1, 1, 2>>[d]]

MCAmountOf ==
    [c \in Contents \cup {Blank} |-> IF c = Blank THEN 0 ELSE IF c = c2 THEN 2 ELSE 1]
SameAmountOf == [c \in Contents \cup {Blank} |-> IF c = Blank THEN 0 ELSE 1]
ZeroAmountOf == [c \in Contents \cup {Blank} |-> 0]

\* Drafts and bills compete for numbers; a recorded bill is worked on.
NumberingCalls ==
    ({"create", "submit", "approve"} \X MCInvoices \X Users)
        \cup ({"bill"} \X MCInvoices \X Accountants)
        \cup ({"processing"} \X {2} \X Accountants)

\* Everything happens to one invoice that we issue.
LifecycleCalls == (Operations \ {"processing", "bill"}) \X {1} \X Users

Symmetry == Permutations(Requests)
=============================================================================
