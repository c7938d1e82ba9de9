------------------------------ MODULE MCBilling ------------------------------
(***************************************************************************)
(* A small office for TLC: one client billed in Tunisia or abroad, two     *)
(* requests served at once, two invoices.                                  *)
(***************************************************************************)
EXTENDS Billing

MCNewClients == {[nom |-> "acme", export |-> FALSE, devise |-> "EUR", locale |-> "fr"]}

MCChanges == {("export" :> TRUE), ("devise" :> "TND"), ("export" :> FALSE)}

\* 0.25 h at 3.335 and 3 at 0.07, at two rates; and a line without VAT.
TwoRates == <<[qty |-> 25, price |-> 3335, rate |-> 550], [qty |-> 300, price |-> 70, rate |-> 1900]>>
NoVat == <<[qty |-> 100, price |-> 800, rate |-> 0]>>

MCCarts == {TwoRates, NoVat}
MCTypes == [w \in Workers |-> IF w = 1 THEN {TwoRates} ELSE {NoVat}]

\* A bill whose totals are not those of its lines.
MCBills == {[id |-> [supplier |-> "paper", reference |-> 1], issued |-> 1, due |-> 1,
             totals |-> [ht |-> 1000, ttc |-> 1191],
             items |-> <<[qty |-> 100, price |-> 9990, rate |-> 1900]>>]}

Whole == (0 .. 121) \cup {180, 199, 200, 201, 280, 999, 1000, 1001, 1080, 1999, 2000, 21000,
                           71071, 80000, 80001, 91000, 100000, 200000, 280080, 999999, 1000000,
                           1000001, 2000000, 2080200, 21000000}
MCAmounts == {100 * whole + hundredths : whole \in Whole, hundredths \in {0, 1, 20, 71, 80, 99}}

\* What is read disturbs nobody: one worker that reads is enough.
MCServes == [w \in Workers |->
    IF w = 1 THEN {"client", "create", "edit"} ELSE {"client", "create", "edit", "pdf", "summary"}]
=============================================================================
