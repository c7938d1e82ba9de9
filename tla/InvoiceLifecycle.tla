--------------------------- MODULE InvoiceLifecycle ---------------------------
(***************************************************************************)
(* What the invoice endpoints promise, with every request one atomic step: *)
(* the life of an invoice as the comments of app/routers/invoicing.py draw *)
(* it ("Verification before sending", "Paid and cancelled").               *)
(*                                                                         *)
(*   draft --submit--> submitted --approve--> approved --send--> sent      *)
(*     ^                   |                                      |        *)
(*     +--resubmit-- rejected <--reject--+                       paid      *)
(*                                                                         *)
(* The terms of an invoice (its due date and total) change in a draft or a *)
(* rejected one only.  It takes its number when it is approved, the next   *)
(* of its series, and keeps it; a supplier's bill takes one when recorded. *)
(* Nothing leaves "paid" or "cancelled".                                   *)
(***************************************************************************)
EXTENDS Naturals, FiniteSets

CONSTANTS Invoices, Terms, Years, NoNumber, NoTerms

VARIABLES stage, kind, terms, number

life == <<stage, kind, terms, number>>

Kinds == {"OUTGOING", "INCOMING"}

LifeInit ==
    /\ stage = [i \in Invoices |-> "absent"]
    /\ kind = [i \in Invoices |-> "OUTGOING"]
    /\ terms = [i \in Invoices |-> NoTerms]
    /\ number = [i \in Invoices |-> NoNumber]

Series(k, y) ==
    {i \in Invoices : number[i] # NoNumber /\ kind[i] = k /\ number[i].year = y}

NextNumber(k, y) == [year |-> y, n |-> Cardinality(Series(k, y)) + 1]

Move(i, from, to) ==
    /\ stage[i] \in from
    /\ stage' = [stage EXCEPT ![i] = to]

Draft(i) ==
    /\ Move(i, {"absent"}, "draft")
    /\ \E t \in Terms : terms' = [terms EXCEPT ![i] = t]
    /\ UNCHANGED <<kind, number>>

Receive(i) ==
    /\ Move(i, {"absent"}, "sent")
    /\ kind' = [kind EXCEPT ![i] = "INCOMING"]
    /\ \E t \in Terms : terms' = [terms EXCEPT ![i] = t]
    /\ \E y \in Years : number' = [number EXCEPT ![i] = NextNumber("INCOMING", y)]

Edit(i) ==
    /\ stage[i] \in {"draft", "rejected"}
    /\ \E t \in Terms : terms' = [terms EXCEPT ![i] = t]
    /\ UNCHANGED <<stage, kind, number>>

Approve(i) ==
    /\ Move(i, {"submitted"}, "approved")
    /\ \E y \in Years : number' = [number EXCEPT ![i] = NextNumber("OUTGOING", y)]
    /\ UNCHANGED <<kind, terms>>

Step(i) ==
    /\ \/ Move(i, {"draft", "rejected"}, "submitted")
       \/ Move(i, {"submitted"}, "rejected")
       \/ Move(i, {"approved"}, "sent")
       \/ Move(i, {"sent"}, "paid")
       \/ Move(i, {"draft", "rejected", "approved", "sent"}, "cancelled")
    /\ UNCHANGED <<kind, terms, number>>

LifeNext == \E i \in Invoices : Draft(i) \/ Receive(i) \/ Edit(i) \/ Approve(i) \/ Step(i)

LifeSpec == LifeInit /\ [][LifeNext]_life
=============================================================================
