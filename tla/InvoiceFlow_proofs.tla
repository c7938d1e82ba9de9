-------------------------- MODULE InvoiceFlow_proofs --------------------------
(***************************************************************************)
(* Theorems about InvoiceFlow, for any number of invoices, sessions, users *)
(* and days, and for any calendar: the variables keep their types, the     *)
(* legal series are gapless and, building on that, numbers follow dates,   *)
(* the review history and the row agree, every number has one approval by  *)
(* another person, and the interleaved transactions implement the atomic   *)
(* life of an invoice (InvoiceLifecycle).                                  *)
(***************************************************************************)
EXTENDS InvoiceFlow, FiniteSetTheorems, TLAPS

-----------------------------------------------------------------------------
(***************************************************************************)
(* Types of the values the actions build.                                  *)
(***************************************************************************)

\* The first day is in the calendar, and zero is in no calendar.
LEMMA DaysFacts == 1 \in Days /\ 0 \notin Days /\ Days \subseteq Nat
BY BoundsAssumption DEF Days

\* Years are those of the calendar's days; none is zero.
LEMMA YearsFacts ==
    /\ Years \subseteq Nat \ {0}
    /\ \A d \in Days : YearOf[d] \in Years
BY CalendarAssumption DEF Years

\* An absent row is a row, without a number.
LEMMA AbsentFacts == Absent \in Row /\ ~ Exists(Absent) /\ Absent.numero = NoNumber
BY BoundsAssumption
   DEF Absent, Row, Exists, NoNumber, Numbers, Directions, ReviewStatuses, ProcessingStatuses, Amounts

\* A session between two requests is a session.
LEMMA IdleFacts == Idle \in Transaction
BY AbsentFacts DEF Idle, Transaction

\* An UPDATE leaves a row.
LEMMA WrittenType ==
    ASSUME NEW seen \in Row, NEW want \in Row, NEW latest \in Row
    PROVE  Written(seen, want, latest) \in Row
BY DEF Row, Written, Column

\* A transaction writes a row.
LEMMA AfterType ==
    ASSUME TypeOK, NEW r \in Requests, txn[r].inv \in Invoices
    PROVE  After(txn[r]) \in Row
<1>1. /\ txn[r].seen \in Row
      /\ txn[r].want \in Row
      /\ invoices[txn[r].inv] \in Row
  BY DEF TypeOK, Transaction
<1> QED
  BY <1>1, WrittenType DEF After

-----------------------------------------------------------------------------
(***************************************************************************)
(* The invariant GaplessInv, handler by handler.                           *)
(***************************************************************************)

\* Initially no session is at work and no number is given.
LEMMA InitGaplessInv == Init => GaplessInv
<1> SUFFICES ASSUME Init PROVE GaplessInv
  OBVIOUS
<1> USE DaysFacts, YearsFacts, AbsentFacts, IdleFacts DEF Init
<1>1. TypeOK
  BY DEF TypeOK, Open
<1>2. Gapless
  BY DEF Gapless, InSeries, Numbered
<1>3. AbsentIsBlank
  BY DEF AbsentIsBlank
<1>4. \A r \in Requests : SessionInv(r) /\ ~ TakesNumber(txn[r])
  BY DEF SessionInv, Idle, TakesNumber
<1> QED
  BY <1>1, <1>2, <1>3, <1>4 DEF GaplessInv, OneHolder

\* A handler that starts keeps the invariant if its row is right: it gives no
\* number itself, and it works on an existing row or inserts one of its own.
LEMMA BeginInv ==
    ASSUME GaplessInv,
           NEW r \in Requests, NEW op \in Operations, NEW u \in Users, NEW i \in Invoices,
           NEW seen \in Row, NEW want \in Row, NEW content \in Contents \cup {Blank},
           NEW pc \in {"load", "allocate", "flush"},
           Begin(r, op, u, i, seen, want, content, pc),
           want.numero = seen.numero,
           Exists(want),
           op \in {"submit", "approve", "reject"} => want.review \in ReviewActions,
           op \in {"create", "bill"} => seen = Absent /\ IsNextId(i),
           op \notin {"create", "bill"} => Exists(invoices[i]) /\ want.direction = invoices[i].direction,
           pc = "allocate" => seen.numero = NoNumber /\ want.issued \in Days,
           pc = "allocate" /\ op \notin {"create", "bill"} => want.direction = "OUTGOING"
    PROVE  GaplessInv'
<1> DEFINE t == [pc |-> pc, op |-> op, by |-> u, inv |-> i, seen |-> seen, want |-> want,
                 content |-> content, loaded |-> {}]
<1>1. /\ TypeOK /\ Gapless /\ AbsentIsBlank /\ OneHolder
      /\ \A q \in Requests : SessionInv(q)
  BY DEF GaplessInv
<1>2. t \in Transaction
  BY DEF Transaction
<1>3. txn' = [txn EXCEPT ![r] = t] /\ UNCHANGED <<invoices, lines, reviews, counter, periods, lock, today>>
  BY DEF Begin, database
<1>4. txn \in [Requests -> Transaction] /\ txn[r] = Idle
  BY <1>1 DEF TypeOK, Begin
<1>5. TypeOK'
  BY <1>1, <1>2, <1>3 DEF TypeOK
<1>6. Gapless' /\ AbsentIsBlank'
  BY <1>1, <1>3 DEF Gapless, InSeries, AbsentIsBlank
<1>7. txn'[r] = t /\ \A q \in Requests \ {r} : txn'[q] = txn[q]
  BY <1>3, <1>4
<1>8. ~ TakesNumber(txn'[r])
  BY <1>7 DEF TakesNumber
<1>9. OneHolder'
  BY <1>1, <1>7, <1>8 DEF OneHolder
<1>10. op \in {"create", "bill"} =>
         ~ Exists(invoices[i]) /\ \A q \in Requests : txn[q].inv # i
  BY DEF IsNextId
<1>11. SessionInv(r)'
  <2>1. AboutOneInvoice(r)'
    BY <1>3, <1>7, <1>10 DEF AboutOneInvoice, Inserts, Reviews
  <2>2. HoldsNextNumber(r)' /\ HoldsItsRow(r)'
    BY <1>7, <1>8 DEF HoldsNextNumber, HoldsItsRow, Inserts
  <2> QED
    BY <1>7, <2>1, <2>2 DEF SessionInv
<1>12. ASSUME NEW q \in Requests \ {r} PROVE SessionInv(q)'
  <2>1. CASE txn[q].pc = "idle"
    BY <1>1, <1>7, <2>1 DEF SessionInv
  <2>2. CASE txn[q].pc # "idle"
    <3>1. AboutOneInvoice(q) /\ HoldsNextNumber(q) /\ HoldsItsRow(q)
      BY <1>1, <2>2 DEF SessionInv
    <3>2. Inserts(txn[q]) => txn[q].inv # i
      BY <1>10, <3>1 DEF AboutOneInvoice
    <3>3. AboutOneInvoice(q)'
      BY <1>3, <1>7, <3>1, <3>2 DEF AboutOneInvoice
    <3>4. HoldsNextNumber(q)' /\ HoldsItsRow(q)'
      BY <1>3, <1>7, <3>1 DEF HoldsNextNumber, HoldsItsRow
    <3> QED
      BY <1>7, <2>2, <3>3, <3>4 DEF SessionInv
  <2> QED
    BY <2>1, <2>2
<1> QED
  BY <1>5, <1>6, <1>9, <1>11, <1>12 DEF GaplessInv

\* Every handler starts with a row that exists, or with a new one, and gives
\* it no number.
LEMMA HandlersInv ==
    ASSUME GaplessInv, NEW r \in Requests, Handlers(r)
    PROVE  GaplessInv'
<1> USE DaysFacts, AbsentFacts, ContentAssumption, InputsAssumption
    DEF Operations, Exists, ReviewActions
<1>1. \A i \in Invoices : invoices[i] \in Row
  BY DEF GaplessInv, TypeOK
<1>2. today \in Days
  BY DEF GaplessInv, TypeOK
<1>3. \A i \in Invoices : invoices[i].statut \in Statuts => Exists(invoices[i])
  BY DEF Statuts
<1>4. CASE \E u \in Users, i \in Invoices, due \in DueDates, c \in Contents \cup {Blank} :
             CreateInvoice(r, u, i, due, c)
  <2>1. PICK u \in Users, i \in Invoices, due \in DueDates, c \in Contents \cup {Blank} :
           CreateInvoice(r, u, i, due, c)
    BY <1>4
  <2> DEFINE row == [Absent EXCEPT !.statut = "BROUILLON", !.issued = today, !.due = due,
                                   !.amount = AmountOf[c], !.by = u]
  <2>2. row \in Row /\ row.numero = Absent.numero /\ row.statut # "NONE"
    BY <1>2 DEF Row, Statuts
  <2>3. IsNextId(i) /\ Begin(r, "create", u, i, Absent, row, c, "flush")
    BY <2>1 DEF CreateInvoice
  <2> QED
    BY <2>2, <2>3, BeginInv
<1>5. CASE \E u \in Users, i \in Invoices, issued \in Days, due \in DueDates, a \in Amounts,
              ref \in References : CreateSupplierInvoice(r, u, i, issued, due, a, ref)
  <2>1. PICK u \in Users, i \in Invoices, issued \in Days, due \in DueDates, a \in Amounts,
             ref \in References : CreateSupplierInvoice(r, u, i, issued, due, a, ref)
    BY <1>5
  <2> DEFINE row == [Absent EXCEPT !.direction = "INCOMING", !.statut = "ENVOYEE", !.issued = issued,
                                   !.due = due, !.amount = a, !.by = u, !.ref = ref]
  <2>2. /\ row \in Row /\ row.numero = Absent.numero /\ row.statut # "NONE" /\ row.issued \in Days
    BY DEF Row, Statuts, Directions
  <2>3. IsNextId(i) /\ Begin(r, "bill", u, i, Absent, row, Blank, "allocate")
    BY <2>1 DEF CreateSupplierInvoice
  <2> QED
    BY <2>2, <2>3, BeginInv
<1>6. CASE \E u \in Users, i \in Invoices, p \in ProcessingMoves : SetProcessingStatus(r, u, i, p)
  <2>1. PICK u \in Users, i \in Invoices, p \in ProcessingMoves : SetProcessingStatus(r, u, i, p)
    BY <1>6
  <2> DEFINE row == [invoices[i] EXCEPT !.processing = p]
  <2>2. /\ row \in Row /\ row.numero = invoices[i].numero /\ row.statut = invoices[i].statut
        /\ row.direction = invoices[i].direction
    BY <1>1 DEF Row
  <2>3. Exists(invoices[i]) /\ Begin(r, "processing", u, i, invoices[i], row, Blank, "flush")
    BY <2>1 DEF SetProcessingStatus
  <2> QED
    BY <1>1, <2>2, <2>3, BeginInv
<1>7. CASE \E u \in Users, i \in Invoices, due \in DueDates, c \in Contents :
             UpdateInvoice(r, u, i, due, c)
  <2>1. PICK u \in Users, i \in Invoices, due \in DueDates, c \in Contents :
           UpdateInvoice(r, u, i, due, c)
    BY <1>7
  <2> DEFINE row == [invoices[i] EXCEPT !.due = due, !.amount = AmountOf[c]]
  <2>2. /\ row \in Row /\ row.numero = invoices[i].numero /\ row.statut = invoices[i].statut
        /\ row.direction = invoices[i].direction
    BY <1>1 DEF Row
  <2>3. Exists(invoices[i]) /\ Begin(r, "edit", u, i, invoices[i], row, c, "load")
    BY <2>1 DEF UpdateInvoice
  <2> QED
    BY <1>1, <2>2, <2>3, BeginInv
<1>8. CASE \E u \in Users, i \in Invoices : SubmitInvoice(r, u, i)
  <2>1. PICK u \in Users, i \in Invoices : SubmitInvoice(r, u, i)
    BY <1>8
  <2> DEFINE row == [invoices[i] EXCEPT !.review = "SUBMITTED"]
  <2>2. /\ row \in Row /\ row.numero = invoices[i].numero /\ row.statut # "NONE"
        /\ row.direction = invoices[i].direction
        /\ row.review = "SUBMITTED"
    BY <1>1, <2>1 DEF Row, ReviewStatuses, SubmitInvoice
  <2>3. Exists(invoices[i]) /\ Begin(r, "submit", u, i, invoices[i], row, Blank, "flush")
    BY <1>3, <2>1 DEF SubmitInvoice, Statuts, AwaitingReview
  <2> QED
    BY <1>1, <2>2, <2>3, BeginInv
<1>9. CASE \E u \in Users, i \in Invoices : ApproveInvoice(r, u, i)
  <2>1. PICK u \in Users, i \in Invoices : ApproveInvoice(r, u, i)
    BY <1>9
  <2> DEFINE kept == [invoices[i] EXCEPT !.review = "APPROVED"]
             dated == [invoices[i] EXCEPT !.review = "APPROVED", !.issued = today]
  <2>2. /\ invoices[i].statut = "BROUILLON"
        /\ invoices[i].direction = "OUTGOING"
        /\ Exists(invoices[i])
    BY <2>1 DEF ApproveInvoice, AwaitingReview
  <2>3. \A row \in {kept, dated} :
          /\ row \in Row /\ row.numero = invoices[i].numero /\ row.statut = "BROUILLON"
          /\ row.direction = invoices[i].direction /\ row.review = "APPROVED"
    BY <1>1, <1>2, <2>2 DEF Row, ReviewStatuses
  <2>4. CASE Numbered(invoices[i])
    <3>1. Begin(r, "approve", u, i, invoices[i], kept, Blank, "flush")
      BY <2>1, <2>4 DEF ApproveInvoice
    <3> QED
      BY <1>1, <2>2, <2>3, <3>1, BeginInv
  <2>5. CASE ~ Numbered(invoices[i])
    <3>1. Begin(r, "approve", u, i, invoices[i], dated, Blank, "allocate")
      BY <2>1, <2>5 DEF ApproveInvoice
    <3>2. dated.issued \in Days
      BY <1>1, <1>2 DEF Row
    <3> QED
      BY <1>1, <2>2, <2>3, <2>5, <3>1, <3>2, BeginInv DEF Numbered
  <2> QED
    BY <2>4, <2>5
<1>10. CASE \E u \in Users, i \in Invoices : RejectInvoice(r, u, i)
  <2>1. PICK u \in Users, i \in Invoices : RejectInvoice(r, u, i)
    BY <1>10
  <2> DEFINE row == [invoices[i] EXCEPT !.review = "REJECTED"]
  <2>2. /\ row \in Row /\ row.numero = invoices[i].numero /\ row.statut # "NONE"
        /\ row.direction = invoices[i].direction
        /\ row.review = "REJECTED"
    BY <1>1, <2>1 DEF Row, ReviewStatuses, AwaitingReview, RejectInvoice
  <2>3. Exists(invoices[i]) /\ Begin(r, "reject", u, i, invoices[i], row, Blank, "flush")
    BY <1>3, <2>1 DEF RejectInvoice, Statuts, AwaitingReview
  <2> QED
    BY <1>1, <2>2, <2>3, BeginInv
<1>11. CASE \E u \in Users, i \in Invoices : SendInvoice(r, u, i)
  <2>1. PICK u \in Users, i \in Invoices : SendInvoice(r, u, i)
    BY <1>11
  <2> DEFINE row == [invoices[i] EXCEPT !.statut = "ENVOYEE"]
  <2>2. /\ row \in Row /\ row.numero = invoices[i].numero /\ row.statut # "NONE"
        /\ row.direction = invoices[i].direction
    BY <1>1, <2>1 DEF Row, Statuts, SendInvoice
  <2>3. Exists(invoices[i]) /\ Begin(r, "send", u, i, invoices[i], row, Blank, "flush")
    BY <1>3, <2>1 DEF SendInvoice, Statuts, AwaitingReview
  <2> QED
    BY <1>1, <2>2, <2>3, BeginInv
<1>12. CASE \E u \in Users, i \in Invoices, day \in Days : PayInvoice(r, u, i, day)
  <2>1. PICK u \in Users, i \in Invoices, day \in Days : PayInvoice(r, u, i, day)
    BY <1>12
  <2> DEFINE row == [invoices[i] EXCEPT !.statut = "PAYEE", !.paid = day]
  <2>2. /\ row \in Row /\ row.numero = invoices[i].numero /\ row.statut # "NONE"
        /\ row.direction = invoices[i].direction
    BY <1>1, <2>1 DEF Row, Statuts, PayInvoice
  <2>3. Exists(invoices[i]) /\ Begin(r, "pay", u, i, invoices[i], row, Blank, "flush")
    BY <1>3, <2>1 DEF PayInvoice, Statuts, AwaitingReview
  <2> QED
    BY <1>1, <2>2, <2>3, BeginInv
<1>13. CASE \E u \in Users, i \in Invoices : CancelInvoice(r, u, i)
  <2>1. PICK u \in Users, i \in Invoices : CancelInvoice(r, u, i)
    BY <1>13
  <2> DEFINE row == [invoices[i] EXCEPT !.statut = "ANNULEE"]
  <2>2. /\ row \in Row /\ row.numero = invoices[i].numero /\ row.statut # "NONE"
        /\ row.direction = invoices[i].direction
    BY <1>1, <2>1 DEF Row, Statuts, CancelInvoice
  <2>3. Exists(invoices[i]) /\ Begin(r, "cancel", u, i, invoices[i], row, Blank, "flush")
    BY <1>3, <2>1 DEF CancelInvoice, Statuts, AwaitingReview
  <2> QED
    BY <1>1, <2>2, <2>3, BeginInv
<1> QED
  BY <1>4, <1>5, <1>6, <1>7, <1>8, <1>9, <1>10, <1>11, <1>12, <1>13 DEF Handlers

-----------------------------------------------------------------------------
(***************************************************************************)
(* The invariant, statement by statement.                                  *)
(***************************************************************************)

\* Ending a transaction without effect keeps the invariant.
LEMMA RollbackInv ==
    ASSUME GaplessInv, NEW r \in Requests, Rollback(r)
    PROVE  GaplessInv'
<1>1. /\ TypeOK /\ Gapless /\ AbsentIsBlank /\ OneHolder
      /\ \A q \in Requests : SessionInv(q)
  BY DEF GaplessInv
<1>2. TypeOK'
  BY <1>1, IdleFacts DEF Rollback, TypeOK
<1>3. Gapless' /\ AbsentIsBlank'
  BY <1>1 DEF Rollback, Gapless, InSeries, AbsentIsBlank
<1>4. txn'[r] = Idle /\ \A q \in Requests \ {r} : txn'[q] = txn[q]
  BY <1>1 DEF Rollback, TypeOK
<1>5. ~ TakesNumber(Idle)
  BY DEF Idle, TakesNumber
<1>6. OneHolder'
  BY <1>1, <1>4, <1>5 DEF OneHolder
<1>7. SessionInv(r)'
  BY <1>4 DEF SessionInv, Idle
<1>8. ASSUME NEW q \in Requests \ {r}, txn[q].pc # "idle" PROVE SessionInv(q)'
  <2>1. AboutOneInvoice(q) /\ HoldsNextNumber(q) /\ HoldsItsRow(q)
    BY <1>1, <1>8 DEF SessionInv
  <2>2. AboutOneInvoice(q)'
    <3>1. 0 \notin Invoices
      BY InvoicesAssumption
    <3> QED
      BY <1>4, <2>1, <3>1 DEF AboutOneInvoice, Rollback, Idle
  <2>3. HoldsNextNumber(q)'
    BY <1>4, <2>1 DEF HoldsNextNumber, Rollback
  <2>4. HoldsItsRow(q)'
    BY <1>4, <2>1 DEF HoldsItsRow, AboutOneInvoice, Rollback
  <2> QED
    BY <1>4, <1>8, <2>2, <2>3, <2>4 DEF SessionInv
<1>9. \A q \in Requests \ {r} : txn[q].pc = "idle" => SessionInv(q)'
  BY <1>1, <1>4 DEF SessionInv
<1> QED
  BY <1>2, <1>3, <1>6, <1>7, <1>8, <1>9 DEF GaplessInv

\* A statement of r that touches no table leaves the other sessions alone.
LEMMA OthersInv ==
    ASSUME GaplessInv, NEW r \in Requests, NEW q \in Requests \ {r},
           \A p \in Requests \ {r} : txn'[p] = txn[p],
           txn'[r].inv = txn[r].inv,
           UNCHANGED <<invoices, counter>>,
           txn[q].pc # "idle" /\ lock[txn[q].inv] = q => lock'[txn[q].inv] = q
    PROVE  SessionInv(q)'
<1>1. SessionInv(q)
  BY DEF GaplessInv
<1>2. CASE txn[q].pc = "idle"
  BY <1>1, <1>2 DEF SessionInv
<1>3. CASE txn[q].pc # "idle"
  <2>1. AboutOneInvoice(q) /\ HoldsNextNumber(q) /\ HoldsItsRow(q)
    BY <1>1, <1>3 DEF SessionInv
  <2>2. AboutOneInvoice(q)'
    BY <2>1 DEF AboutOneInvoice
  <2>3. HoldsNextNumber(q)' /\ HoldsItsRow(q)'
    BY <1>3, <2>1 DEF HoldsNextNumber, HoldsItsRow
  <2> QED
    BY <1>3, <2>2, <2>3 DEF SessionInv
<1> QED
  BY <1>2, <1>3

\* The number allocated is the counter's next, and nobody else holds it.
LEMMA AllocateInv ==
    ASSUME GaplessInv, NEW r \in Requests, Allocate(r)
    PROVE  GaplessInv'
<1> DEFINE t == txn[r]
           s == t.want.direction
           y == YearOf[t.want.issued]
           next == [year |-> y, n |-> counter[s][y] + 1]
           row == [t.want EXCEPT !.numero = next]
           new == [t EXCEPT !.pc = "flush", !.want = row]
<1>1. /\ TypeOK /\ Gapless /\ AbsentIsBlank /\ OneHolder
      /\ \A q \in Requests : SessionInv(q)
  BY DEF GaplessInv
<1>2. t.pc = "allocate" /\ t \in Transaction /\ t.want \in Row
  BY <1>1 DEF Allocate, TypeOK, Transaction
<1>3. AboutOneInvoice(r) /\ HoldsNextNumber(r)
  BY <1>1, <1>2 DEF SessionInv
<1>4. s \in Directions /\ y \in Years /\ y \in Nat \ {0} /\ t.seen.numero = NoNumber
  BY <1>2, <1>3, YearsFacts DEF HoldsNextNumber, Row
<1>5. counter[s][y] \in Nat
  BY <1>1, <1>4 DEF TypeOK
<1>6. /\ row \in Row
      /\ row.numero = next /\ row.direction = s
      /\ row.statut = t.want.statut /\ row.review = t.want.review
  <2>1. next \in Numbers
    BY <1>4, <1>5 DEF Numbers
  <2> QED
    BY <1>2, <2>1 DEF Row
<1>7. /\ new \in Transaction
      /\ new.pc = "flush" /\ new.inv = t.inv /\ new.op = t.op /\ new.by = t.by /\ new.seen = t.seen
      /\ new.want = row
  BY <1>2, <1>6 DEF Transaction
<1>8. /\ txn' = [txn EXCEPT ![r] = new]
      /\ UNCHANGED <<invoices, lines, reviews, counter, periods, lock, today>>
      /\ \A q \in Requests : ~ HoldsCounter(q, s, y)
  BY <1>2 DEF Allocate, database
<1>9. txn'[r] = new /\ \A q \in Requests \ {r} : txn'[q] = txn[q]
  BY <1>1, <1>8 DEF TypeOK
<1>10. TypeOK'
  BY <1>1, <1>7, <1>8 DEF TypeOK
<1>11. Gapless' /\ AbsentIsBlank'
  BY <1>1, <1>8 DEF Gapless, InSeries, AbsentIsBlank
<1>12. OneHolder'
  <2>1. \A q \in Requests :
          ~ (TakesNumber(txn[q]) /\ txn[q].want.direction = s /\ txn[q].want.numero.year = y)
    BY <1>8 DEF HoldsCounter
  <2>2. txn'[r].want.direction = s /\ txn'[r].want.numero.year = y
    <3>1. next.year = y
      OBVIOUS
    <3>2. row.numero.year = y
      BY <1>6, <3>1
    <3>3. txn'[r].want = row
      BY <1>7, <1>9
    <3> HIDE DEF row
    <3> QED
      BY <1>6, <3>2, <3>3
  <2> SUFFICES ASSUME NEW p \in Requests, NEW q \in Requests,
                      TakesNumber(txn'[p]), TakesNumber(txn'[q]),
                      txn'[p].want.direction = txn'[q].want.direction,
                      txn'[p].want.numero.year = txn'[q].want.numero.year,
                      p # q
               PROVE  FALSE
    BY DEF OneHolder
  <2>3. CASE p = r
    <3>1. txn'[q] = txn[q]
      BY <1>9, <2>3
    <3>2. TakesNumber(txn[q])
      BY <3>1
    <3> QED
      BY <2>1, <2>2, <2>3, <3>1, <3>2
  <2>4. CASE q = r
    <3>1. txn'[p] = txn[p]
      BY <1>9, <2>4
    <3>2. TakesNumber(txn[p])
      BY <3>1
    <3> QED
      BY <2>1, <2>2, <2>4, <3>1, <3>2
  <2>5. CASE p # r /\ q # r
    <3>1. txn'[p] = txn[p] /\ txn'[q] = txn[q]
      BY <1>9, <2>5
    <3>2. TakesNumber(txn[p]) /\ TakesNumber(txn[q])
      BY <3>1
    <3> QED
      BY <1>1, <3>1, <3>2 DEF OneHolder
  <2> QED
    BY <2>3, <2>4, <2>5
<1> HIDE DEF row, new
<1>13. SessionInv(r)'
  <2>1. /\ txn'[r].pc = "flush" /\ txn'[r].inv = t.inv /\ txn'[r].op = t.op /\ txn'[r].by = t.by
        /\ txn'[r].seen = t.seen /\ txn'[r].want = row
    BY <1>7, <1>9
  <2>2. (Inserts(txn'[r]) <=> Inserts(t)) /\ (Reviews(txn'[r]) <=> Reviews(t))
    BY <2>1 DEF Inserts, Reviews
  <2>3. Exists(row) <=> Exists(t.want)
    BY <1>6 DEF Exists
  <2>4. AboutOneInvoice(r)'
    BY <1>3, <1>6, <1>8, <1>9, <2>1, <2>2, <2>3 DEF AboutOneInvoice
  <2>5. HoldsNextNumber(r)'
    <3>1. row.numero.year = y /\ row.numero.n = counter[s][y] + 1
      BY <1>6
    <3> QED
      BY <1>2, <1>3, <1>4, <1>6, <1>8, <2>1, <2>2, <3>1 DEF HoldsNextNumber
  <2>6. HoldsItsRow(r)'
    BY <2>1 DEF HoldsItsRow
  <2> QED
    BY <2>1, <2>4, <2>5, <2>6 DEF SessionInv
<1>14. \A q \in Requests \ {r} : SessionInv(q)'
  BY <1>7, <1>8, <1>9, OthersInv
<1> QED
  BY <1>10, <1>11, <1>12, <1>13, <1>14 DEF GaplessInv

\* A session that only loads or deletes lines keeps the invariant.
LEMMA AdvanceInv ==
    ASSUME GaplessInv, NEW r \in Requests, NEW new \in Transaction,
           txn[r].pc \in {"load", "delete"},
           new.pc \in {"delete", "flush"},
           new.op = txn[r].op, new.by = txn[r].by, new.inv = txn[r].inv,
           new.seen = txn[r].seen, new.want = txn[r].want,
           txn' = [txn EXCEPT ![r] = new],
           UNCHANGED <<invoices, lines, reviews, counter, periods, lock, today>>
    PROVE  GaplessInv'
<1>1. /\ TypeOK /\ Gapless /\ AbsentIsBlank /\ OneHolder
      /\ \A q \in Requests : SessionInv(q)
  BY DEF GaplessInv
<1>2. AboutOneInvoice(r) /\ HoldsNextNumber(r)
  BY <1>1 DEF SessionInv
<1>3. txn'[r] = new /\ \A q \in Requests \ {r} : txn'[q] = txn[q]
  BY <1>1 DEF TypeOK
<1>4. TypeOK'
  BY <1>1 DEF TypeOK
<1>5. Gapless' /\ AbsentIsBlank'
  BY <1>1 DEF Gapless, InSeries, AbsentIsBlank
<1>6. ~ TakesNumber(txn[r]) /\ ~ TakesNumber(new)
  BY <1>2 DEF HoldsNextNumber, TakesNumber
<1>7. OneHolder'
  BY <1>1, <1>3, <1>6 DEF OneHolder
<1>8. SessionInv(r)'
  <2>1. (Inserts(new) <=> Inserts(txn[r])) /\ (Reviews(new) <=> Reviews(txn[r]))
    BY DEF Inserts, Reviews
  <2>2. AboutOneInvoice(r)'
    BY <1>2, <1>3, <2>1 DEF AboutOneInvoice
  <2>3. HoldsNextNumber(r)' /\ HoldsItsRow(r)'
    BY <1>3, <1>6 DEF HoldsNextNumber, HoldsItsRow
  <2> QED
    BY <1>3, <2>2, <2>3 DEF SessionInv
<1>9. \A q \in Requests \ {r} : SessionInv(q)'
  BY <1>3, OthersInv
<1> QED
  BY <1>4, <1>5, <1>7, <1>8, <1>9 DEF GaplessInv

\* Loading the lines of an edit.
LEMMA LoadLinesInv ==
    ASSUME GaplessInv, NEW r \in Requests, LoadLines(r)
    PROVE  GaplessInv'
<1> DEFINE new == [txn[r] EXCEPT !.pc = "delete", !.loaded = Ids(txn[r].inv)]
<1>1. TypeOK /\ txn[r] \in Transaction /\ txn[r].pc = "load"
  BY DEF GaplessInv, TypeOK, LoadLines
<1>2. txn[r].inv \in Invoices
  BY <1>1 DEF GaplessInv, SessionInv, AboutOneInvoice
<1>3. Ids(txn[r].inv) \subseteq BatchIds
  BY <1>1, <1>2 DEF Ids, TypeOK
<1>4. new \in Transaction
  BY <1>1, <1>3 DEF Transaction
<1>5. /\ new.pc = "delete" /\ new.op = txn[r].op /\ new.by = txn[r].by /\ new.inv = txn[r].inv
      /\ new.seen = txn[r].seen /\ new.want = txn[r].want
  BY <1>1 DEF Transaction
<1>6. txn' = [txn EXCEPT ![r] = new] /\ UNCHANGED <<database, today>>
  BY DEF LoadLines
<1> HIDE DEF new
<1> QED
  BY <1>1, <1>4, <1>5, <1>6, AdvanceInv DEF database

\* Deleting the lines of an edit.
LEMMA DeleteLinesInv ==
    ASSUME GaplessInv, NEW r \in Requests, DeleteLines(r)
    PROVE  GaplessInv'
<1> DEFINE new == [txn[r] EXCEPT !.pc = "flush"]
<1>1. txn[r] \in Transaction /\ txn[r].pc = "delete"
  BY DEF GaplessInv, TypeOK, DeleteLines
<1>2. new \in Transaction
  BY <1>1 DEF Transaction
<1>3. /\ new.pc = "flush" /\ new.op = txn[r].op /\ new.by = txn[r].by /\ new.inv = txn[r].inv
      /\ new.seen = txn[r].seen /\ new.want = txn[r].want
  BY <1>1 DEF Transaction
<1>4. txn' = [txn EXCEPT ![r] = new] /\ UNCHANGED <<database, today>>
  BY DEF DeleteLines
<1> HIDE DEF new
<1> QED
  BY <1>1, <1>2, <1>3, <1>4, AdvanceInv DEF database

\* A session that is about to give a number has a row without one: a row it
\* inserts has none, and the triggers refuse to replace the one of an
\* invoice that we issue.
LEMMA FlushTakesFirstNumber ==
    ASSUME GaplessInv, NEW r \in Requests, txn[r].pc = "flush",
           FlushPasses(txn[r]), TakesNumber(txn[r])
    PROVE  ~ Numbered(invoices[txn[r].inv])
<1> DEFINE t == txn[r]
           old == invoices[t.inv]
           new == Written(t.seen, t.want, old)
<1>1. AboutOneInvoice(r) /\ HoldsNextNumber(r)
  BY DEF GaplessInv, SessionInv
<1>2. TypeOK /\ Gapless /\ AbsentIsBlank
  BY DEF GaplessInv
<1>3. CASE Inserts(t)
  BY <1>1, <1>2, <1>3, AbsentFacts DEF AboutOneInvoice, AbsentIsBlank, Numbered
<1>4. CASE ~ Inserts(t)
  <2>1. Dirty(t)
    BY DEF Dirty, TakesNumber
  <2>2. t.want.direction = "OUTGOING" /\ old.direction = "OUTGOING"
    BY <1>1, <1>4 DEF HoldsNextNumber, AboutOneInvoice
  <2>3. ReviewRules(old, new)
    BY <1>4, <2>1 DEF FlushPasses, UpdateAllowed
  <2>4. new.direction = "OUTGOING" /\ new.numero = t.want.numero
    BY <2>2 DEF Written, Column, TakesNumber
  <2>5. SUFFICES ASSUME Numbered(old) PROVE FALSE
    OBVIOUS
  <2>6. old.numero = t.want.numero
    BY <2>3, <2>4, <2>5 DEF ReviewRules, NumberIsFinal
  <2>7. InSeries(t.inv, "OUTGOING", t.want.numero.year) /\ t.want.numero.year \in Years
    BY <1>1, <2>2, <2>5, <2>6 DEF InSeries, HoldsNextNumber
  <2>8. old.numero.n \in 1 .. counter["OUTGOING"][t.want.numero.year]
    BY <1>1, <1>2, <2>7 DEF Gapless, AboutOneInvoice, Directions
  <2>9. counter["OUTGOING"][t.want.numero.year] \in Nat
    BY <1>2, <2>7 DEF TypeOK, Directions
  <2>10. old.numero.n = counter["OUTGOING"][t.want.numero.year] + 1
    BY <1>1, <2>2, <2>6 DEF HoldsNextNumber
  <2> QED
    BY <2>8, <2>9, <2>10
<1> QED
  BY <1>3, <1>4

\* A flush locks the row it writes, which nobody else has locked.
LEMMA FlushInv ==
    ASSUME GaplessInv, NEW r \in Requests, Flush(r)
    PROVE  GaplessInv'
<1> DEFINE t == txn[r]
           new == [t EXCEPT !.pc = "commit"]
<1>1. /\ TypeOK /\ Gapless /\ AbsentIsBlank /\ OneHolder
      /\ \A q \in Requests : SessionInv(q)
  BY DEF GaplessInv
<1>2. t \in Transaction /\ t.pc = "flush"
  BY <1>1 DEF TypeOK, Flush
<1>3. AboutOneInvoice(r) /\ HoldsNextNumber(r)
  BY <1>1, <1>2 DEF SessionInv
<1>4. /\ new \in Transaction
      /\ new.pc = "commit" /\ new.op = t.op /\ new.by = t.by /\ new.inv = t.inv
      /\ new.seen = t.seen /\ new.want = t.want
  BY <1>2 DEF Transaction
<1>5. /\ txn' = [txn EXCEPT ![r] = new]
      /\ lock' = IF Dirty(t) THEN [lock EXCEPT ![t.inv] = r] ELSE lock
      /\ UNCHANGED <<invoices, lines, reviews, counter, periods, today>>
      /\ FlushIsFree(r) /\ FlushPasses(t)
  BY DEF Flush
<1> HIDE DEF new
<1>6. txn'[r] = new /\ \A q \in Requests \ {r} : txn'[q] = txn[q]
  BY <1>1, <1>5 DEF TypeOK
<1>7. TypeOK'
  <2>1. lock' \in [Invoices -> Sessions \cup {NoSession}]
    BY <1>1, <1>5, SessionsAssumption DEF TypeOK
  <2> QED
    BY <1>1, <1>4, <1>5, <2>1 DEF TypeOK
<1>8. Gapless' /\ AbsentIsBlank'
  BY <1>1, <1>5 DEF Gapless, InSeries, AbsentIsBlank
<1>9. /\ TakesNumber(new) <=> TakesNumber(t)
      /\ Dirty(new) <=> Dirty(t)
      /\ Inserts(new) <=> Inserts(t)
      /\ Reviews(new) <=> Reviews(t)
  BY <1>4 DEF TakesNumber, Dirty, Inserts, Reviews
<1>10. OneHolder'
  <2>1. \A q \in Requests : (TakesNumber(txn[q])' <=> TakesNumber(txn[q])) /\ txn'[q].want = txn[q].want
    BY <1>4, <1>6, <1>9
  <2> QED
    BY <1>1, <2>1 DEF OneHolder
<1>11. SessionInv(r)'
  <2>1. AboutOneInvoice(r)'
    BY <1>3, <1>4, <1>5, <1>6, <1>9 DEF AboutOneInvoice
  <2>2. HoldsNextNumber(r)'
    BY <1>2, <1>3, <1>4, <1>5, <1>6, <1>9 DEF HoldsNextNumber
  <2>3. HoldsItsRow(r)'
    <3>1. TakesNumber(t) => ~ Numbered(invoices[t.inv])
      BY <1>2, <1>5, FlushTakesFirstNumber
    <3>2. Dirty(t) => lock'[t.inv] = r
      BY <1>1, <1>3, <1>5 DEF TypeOK, AboutOneInvoice
    <3> QED
      BY <1>4, <1>5, <1>6, <1>9, <3>1, <3>2 DEF HoldsItsRow
  <2> QED
    BY <1>4, <1>6, <2>1, <2>2, <2>3 DEF SessionInv
<1>12. ASSUME NEW q \in Requests \ {r} PROVE SessionInv(q)'
  <2>1. ASSUME txn[q].pc # "idle", lock[txn[q].inv] = q PROVE lock'[txn[q].inv] = q
    <3>1. Inserts(t) => txn[q].inv # t.inv
      BY <1>3 DEF AboutOneInvoice
    <3>2. ~ Inserts(t) /\ Dirty(t) => lock[t.inv] = NoSession
      BY <1>5 DEF FlushIsFree, NeedsRowLock
    <3>3. q # NoSession
      BY SessionsAssumption
    <3>4. txn[q].inv \in Invoices
      BY <1>1, <2>1 DEF SessionInv, AboutOneInvoice
    <3> QED
      BY <1>1, <1>5, <2>1, <3>1, <3>2, <3>3, <3>4 DEF TypeOK
  <2> QED
    BY <1>4, <1>5, <1>6, <2>1, OthersInv
<1> QED
  BY <1>7, <1>8, <1>10, <1>11, <1>12 DEF GaplessInv

\* What a commit leaves in its row.
LEMMA CommittedRow ==
    ASSUME GaplessInv, NEW r \in Requests, txn[r].pc = "commit"
    PROVE  LET t == txn[r]
               old == invoices[t.inv]
           IN  /\ After(t) \in Row
               /\ Exists(After(t))
               /\ After(t).direction = t.want.direction
               /\ ~ Inserts(t) => After(t).direction = old.direction
               /\ TakesNumber(t) => After(t).numero = t.want.numero /\ ~ Numbered(old)
               /\ ~ TakesNumber(t) => After(t).numero = old.numero
               /\ Inserts(t) => ~ Numbered(old)
<1> DEFINE t == txn[r]
           old == invoices[t.inv]
<1>1. AboutOneInvoice(r) /\ HoldsNextNumber(r) /\ HoldsItsRow(r)
  BY DEF GaplessInv, SessionInv
<1>2. TypeOK /\ AbsentIsBlank
  BY DEF GaplessInv
<1>3. After(t) \in Row
  BY <1>1, <1>2, AfterType DEF AboutOneInvoice
<1>4. TakesNumber(t) => ~ Numbered(old)
  BY <1>1 DEF HoldsItsRow, Dirty, TakesNumber
<1>5. CASE Inserts(t)
  <2>1. old = Absent /\ t.seen = Absent /\ Exists(t.want) /\ After(t) = t.want
    BY <1>1, <1>2, <1>5 DEF AboutOneInvoice, AbsentIsBlank, After
  <2> QED
    BY <1>3, <1>4, <1>5, <2>1, AbsentFacts DEF TakesNumber, Numbered
<1>6. CASE ~ Inserts(t)
  <2>1. After(t) = Written(t.seen, t.want, old)
    BY <1>6 DEF After
  <2>2. Exists(old) /\ Exists(t.want) /\ t.want.direction = old.direction
    BY <1>1, <1>6 DEF AboutOneInvoice
  <2>3. Exists(After(t)) /\ After(t).direction = old.direction
    BY <2>1, <2>2 DEF Written, Column, Exists
  <2>4. After(t).numero = IF TakesNumber(t) THEN t.want.numero ELSE old.numero
    BY <2>1 DEF Written, Column, TakesNumber
  <2> QED
    BY <1>3, <1>4, <1>6, <2>2, <2>3, <2>4
<1> QED
  BY <1>5, <1>6

\* A commit gives the number its session holds, or none.
LEMMA CommitGapless ==
    ASSUME GaplessInv, NEW r \in Requests, Commit(r)
    PROVE  Gapless'
<1> DEFINE t == txn[r]
           dir == t.want.direction
           year == t.want.numero.year
           pos == t.want.numero.n
<1>1. TypeOK /\ Gapless
  BY DEF GaplessInv
<1>2. t.pc = "commit" /\ t \in Transaction
  BY <1>1 DEF Commit, TypeOK
<1>3. AboutOneInvoice(r) /\ HoldsNextNumber(r) /\ t.inv \in Invoices
  BY <1>2 DEF GaplessInv, SessionInv, AboutOneInvoice
<1>row. PICK i \in Invoices : i = t.inv
  BY <1>3
<1>4. /\ invoices' = [invoices EXCEPT ![i] = After(t)]
      /\ counter' = IF TakesNumber(t) THEN [counter EXCEPT ![dir][year] = pos] ELSE counter
  BY <1>row DEF Commit
<1>5. invoices'[i] = After(t) /\ \A j \in Invoices : j # i => invoices'[j] = invoices[j]
  BY <1>1, <1>4 DEF TypeOK
<1>6. CASE ~ TakesNumber(t)
  <2>1. \A j \in Invoices, s \in Directions, y \in Years :
          (InSeries(j, s, y)' <=> InSeries(j, s, y)) /\ invoices'[j].numero = invoices[j].numero
    <3>1. /\ After(t).numero = invoices[i].numero
          /\ After(t).direction = invoices[i].direction \/ ~ Numbered(invoices[i])
      BY <1>2, <1>6, <1>row, CommittedRow
    <3> QED
      BY <1>5, <3>1 DEF InSeries, Numbered
  <2>2. counter' = counter
    BY <1>4, <1>6
  <2> QED
    BY <1>1, <2>1, <2>2 DEF Gapless
<1>7. CASE TakesNumber(t)
  <2>1. /\ After(t).numero = t.want.numero /\ After(t).direction = dir
        /\ ~ Numbered(invoices[i])
    BY <1>2, <1>7, <1>row, CommittedRow
  <2>2. /\ dir \in Directions /\ year \in Years /\ pos = counter[dir][year] + 1
        /\ counter[dir][year] \in Nat
    BY <1>1, <1>2, <1>3, <1>7 DEF HoldsNextNumber, TypeOK, Transaction, Row
  <2>3. Numbered(After(t))
    BY <2>1, <2>2 DEF Numbered, NoNumber
  <2>4. \A s \in Directions, y \in Years :
          counter'[s][y] = IF s = dir /\ y = year THEN pos ELSE counter[s][y]
    BY <1>1, <1>4, <1>7, <2>2 DEF TypeOK
  <2>5. \A s \in Directions, y \in Years : InSeries(i, s, y)' <=> s = dir /\ y = year
    BY <1>5, <2>1, <2>3 DEF InSeries, Numbered
  <2>6. \A j \in Invoices, s \in Directions, y \in Years :
          j # i => (InSeries(j, s, y)' <=> InSeries(j, s, y)) /\ invoices'[j].numero = invoices[j].numero
    BY <1>5 DEF InSeries, Numbered
  <2>7. \A s \in Directions, y \in Years : ~ InSeries(i, s, y)
    BY <2>1 DEF InSeries
  <2> SUFFICES ASSUME NEW s \in Directions, NEW y \in Years
               PROVE  /\ \A j \in Invoices : InSeries(j, s, y)' => invoices'[j].numero.n \in 1 .. counter'[s][y]
                      /\ \A n \in 1 .. counter'[s][y] :
                            \E j \in Invoices : InSeries(j, s, y)' /\ invoices'[j].numero.n = n
                      /\ \A j, k \in Invoices :
                            InSeries(j, s, y)' /\ InSeries(k, s, y)' /\ invoices'[j].numero = invoices'[k].numero
                              => j = k
    BY DEF Gapless
  <2>8. /\ \A j \in Invoices : InSeries(j, s, y) => invoices[j].numero.n \in 1 .. counter[s][y]
        /\ \A n \in 1 .. counter[s][y] : \E j \in Invoices : InSeries(j, s, y) /\ invoices[j].numero.n = n
        /\ \A j, k \in Invoices :
              InSeries(j, s, y) /\ InSeries(k, s, y) /\ invoices[j].numero = invoices[k].numero => j = k
    BY <1>1 DEF Gapless
  <2>9. counter[s][y] \in Nat
    BY <1>1 DEF TypeOK
  <2>10. invoices'[i].numero.n = pos
    BY <1>5, <2>1
  <2> HIDE DEF dir, year, pos, t
  <2>11. CASE s = dir /\ y = year
    <3>1. counter'[s][y] = counter[s][y] + 1 /\ pos = counter[s][y] + 1
      BY <2>2, <2>4, <2>11
    <3>2. \A j \in Invoices : InSeries(j, s, y)' => invoices'[j].numero.n \in 1 .. counter'[s][y]
      BY <2>6, <2>8, <2>9, <2>10, <3>1
    <3>3. ASSUME NEW n \in 1 .. counter'[s][y]
          PROVE  \E j \in Invoices : InSeries(j, s, y)' /\ invoices'[j].numero.n = n
      <4>1. CASE n = pos
        BY <2>5, <2>10, <2>11, <4>1
      <4>2. CASE n # pos
        <5>1. n \in 1 .. counter[s][y]
          BY <2>9, <3>1, <4>2
        <5>2. PICK j \in Invoices : InSeries(j, s, y) /\ invoices[j].numero.n = n
          BY <2>8, <5>1
        <5> QED
          BY <2>6, <2>7, <5>2
      <4> QED
        BY <4>1, <4>2
    <3>4. \A j \in Invoices : InSeries(j, s, y)' /\ j # i => invoices'[j].numero # invoices'[i].numero
      BY <2>6, <2>8, <2>9, <2>10, <3>1
    <3>5. \A j, k \in Invoices :
            InSeries(j, s, y)' /\ InSeries(k, s, y)' /\ invoices'[j].numero = invoices'[k].numero => j = k
      BY <2>6, <2>8, <3>4
    <3> QED
      BY <3>2, <3>3, <3>5
  <2>12. CASE ~ (s = dir /\ y = year)
    <3>1. counter'[s][y] = counter[s][y] /\ ~ InSeries(i, s, y)'
      BY <2>4, <2>5, <2>12
    <3>2. \A j \in Invoices : (InSeries(j, s, y)' <=> InSeries(j, s, y))
                             /\ (InSeries(j, s, y) => invoices'[j].numero = invoices[j].numero)
      BY <2>6, <2>7, <3>1
    <3> QED
      BY <2>8, <3>1, <3>2
  <2> QED
    BY <2>11, <2>12
<1> QED
  BY <1>6, <1>7

\* A commit writes values of the right types.
LEMMA CommitType ==
    ASSUME GaplessInv, NEW r \in Requests, Commit(r)
    PROVE  TypeOK'
<1> DEFINE t == txn[r]
<1>1. TypeOK
  BY DEF GaplessInv
<1>2. t.pc = "commit" /\ t \in Transaction
  BY <1>1 DEF Commit, TypeOK
<1>3. AboutOneInvoice(r) /\ HoldsNextNumber(r)
  BY <1>2 DEF GaplessInv, SessionInv
<1>4. t.inv \in Invoices /\ t.by \in Users
  BY <1>3 DEF AboutOneInvoice
<1>5. invoices' \in [Invoices -> Row]
  BY <1>1, <1>2, <1>4, CommittedRow DEF Commit, TypeOK
<1>6. lines' \in [Invoices -> SUBSET [id : BatchIds, what : Contents]]
  <2>1. CASE ~ WritesLines(t)
    BY <1>1, <2>1 DEF Commit, TypeOK
  <2>2. CASE WritesLines(t)
    <3>1. PICK k \in BatchIds : lines' = [lines EXCEPT ![t.inv] = LinesAfter(t, k)]
      BY <2>2 DEF Commit
    <3>2. lines[t.inv] \in SUBSET [id : BatchIds, what : Contents]
      BY <1>1, <1>4 DEF TypeOK
    <3>3. t.content # Blank => [id |-> k, what |-> t.content] \in [id : BatchIds, what : Contents]
      BY <1>2 DEF Transaction
    <3>4. LinesAfter(t, k) \in SUBSET [id : BatchIds, what : Contents]
      BY <3>2, <3>3 DEF LinesAfter
    <3> QED
      BY <1>1, <3>1, <3>4 DEF TypeOK
  <2> QED
    BY <2>1, <2>2
<1>7. reviews' \in [Invoices -> Seq([action : ReviewActions, actor : Users])]
  <2> DEFINE entry == [action |-> ReviewActionOf(t), actor |-> t.by]
             Entries == [action : ReviewActions, actor : Users]
  <2>1. reviews \in [Invoices -> Seq(Entries)]
    BY <1>1 DEF TypeOK
  <2>2. Reviews(t) => entry \in Entries
    BY <1>3, <1>4 DEF AboutOneInvoice, ReviewActionOf
  <2>3. reviews' = IF Reviews(t) THEN [reviews EXCEPT ![t.inv] = Append(@, entry)] ELSE reviews
    BY DEF Commit
  <2> HIDE DEF entry, Entries
  <2>4. reviews[t.inv] \in Seq(Entries)
    BY <1>4, <2>1
  <2>5. Reviews(t) => Append(reviews[t.inv], entry) \in Seq(Entries)
    BY <2>2, <2>4
  <2>6. reviews' \in [Invoices -> Seq(Entries)]
    BY <2>1, <2>3, <2>5
  <2> QED
    BY <2>6 DEF Entries
<1>8. counter' \in [Directions -> [Years -> Nat]]
  <2>1. t.want.numero.n \in Nat
    BY <1>2 DEF Transaction, Row, Numbers
  <2> QED
    BY <1>1, <2>1 DEF Commit, TypeOK
<1>9. lock' \in [Invoices -> Sessions \cup {NoSession}]
  BY <1>1 DEF Commit, TypeOK
<1>10. txn' \in [Requests -> Transaction] /\ UNCHANGED <<periods, today>>
  BY <1>1, IdleFacts DEF Commit, TypeOK
<1> QED
  BY <1>1, <1>5, <1>6, <1>7, <1>8, <1>9, <1>10 DEF TypeOK

\* A commit of one session leaves the others as they were: they hold other
\* numbers, and the row they have flushed is not the one it writes.
LEMMA CommitOthers ==
    ASSUME GaplessInv, NEW r \in Requests, Commit(r), NEW q \in Requests \ {r}
    PROVE  SessionInv(q)'
<1> DEFINE t == txn[r]
           u == txn[q]
<1>1. TypeOK /\ OneHolder /\ SessionInv(q)
  BY DEF GaplessInv
<1>2. t.pc = "commit" /\ txn' = [txn EXCEPT ![r] = Idle]
  BY DEF Commit
<1>3. AboutOneInvoice(r) /\ HoldsNextNumber(r) /\ HoldsItsRow(r)
  BY <1>2 DEF GaplessInv, SessionInv
<1>4. t.inv \in Invoices
  BY <1>3 DEF AboutOneInvoice
<1>5. txn'[r] = Idle /\ \A p \in Requests \ {r} : txn'[p] = txn[p]
  BY <1>1, <1>2 DEF TypeOK
<1>6. /\ invoices'[t.inv] = After(t)
      /\ \A j \in Invoices : j # t.inv => invoices'[j] = invoices[j]
  BY <1>1, <1>4 DEF Commit, TypeOK
<1>7. CASE u.pc = "idle"
  BY <1>1, <1>5, <1>7 DEF SessionInv
<1>8. CASE u.pc # "idle"
  <2>1. AboutOneInvoice(q) /\ HoldsNextNumber(q) /\ HoldsItsRow(q)
    BY <1>1, <1>8 DEF SessionInv
  <2>2. u.inv \in Invoices /\ u.inv # 0
    BY <2>1, InvoicesAssumption DEF AboutOneInvoice
  <2>3. Inserts(u) \/ Inserts(t) => u.inv # t.inv
    BY <1>3, <2>1 DEF AboutOneInvoice
  <2>4. AboutOneInvoice(q)'
    <3>1. Inserts(u) => invoices'[u.inv] = invoices[u.inv]
      BY <1>6, <2>2, <2>3
    <3>2. ~ Inserts(u) /\ Exists(invoices[u.inv]) =>
            Exists(invoices'[u.inv]) /\ invoices'[u.inv].direction = invoices[u.inv].direction
      <4>1. CASE u.inv = t.inv
        BY <1>2, <1>6, <2>3, <4>1, CommittedRow
      <4>2. CASE u.inv # t.inv
        BY <1>6, <2>2, <4>2
      <4> QED
        BY <4>1, <4>2
    <3>3. Inserts(u) => \A p \in Requests \ {q} : txn'[p].inv # u.inv
      BY <1>5, <2>1, <2>2 DEF AboutOneInvoice, Idle
    <3>4. \A row : Exists(row) <=> row.statut # "NONE"
      BY DEF Exists
    <3> QED
      BY <1>5, <2>1, <3>1, <3>2, <3>3, <3>4 DEF AboutOneInvoice, Exists
  <2>5. HoldsNextNumber(q)'
    <3>1. ASSUME TakesNumber(u), u.want.direction \in Directions, u.want.numero.year \in Years
          PROVE  counter'[u.want.direction][u.want.numero.year]
                    = counter[u.want.direction][u.want.numero.year]
      <4>1. CASE ~ TakesNumber(t)
        BY <4>1 DEF Commit
      <4>2. CASE TakesNumber(t)
        <5>1. u.want.direction # t.want.direction \/ u.want.numero.year # t.want.numero.year
          BY <1>1, <3>1, <4>2 DEF OneHolder
        <5>2. counter' = [counter EXCEPT ![t.want.direction][t.want.numero.year] = t.want.numero.n]
          BY <4>2 DEF Commit
        <5> QED
          BY <1>1, <3>1, <5>1, <5>2 DEF TypeOK
      <4> QED
        BY <4>1, <4>2
    <3>2. u.want.direction \in Directions
      BY <1>1 DEF TypeOK, Transaction, Row
    <3> QED
      BY <1>5, <2>1, <3>1, <3>2 DEF HoldsNextNumber
  <2>6. HoldsItsRow(q)'
    <3> SUFFICES ASSUME u.pc = "commit", Dirty(u)
                 PROVE  /\ lock'[u.inv] = q
                        /\ TakesNumber(u) => ~ Numbered(invoices'[u.inv])
      BY <1>5 DEF HoldsItsRow, Numbered
    <3>1. lock[u.inv] = q /\ (TakesNumber(u) => ~ Numbered(invoices[u.inv]))
      BY <2>1 DEF HoldsItsRow
    <3>2. lock'[u.inv] = q
      BY <1>1, <2>2, <3>1 DEF Commit, TypeOK
    <3>3. CASE u.inv = t.inv
      <4>1. ~ Dirty(t)
        BY <1>2, <1>3, <3>1, <3>3 DEF HoldsItsRow
      <4>2. ~ TakesNumber(t)
        BY <4>1 DEF Dirty, TakesNumber
      <4>3. After(t).numero = invoices[t.inv].numero
        BY <1>2, <4>2, CommittedRow
      <4> QED
        BY <1>6, <3>1, <3>2, <3>3, <4>3 DEF Numbered
    <3>4. CASE u.inv # t.inv
      BY <1>6, <2>2, <3>1, <3>2, <3>4
    <3> QED
      BY <3>3, <3>4
  <2> QED
    BY <1>5, <1>8, <2>4, <2>5, <2>6 DEF SessionInv
<1> QED
  BY <1>7, <1>8

\* A commit keeps the invariant.
LEMMA CommitInv ==
    ASSUME GaplessInv, NEW r \in Requests, Commit(r)
    PROVE  GaplessInv'
<1>1. TypeOK /\ AbsentIsBlank /\ OneHolder
  BY DEF GaplessInv
<1>2. txn[r].pc = "commit" /\ txn' = [txn EXCEPT ![r] = Idle]
  BY DEF Commit
<1>3. txn'[r] = Idle /\ \A p \in Requests \ {r} : txn'[p] = txn[p]
  BY <1>1, <1>2 DEF TypeOK
<1>4. AbsentIsBlank'
  <2>1. Exists(After(txn[r]))
    BY <1>2, CommittedRow
  <2> QED
    BY <1>1, <2>1 DEF Commit, TypeOK, AbsentIsBlank, Exists
<1>5. ~ TakesNumber(Idle)
  BY DEF Idle, TakesNumber
<1>6. OneHolder'
  BY <1>1, <1>3, <1>5 DEF OneHolder
<1>7. SessionInv(r)'
  BY <1>3 DEF SessionInv, Idle
<1> QED
  BY <1>4, <1>6, <1>7, CommitType, CommitGapless, CommitOthers DEF GaplessInv

\* The calendar moves on under the sessions at work.
LEMMA MidnightInv ==
    ASSUME GaplessInv, Midnight
    PROVE  GaplessInv'
<1>1. /\ TypeOK /\ Gapless /\ AbsentIsBlank /\ OneHolder
      /\ \A q \in Requests : SessionInv(q)
  BY DEF GaplessInv
<1>2. UNCHANGED <<invoices, lines, reviews, counter, periods, lock, txn>>
  BY DEF Midnight, database
<1>3. TypeOK'
  <2>1. today' \in Days
    <3>1. today \in 1 .. MaxDay /\ today < MaxDay /\ today' = today + 1
      BY <1>1 DEF TypeOK, Midnight, Days
    <3> QED
      BY <3>1, BoundsAssumption DEF Days
  <2> QED
    BY <1>1, <1>2, <2>1 DEF TypeOK
<1>4. Gapless' /\ AbsentIsBlank' /\ OneHolder'
  BY <1>1, <1>2 DEF Gapless, InSeries, AbsentIsBlank, OneHolder
<1>5. \A q \in Requests : SessionInv(q)'
  BY <1>1, <1>2 DEF SessionInv, AboutOneInvoice, HoldsNextNumber, HoldsItsRow
<1> QED
  BY <1>3, <1>4, <1>5 DEF GaplessInv

\* Nothing happens to the variables.
LEMMA StutterInv ==
    ASSUME GaplessInv, UNCHANGED vars
    PROVE  GaplessInv'
<1>1. /\ TypeOK /\ Gapless /\ AbsentIsBlank /\ OneHolder
      /\ \A q \in Requests : SessionInv(q)
  BY DEF GaplessInv
<1>2. UNCHANGED <<invoices, lines, reviews, counter, periods, lock, txn, today>>
  BY DEF vars
<1>3. TypeOK'
  BY <1>1, <1>2 DEF TypeOK
<1>4. Gapless' /\ AbsentIsBlank' /\ OneHolder'
  BY <1>1, <1>2 DEF Gapless, InSeries, AbsentIsBlank, OneHolder
<1>5. \A q \in Requests : SessionInv(q)'
  BY <1>1, <1>2 DEF SessionInv, AboutOneInvoice, HoldsNextNumber, HoldsItsRow
<1> QED
  BY <1>3, <1>4, <1>5 DEF GaplessInv

-----------------------------------------------------------------------------
(***************************************************************************)
(* The theorems.                                                           *)
(***************************************************************************)

\* Every step of every request keeps the invariant GaplessInv.
THEOREM GaplessInvInductive == GaplessInv /\ [Next]_vars => GaplessInv'
<1> SUFFICES ASSUME GaplessInv, [Next]_vars PROVE GaplessInv'
  OBVIOUS
<1>1. ASSUME NEW r \in Requests, Handlers(r) PROVE GaplessInv'
  BY <1>1, HandlersInv
<1>2. ASSUME NEW r \in Requests, Allocate(r) PROVE GaplessInv'
  BY <1>2, AllocateInv
<1>3. ASSUME NEW r \in Requests, LoadLines(r) PROVE GaplessInv'
  BY <1>3, LoadLinesInv
<1>4. ASSUME NEW r \in Requests, DeleteLines(r) PROVE GaplessInv'
  BY <1>4, DeleteLinesInv
<1>5. ASSUME NEW r \in Requests, DeleteRefused(r) PROVE GaplessInv'
  BY <1>5, RollbackInv DEF DeleteRefused
<1>6. ASSUME NEW r \in Requests, Flush(r) PROVE GaplessInv'
  BY <1>6, FlushInv
<1>7. ASSUME NEW r \in Requests, FlushRefused(r) PROVE GaplessInv'
  BY <1>7, RollbackInv DEF FlushRefused
<1>8. ASSUME NEW r \in Requests, Commit(r) PROVE GaplessInv'
  BY <1>8, CommitInv
<1>9. ASSUME NEW r \in Requests, Abort(r) PROVE GaplessInv'
  BY <1>9, RollbackInv DEF Abort
<1>10. CASE Midnight
  BY <1>10, MidnightInv
<1>11. CASE UNCHANGED vars
  BY <1>11, StutterInv
<1> QED
  BY <1>1, <1>2, <1>3, <1>4, <1>5, <1>6, <1>7, <1>8, <1>9, <1>10, <1>11 DEF Next, Statements

\* The invariant holds in every state of every behaviour.
THEOREM GaplessInvHolds == Spec => []GaplessInv
BY InitGaplessInv, GaplessInvInductive, PTL DEF Spec

\* The variables keep their types: however requests interleave, the table
\* holds rows and the sessions hold what the statements put there.
THEOREM TypeCorrect == Spec => []TypeOK
<1>1. GaplessInv => TypeOK
  BY DEF GaplessInv
<1> QED
  BY <1>1, GaplessInvHolds, PTL

\* The legal series have no gap and no duplicate, whatever was refused,
\* rolled back or raced (_allocate_invoice_number).
THEOREM GaplessSeries == Spec => []Gapless
<1>1. GaplessInv => Gapless
  BY DEF GaplessInv
<1> QED
  BY <1>1, GaplessInvHolds, PTL

-----------------------------------------------------------------------------
(***************************************************************************)
(* The review history: an invariant that builds on the gapless series.     *)
(***************************************************************************)

MovesStatut(t) == t.op \in {"send", "pay", "cancel"}

\* The columns that the handler of an existing invoice sets, and no other;
\* an approval is the only one that dates and numbers the row.
SetsItsColumns(t) ==
    /\ t.op = "edit" \/ Reviews(t) => t.want.direction = "OUTGOING"
    /\ IF t.op = "edit"
       THEN t.want.due \in Days
       ELSE t.want.due = t.seen.due /\ t.want.amount = t.seen.amount
    /\ IF Reviews(t)
       THEN t.want.review # t.seen.review /\ (t.want.review = "APPROVED" => t.op = "approve")
       ELSE t.want.review = t.seen.review
    /\ IF MovesStatut(t)
       THEN t.want.statut \in {"ENVOYEE", "PAYEE", "ANNULEE"}
       ELSE t.want.statut = t.seen.statut
    /\ IF t.op = "approve"
       THEN t.want.review = "APPROVED" /\ (t.pc = "allocate" \/ TakesNumber(t))
       ELSE t.want.issued = t.seen.issued /\ t.pc # "allocate" /\ ~ TakesNumber(t)

\* A row to insert: a draft of ours, or a supplier's bill with its number.
IsNewRow(t) ==
    /\ t.want.review = "NOT_SUBMITTED"
    /\ t.want.due \in Days
    /\ IF t.op = "create"
       THEN t.want.direction = "OUTGOING" /\ t.want.statut = "BROUILLON" /\ ~ TakesNumber(t) /\ t.pc # "allocate"
       ELSE t.want.direction = "INCOMING" /\ t.want.statut = "ENVOYEE" /\ (t.pc = "allocate" \/ TakesNumber(t))

\* What the triggers verified at the flush holds until the commit, whatever
\* the others write meanwhile.
StillAllowed(t) ==
    LET old == invoices[t.inv]
        new == After(t)
    IN  /\ ~ Inserts(t) =>
              /\ ReviewRules(old, new)
              /\ DraftIsEditable(old, new)
              /\ CommercialTransitions(old, new, today)
        /\ TakesNumber(t) => NumberFollowsDate(invoices, new)
        /\ t.op \in {"approve", "reject"} => old.by # t.by

RequestInv(r) ==
    LET t == txn[r]
    IN  t.pc # "idle" =>
          /\ IF Inserts(t) THEN IsNewRow(t) ELSE SetsItsColumns(t)
          /\ t.pc = "commit" => StillAllowed(t)

\* Rows that exist have a due date, a bill is no draft, and what we issue has
\* a number exactly when it is approved.
RowInv(i) ==
    LET row == invoices[i]
    IN  Exists(row) =>
          /\ row.due \in Days
          /\ row.direction = "INCOMING" => row.statut # "BROUILLON"
          /\ row.direction = "OUTGOING" => (Numbered(row) <=> row.review = "APPROVED")

\* An approval ends the history, and is by someone other than the author.
ApprovalsEnd(i) ==
    \A k \in DOMAIN reviews[i] :
        reviews[i][k].action = "APPROVED" =>
            k = Len(reviews[i]) /\ reviews[i][k].actor # invoices[i].by

HistoryInv ==
    /\ GaplessInv
    /\ NumbersFollowDates
    /\ HistoryExplainsStatus
    /\ \A i \in Invoices : RowInv(i) /\ ApprovalsEnd(i)
    /\ \A r \in Requests : RequestInv(r)

-----------------------------------------------------------------------------
(***************************************************************************)
(* Writing nothing.                                                        *)
(***************************************************************************)

\* A session that changed no column writes the row it finds.
LEMMA WrittenSame ==
    ASSUME NEW seen, NEW latest \in Row
    PROVE  Written(seen, seen, latest) = latest
BY DEF Written, Column, Row

\* The triggers let a row stay as it is.
LEMMA RowMayStay ==
    ASSUME NEW row, NEW day
    PROVE  ReviewRules(row, row) /\ DraftIsEditable(row, row) /\ CommercialTransitions(row, row, day)
BY DEF ReviewRules, NumberIsFinal, DraftIsEditable, CommercialTransitions

\* The row an UPDATE leaves, when the session has changed nothing.
LEMMA CleanAfter ==
    ASSUME NEW t, ~ Inserts(t), ~ Dirty(t), invoices[t.inv] \in Row
    PROVE  After(t) = invoices[t.inv] /\ ~ TakesNumber(t)
BY WrittenSame DEF After, Dirty, TakesNumber

-----------------------------------------------------------------------------
(***************************************************************************)
(* Steps that write no table.                                              *)
(***************************************************************************)

\* A step of one session that commits nothing keeps the invariant, if the
\* session goes on with the columns of its operation.
LEMMA QuietStep ==
    ASSUME HistoryInv, GaplessInv', NEW r \in Requests,
           \A q \in Requests \ {r} : txn'[q] = txn[q],
           UNCHANGED <<invoices, reviews, today>>,
           RequestInv(r)'
    PROVE  HistoryInv'
<1>1. NumbersFollowDates' /\ HistoryExplainsStatus'
  BY DEF HistoryInv, NumbersFollowDates, NumberedRows, HistoryExplainsStatus
<1>2. \A i \in Invoices : RowInv(i)' /\ ApprovalsEnd(i)'
  BY DEF HistoryInv, RowInv, ApprovalsEnd
<1>3. ASSUME NEW q \in Requests \ {r} PROVE RequestInv(q)'
  <2>1. RequestInv(q) /\ txn'[q] = txn[q]
    BY DEF HistoryInv
  <2>2. After(txn[q])' = After(txn[q])
    BY <2>1 DEF After
  <2>3. StillAllowed(txn[q]) => StillAllowed(txn[q])'
    BY <2>1, <2>2 DEF StillAllowed
  <2> QED
    BY <2>1, <2>3 DEF RequestInv
<1> QED
  BY <1>1, <1>2, <1>3 DEF HistoryInv

\* A handler that starts keeps the invariant if it sets the columns of its
\* operation only.
LEMMA BeginHistory ==
    ASSUME HistoryInv, GaplessInv',
           NEW r \in Requests, NEW op, NEW u, NEW i, NEW seen, NEW want, NEW content,
           NEW pc \in {"load", "allocate", "flush"},
           Begin(r, op, u, i, seen, want, content, pc),
           LET t == [op |-> op, pc |-> pc, seen |-> seen, want |-> want]
           IN  IF op \in {"create", "bill"} THEN IsNewRow(t) ELSE SetsItsColumns(t)
    PROVE  HistoryInv'
<1>1. txn \in [Requests -> Transaction]
  BY DEF HistoryInv, GaplessInv, TypeOK
<1>2. /\ txn'[r].op = op /\ txn'[r].pc = pc /\ txn'[r].seen = seen /\ txn'[r].want = want
      /\ \A q \in Requests \ {r} : txn'[q] = txn[q]
      /\ UNCHANGED <<invoices, reviews, today>>
  BY <1>1 DEF Begin, database
<1>3. RequestInv(r)'
  BY <1>2 DEF RequestInv, Inserts, IsNewRow, SetsItsColumns, Reviews, MovesStatut, TakesNumber
<1> QED
  BY <1>2, <1>3, QuietStep

\* Every handler sets the columns of its operation.
LEMMA HandlersHistory ==
    ASSUME HistoryInv, NEW r \in Requests, Handlers(r)
    PROVE  HistoryInv'
<1>1. /\ GaplessInv /\ \A i \in Invoices : invoices[i] \in Row /\ RowInv(i)
      /\ today \in Days
  BY DEF HistoryInv, GaplessInv, TypeOK
<1>2. GaplessInv'
  BY <1>1, HandlersInv
<1> USE DEF Inserts, SetsItsColumns, IsNewRow, Reviews, MovesStatut, TakesNumber
<1>3. CASE \E u \in Users, i \in Invoices, due \in DueDates, c \in Contents \cup {Blank} :
             CreateInvoice(r, u, i, due, c)
  <2>1. PICK u \in Users, i \in Invoices, due \in DueDates, c \in Contents \cup {Blank} :
           CreateInvoice(r, u, i, due, c)
    BY <1>3
  <2> DEFINE row == [Absent EXCEPT !.statut = "BROUILLON", !.issued = today, !.due = due,
                                   !.amount = AmountOf[c], !.by = u]
             t == [op |-> "create", pc |-> "flush", seen |-> Absent, want |-> row]
  <2>2. Begin(r, "create", u, i, Absent, row, c, "flush")
    BY <2>1 DEF CreateInvoice
  <2>3. IsNewRow(t)
    BY <1>1, <2>1, InputsAssumption DEF CreateInvoice, Absent
  <2> QED
    BY <1>2, <2>2, <2>3, BeginHistory
<1>4. CASE \E u \in Users, i \in Invoices, issued \in Days, due \in DueDates, a \in Amounts,
              ref \in References : CreateSupplierInvoice(r, u, i, issued, due, a, ref)
  <2>1. PICK u \in Users, i \in Invoices, issued \in Days, due \in DueDates, a \in Amounts,
            ref \in References : CreateSupplierInvoice(r, u, i, issued, due, a, ref)
    BY <1>4
  <2> DEFINE row == [Absent EXCEPT !.direction = "INCOMING", !.statut = "ENVOYEE", !.issued = issued,
                                   !.due = due, !.amount = a, !.by = u, !.ref = ref]
             t == [op |-> "bill", pc |-> "allocate", seen |-> Absent, want |-> row]
  <2>2. Begin(r, "bill", u, i, Absent, row, Blank, "allocate")
    BY <2>1 DEF CreateSupplierInvoice
  <2>3. IsNewRow(t)
    BY <1>1, <2>1, InputsAssumption DEF CreateSupplierInvoice, Absent
  <2> QED
    BY <1>2, <2>2, <2>3, BeginHistory
<1>5. CASE \E u \in Users, i \in Invoices, p \in ProcessingMoves : SetProcessingStatus(r, u, i, p)
  <2>1. PICK u \in Users, i \in Invoices, p \in ProcessingMoves : SetProcessingStatus(r, u, i, p)
    BY <1>5
  <2> DEFINE row == [invoices[i] EXCEPT !.processing = p]
             t == [op |-> "processing", pc |-> "flush", seen |-> invoices[i], want |-> row]
  <2>2. Begin(r, "processing", u, i, invoices[i], row, Blank, "flush")
    BY <2>1 DEF SetProcessingStatus
  <2>3. SetsItsColumns(t)
    BY <1>1, <2>1 DEF SetProcessingStatus, Row
  <2> QED
    BY <1>2, <2>2, <2>3, BeginHistory
<1>6. CASE \E u \in Users, i \in Invoices, due \in DueDates, c \in Contents :
             UpdateInvoice(r, u, i, due, c)
  <2>1. PICK u \in Users, i \in Invoices, due \in DueDates, c \in Contents :
           UpdateInvoice(r, u, i, due, c)
    BY <1>6
  <2> DEFINE row == [invoices[i] EXCEPT !.due = due, !.amount = AmountOf[c]]
             t == [op |-> "edit", pc |-> "load", seen |-> invoices[i], want |-> row]
  <2>2. Begin(r, "edit", u, i, invoices[i], row, c, "load")
    BY <2>1 DEF UpdateInvoice
  <2>3. SetsItsColumns(t)
    BY <1>1, <2>1, InputsAssumption DEF UpdateInvoice, Row
  <2> QED
    BY <1>2, <2>2, <2>3, BeginHistory
<1>7. CASE \E u \in Users, i \in Invoices : SubmitInvoice(r, u, i)
  <2>1. PICK u \in Users, i \in Invoices : SubmitInvoice(r, u, i)
    BY <1>7
  <2> DEFINE row == [invoices[i] EXCEPT !.review = "SUBMITTED"]
             t == [op |-> "submit", pc |-> "flush", seen |-> invoices[i], want |-> row]
  <2>2. Begin(r, "submit", u, i, invoices[i], row, Blank, "flush")
    BY <2>1 DEF SubmitInvoice
  <2>3. SetsItsColumns(t)
    BY <1>1, <2>1 DEF SubmitInvoice, Row
  <2> QED
    BY <1>2, <2>2, <2>3, BeginHistory
<1>8. CASE \E u \in Users, i \in Invoices : RejectInvoice(r, u, i)
  <2>1. PICK u \in Users, i \in Invoices : RejectInvoice(r, u, i)
    BY <1>8
  <2> DEFINE row == [invoices[i] EXCEPT !.review = "REJECTED"]
             t == [op |-> "reject", pc |-> "flush", seen |-> invoices[i], want |-> row]
  <2>2. Begin(r, "reject", u, i, invoices[i], row, Blank, "flush")
    BY <2>1 DEF RejectInvoice, AwaitingReview
  <2>3. SetsItsColumns(t)
    BY <1>1, <2>1 DEF RejectInvoice, Row, AwaitingReview
  <2> QED
    BY <1>2, <2>2, <2>3, BeginHistory
<1>9. CASE \E u \in Users, i \in Invoices : SendInvoice(r, u, i)
  <2>1. PICK u \in Users, i \in Invoices : SendInvoice(r, u, i)
    BY <1>9
  <2> DEFINE row == [invoices[i] EXCEPT !.statut = "ENVOYEE"]
             t == [op |-> "send", pc |-> "flush", seen |-> invoices[i], want |-> row]
  <2>2. Begin(r, "send", u, i, invoices[i], row, Blank, "flush")
    BY <2>1 DEF SendInvoice
  <2>3. SetsItsColumns(t)
    BY <1>1, <2>1 DEF SendInvoice, Row
  <2> QED
    BY <1>2, <2>2, <2>3, BeginHistory
<1>10. CASE \E u \in Users, i \in Invoices, day \in Days : PayInvoice(r, u, i, day)
  <2>1. PICK u \in Users, i \in Invoices, day \in Days : PayInvoice(r, u, i, day)
    BY <1>10
  <2> DEFINE row == [invoices[i] EXCEPT !.statut = "PAYEE", !.paid = day]
             t == [op |-> "pay", pc |-> "flush", seen |-> invoices[i], want |-> row]
  <2>2. Begin(r, "pay", u, i, invoices[i], row, Blank, "flush")
    BY <2>1 DEF PayInvoice
  <2>3. SetsItsColumns(t)
    BY <1>1, <2>1 DEF PayInvoice, Row
  <2> QED
    BY <1>2, <2>2, <2>3, BeginHistory
<1>11. CASE \E u \in Users, i \in Invoices : CancelInvoice(r, u, i)
  <2>1. PICK u \in Users, i \in Invoices : CancelInvoice(r, u, i)
    BY <1>11
  <2> DEFINE row == [invoices[i] EXCEPT !.statut = "ANNULEE"]
             t == [op |-> "cancel", pc |-> "flush", seen |-> invoices[i], want |-> row]
  <2>2. Begin(r, "cancel", u, i, invoices[i], row, Blank, "flush")
    BY <2>1 DEF CancelInvoice
  <2>3. SetsItsColumns(t)
    BY <1>1, <2>1 DEF CancelInvoice, Row
  <2> QED
    BY <1>2, <2>2, <2>3, BeginHistory
<1>12. CASE \E u \in Users, i \in Invoices : ApproveInvoice(r, u, i)
  <2>1. PICK u \in Users, i \in Invoices : ApproveInvoice(r, u, i)
    BY <1>12
  <2> DEFINE row == [invoices[i] EXCEPT !.review = "APPROVED", !.issued = today]
             t == [op |-> "approve", pc |-> "allocate", seen |-> invoices[i], want |-> row]
  <2>2. ~ Numbered(invoices[i])
    BY <1>1, <2>1 DEF ApproveInvoice, AwaitingReview, RowInv, Exists
  <2>3. Begin(r, "approve", u, i, invoices[i], row, Blank, "allocate")
    BY <2>1, <2>2 DEF ApproveInvoice
  <2>4. SetsItsColumns(t)
    BY <1>1, <2>1 DEF ApproveInvoice, AwaitingReview, Row
  <2> QED
    BY <1>2, <2>3, <2>4, BeginHistory
<1> QED
  BY <1>3, <1>4, <1>5, <1>6, <1>7, <1>8, <1>9, <1>10, <1>11, <1>12 DEF Handlers

\* A transaction that ends without effect.
LEMMA RollbackHistory ==
    ASSUME HistoryInv, NEW r \in Requests, Rollback(r)
    PROVE  HistoryInv'
<1>1. GaplessInv /\ TypeOK
  BY DEF HistoryInv, GaplessInv
<1>2. txn'[r] = Idle /\ \A q \in Requests \ {r} : txn'[q] = txn[q]
  BY <1>1 DEF Rollback, TypeOK
<1>3. RequestInv(r)'
  BY <1>2 DEF RequestInv, Idle
<1> QED
  BY <1>1, <1>2, <1>3, RollbackInv, QuietStep DEF Rollback

\* A session that moves on with the same columns, or with a number it has
\* just taken.
LEMMA AllocateHistory ==
    ASSUME HistoryInv, NEW r \in Requests, Allocate(r)
    PROVE  HistoryInv'
<1> DEFINE t == txn[r]
           s == t.want.direction
           y == YearOf[t.want.issued]
           next == [year |-> y, n |-> counter[s][y] + 1]
           row == [t.want EXCEPT !.numero = next]
           new == [t EXCEPT !.pc = "flush", !.want = row]
<1>1. GaplessInv /\ TypeOK /\ RequestInv(r)
  BY DEF HistoryInv, GaplessInv
<1>2. t.pc = "allocate" /\ t \in Transaction /\ t.want \in Row
  BY <1>1 DEF Allocate, TypeOK, Transaction
<1>3. HoldsNextNumber(r)
  BY <1>1, <1>2 DEF GaplessInv, SessionInv
<1>4. next # NoNumber /\ t.seen.numero = NoNumber
  <2>1. y \in Nat \ {0}
    BY <1>2, <1>3, YearsFacts DEF HoldsNextNumber
  <2> QED
    BY <1>2, <1>3, <2>1 DEF HoldsNextNumber, NoNumber
<1>5. /\ row.numero = next /\ row.direction = t.want.direction /\ row.statut = t.want.statut
      /\ row.review = t.want.review /\ row.due = t.want.due /\ row.amount = t.want.amount
      /\ row.issued = t.want.issued
  BY <1>2 DEF Row
<1>6. new.pc = "flush" /\ new.op = t.op /\ new.seen = t.seen /\ new.want = row
  BY <1>2 DEF Transaction
<1>7. txn' = [txn EXCEPT ![r] = new] /\ UNCHANGED <<invoices, reviews, today>>
  BY DEF Allocate, database
<1>8. txn'[r] = new /\ \A q \in Requests \ {r} : txn'[q] = txn[q]
  BY <1>1, <1>7 DEF TypeOK
<1> HIDE DEF next, row, new
<1>9. RequestInv(r)'
  <2>1. t.op \in {"approve", "bill"}
    BY <1>1, <1>2 DEF RequestInv, SetsItsColumns, IsNewRow, Inserts
  <2>2. TakesNumber(new)
    BY <1>4, <1>5, <1>6 DEF TakesNumber
  <2>3. txn'[r].pc # "commit" /\ (Inserts(txn'[r]) <=> Inserts(t))
    BY <1>6, <1>8 DEF Inserts
  <2>4. CASE t.op = "bill"
    <3>1. IsNewRow(new)
      BY <1>1, <1>2, <1>5, <1>6, <2>2, <2>4 DEF RequestInv, Inserts, IsNewRow
    <3> QED
      BY <1>8, <2>3, <2>4, <3>1 DEF RequestInv, Inserts
  <2>5. CASE t.op = "approve"
    <3>1. SetsItsColumns(new)
      BY <1>1, <1>2, <1>5, <1>6, <2>2, <2>5 DEF RequestInv, Inserts, SetsItsColumns, Reviews, MovesStatut
    <3> QED
      BY <1>8, <2>3, <2>5, <3>1 DEF RequestInv, Inserts
  <2> QED
    BY <2>1, <2>4, <2>5
<1> QED
  BY <1>1, <1>7, <1>8, <1>9, AllocateInv, QuietStep

\* Loading or deleting lines changes no column.
LEMMA LinesHistory ==
    ASSUME HistoryInv, NEW r \in Requests, LoadLines(r) \/ DeleteLines(r)
    PROVE  HistoryInv'
<1>1. GaplessInv /\ TypeOK /\ RequestInv(r) /\ txn[r] \in Transaction
  BY DEF HistoryInv, GaplessInv, TypeOK
<1>2. UNCHANGED <<invoices, reviews, today>>
  BY DEF LoadLines, DeleteLines, database
<1>3. txn[r].pc \in {"load", "delete"}
  BY DEF LoadLines, DeleteLines
<1>4. /\ txn'[r].pc \in {"delete", "flush"}
      /\ txn'[r].op = txn[r].op /\ txn'[r].seen = txn[r].seen /\ txn'[r].want = txn[r].want
      /\ \A q \in Requests \ {r} : txn'[q] = txn[q]
  <2>1. PICK pc \in {"delete", "flush"}, ids \in {Ids(txn[r].inv), txn[r].loaded} :
           txn' = [txn EXCEPT ![r] = [txn[r] EXCEPT !.pc = pc, !.loaded = ids]]
    <3>1. CASE LoadLines(r)
      BY <3>1 DEF LoadLines
    <3>2. CASE DeleteLines(r)
      <4>1. [txn[r] EXCEPT !.pc = "flush"] = [txn[r] EXCEPT !.pc = "flush", !.loaded = txn[r].loaded]
        BY <1>1 DEF Transaction
      <4> QED
        BY <3>2, <4>1 DEF DeleteLines
    <3> QED
      BY <3>1, <3>2
  <2> QED
    BY <1>1, <2>1 DEF TypeOK, Transaction
<1>5. RequestInv(r)'
  BY <1>1, <1>3, <1>4
     DEF RequestInv, Inserts, IsNewRow, SetsItsColumns, Reviews, MovesStatut, TakesNumber
<1> QED
  BY <1>1, <1>2, <1>4, <1>5, LoadLinesInv, DeleteLinesInv, QuietStep

\* A flush that passes the triggers leaves what they verified.
LEMMA FlushHistory ==
    ASSUME HistoryInv, NEW r \in Requests, Flush(r)
    PROVE  HistoryInv'
<1> DEFINE t == txn[r]
           old == invoices[t.inv]
<1>1. GaplessInv /\ TypeOK /\ RequestInv(r) /\ t \in Transaction
  BY DEF HistoryInv, GaplessInv, TypeOK
<1>2. t.pc = "flush" /\ FlushPasses(t) /\ UNCHANGED <<invoices, reviews, today>>
  BY DEF Flush
<1>3. /\ txn'[r].pc = "commit" /\ txn'[r].inv = t.inv /\ txn'[r].by = t.by
      /\ txn'[r].op = t.op /\ txn'[r].seen = t.seen /\ txn'[r].want = t.want
      /\ \A q \in Requests \ {r} : txn'[q] = txn[q]
  BY <1>1, <1>2 DEF Flush, TypeOK, Transaction
<1>4. AboutOneInvoice(r) /\ old \in Row
  BY <1>1, <1>2 DEF GaplessInv, SessionInv, AboutOneInvoice, TypeOK
<1>5. StillAllowed(t)
  <2>1. CASE Inserts(t)
    <3>1. After(t) = t.want /\ InsertAllowed(invoices, periods, t.want)
      BY <1>2, <2>1 DEF After, FlushPasses
    <3> QED
      BY <2>1, <3>1 DEF StillAllowed, InsertAllowed, Inserts
  <2>2. CASE ~ Inserts(t) /\ ~ Dirty(t)
    <3>1. After(t) = old /\ ~ TakesNumber(t)
      BY <1>4, <2>2, CleanAfter
    <3> QED
      BY <1>2, <2>2, <3>1, RowMayStay DEF StillAllowed, FlushPasses
  <2>3. CASE ~ Inserts(t) /\ Dirty(t)
    <3>1. After(t) = Written(t.seen, t.want, old) /\ After(t).by = old.by
      BY <2>3 DEF After, Written
    <3>2. UpdateAllowed(invoices, periods, today, t.seen, t.want, old)
      BY <1>2, <2>3 DEF FlushPasses
    <3> QED
      BY <1>2, <2>3, <3>1, <3>2 DEF StillAllowed, FlushPasses, UpdateAllowed, TakesNumber
  <2> QED
    BY <2>1, <2>2, <2>3
<1>6. RequestInv(r)'
  <2>1. StillAllowed(txn[r])'
    BY <1>2, <1>3, <1>5 DEF StillAllowed, After, Inserts, TakesNumber
  <2> QED
    BY <1>1, <1>2, <1>3, <2>1
       DEF RequestInv, Inserts, IsNewRow, SetsItsColumns, Reviews, MovesStatut, TakesNumber
<1> QED
  BY <1>1, <1>2, <1>3, <1>6, FlushInv, QuietStep

-----------------------------------------------------------------------------
(***************************************************************************)
(* What a commit changes.                                                  *)
(***************************************************************************)

\* The numbers in a row are natural numbers.
LEMMA RowNumbers ==
    ASSUME NEW row \in Row
    PROVE  row.numero.n \in Nat /\ row.issued \in Nat
<1>1. row.numero \in Numbers /\ row.issued \in Days \cup {0}
  BY DEF Row
<1>2. row.numero.n \in Nat
  BY <1>1 DEF Numbers
<1>3. row.issued \in Nat
  BY <1>1, BoundsAssumption DEF Days
<1> QED
  BY <1>2, <1>3

\* The columns of an existing row after a commit, by operation.
LEMMA CommitColumns ==
    ASSUME HistoryInv, NEW r \in Requests, txn[r].pc = "commit", ~ Inserts(txn[r])
    PROVE  LET t == txn[r]
               old == invoices[t.inv]
               new == After(t)
           IN  /\ new.by = old.by /\ new.direction = old.direction
               /\ ~ Dirty(t) => new = old
               /\ new.due \in Days
               /\ t.op # "edit" => new.due = old.due /\ new.amount = old.amount
               /\ IF Reviews(t) THEN new.review = t.want.review ELSE new.review = old.review
               /\ t.op = "edit" \/ Reviews(t) => old.direction = "OUTGOING"
               /\ Reviews(t) => old.review # "APPROVED"
               /\ IF MovesStatut(t)
                  THEN new.statut \in {old.statut, "ENVOYEE", "PAYEE", "ANNULEE"}
                  ELSE new.statut = old.statut
               /\ IF t.op = "approve"
                  THEN TakesNumber(t) /\ new.review = "APPROVED"
                  ELSE ~ TakesNumber(t) /\ new.issued = old.issued
               /\ Reviews(t) /\ new.review = "APPROVED" => t.op = "approve"
               /\ StillAllowed(t)
<1> DEFINE t == txn[r]
           old == invoices[t.inv]
           new == After(t)
<1>1. /\ AboutOneInvoice(r) /\ HoldsNextNumber(r) /\ HoldsItsRow(r)
      /\ SetsItsColumns(t) /\ StillAllowed(t) /\ TypeOK
  BY DEF HistoryInv, GaplessInv, SessionInv, RequestInv
<1>2. old \in Row /\ Exists(old) /\ RowInv(t.inv) /\ t.want.direction = old.direction
  BY <1>1 DEF AboutOneInvoice, TypeOK, HistoryInv
<1>3. new = Written(t.seen, t.want, old)
  BY DEF After
<1>4. /\ new.by = old.by /\ new.direction = old.direction
      /\ new.due \in Days
      /\ t.op # "edit" => new.due = old.due /\ new.amount = old.amount
      /\ IF Reviews(t) THEN new.review = t.want.review ELSE new.review = old.review
      /\ IF MovesStatut(t)
         THEN new.statut \in {old.statut, "ENVOYEE", "PAYEE", "ANNULEE"}
         ELSE new.statut = old.statut
      /\ t.op # "approve" => new.issued = old.issued
  BY <1>1, <1>2, <1>3 DEF Written, Column, SetsItsColumns, RowInv, MovesStatut, Reviews
<1>5. ~ Dirty(t) => new = old
  BY <1>2, CleanAfter
<1>6. t.op = "edit" \/ Reviews(t) => old.direction = "OUTGOING"
  BY <1>1, <1>2 DEF SetsItsColumns
<1>7. IF t.op = "approve" THEN TakesNumber(t) /\ new.review = "APPROVED" ELSE ~ TakesNumber(t)
  BY <1>1, <1>4 DEF SetsItsColumns, Reviews
<1>8. Reviews(t) /\ new.review = "APPROVED" => t.op = "approve"
  BY <1>1, <1>4 DEF SetsItsColumns
<1>9. Reviews(t) => old.review # "APPROVED"
  <2> SUFFICES ASSUME Reviews(t), old.review = "APPROVED" PROVE FALSE
    OBVIOUS
  <2>1. Numbered(old) /\ ReviewRules(old, new) /\ new.direction = "OUTGOING"
    BY <1>1, <1>2, <1>4, <1>6 DEF RowInv, StillAllowed
  <2>2. new.review = "APPROVED"
    BY <2>1 DEF ReviewRules
  <2>3. TakesNumber(t) /\ Dirty(t)
    BY <1>7, <1>8, <2>2 DEF TakesNumber, Dirty
  <2> QED
    BY <1>1, <2>1, <2>3 DEF HoldsItsRow
<1> QED
  BY <1>1, <1>4, <1>5, <1>6, <1>7, <1>8, <1>9

\* The tables after a commit.
LEMMA CommitTables ==
    ASSUME HistoryInv, NEW r \in Requests, Commit(r)
    PROVE  LET t == txn[r]
           IN  /\ t.pc = "commit" /\ t.inv \in Invoices /\ t.by \in Users
               /\ invoices'[t.inv] = After(t)
               /\ \A j \in Invoices \ {t.inv} : invoices'[j] = invoices[j] /\ reviews'[j] = reviews[j]
               /\ reviews'[t.inv] =
                     IF Reviews(t)
                     THEN Append(reviews[t.inv], [action |-> t.want.review, actor |-> t.by])
                     ELSE reviews[t.inv]
               /\ txn'[r] = Idle
               /\ \A q \in Requests \ {r} : txn'[q] = txn[q]
               /\ today' = today
<1>1. TypeOK /\ GaplessInv
  BY DEF HistoryInv, GaplessInv
<1>2. txn[r].pc = "commit"
  BY DEF Commit
<1>3. txn[r].inv \in Invoices /\ txn[r].by \in Users
  BY <1>1, <1>2 DEF GaplessInv, SessionInv, AboutOneInvoice
<1> QED
  BY <1>1, <1>2, <1>3 DEF Commit, TypeOK, ReviewActionOf

\* A commit keeps the numbers in the order of the dates.
LEMMA CommitDates ==
    ASSUME HistoryInv, NEW r \in Requests, Commit(r)
    PROVE  NumbersFollowDates'
<1> DEFINE t == txn[r]
           i == t.inv
           old == invoices[i]
           new == After(t)
<1>1. /\ t.pc = "commit" /\ i \in Invoices /\ invoices'[i] = new
      /\ \A j \in Invoices \ {i} : invoices'[j] = invoices[j]
  BY CommitTables
<1>2. NumbersFollowDates /\ GaplessInv /\ TypeOK /\ DOMAIN invoices = Invoices
  BY DEF HistoryInv, GaplessInv, TypeOK
<1>3. /\ ~ TakesNumber(t) => new.numero = old.numero
      /\ Inserts(t) => ~ Numbered(old)
      /\ TakesNumber(t) => new.numero = t.want.numero
  BY <1>1, <1>2, CommittedRow
<1>4. TakesNumber(t) => NumberFollowsDate(invoices, new)
  BY <1>1 DEF HistoryInv, RequestInv, StillAllowed
<1>5. \A j \in Invoices : invoices[j].numero.n \in Nat /\ invoices[j].issued \in Nat
  <2>1. \A j \in Invoices : invoices[j] \in Row
    BY <1>2 DEF TypeOK
  <2> QED
    BY <2>1, RowNumbers
<1>6. ~ TakesNumber(t) /\ ~ Inserts(t) => new.issued = old.issued /\ new.direction = old.direction
  BY <1>1, CommitColumns
<1>7. new.numero.n \in Nat /\ new.issued \in Nat
  <2>1. new \in Row
    BY <1>1, <1>2, CommittedRow
  <2> QED
    BY <2>1, RowNumbers
<1> HIDE DEF t, i, new, old
<1>8. CASE TakesNumber(t)
  BY <1>1, <1>2, <1>4, <1>5, <1>7, <1>8 DEF NumbersFollowDates, NumberedRows, NumberFollowsDate, Ordered, Numbered
<1>9. CASE ~ TakesNumber(t)
  BY <1>1, <1>2, <1>3, <1>6, <1>9 DEF NumbersFollowDates, NumberedRows, Numbered, old
<1> QED
  BY <1>8, <1>9

\* A commit records the decision it takes.
LEMMA CommitReviews ==
    ASSUME HistoryInv, NEW r \in Requests, Commit(r)
    PROVE  HistoryExplainsStatus' /\ \A i \in Invoices : ApprovalsEnd(i)'
<1>inv. PICK i \in Invoices : i = txn[r].inv
  BY CommitTables
<1> DEFINE t == txn[r]
           old == invoices[i]
           new == After(t)
           entry == [action |-> t.want.review, actor |-> t.by]
           Entries == [action : ReviewActions, actor : Users]
<1>1. /\ t.pc = "commit" /\ i = t.inv /\ invoices'[i] = new
      /\ \A j \in Invoices \ {i} : invoices'[j] = invoices[j] /\ reviews'[j] = reviews[j]
      /\ reviews'[i] = IF Reviews(t) THEN Append(reviews[i], entry) ELSE reviews[i]
  BY <1>inv, CommitTables
<1>2. HistoryExplainsStatus /\ ApprovalsEnd(i) /\ TypeOK /\ AbsentIsBlank /\ AboutOneInvoice(r)
  BY <1>1 DEF HistoryInv, GaplessInv, SessionInv
<1>3. /\ reviews[i] \in Seq(Entries)
      /\ reviews[i] # <<>> => reviews[i][Len(reviews[i])].action \in ReviewActions
  <2>1. reviews[i] \in Seq(Entries)
    BY <1>1, <1>2 DEF TypeOK
  <2>2. \A e \in Entries : e.action \in ReviewActions
    OBVIOUS
  <2> HIDE DEF Entries
  <2> QED
    BY <2>1, <2>2
<1> HIDE DEF Entries
<1>4. \A j \in Invoices \ {i} :
        /\ IF reviews'[j] = <<>> THEN invoices'[j].review = "NOT_SUBMITTED"
           ELSE invoices'[j].review = reviews'[j][Len(reviews'[j])].action
        /\ ApprovalsEnd(j)'
  BY <1>1, <1>2 DEF HistoryExplainsStatus, ApprovalsEnd, HistoryInv
<1>5. CASE Inserts(t)
  <2>1. ~ Reviews(t) /\ new = t.want /\ new.review = "NOT_SUBMITTED" /\ old = Absent
    BY <1>1, <1>2, <1>5 DEF Inserts, Reviews, After, AboutOneInvoice, AbsentIsBlank, HistoryInv, RequestInv, IsNewRow
  <2>2. old.review = "NOT_SUBMITTED"
    BY <2>1 DEF Absent
  <2>3. reviews[i] = <<>>
    <3>1. SUFFICES ASSUME reviews[i] # <<>> PROVE FALSE
      OBVIOUS
    <3> QED
      BY <1>1, <1>2, <1>3, <2>2, <3>1 DEF HistoryExplainsStatus, ReviewActions
  <2> QED
    BY <1>1, <1>4, <2>1, <2>3 DEF HistoryExplainsStatus, ApprovalsEnd
<1>6. CASE ~ Inserts(t)
  <2>1. /\ new.by = old.by
        /\ IF Reviews(t) THEN new.review = t.want.review ELSE new.review = old.review
        /\ Reviews(t) => old.review # "APPROVED"
        /\ Reviews(t) /\ new.review = "APPROVED" => t.op = "approve"
        /\ StillAllowed(t)
    BY <1>1, <1>6, CommitColumns
  <2>2. CASE ~ Reviews(t)
    BY <1>1, <1>2, <1>4, <2>1, <2>2 DEF HistoryExplainsStatus, ApprovalsEnd
  <2>3. CASE Reviews(t)
    <3>1. /\ reviews'[i] # <<>> /\ Len(reviews'[i]) = Len(reviews[i]) + 1
          /\ reviews'[i][Len(reviews'[i])] = entry
          /\ DOMAIN reviews'[i] = DOMAIN reviews[i] \cup {Len(reviews'[i])}
          /\ \A k \in DOMAIN reviews[i] : reviews'[i][k] = reviews[i][k]
      BY <1>1, <1>3, <2>3
    <3>2. \A k \in DOMAIN reviews[i] : reviews[i][k].action # "APPROVED"
      <4> SUFFICES ASSUME NEW k \in DOMAIN reviews[i], reviews[i][k].action = "APPROVED" PROVE FALSE
        OBVIOUS
      <4>1. k = Len(reviews[i]) /\ reviews[i] # <<>>
        BY <1>2, <1>3 DEF ApprovalsEnd
      <4> QED
        BY <1>1, <1>2, <2>1, <2>3, <4>1 DEF HistoryExplainsStatus
    <3>3. entry.action = "APPROVED" => entry.actor # new.by
      BY <1>1, <2>1, <2>3 DEF StillAllowed
    <3>4. ApprovalsEnd(i)'
      <4> SUFFICES ASSUME NEW k \in DOMAIN reviews'[i], reviews'[i][k].action = "APPROVED"
                   PROVE  k = Len(reviews'[i]) /\ reviews'[i][k].actor # invoices'[i].by
        BY DEF ApprovalsEnd
      <4>1. k = Len(reviews'[i])
        BY <3>1, <3>2
      <4> QED
        BY <1>1, <3>1, <3>3, <4>1
    <3>5. invoices'[i].review = reviews'[i][Len(reviews'[i])].action
      BY <1>1, <2>1, <2>3, <3>1
    <3> HIDE DEF t, old, new, entry
    <3> QED
      BY <1>4, <3>1, <3>4, <3>5 DEF HistoryExplainsStatus
  <2> QED
    BY <2>2, <2>3
<1> QED
  BY <1>5, <1>6

\* A commit keeps the rows' own invariant.
LEMMA CommitRows ==
    ASSUME HistoryInv, NEW r \in Requests, Commit(r), NEW j \in Invoices
    PROVE  RowInv(j)'
<1>inv. PICK i \in Invoices : i = txn[r].inv
  BY CommitTables
<1> DEFINE t == txn[r]
           old == invoices[i]
           new == After(t)
<1>1. /\ t.pc = "commit" /\ i = t.inv /\ invoices'[i] = new
      /\ \A k \in Invoices \ {i} : invoices'[k] = invoices[k]
  BY <1>inv, CommitTables
<1>2. GaplessInv /\ RequestInv(r) /\ RowInv(i) /\ RowInv(j) /\ AboutOneInvoice(r)
  BY <1>1 DEF HistoryInv, GaplessInv, SessionInv
<1>3. CASE j # i
  BY <1>1, <1>2, <1>3 DEF RowInv, Numbered, Exists
<1>4. CASE j = i /\ Inserts(t)
  <2>1. new = t.want /\ IsNewRow(t) /\ t.seen = Absent
    BY <1>1, <1>2, <1>4 DEF After, RequestInv, AboutOneInvoice
  <2>2. t.want.numero = NoNumber \/ TakesNumber(t)
    BY <2>1, AbsentFacts DEF TakesNumber
  <2> QED
    BY <1>1, <1>4, <2>1, <2>2 DEF RowInv, IsNewRow, Numbered, Exists, Inserts
<1>5. CASE j = i /\ ~ Inserts(t)
  <2>1. /\ new.direction = old.direction /\ new.due \in Days
        /\ IF Reviews(t) THEN new.review = t.want.review ELSE new.review = old.review
        /\ Reviews(t) => old.direction = "OUTGOING" /\ old.review # "APPROVED"
        /\ IF MovesStatut(t)
           THEN new.statut \in {old.statut, "ENVOYEE", "PAYEE", "ANNULEE"}
           ELSE new.statut = old.statut
        /\ IF t.op = "approve" THEN TakesNumber(t) /\ new.review = "APPROVED" ELSE ~ TakesNumber(t)
        /\ Reviews(t) /\ new.review = "APPROVED" => t.op = "approve"
    BY <1>1, <1>5, CommitColumns
  <2>2. Exists(old) /\ RowInv(i)
    BY <1>1, <1>2, <1>5 DEF AboutOneInvoice
  <2>3. /\ TakesNumber(t) => new.numero = t.want.numero
        /\ ~ TakesNumber(t) => new.numero = old.numero
    BY <1>1, <1>2, CommittedRow
  <2>4. TakesNumber(t) => new.numero # NoNumber
    <3>1. HoldsNextNumber(r)
      BY <1>1, <1>2 DEF GaplessInv, SessionInv
    <3> QED
      BY <2>3, <3>1, YearsFacts DEF HoldsNextNumber, NoNumber
  <2>5. Reviews(t) /\ t.op # "approve" => new.review # "APPROVED"
    BY <2>1
  <2>6. t.op = "approve" => Reviews(t)
    BY DEF Reviews
  <2> HIDE DEF t, new, old
  <2>7. new.direction = "OUTGOING" => (Numbered(new) <=> new.review = "APPROVED")
    BY <2>1, <2>2, <2>3, <2>4, <2>5, <2>6 DEF RowInv, Numbered, old
  <2>8. new.direction = "INCOMING" => new.statut # "BROUILLON"
    BY <2>1, <2>2 DEF RowInv, old
  <2> QED
    BY <1>1, <1>5, <2>1, <2>7, <2>8 DEF RowInv
<1> QED
  BY <1>3, <1>4, <1>5

\* A commit leaves alone what the triggers verified for another session: its
\* row is locked, and the number it takes is in another series.
LEMMA CommitOthersHistory ==
    ASSUME HistoryInv, NEW r \in Requests, Commit(r), NEW q \in Requests \ {r},
           txn[q].pc = "commit"
    PROVE  StillAllowed(txn[q])'
<1>inv. PICK i \in Invoices : i = txn[r].inv
  BY CommitTables
<1> DEFINE t == txn[r]
           u == txn[q]
           new == After(t)
<1>1. /\ t.pc = "commit" /\ i = t.inv /\ invoices'[i] = new
      /\ \A j \in Invoices \ {i} : invoices'[j] = invoices[j]
      /\ txn'[q] = u /\ today' = today
  BY <1>inv, CommitTables
<1>2. /\ GaplessInv /\ TypeOK /\ OneHolder
      /\ AboutOneInvoice(r) /\ AboutOneInvoice(q)
      /\ HoldsItsRow(r) /\ HoldsItsRow(q)
      /\ StillAllowed(u) /\ RequestInv(q)
  BY <1>1 DEF HistoryInv, GaplessInv, SessionInv, RequestInv
<1>3. DOMAIN invoices = Invoices /\ DOMAIN invoices' = Invoices
  BY <1>2 DEF TypeOK, Commit
<1>4. u.inv \in Invoices
  BY <1>2 DEF AboutOneInvoice
<1>5. CASE u.inv = i
  <2>1. ~ Inserts(u) /\ ~ Inserts(t)
    BY <1>1, <1>2, <1>5 DEF AboutOneInvoice
  <2>2. new.by = invoices[i].by /\ new \in Row /\ (~ Dirty(t) => new = invoices[i])
    BY <1>1, <1>2, <2>1, CommitColumns, CommittedRow
  <2>3. CASE Dirty(t)
    <3>1. ~ Dirty(u)
      BY <1>1, <1>2, <1>5, <2>3 DEF HoldsItsRow
    <3>2. After(u)' = invoices'[i] /\ ~ TakesNumber(u)
      BY <1>1, <1>5, <2>1, <2>2, <3>1, WrittenSame DEF After, Dirty, TakesNumber, Inserts
    <3> QED
      BY <1>1, <1>2, <1>5, <2>1, <2>2, <3>2, RowMayStay DEF StillAllowed, TakesNumber, Inserts
  <2>4. CASE ~ Dirty(t)
    <3>1. invoices' = invoices
      BY <1>1, <1>2, <2>2, <2>4 DEF Commit, TypeOK
    <3> QED
      BY <1>1, <1>2, <3>1 DEF StillAllowed, TakesNumber, Inserts, After
  <2> QED
    BY <2>3, <2>4
<1>6. CASE u.inv # i
  <2>1. invoices'[u.inv] = invoices[u.inv]
    BY <1>1, <1>4, <1>6
  <2>2. After(u)' = After(u)
    BY <1>1, <2>1 DEF After, Inserts
  <2>3. TakesNumber(u) => NumberFollowsDate(invoices', After(u))
    <3> SUFFICES ASSUME TakesNumber(u), After(u).direction = "OUTGOING", Numbered(After(u)),
                        new.direction = "OUTGOING", Numbered(new),
                        new.numero.year = After(u).numero.year
                 PROVE  Ordered(After(u), new)
      BY <1>1, <1>2, <1>3 DEF StillAllowed, NumberFollowsDate
    <3>1. /\ After(u).direction = u.want.direction /\ After(u).numero = u.want.numero
          /\ new.direction = t.want.direction
          /\ TakesNumber(t) => new.numero = t.want.numero
          /\ ~ TakesNumber(t) => new.numero = invoices[i].numero
          /\ Inserts(t) => ~ Numbered(invoices[i])
      BY <1>1, <1>2, CommittedRow
    <3>2. ~ TakesNumber(t)
      BY <1>2, <3>1 DEF OneHolder
    <3>3. ~ Inserts(t)
      BY <3>1, <3>2 DEF Numbered
    <3>4. new.issued = invoices[i].issued /\ invoices[i].direction = "OUTGOING"
      BY <1>1, <3>2, <3>3, CommitColumns
    <3>5. Numbered(invoices[i]) /\ invoices[i].numero = new.numero
      BY <3>1, <3>2 DEF Numbered
    <3>6. Ordered(After(u), invoices[i])
      <4>1. NumberFollowsDate(invoices, After(u))
        BY <1>2 DEF StillAllowed
      <4> QED
        BY <1>3, <3>4, <3>5, <4>1 DEF NumberFollowsDate
    <3> QED
      BY <3>4, <3>5, <3>6 DEF Ordered
  <2> QED
    BY <1>1, <1>2, <2>1, <2>2, <2>3 DEF StillAllowed, Inserts, TakesNumber
<1> QED
  BY <1>5, <1>6

\* A commit keeps the invariant.
LEMMA CommitHistory ==
    ASSUME HistoryInv, NEW r \in Requests, Commit(r)
    PROVE  HistoryInv'
<1>1. GaplessInv /\ GaplessInv'
  BY CommitInv DEF HistoryInv
<1>2. txn'[r] = Idle /\ \A q \in Requests \ {r} : txn'[q] = txn[q]
  BY CommitTables
<1>3. RequestInv(r)'
  BY <1>2 DEF RequestInv, Idle
<1>4. ASSUME NEW q \in Requests \ {r} PROVE RequestInv(q)'
  <2>1. RequestInv(q) /\ txn'[q] = txn[q]
    BY <1>2 DEF HistoryInv
  <2>2. txn[q].pc = "commit" => StillAllowed(txn[q])'
    BY CommitOthersHistory
  <2> QED
    BY <2>1, <2>2
       DEF RequestInv, Inserts, IsNewRow, SetsItsColumns, Reviews, MovesStatut, TakesNumber
<1> QED
  BY <1>1, <1>3, <1>4, CommitDates, CommitReviews, CommitRows DEF HistoryInv

\* The calendar moves on: a payment date that had passed still has.
LEMMA MidnightHistory ==
    ASSUME HistoryInv, Midnight
    PROVE  HistoryInv'
<1>1. UNCHANGED <<invoices, reviews, txn>> /\ today' = today + 1
  BY DEF Midnight, database
<1>2. GaplessInv /\ GaplessInv' /\ TypeOK
  BY MidnightInv DEF HistoryInv, GaplessInv
<1>3. NumbersFollowDates' /\ HistoryExplainsStatus' /\ \A i \in Invoices : RowInv(i)' /\ ApprovalsEnd(i)'
  BY <1>1 DEF HistoryInv, NumbersFollowDates, NumberedRows, HistoryExplainsStatus, RowInv, ApprovalsEnd
<1>4. ASSUME NEW r \in Requests PROVE RequestInv(r)'
  <2> DEFINE t == txn[r]
  <2>1. RequestInv(r)
    BY DEF HistoryInv
  <2>2. ASSUME t.pc = "commit", ~ Inserts(t), CommercialTransitions(invoices[t.inv], After(t), today)
        PROVE  CommercialTransitions(invoices[t.inv], After(t), today')
    <3>1. After(t) \in Row
      BY <1>2, <2>2, AfterType DEF GaplessInv, SessionInv, AboutOneInvoice
    <3>2. After(t).paid \in Nat /\ today \in Nat
      <4>1. After(t).paid \in Days \cup {0} /\ today \in Days
        BY <1>2, <3>1 DEF TypeOK, Row
      <4> QED
        BY <4>1, BoundsAssumption DEF Days
    <3>3. After(t).paid <= today => After(t).paid <= today'
      BY <1>1, <3>2
    <3> QED
      BY <2>2, <3>3 DEF CommercialTransitions
  <2>3. After(t)' = After(t)
    BY <1>1 DEF After, Inserts
  <2>4. t.pc = "commit" => StillAllowed(t)'
    BY <1>1, <2>1, <2>2, <2>3 DEF StillAllowed, RequestInv, Inserts, TakesNumber
  <2> QED
    BY <1>1, <2>1, <2>4
       DEF RequestInv, Inserts, IsNewRow, SetsItsColumns, Reviews, MovesStatut, TakesNumber
<1> QED
  BY <1>2, <1>3, <1>4 DEF HistoryInv

\* Initially there is no invoice and no request.
LEMMA InitHistory == Init => HistoryInv
<1> SUFFICES ASSUME Init PROVE HistoryInv
  OBVIOUS
<1>1. GaplessInv
  BY InitGaplessInv
<1>2. NumbersFollowDates /\ HistoryExplainsStatus /\ \A i \in Invoices : RowInv(i) /\ ApprovalsEnd(i)
  BY DEF Init, NumbersFollowDates, NumberedRows, HistoryExplainsStatus, RowInv, ApprovalsEnd,
         Absent, Exists, Numbered
<1>3. \A r \in Requests : RequestInv(r)
  BY DEF Init, RequestInv, Idle
<1> QED
  BY <1>1, <1>2, <1>3 DEF HistoryInv

-----------------------------------------------------------------------------
(***************************************************************************)
(* The theorems.                                                           *)
(***************************************************************************)

\* Every step of every request keeps the invariant HistoryInv.
THEOREM HistoryInvInductive == HistoryInv /\ [Next]_vars => HistoryInv'
<1> SUFFICES ASSUME HistoryInv, [Next]_vars PROVE HistoryInv'
  OBVIOUS
<1>1. ASSUME NEW r \in Requests, Handlers(r) PROVE HistoryInv'
  BY <1>1, HandlersHistory
<1>2. ASSUME NEW r \in Requests, Statements(r) PROVE HistoryInv'
  BY <1>2, AllocateHistory, LinesHistory, RollbackHistory, FlushHistory, CommitHistory
     DEF Statements, DeleteRefused, FlushRefused
<1>3. ASSUME NEW r \in Requests, Abort(r) PROVE HistoryInv'
  BY <1>3, RollbackHistory DEF Abort
<1>4. CASE Midnight
  BY <1>4, MidnightHistory
<1>5. CASE UNCHANGED vars
  <2>1. GaplessInv'
    BY <1>5, StutterInv DEF HistoryInv
  <2>2. UNCHANGED <<invoices, reviews, txn, today>>
    BY <1>5 DEF vars
  <2>3. NumbersFollowDates' /\ HistoryExplainsStatus' /\ \A i \in Invoices : RowInv(i)' /\ ApprovalsEnd(i)'
    BY <2>2 DEF HistoryInv, NumbersFollowDates, NumberedRows, HistoryExplainsStatus, RowInv, ApprovalsEnd
  <2>4. \A r \in Requests : RequestInv(r)'
    BY <2>2 DEF HistoryInv, RequestInv, StillAllowed, After
  <2> QED
    BY <2>1, <2>3, <2>4 DEF HistoryInv
<1> QED
  BY <1>1, <1>2, <1>3, <1>4, <1>5 DEF Next

\* The invariant holds in every state of every behaviour.
THEOREM HistoryInvHolds == Spec => []HistoryInv
BY InitHistory, HistoryInvInductive, PTL DEF Spec

\* Among the invoices we issue, a lower number never has a later date
\* (trg_invoice_number_follows_date, approve_invoice).
THEOREM DatesFollowNumbers == Spec => []NumbersFollowDates
<1>1. HistoryInv => NumbersFollowDates
  BY DEF HistoryInv
<1> QED
  BY <1>1, HistoryInvHolds, PTL

\* The review status of a row is the action its history recorded last
\* (_commit_review).
THEOREM HistoryAndStatusAgree == Spec => []HistoryExplainsStatus
<1>1. HistoryInv => HistoryExplainsStatus
  BY DEF HistoryInv
<1> QED
  BY <1>1, HistoryInvHolds, PTL

\* An invoice we issue has a number exactly when its history holds one
\* approval, by someone other than its author (approve_invoice,
\* trg_invoice_review_is_valid).
THEOREM OneOtherPersonNumbers == Spec => []NumberedByOneOtherPerson
<1>1. HistoryInv => NumberedByOneOtherPerson
  <2> SUFFICES ASSUME HistoryInv, NEW i \in Invoices,
                      Exists(invoices[i]), invoices[i].direction = "OUTGOING"
               PROVE  LET approvals == {k \in DOMAIN reviews[i] : reviews[i][k].action = "APPROVED"}
                      IN  /\ Numbered(invoices[i]) <=> Cardinality(approvals) = 1
                          /\ \A k \in approvals : reviews[i][k].actor # invoices[i].by
                          /\ Cardinality(approvals) <= 1
    BY DEF NumberedByOneOtherPerson
  <2> DEFINE approvals == {k \in DOMAIN reviews[i] : reviews[i][k].action = "APPROVED"}
             last == Len(reviews[i])
             Entries == [action : ReviewActions, actor : Users]
  <2>1. HistoryExplainsStatus /\ RowInv(i) /\ ApprovalsEnd(i)
    BY DEF HistoryInv
  <2>2. reviews[i] \in Seq(Entries)
    BY DEF HistoryInv, GaplessInv, TypeOK
  <2>3. \A k \in approvals : k = last /\ reviews[i][k].actor # invoices[i].by
    BY <2>1 DEF ApprovalsEnd
  <2>4. Numbered(invoices[i]) <=> invoices[i].review = "APPROVED"
    BY <2>1 DEF RowInv
  <2>5. invoices[i].review = "APPROVED" <=> last \in approvals
    <3> HIDE DEF Entries
    <3>1. CASE reviews[i] = <<>>
      BY <2>1, <3>1 DEF HistoryExplainsStatus
    <3>2. CASE reviews[i] # <<>>
      <4>1. last \in DOMAIN reviews[i]
        BY <2>2, <3>2
      <4> QED
        BY <2>1, <3>2, <4>1 DEF HistoryExplainsStatus
    <3> QED
      BY <3>1, <3>2
  <2>6. approvals = {} \/ approvals = {last}
    BY <2>3
  <2>7. Cardinality({}) = 0 /\ Cardinality({last}) = 1
    BY FS_EmptySet, FS_Singleton
  <2> HIDE DEF approvals, last
  <2>8. IF Numbered(invoices[i]) THEN Cardinality(approvals) = 1 ELSE Cardinality(approvals) = 0
    BY <2>4, <2>5, <2>6, <2>7
  <2> QED
    BY <2>3, <2>8 DEF approvals
<1> QED
  BY <1>1, HistoryInvHolds, PTL

-----------------------------------------------------------------------------
(***************************************************************************)
(* The transactions implement the life of an invoice.                      *)
(***************************************************************************)

\* The stage of a row, column by column.
LEMMA StageFacts ==
    ASSUME NEW row \in Row
    PROVE  /\ row.statut = "NONE" => StageOf(row) = "absent"
           /\ row.statut = "ENVOYEE" => StageOf(row) = "sent"
           /\ row.statut = "PAYEE" => StageOf(row) = "paid"
           /\ row.statut = "ANNULEE" => StageOf(row) = "cancelled"
           /\ row.statut = "BROUILLON" =>
                 /\ row.review = "NOT_SUBMITTED" => StageOf(row) = "draft"
                 /\ row.review = "SUBMITTED" => StageOf(row) = "submitted"
                 /\ row.review = "REJECTED" => StageOf(row) = "rejected"
                 /\ row.review = "APPROVED" => StageOf(row) = "approved"
BY DEF StageOf

\* The abstract specification counts with the same Cardinality.
LEMMA SameCardinality ==
    ASSUME NEW S
    PROVE  Lifecycle!Cardinality(S) = Cardinality(S)
BY DEF Lifecycle!Cardinality, Cardinality

\* A gapless series holds as many numbers as its counter says.
LEMMA SeriesSize ==
    ASSUME GaplessInv, NEW s \in Directions, NEW y \in Years
    PROVE  Lifecycle!Cardinality(Lifecycle!Series(s, y)) = counter[s][y]
<1> DEFINE S == {i \in Invoices : InSeries(i, s, y)}
           f == [i \in S |-> invoices[i].numero.n]
           c == counter[s][y]
<1>1. Lifecycle!Series(s, y) = S
  BY DEF Lifecycle!Series, InSeries, Numbered
<1>2. c \in Nat /\ \A i \in Invoices : invoices[i] \in Row
  BY DEF GaplessInv, TypeOK
<1>3. /\ \A i \in S : invoices[i].numero.n \in 1 .. c
      /\ \A n \in 1 .. c : \E i \in S : invoices[i].numero.n = n
      /\ \A i, j \in S : invoices[i].numero = invoices[j].numero => i = j
  BY DEF GaplessInv, Gapless
<1>4. \A i, j \in S : invoices[i].numero.n = invoices[j].numero.n => i = j
  <2>1. \A i \in S : invoices[i].numero = [year |-> y, n |-> invoices[i].numero.n]
    BY <1>2 DEF InSeries, Row, Numbers
  <2> SUFFICES ASSUME NEW i \in S, NEW j \in S, invoices[i].numero.n = invoices[j].numero.n
               PROVE  invoices[i].numero = invoices[j].numero
    BY <1>3
  <2> QED
    BY <2>1
<1> HIDE DEF S
<1>5. f \in Injection(S, 1 .. c) /\ f \in Surjection(S, 1 .. c)
  BY <1>3, <1>4 DEF Injection, Surjection, IsInjective
<1>6. IsFiniteSet(1 .. c) /\ Cardinality(1 .. c) = c
  <2> HIDE DEF c
  <2>1. c \in Int /\ 1 \in Int /\ (1 > c => c = 0)
    BY <1>2
  <2>2. IsFiniteSet(1 .. c) /\ Cardinality(1 .. c) = IF 1 > c THEN 0 ELSE c - 1 + 1
    BY <2>1, FS_Interval
  <2> QED
    BY <2>1, <2>2
<1>7. Cardinality(S) = Cardinality(1 .. c)
  BY <1>5, <1>6, FS_Injection
<1> QED
  BY <1>1, <1>6, <1>7, SameCardinality

\* What a commit must be for the abstract invoice: one step, or none.
LEMMA CommitLife ==
    ASSUME HistoryInv, NEW r \in Requests, Commit(r)
    PROVE  [Lifecycle!LifeNext]_(Lifecycle!life)
<1>inv. PICK i \in Invoices : i = txn[r].inv
  BY CommitTables
<1> DEFINE t == txn[r]
           old == invoices[i]
           new == After(t)
<1>1. /\ t.pc = "commit" /\ i = t.inv /\ invoices'[i] = new
      /\ \A j \in Invoices \ {i} : invoices'[j] = invoices[j]
  BY <1>inv, CommitTables
<1>2. /\ GaplessInv /\ TypeOK /\ RequestInv(r) /\ RowInv(i)
      /\ AboutOneInvoice(r) /\ HoldsNextNumber(r) /\ AbsentIsBlank
  BY <1>1 DEF HistoryInv, GaplessInv, SessionInv
<1>3. old \in Row /\ new \in Row /\ invoices' \in [Invoices -> Row]
  BY <1>1, <1>2, CommittedRow, CommitType DEF TypeOK
<1>4. /\ TakesNumber(t) => new.numero = t.want.numero
      /\ ~ TakesNumber(t) => new.numero = old.numero
      /\ new.direction = t.want.direction
  BY <1>1, <1>2, CommittedRow
<1>5. ASSUME StageOf(new) = StageOf(old), new.direction = old.direction,
             TermsOf(new) = TermsOf(old), new.numero = old.numero
      PROVE  UNCHANGED Lifecycle!life
  BY <1>1, <1>5 DEF Lifecycle!life
<1>6. ASSUME TakesNumber(t)
      PROVE  \E y \in Years : new.numero = Lifecycle!NextNumber(new.direction, y)
  <2> DEFINE y == t.want.numero.year
  <2>1. y \in Years /\ t.want.numero.n = counter[new.direction][y] + 1
    BY <1>2, <1>4, <1>6 DEF HoldsNextNumber
  <2>2. new.numero = [year |-> y, n |-> t.want.numero.n] /\ new.direction \in Directions
    BY <1>3, <1>4, <1>6 DEF Row, Numbers
  <2> HIDE DEF y, new
  <2>3. new.numero = Lifecycle!NextNumber(new.direction, y)
    <3>1. Lifecycle!Cardinality(Lifecycle!Series(new.direction, y)) = counter[new.direction][y]
      BY <1>2, <2>1, <2>2, SeriesSize
    <3> QED
      BY <2>1, <2>2, <3>1 DEF Lifecycle!NextNumber
  <2> QED
    BY <2>1, <2>3
<1>7. new.due \in Days => TermsOf(new) \in [due : Days, amount : Amounts]
  BY <1>3 DEF TermsOf, Row
<1>8. CASE Inserts(t)
  <2>1. old = Absent /\ new = t.want /\ t.seen = Absent /\ IsNewRow(t)
    BY <1>1, <1>2, <1>8 DEF After, AboutOneInvoice, AbsentIsBlank, RequestInv
  <2>2. StageOf(old) = "absent" /\ old.direction = "OUTGOING" /\ old.numero = NoNumber
    BY <1>3, <2>1, StageFacts DEF Absent
  <2>3. CASE t.op = "create"
    <3>1. /\ StageOf(new) = "draft" /\ new.direction = old.direction /\ new.numero = old.numero
          /\ TermsOf(new) \in [due : Days, amount : Amounts]
      BY <1>3, <1>4, <1>7, <2>1, <2>2, <2>3, StageFacts DEF IsNewRow
    <3>2. Lifecycle!Draft(i)
      BY <1>1, <2>2, <3>1, ZenonT(60) DEF Lifecycle!Draft, Lifecycle!Move
    <3> QED
      BY <3>2 DEF Lifecycle!LifeNext
  <2>4. CASE t.op = "bill"
    <3>1. /\ StageOf(new) = "sent" /\ new.direction = "INCOMING" /\ TakesNumber(t)
          /\ TermsOf(new) \in [due : Days, amount : Amounts]
      BY <1>1, <1>3, <1>7, <2>1, <2>4, StageFacts DEF IsNewRow
    <3>2. Lifecycle!Receive(i)
      BY <1>1, <1>6, <2>2, <3>1, ZenonT(60) DEF Lifecycle!Receive, Lifecycle!Move
    <3> QED
      BY <3>2 DEF Lifecycle!LifeNext
  <2> QED
    BY <1>8, <2>3, <2>4 DEF Inserts
<1>9. CASE ~ Inserts(t)
  <2>1. /\ new.direction = old.direction /\ new.due \in Days
        /\ t.op # "edit" => TermsOf(new) = TermsOf(old)
        /\ IF Reviews(t) THEN new.review = t.want.review ELSE new.review = old.review
        /\ t.op = "edit" \/ Reviews(t) => old.direction = "OUTGOING"
        /\ Reviews(t) => old.review # "APPROVED"
        /\ ~ MovesStatut(t) => new.statut = old.statut
        /\ IF t.op = "approve" THEN TakesNumber(t) /\ new.review = "APPROVED" ELSE ~ TakesNumber(t)
        /\ Reviews(t) /\ new.review = "APPROVED" => t.op = "approve"
        /\ ReviewRules(old, new) /\ DraftIsEditable(old, new) /\ CommercialTransitions(old, new, today)
    BY <1>1, <1>9, CommitColumns DEF TermsOf, StillAllowed
  <2>2. Exists(old) /\ old.statut \in Statuts /\ old.review \in ReviewStatuses /\ new.review \in ReviewStatuses
    BY <1>1, <1>2, <1>3, <1>9 DEF AboutOneInvoice, Exists, Row
  <2>3. CASE t.op = "edit"
    <3>1. StageOf(new) = StageOf(old) /\ new.numero = old.numero /\ ~ Reviews(t) /\ ~ MovesStatut(t)
      BY <1>4, <2>1, <2>3 DEF StageOf, Reviews, MovesStatut
    <3>2. CASE TermsOf(new) = TermsOf(old)
      BY <1>5, <2>1, <3>1, <3>2
    <3>3. CASE TermsOf(new) # TermsOf(old)
      <4>1. old.statut = "BROUILLON" /\ old.review \in {"NOT_SUBMITTED", "REJECTED"}
        BY <2>1, <2>2, <2>3, <3>3 DEF DraftIsEditable, Editable, TermsOf, ReviewStatuses
      <4>2. StageOf(old) \in {"draft", "rejected"}
        BY <1>3, <4>1, StageFacts
      <4>3. Lifecycle!Edit(i)
        BY <1>1, <1>7, <2>1, <3>1, <4>2 DEF Lifecycle!Edit
      <4> QED
        BY <4>3 DEF Lifecycle!LifeNext
    <3> QED
      BY <3>2, <3>3
  <2>4. CASE Reviews(t)
    <3>1. new.statut = old.statut /\ TermsOf(new) = TermsOf(old) /\ new.direction = "OUTGOING"
      BY <2>1, <2>4 DEF Reviews, MovesStatut
    <3>2. CASE new.review = old.review
      <4>1. StageOf(new) = StageOf(old) /\ new.numero = old.numero
        BY <1>4, <2>1, <2>4, <3>1, <3>2 DEF StageOf
      <4> QED
        BY <1>5, <2>1, <3>1, <4>1
    <3>3. CASE new.review # old.review
      <4>1. /\ old.statut = "BROUILLON" /\ new.statut = "BROUILLON"
            /\ \/ old.review \in {"NOT_SUBMITTED", "REJECTED"} /\ new.review = "SUBMITTED"
               \/ old.review = "SUBMITTED" /\ new.review \in {"APPROVED", "REJECTED"}
        BY <2>1, <3>1, <3>3 DEF ReviewRules
      <4>2. CASE t.op = "approve"
        <5>1. StageOf(old) = "submitted" /\ StageOf(new) = "approved" /\ TakesNumber(t)
          BY <1>3, <2>1, <4>1, <4>2, StageFacts
        <5>2. Lifecycle!Approve(i)
          BY <1>1, <1>6, <2>1, <3>1, <5>1, ZenonT(60) DEF Lifecycle!Approve, Lifecycle!Move
        <5> QED
          BY <5>2 DEF Lifecycle!LifeNext
      <4>3. CASE t.op # "approve"
        <5>1. \/ StageOf(old) \in {"draft", "rejected"} /\ StageOf(new) = "submitted"
              \/ StageOf(old) = "submitted" /\ StageOf(new) = "rejected"
          BY <1>3, <2>1, <2>4, <4>1, <4>3, StageFacts
        <5>2. new.numero = old.numero
          BY <1>4, <2>1, <4>3
        <5>3. Lifecycle!Step(i)
          <6>1. CASE StageOf(old) \in {"draft", "rejected"} /\ StageOf(new) = "submitted"
            <7>1. Lifecycle!Move(i, {"draft", "rejected"}, "submitted")
              BY <1>1, <6>1 DEF Lifecycle!Move
            <7> QED
              BY <1>1, <2>1, <3>1, <5>2, <7>1 DEF Lifecycle!Step
          <6>2. CASE StageOf(old) = "submitted" /\ StageOf(new) = "rejected"
            <7>1. Lifecycle!Move(i, {"submitted"}, "rejected")
              BY <1>1, <6>2 DEF Lifecycle!Move
            <7> QED
              BY <1>1, <2>1, <3>1, <5>2, <7>1 DEF Lifecycle!Step
          <6> QED
            BY <5>1, <6>1, <6>2
        <5> QED
          BY <5>3 DEF Lifecycle!LifeNext
      <4> QED
        BY <4>2, <4>3
    <3> QED
      BY <3>2, <3>3
  <2>5. CASE t.op # "edit" /\ ~ Reviews(t)
    <3>1. TermsOf(new) = TermsOf(old) /\ new.numero = old.numero /\ new.review = old.review
      BY <1>4, <2>1, <2>5 DEF Reviews
    <3>2. CASE new.statut = old.statut
      BY <1>5, <2>1, <3>1, <3>2 DEF StageOf
    <3>3. CASE new.statut # old.statut
      <4>1. /\ old.statut \notin {"PAYEE", "ANNULEE"}
            /\ \/ old.statut = "BROUILLON" /\ new.statut \in {"ENVOYEE", "ANNULEE"}
               \/ old.statut = "ENVOYEE" /\ new.statut \in {"PAYEE", "ANNULEE"}
            /\ new.statut = "ANNULEE" => old.review # "SUBMITTED"
        BY <2>1, <3>3 DEF CommercialTransitions, Cancellable
      <4>2. old.statut = "BROUILLON" => old.direction = "OUTGOING"
        BY <1>2, <1>3, <2>2 DEF RowInv, Row, Directions
      <4>3. old.statut = "BROUILLON" /\ new.statut = "ENVOYEE" => old.review = "APPROVED"
        BY <2>1, <3>1, <4>2 DEF ReviewRules
      <4>4. \/ StageOf(old) = "approved" /\ StageOf(new) = "sent"
            \/ StageOf(old) = "sent" /\ StageOf(new) = "paid"
            \/ StageOf(old) \in {"draft", "rejected", "approved", "sent"} /\ StageOf(new) = "cancelled"
        BY <1>3, <2>2, <4>1, <4>3, StageFacts DEF ReviewStatuses
      <4>5. Lifecycle!Step(i)
        <5>1. \/ Lifecycle!Move(i, {"approved"}, "sent")
              \/ Lifecycle!Move(i, {"sent"}, "paid")
              \/ Lifecycle!Move(i, {"draft", "rejected", "approved", "sent"}, "cancelled")
          BY <1>1, <4>4 DEF Lifecycle!Move
        <5> QED
          BY <1>1, <2>1, <3>1, <5>1 DEF Lifecycle!Step
      <4> QED
        BY <4>5 DEF Lifecycle!LifeNext
    <3> QED
      BY <3>2, <3>3
  <2> QED
    BY <2>3, <2>4, <2>5
<1> QED
  BY <1>8, <1>9

\* However its statements interleave with others', a committed request is one
\* step of an invoice's life (the flow drawn above _outgoing_draft and above
\* AWAITING_PAYMENT).
THEOREM ImplementsLifecycle == Spec => FollowsLifecycle
<1>1. Init => Lifecycle!LifeInit
  <2>1. StageOf(Absent) = "absent" /\ Absent.direction = "OUTGOING" /\ Absent.numero = NoNumber
    BY AbsentFacts, StageFacts DEF Absent
  <2> QED
    BY <2>1 DEF Init, Lifecycle!LifeInit
<1>2. HistoryInv /\ [Next]_vars => [Lifecycle!LifeNext]_(Lifecycle!life)
  <2> SUFFICES ASSUME HistoryInv, [Next]_vars
               PROVE  [Lifecycle!LifeNext]_(Lifecycle!life)
    OBVIOUS
  <2>1. ASSUME NEW r \in Requests, Commit(r) PROVE [Lifecycle!LifeNext]_(Lifecycle!life)
    BY <2>1, CommitLife
  <2>2. ASSUME invoices' = invoices PROVE UNCHANGED Lifecycle!life
    BY <2>2 DEF Lifecycle!life
  <2>3. ASSUME NEW r \in Requests, Handlers(r) PROVE invoices' = invoices
    BY <2>3 DEF Handlers, CreateInvoice, CreateSupplierInvoice, SetProcessingStatus, UpdateInvoice,
                SubmitInvoice, ApproveInvoice, RejectInvoice, SendInvoice, PayInvoice, CancelInvoice,
                Begin, database
  <2>4. ASSUME NEW r \in Requests, Statements(r), ~ Commit(r) PROVE invoices' = invoices
    BY <2>4 DEF Statements, Allocate, LoadLines, DeleteLines, DeleteRefused, Flush, FlushRefused,
                Rollback, database
  <2>5. ASSUME NEW r \in Requests, Abort(r) PROVE invoices' = invoices
    BY <2>5 DEF Abort, Rollback
  <2>6. ASSUME Midnight \/ UNCHANGED vars PROVE invoices' = invoices
    BY <2>6 DEF Midnight, database, vars
  <2> QED
    BY <2>1, <2>2, <2>3, <2>4, <2>5, <2>6 DEF Next
<1> QED
  BY <1>1, <1>2, HistoryInvHolds, PTL DEF Spec, FollowsLifecycle, Lifecycle!LifeSpec
=============================================================================
