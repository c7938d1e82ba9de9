---------------------------- MODULE Billing_proofs ----------------------------
(***************************************************************************)
(* Theorems about Billing: one invoice for each idempotency key, exports   *)
(* in a foreign currency and without VAT, numbered documents that reprint  *)
(* whatever edits raced before, amounts that their words say, lists and    *)
(* summaries that agree, for any clients, invoices and requests.           *)
(***************************************************************************)
EXTENDS Billing, InvoiceDocument_proofs, FiniteSetTheorems, TLAPS

-----------------------------------------------------------------------------
(***************************************************************************)
(* The inductive invariant.                                                *)
(***************************************************************************)

\* The terms of a row of invoices, stored or still in a session.
ContentInv(row) ==
    /\ row \in Invoice
    /\ ~ NeedsForeignCurrency(row)
    /\ LinesPass(row.export, LinesOf(row.items))
    /\ row.export => row.totals.ttc = row.totals.ht
    /\ row.direction = "OUTGOING" /\ row.numbered => row.items # <<>>

ClientsInv ==
    /\ clients \in [Clients -> Client \cup {NoClient}]
    /\ \A c \in Clients : ~ NeedsForeignCurrency(clients[c])

InvoicesInv ==
    /\ invoices = [i \in Invoices |-> invoices[i]]
    /\ \A i \in Stored : ContentInv(invoices[i])
    /\ IsFiniteSet(Stored)

\* A key names one stored invoice at most, and answers only name stored ones.
KeysInv ==
    /\ \A i, j \in Stored :
         invoices[i].key \in Keys /\ invoices[i].key = invoices[j].key => i = j
    /\ answers \in [Keys -> SUBSET Invoices]
    /\ \A k \in Keys : answers[k] \subseteq Keyed(k)

\* Whatever the client has become meanwhile, what is to be set fits it.
ClientFits(t) ==
    /\ t.client \in Clients
    /\ clients[t.client] \in Client
    /\ \A row \in Client : Corrected(row, t.set) \in Client

CreateFits(t) ==
    /\ t.pc \in {"insert", "commit"}
    /\ t = [op |-> "create", pc |-> t.pc, row |-> t.row]
    /\ ContentInv(t.row)
    /\ t.row.key \in Keys

\* What never changes of a row of the table: whose it is to pay, its export
\* terms and its key; and all but its status, once it has been numbered.
SameTerms(row, now) ==
    /\ now # NoInvoice
    /\ now.direction = row.direction /\ now.client = row.client /\ now.key = row.key
    /\ now.export = row.export /\ now.devise = row.devise
    /\ row.numbered => now = [row EXCEPT !.statut = now.statut]

\* An edit was of a row whose export terms its lines and the totals it read fit.
EditFits(t, table) ==
    /\ t.pc \in {"lines", "delete", "insert", "commit"}
    /\ t = [op |-> "edit", pc |-> t.pc, of |-> t.of, read |-> t.read, readDue |-> t.readDue,
            due |-> t.due, items |-> t.items, loaded |-> t.loaded]
    /\ t.of \in Invoices /\ table[t.of] # NoInvoice
    /\ t.read \in Totals /\ t.due \in DueDates /\ t.items \in Carts
    /\ LinesPass(table[t.of].export, t.items)
    /\ table[t.of].export => t.read.ttc = t.read.ht

\* What is being printed of a row is the row still, in what never changes.
PdfFits(t, table) ==
    /\ t.pc \in {"lines", "party"}
    /\ t = [op |-> "pdf", pc |-> t.pc, row |-> t.row, of |-> t.of]
    /\ t.of \in Invoices
    /\ t.row \in Invoice
    /\ SameTerms(t.row, table[t.of])

\* What was counted was stored, under one status each.
SummaryFits(t, stored) ==
    /\ t.pc \in {"processing", "directions"}
    /\ t.rows \in Nat
    /\ t.rows <= Cardinality(stored)
    /\ Counted(t.byStatus) = t.rows
    /\ t.pc = "directions" =>
          t.byProcessing \in Nat /\ t.rows <= t.byProcessing /\ t.byProcessing <= Cardinality(stored)

\* The row is flushed: no other transaction holds its key.
Holds(w) == task[w].op = "create" /\ task[w].pc = "commit"

HoldInv(w) ==
    Holds(w) =>
        /\ Keyed(task[w].row.key) = {}
        /\ \A q \in Workers : Holds(q) /\ task[q].row.key = task[w].row.key => q = w

\* The new lines are inserted: nobody numbers the invoice before the commit.
Writes(w) == task[w].op = "edit" /\ task[w].pc = "commit"

LockInv(w) == Writes(w) => ~ invoices[task[w].of].numbered

Fits(t) ==
    /\ t.op \in Operations \cup {"none"}
    /\ t.op = "client" => ClientFits(t)
    /\ t.op = "create" => CreateFits(t)
    /\ t.op = "edit" => EditFits(t, invoices)
    /\ t.op = "pdf" => PdfFits(t, invoices)
    /\ t.op = "summary" => SummaryFits(t, Stored)

TaskInv(w) == Fits(task[w])

TasksInv ==
    /\ task = [w \in Workers |-> task[w]]
    /\ \A w \in Workers : TaskInv(w) /\ HoldInv(w) /\ LockInv(w)

BillingInv ==
    /\ ClientsInv
    /\ InvoicesInv
    /\ KeysInv
    /\ TasksInv
    /\ suppliers \subseteq Suppliers
    /\ today \in 1 .. LastDay

-----------------------------------------------------------------------------
(***************************************************************************)
(* Rows.                                                                   *)
(***************************************************************************)

\* A row of the table is not the absence of one.
LEMMA RowsExist == ASSUME NEW row \in Invoice PROVE row # NoInvoice
BY DEF Invoice, NoInvoice, Statuts

\* A part of a correction, put on any client, gives a client: the fields that
\* did not differ are left as they are.
LEMMA CorrectionsFit ==
    ASSUME NEW change \in Changes, NEW fields \in SUBSET DOMAIN change, NEW row \in Client
    PROVE  Corrected(row, [f \in fields |-> change[f]]) \in Client
<1> DEFINE part == [f \in fields |-> change[f]]
           whole == Corrected(row, change)
           new == Corrected(row, part)
           Fields == {"nom", "export", "devise", "locale"}
<1>1. whole \in Client
  BY InputsAssumption
<1>2. row = [f \in Fields |-> row[f]] /\ whole = [f \in Fields |-> whole[f]]
  BY <1>1 DEF Client
<1>3. new = [f \in Fields |-> IF f \in fields THEN change[f] ELSE row[f]]
  BY <1>2 DEF Corrected
<1>4. \A f \in Fields : new[f] = IF f \in fields THEN whole[f] ELSE row[f]
  BY <1>2, <1>3 DEF Corrected
<1>5. new.nom \in Names /\ new.export \in BOOLEAN /\ new.devise \in Currencies
        /\ new.locale \in Locales
  BY <1>1, <1>4 DEF Client
<1>6. new = [nom |-> new.nom, export |-> new.export, devise |-> new.devise,
             locale |-> new.locale]
  BY <1>3
<1> QED
  BY <1>5, <1>6 DEF Client

\* The rate of a line is stored as it is typed.
LEMMA SameRate == ASSUME NEW line \in Line PROVE InColumn(line).rate = line.rate
<1>1. InColumn(line) = [qty |-> line.qty, price |-> HalfUp(line.price, 10), rate |-> line.rate]
  BY DEF Line, InColumn
<1> QED
  BY <1>1

\* Lines as they are stored
LEMMA InsertedFit ==
    ASSUME NEW batch \in 0 .. MaxBatch, NEW items \in Seq(Line),
           \A n \in DOMAIN items : InColumn(items[n]) \in Line
    PROVE  /\ Inserted(batch, items) \in Seq(Item)
           /\ \A export \in BOOLEAN :
                LinesPass(export, items) => LinesPass(export, LinesOf(Inserted(batch, items)))
<1> DEFINE rows == Inserted(batch, items)
           m == Len(items)
<1>1. m \in Nat /\ DOMAIN items = 1 .. m
  OBVIOUS
<1>2. rows = [n \in 1 .. m |-> [batch |-> batch, line |-> InColumn(items[n])]]
  BY <1>1 DEF Inserted
<1>3. rows \in [1 .. m -> Item]
  BY <1>1, <1>2 DEF Item
<1> HIDE DEF rows
<1>4. rows \in Seq(Item)
  BY <1>1, <1>3, FunctionsAreSequences
<1>5. \A n \in 1 .. m : LinesOf(rows)[n].rate = items[n].rate
  <2>1. ASSUME NEW n \in 1 .. m PROVE LinesOf(rows)[n].rate = items[n].rate
    <3>1. items[n] \in Line
      BY <1>1
    <3>2. LinesOf(rows)[n] = InColumn(items[n])
      BY <1>2 DEF LinesOf
    <3>3. InColumn(items[n]).rate = items[n].rate
      BY <3>1, SameRate
    <3> QED
      BY <3>2, <3>3
  <2> QED
    BY <2>1
<1>6. DOMAIN LinesOf(rows) = 1 .. m
  BY <1>2 DEF LinesOf
<1>7. \A export \in BOOLEAN : LinesPass(export, items) => LinesPass(export, LinesOf(rows))
  BY <1>1, <1>5, <1>6 DEF LinesPass
<1> QED
  BY <1>4, <1>7 DEF rows

LEMMA LinesAreLines ==
    ASSUME NEW items \in Seq(Item)
    PROVE  LinesOf(items) \in Seq(Line) /\ DOMAIN LinesOf(items) = DOMAIN items
<1>1. Len(items) \in Nat /\ DOMAIN items = 1 .. Len(items)
  OBVIOUS
<1>2. LinesOf(items) \in [1 .. Len(items) -> Line]
  <2>1. \A item \in Item : item.line \in Line
    BY DEF Item
  <2>2. \A n \in 1 .. Len(items) : items[n] \in Item
    BY <1>1
  <2>3. LinesOf(items) = [n \in 1 .. Len(items) |-> items[n].line]
    BY <1>1 DEF LinesOf
  <2> QED
    BY <2>1, <2>2, <2>3
<1>3. LinesOf(items) \in Seq(Line) /\ Len(LinesOf(items)) = Len(items)
  BY <1>1, <1>2, FunctionsAreSequences
<1> QED
  BY <1>1, <1>2, <1>3

\* The lines that an edit leaves are lines that were there.
LEMMA KeptAreThere ==
    ASSUME NEW items \in Seq(Item), NEW loaded
    PROVE  /\ Kept(items, loaded) \in Seq(Item)
           /\ \A n \in DOMAIN Kept(items, loaded) : \E at \in DOMAIN items : Kept(items, loaded)[n] = items[at]
<1> DEFINE left == {n \in DOMAIN items : items[n].batch \notin loaded}
           m == Cardinality(left)
           Rises(f) == \A i, j \in DOMAIN f : i < j => f[i] < f[j]
           order == CHOOSE f \in [1 .. m -> left] : Rises(f)
           kept == [n \in DOMAIN order |-> items[order[n]]]
           top == Len(items)
<1>1. top \in Nat /\ DOMAIN items = 1 .. top
  OBVIOUS
<1>2. left \subseteq Nat /\ IsFiniteSet(left)
  <2>1. IsFiniteSet(1 .. top)
    BY <1>1, FS_Interval
  <2>2. left \in SUBSET (1 .. top)
    BY <1>1
  <2> QED
    BY <2>1, <2>2, FS_Subset
<1>3. m \in Nat
  BY <1>2, FS_CardinalityType
<1>4. PICK falling \in [1 .. m -> left] : Falls(falling)
  BY <1>2, SetsCanBeOrdered
<1> DEFINE rising == [n \in 1 .. m |-> falling[(m + 1) - n]]
<1> HIDE DEF left, m
<1>5. rising \in [1 .. m -> left] /\ Rises(rising)
  <2>1. ASSUME NEW n \in 1 .. m PROVE (m + 1) - n \in 1 .. m
    BY <1>3
  <2>2. ASSUME NEW i \in 1 .. m, NEW j \in 1 .. m, i < j PROVE rising[i] < rising[j]
    <3>1. (m + 1) - i \in 1 .. m /\ (m + 1) - j \in 1 .. m
      BY <2>1
    <3>2. (m + 1) - j < (m + 1) - i
      BY <1>3, <2>2
    <3>3. falling[(m + 1) - j] > falling[(m + 1) - i] /\ DOMAIN falling = 1 .. m
      BY <1>4, <3>1, <3>2 DEF Falls
    <3>4. falling[(m + 1) - j] \in Nat /\ falling[(m + 1) - i] \in Nat
      BY <1>2, <3>1
    <3> QED
      BY <3>3, <3>4
  <2> QED
    BY <2>1, <2>2
<1>6. order \in [1 .. m -> left] /\ Rises(order)
  <2> HIDE DEF Rises
  <2> QED
    BY <1>5
<1>7. Kept(items, loaded) = kept
  BY DEF Kept, left, m
<1>8. left \subseteq 1 .. top
  BY <1>1 DEF left
<1> HIDE DEF order
<1>9. \A n \in 1 .. m : kept[n] = items[order[n]] /\ order[n] \in 1 .. top
  BY <1>6, <1>8
<1>10. kept \in [1 .. m -> Item]
  BY <1>1, <1>6, <1>9
<1>11. kept \in Seq(Item) /\ DOMAIN kept = 1 .. m
  BY <1>3, <1>10, FunctionsAreSequences
<1> HIDE DEF kept
<1> QED
  BY <1>1, <1>7, <1>9, <1>11

\* Lines without VAT left beside lines without VAT have none.
LEMMA BesidePass ==
    ASSUME NEW items \in Seq(Item), NEW loaded, NEW added \in Seq(Item), NEW export \in BOOLEAN,
           LinesPass(export, LinesOf(items)), LinesPass(export, LinesOf(added))
    PROVE  /\ Kept(items, loaded) \o added \in Seq(Item)
           /\ LinesPass(export, LinesOf(Kept(items, loaded) \o added))
<1> DEFINE kept == Kept(items, loaded)
           all == kept \o added
<1>1. kept \in Seq(Item) /\ \A n \in DOMAIN kept : \E at \in DOMAIN items : kept[n] = items[at]
  BY KeptAreThere
<1> HIDE DEF kept
<1>2. all \in Seq(Item)
  BY <1>1
<1>3. ASSUME export, NEW n \in DOMAIN all PROVE all[n].line.rate = 0
  <2>1. CASE n \in 1 .. Len(kept)
    <3>1. all[n] = kept[n] /\ n \in DOMAIN kept
      BY <1>1, <2>1
    <3>2. PICK at \in DOMAIN items : kept[n] = items[at]
      BY <1>1, <3>1
    <3> QED
      BY <1>3, <3>1, <3>2 DEF LinesPass, LinesOf
  <2>2. CASE n \notin 1 .. Len(kept)
    <3>1. n - Len(kept) \in DOMAIN added /\ all[n] = added[n - Len(kept)]
      BY <1>1, <2>2
    <3> QED
      BY <1>3, <3>1 DEF LinesPass, LinesOf
  <2> QED
    BY <2>1, <2>2
<1>4. LinesPass(export, LinesOf(all))
  <2> HIDE DEF all
  <2> QED
    BY <1>3 DEF LinesPass, LinesOf
<1> QED
  BY <1>2, <1>4 DEF kept

\* What clients type fits the columns.
LEMMA CartsFit ==
    ASSUME NEW items \in Carts
    PROVE  items \in Seq(Line) /\ \A n \in DOMAIN items : InColumn(items[n]) \in Line
BY InputsAssumption

\* The three ways an invoice changes.
LEMMA Edited ==
    ASSUME NEW t, NEW table, EditFits(t, table), NEW row, row = table[t.of], ContentInv(row),
           NEW k \in 0 .. MaxBatch, ~ row.numbered
    PROVE  LET new == EditedInvoice(t, row, k)
           IN  ContentInv(new) /\ SameTerms(row, new) /\ ~ new.numbered
<1> DEFINE totals == Overwritten(ComputeTotals(t.items), t.read, row.totals)
           due == IF t.due = t.readDue THEN row.due ELSE t.due
           items == Kept(row.items, t.loaded) \o Inserted(k, t.items)
           new == EditedInvoice(t, row, k)
<1>1. /\ row \in Invoice /\ t.items \in Carts /\ t.read \in Totals /\ t.due \in 1 .. LastDay
      /\ LinesPass(row.export, t.items) /\ (row.export => t.read.ttc = t.read.ht)
  BY CalendarAssumption DEF ContentInv, EditFits
<1>2. /\ row.export \in BOOLEAN /\ row.items \in Seq(Item) /\ row.totals \in Totals
      /\ row.due \in 1 .. LastDay
  BY <1>1 DEF Invoice
<1>3. t.items \in Seq(Line) /\ \A n \in DOMAIN t.items : InColumn(t.items[n]) \in Line
  BY <1>1, CartsFit
<1>4. /\ Inserted(k, t.items) \in Seq(Item)
      /\ LinesPass(row.export, LinesOf(Inserted(k, t.items)))
  BY <1>1, <1>2, <1>3, InsertedFit
<1>5. items \in Seq(Item) /\ LinesPass(row.export, LinesOf(items))
  <2>1. LinesPass(row.export, LinesOf(row.items))
    BY DEF ContentInv
  <2> QED
    BY <1>2, <1>4, <2>1, BesidePass
<1>6. totals \in Totals
  BY <1>2, <1>3, OverwrittenAreAmounts DEF Totals
<1>7. row.export => totals.ttc = totals.ht
  <2> SUFFICES ASSUME row.export PROVE totals.ttc = totals.ht
    OBVIOUS
  <2>1. \A n \in DOMAIN t.items : t.items[n].rate = 0
    BY <1>1 DEF LinesPass
  <2>2. row.totals.ttc = row.totals.ht
    BY DEF ContentInv
  <2> QED
    BY <1>1, <1>2, <1>3, <2>1, <2>2, ExportTotalsHaveNoVat DEF Totals
<1>8. due \in 1 .. LastDay
  BY <1>1, <1>2
<1>9. new = [row EXCEPT !.totals = totals, !.due = due, !.items = items]
  <2>1. EditedRow(t, row) = [row EXCEPT !.totals = totals, !.due = due]
    BY DEF EditedRow
  <2>2. [row EXCEPT !.totals = totals, !.due = due].items = row.items
    BY <1>1 DEF Invoice
  <2> HIDE DEF totals, due
  <2> QED
    BY <1>1, <2>1, <2>2 DEF Invoice, EditedInvoice
<1> HIDE DEF totals, due, items, new
<1>10. new \in Invoice
  BY <1>1, <1>5, <1>6, <1>8, <1>9 DEF Invoice
<1>11. /\ new.export = row.export /\ new.devise = row.devise /\ new.items = items
       /\ new.direction = row.direction /\ new.key = row.key /\ new.client = row.client
       /\ new.totals = totals /\ new.numbered = row.numbered
  BY <1>1, <1>9 DEF Invoice
<1>12. new # NoInvoice
  BY <1>10, RowsExist
<1>13. ContentInv(new) /\ SameTerms(row, new) /\ ~ new.numbered
  BY <1>5, <1>7, <1>10, <1>11, <1>12 DEF ContentInv, SameTerms, NeedsForeignCurrency
<1> QED
  BY <1>13 DEF new

LEMMA Numbered ==
    ASSUME NEW row, ContentInv(row), NEW day \in 1 .. LastDay, ~ row.numbered, row.items # <<>>
    PROVE  LET new == [row EXCEPT !.numbered = TRUE, !.issued = day]
           IN  ContentInv(new) /\ SameTerms(row, new)
<1> DEFINE new == [row EXCEPT !.numbered = TRUE, !.issued = day]
<1>1. new \in Invoice
  BY DEF ContentInv, Invoice
<1>2. /\ new.export = row.export /\ new.devise = row.devise /\ new.items = row.items
      /\ new.direction = row.direction /\ new.key = row.key /\ new.totals = row.totals
      /\ new.client = row.client
  BY DEF ContentInv, Invoice
<1>3. new # NoInvoice
  BY <1>1, RowsExist
<1> QED
  BY <1>1, <1>2, <1>3 DEF ContentInv, SameTerms, NeedsForeignCurrency

LEMMA Moved ==
    ASSUME NEW row, ContentInv(row), NEW statut \in Statuts
    PROVE  LET new == [row EXCEPT !.statut = statut]
           IN  ContentInv(new) /\ SameTerms(row, new)
<1> DEFINE new == [row EXCEPT !.statut = statut]
<1>1. new \in Invoice
  BY DEF ContentInv, Invoice
<1>2. /\ new.export = row.export /\ new.devise = row.devise /\ new.items = row.items
      /\ new.direction = row.direction /\ new.key = row.key /\ new.totals = row.totals
      /\ new.numbered = row.numbered /\ new.client = row.client /\ new.statut = statut
  BY DEF ContentInv, Invoice
<1>3. new # NoInvoice
  BY <1>1, RowsExist
<1> HIDE DEF new
<1>4. new = [row EXCEPT !.statut = new.statut]
  BY <1>2 DEF new
<1>5. ContentInv(new) /\ SameTerms(row, new)
  BY <1>1, <1>2, <1>3, <1>4 DEF ContentInv, SameTerms, NeedsForeignCurrency
<1> QED
  BY <1>5 DEF new

\* The two ways one comes to be.
LEMMA DraftFits ==
    ASSUME NEW c \in Clients, clients[c] \in Client, ~ NeedsForeignCurrency(clients[c]),
           NEW due \in DueDates, NEW items \in Carts, NEW key \in Keys,
           LinesPass(clients[c].export, items), today \in 1 .. LastDay
    PROVE  ContentInv(Draft(c, due, items, key)) /\ Draft(c, due, items, key).key = key
<1> DEFINE row == Draft(c, due, items, key)
           rows == Inserted(0, items)
           totals == InColumns(ComputeTotals(items))
<1>1. clients[c].export \in BOOLEAN /\ clients[c].devise \in Currencies
  BY DEF Client
<1>2. items \in Seq(Line) /\ \A n \in DOMAIN items : InColumn(items[n]) \in Line
  BY CartsFit
<1>3. totals \in Totals /\ due \in 1 .. LastDay
  BY <1>2, TotalsAreAmounts, CalendarAssumption DEF Totals
<1>4. rows \in Seq(Item) /\ LinesPass(clients[c].export, LinesOf(rows))
  <2>1. 0 \in 0 .. MaxBatch
    BY MaxBatchAssumption
  <2> QED
    BY <1>1, <1>2, <2>1, InsertedFit
<1>5. clients[c].export => totals.ttc = totals.ht
  <2>1. clients[c].export => \A n \in DOMAIN items : items[n].rate = 0
    BY DEF LinesPass
  <2> QED
    BY <1>2, <2>1, ExportTotalsHaveNoVat
<1>6. row = [statut |-> "BROUILLON", direction |-> "OUTGOING", numbered |-> FALSE, client |-> c,
             bill |-> NoBill, issued |-> today, due |-> due, totals |-> totals, items |-> rows,
             devise |-> clients[c].devise, export |-> clients[c].export, key |-> key]
  BY DEF Draft
<1> HIDE DEF totals, rows, row
<1>7. row \in Invoice
  BY <1>1, <1>3, <1>4, <1>6 DEF Invoice, Statuts
<1>8. /\ row.export = clients[c].export /\ row.devise = clients[c].devise
      /\ row.items = rows /\ row.totals = totals /\ row.key = key /\ ~ row.numbered
  BY <1>6
<1>9. ContentInv(row) /\ row.key = key
  BY <1>4, <1>5, <1>7, <1>8 DEF ContentInv, NeedsForeignCurrency
<1> QED
  BY <1>9 DEF row

LEMMA BillFits ==
    ASSUME NEW bill \in Bills
    PROVE  ContentInv(BillRow(bill)) /\ BillRow(bill).key = NoKey
<1> DEFINE row == BillRow(bill)
           rows == Inserted(0, bill.items)
<1>1. rows \in Seq(Item)
  <2>1. 0 \in 0 .. MaxBatch
    BY MaxBatchAssumption
  <2>2. bill.items \in Seq(Line) /\ \A n \in DOMAIN bill.items : InColumn(bill.items[n]) \in Line
    BY InputsAssumption
  <2> QED
    BY <2>1, <2>2, InsertedFit
<1>2. row = [statut |-> "ENVOYEE", direction |-> "INCOMING", numbered |-> TRUE, client |-> 0,
             bill |-> bill.id, issued |-> bill.issued, due |-> bill.due,
             totals |-> bill.totals, items |-> rows,
             devise |-> "TND", export |-> FALSE, key |-> NoKey]
  BY DEF BillRow
<1> HIDE DEF rows, row
<1>3. row \in Invoice
  BY <1>1, <1>2, InputsAssumption DEF Invoice, Statuts, Currencies
<1>4. ~ row.export /\ row.devise = "TND" /\ row.direction = "INCOMING" /\ row.key = NoKey
  BY <1>2
<1>5. ContentInv(row) /\ row.key = NoKey
  BY <1>3, <1>4 DEF ContentInv, NeedsForeignCurrency, LinesPass
<1> QED
  BY <1>5 DEF row

-----------------------------------------------------------------------------
(***************************************************************************)
(* What the sessions hold stays true while the tables move on.             *)
(***************************************************************************)

LEMMA SameTermsTwice ==
    ASSUME NEW row \in Invoice, NEW mid, NEW new, SameTerms(row, mid), SameTerms(mid, new)
    PROVE  SameTerms(row, new)
<1>1. ASSUME row.numbered PROVE new = [row EXCEPT !.statut = new.statut]
  <2>1. mid = [row EXCEPT !.statut = mid.statut]
    BY <1>1 DEF SameTerms
  <2>2. mid.numbered
    BY <1>1, <2>1 DEF Invoice
  <2>3. new = [mid EXCEPT !.statut = new.statut]
    BY <2>2 DEF SameTerms
  <2> QED
    BY <2>1, <2>3
<1> QED
  BY <1>1 DEF SameTerms

LEMMA SameTermsAtOnce == ASSUME NEW row \in Invoice PROVE SameTerms(row, row)
<1>1. row = [row EXCEPT !.statut = row.statut]
  BY DEF Invoice
<1> QED
  BY <1>1, RowsExist DEF SameTerms

\* Invoices are never deleted, so no count is ever too high.
LEMMA SummaryStays ==
    ASSUME NEW t, NEW old, NEW new, SummaryFits(t, old), IsFiniteSet(new), old \subseteq new
    PROVE  SummaryFits(t, new)
<1>1. Cardinality(old) <= Cardinality(new) /\ IsFiniteSet(old)
  BY FS_Subset
<1>2. Cardinality(old) \in Nat /\ Cardinality(new) \in Nat
  BY <1>1, FS_CardinalityType
<1> QED
  BY <1>1, <1>2 DEF SummaryFits

LEMMA PdfStays ==
    ASSUME NEW t, NEW old, NEW new, PdfFits(t, old), SameTerms(old[t.of], new[t.of])
    PROVE  PdfFits(t, new)
BY SameTermsTwice DEF PdfFits

LEMMA EditStays ==
    ASSUME NEW t, NEW old, NEW new, EditFits(t, old), SameTerms(old[t.of], new[t.of])
    PROVE  EditFits(t, new)
BY DEF EditFits, SameTerms

\* The tables have moved on: clients stay clients, invoices keep their terms.
Onwards ==
    /\ \A c \in Clients : clients[c] \in Client => clients'[c] \in Client
    /\ \A i \in Stored : SameTerms(invoices[i], invoices'[i])
    /\ IsFiniteSet(Stored')

\* Nobody has numbered an invoice that an edit has inserted lines of.
NobodyNumbers == \A w \in Workers : Writes(w) => ~ invoices'[task[w].of].numbered

LEMMA TaskStays ==
    ASSUME Onwards, NEW t, Fits(t)
    PROVE  Fits(t)'
<1>1. Stored \subseteq Stored'
  BY DEF Onwards, Stored, Exists, SameTerms
<1>2. t.op = "client" => ClientFits(t)'
  BY DEF Fits, ClientFits, Onwards
<1>3. t.op = "create" => CreateFits(t)'
  BY DEF Fits, CreateFits
<1>4. t.op = "pdf" => PdfFits(t, invoices')
  <2> SUFFICES ASSUME t.op = "pdf" PROVE PdfFits(t, invoices')
    OBVIOUS
  <2>1. PdfFits(t, invoices)
    BY DEF Fits
  <2>2. t.of \in Stored
    BY <2>1 DEF PdfFits, SameTerms, Stored, Exists
  <2>3. SameTerms(invoices[t.of], invoices'[t.of])
    BY <2>2 DEF Onwards
  <2> QED
    BY <2>1, <2>3, PdfStays
<1>5. t.op = "summary" => SummaryFits(t, Stored')
  BY <1>1, SummaryStays DEF Fits, Onwards
<1>6. t.op = "edit" => EditFits(t, invoices')
  <2> SUFFICES ASSUME t.op = "edit" PROVE EditFits(t, invoices')
    OBVIOUS
  <2>1. EditFits(t, invoices)
    BY DEF Fits
  <2>2. t.of \in Stored
    BY <2>1 DEF EditFits, Stored, Exists
  <2>3. SameTerms(invoices[t.of], invoices'[t.of])
    BY <2>2 DEF Onwards
  <2> QED
    BY <2>1, <2>3, EditStays
<1> QED
  BY <1>2, <1>3, <1>4, <1>5, <1>6 DEF Fits

\* A session that moves on from a commit, or does nothing, keeps its lock.
LEMMA LockStays ==
    ASSUME NobodyNumbers, NEW w \in Workers, task'[w] \in {task[w], Idle}
    PROVE  LockInv(w)'
BY DEF NobodyNumbers, LockInv, Writes, Idle

\* An edit is of an invoice that exists.
LEMMA WritersHaveInvoices ==
    ASSUME BillingInv, NEW w \in Workers, Writes(w)
    PROVE  task[w].of \in Stored /\ ~ invoices[task[w].of].numbered
BY DEF BillingInv, TasksInv, TaskInv, LockInv, Fits, EditFits, Writes, Stored, Exists

\* A step of worker w alone: its session's new memory fits, and it takes a key
\* only when that is free.
LEMMA TaskStep ==
    ASSUME BillingInv, NEW w \in Workers, NEW next, Goes(w, next), Fits(next),
           next.op = "create" /\ next.pc = "commit" => KeyIsFree(w, next.row.key),
           next.op = "edit" /\ next.pc = "commit" => ~ invoices[next.of].numbered,
           UNCHANGED <<clients, suppliers, invoices, answers, today>>
    PROVE  BillingInv'
<1>1. ClientsInv' /\ InvoicesInv' /\ suppliers' \subseteq Suppliers /\ today' \in 1 .. LastDay
  BY DEF BillingInv, ClientsInv, InvoicesInv, Stored, Exists
<1>2. KeysInv'
  BY DEF BillingInv, KeysInv, Stored, Exists, Keyed
<1>3. /\ task' = [v \in Workers |-> task'[v]]
      /\ task'[w] = next
      /\ \A v \in Workers \ {w} : task'[v] = task[v]
  BY DEF BillingInv, TasksInv, Goes
<1>4. \A k \in Keys : Keyed(k)' = Keyed(k)
  BY DEF Keyed, Stored, Exists
<1>5. Onwards
  BY SameTermsAtOnce DEF BillingInv, InvoicesInv, ContentInv, Onwards, Stored, Exists
<1>6. ASSUME NEW v \in Workers PROVE TaskInv(v)'
  <2>1. Fits(task'[v])
    BY <1>3 DEF BillingInv, TasksInv, TaskInv
  <2>2. PICK t : t = task'[v]
    OBVIOUS
  <2>3. Fits(t)'
    BY <1>5, <2>1, <2>2, TaskStays
  <2> QED
    BY <2>2, <2>3 DEF TaskInv
<1>7. ASSUME NEW v \in Workers PROVE HoldInv(v)'
  BY <1>3 DEF BillingInv, TasksInv, HoldInv, Holds, KeyIsFree, Keyed, Stored, Exists
<1>8. ASSUME NEW v \in Workers PROVE LockInv(v)'
  BY <1>3 DEF BillingInv, TasksInv, LockInv, Writes
<1> QED
  BY <1>1, <1>2, <1>3, <1>6, <1>7, <1>8 DEF BillingInv, TasksInv

-----------------------------------------------------------------------------
(***************************************************************************)
(* The requests.                                                           *)
(***************************************************************************)

LEMMA IdleFits == Fits(Idle)
BY DEF Fits, Idle

LEMMA Initially == BillingInit => BillingInv
<1> SUFFICES ASSUME BillingInit PROVE BillingInv
  OBVIOUS
<1>1. Stored = {}
  BY DEF BillingInit, Stored, Exists
<1>2. ClientsInv
  BY DEF BillingInit, ClientsInv, NoClient, NeedsForeignCurrency
<1>3. InvoicesInv
  BY <1>1, FS_EmptySet DEF BillingInit, InvoicesInv
<1>4. KeysInv
  BY <1>1 DEF BillingInit, KeysInv
<1>5. TasksInv
  BY IdleFits DEF BillingInit, TasksInv, TaskInv, HoldInv, Holds, LockInv, Writes, Idle
<1>6. today \in 1 .. LastDay
  BY CalendarAssumption DEF BillingInit
<1> QED
  BY <1>2, <1>3, <1>4, <1>5, <1>6 DEF BillingInv, BillingInit

LEMMA EndSafe ==
    ASSUME BillingInv, NEW w \in Workers, End(w)
    PROVE  BillingInv'
BY IdleFits, TaskStep DEF End, Idle

LEMMA UpdateClientSafe ==
    ASSUME BillingInv, NEW w \in Workers, NEW c \in Clients, NEW change \in Changes,
           UpdateClient(w, c, change)
    PROVE  BillingInv'
<1> DEFINE differs == {field \in DOMAIN change : change[field] # clients[c][field]}
           set == [f \in differs |-> change[f]]
           next == [op |-> "client", client |-> c, set |-> set]
<1>1. clients[c] \in Client
  BY DEF BillingInv, ClientsInv, UpdateClient
<1>2. \A row \in Client : Corrected(row, set) \in Client
  BY CorrectionsFit
<1>3. Fits(next)
  BY <1>1, <1>2 DEF Fits, ClientFits, Operations
<1>4. Goes(w, next) /\ UNCHANGED <<clients, suppliers, invoices, answers, today>>
  BY DEF UpdateClient
<1> HIDE DEF set
<1>5. next.op = "client"
  OBVIOUS
<1> QED
  BY <1>3, <1>4, <1>5, TaskStep

LEMMA InsertInvoiceSafe ==
    ASSUME BillingInv, NEW w \in Workers, InsertInvoice(w)
    PROVE  BillingInv'
<1> DEFINE t == task[w]
           next == [t EXCEPT !.pc = "commit"]
<1>1. CreateFits(t)
  BY DEF BillingInv, TasksInv, TaskInv, Fits, InsertInvoice
<1>2. next = [op |-> "create", pc |-> "commit", row |-> t.row]
  BY <1>1 DEF CreateFits
<1>3. Fits(next)
  BY <1>1, <1>2 DEF CreateFits, Fits, Operations
<1>4. Goes(w, next) /\ UNCHANGED <<clients, suppliers, invoices, answers, today>>
  BY DEF InsertInvoice
<1>5. KeyIsFree(w, next.row.key) /\ next.op = "create"
  BY <1>2 DEF InsertInvoice
<1> HIDE DEF next
<1> QED
  BY <1>3, <1>4, <1>5, TaskStep

LEMMA DownloadSafe ==
    ASSUME BillingInv, NEW w \in Workers, NEW i \in Invoices, Download(w, i)
    PROVE  BillingInv'
<1> DEFINE next == [op |-> "pdf", pc |-> "lines", row |-> invoices[i], of |-> i]
<1>1. ContentInv(invoices[i])
  BY DEF BillingInv, InvoicesInv, Download, Stored
<1>2. SameTerms(invoices[i], invoices[i])
  BY <1>1, SameTermsAtOnce DEF ContentInv
<1>3. PdfFits(next, invoices)
  BY <1>1, <1>2 DEF PdfFits, ContentInv
<1>4. Fits(next)
  BY <1>3 DEF Fits, Operations
<1>5. Goes(w, next) /\ UNCHANGED <<clients, suppliers, invoices, answers, today>>
  BY DEF Download
<1> QED
  BY <1>4, <1>5, TaskStep

LEMMA ReadLinesSafe ==
    ASSUME BillingInv, NEW w \in Workers, ReadLines(w)
    PROVE  BillingInv'
<1> DEFINE t == task[w]
           stored == invoices[t.of]
           row == [t.row EXCEPT !.items = stored.items]
           next == [op |-> "pdf", pc |-> "party", row |-> row, of |-> t.of]
<1>1. PdfFits(t, invoices)
  BY DEF BillingInv, TasksInv, TaskInv, Fits, ReadLines
<1>2. ContentInv(stored)
  BY <1>1 DEF PdfFits, SameTerms, BillingInv, InvoicesInv, Stored, Exists
<1>3. stored.items \in Seq(Item)
  BY <1>2 DEF ContentInv, Invoice
<1>4. row \in Invoice
  BY <1>1, <1>3 DEF PdfFits, Invoice
<1>5. /\ row.numbered = t.row.numbered /\ row.direction = t.row.direction /\ row.key = t.row.key
      /\ row.export = t.row.export /\ row.client = t.row.client /\ row.devise = t.row.devise
  BY <1>1 DEF PdfFits, Invoice
<1>6. ASSUME row.numbered PROVE stored = [row EXCEPT !.statut = stored.statut]
  <2>1. stored = [t.row EXCEPT !.statut = stored.statut]
    BY <1>1, <1>5, <1>6 DEF PdfFits, SameTerms
  <2>2. stored.items = t.row.items
    BY <1>1, <2>1 DEF PdfFits, Invoice
  <2>3. row = t.row
    BY <1>1, <2>2 DEF PdfFits, Invoice
  <2> QED
    BY <2>1, <2>3
<1>7. SameTerms(row, stored)
  BY <1>1, <1>5, <1>6 DEF PdfFits, SameTerms
<1>9. PdfFits(next, invoices)
  BY <1>1, <1>4, <1>7 DEF PdfFits
<1>10. Fits(next)
  BY <1>9 DEF Fits, Operations
<1> HIDE DEF row
<1>11. next = [t EXCEPT !.pc = "party", !.row = row]
  <2> DEFINE mid == [t EXCEPT !.pc = "party"]
  <2>1. mid = [op |-> "pdf", pc |-> "party", row |-> t.row, of |-> t.of]
    BY <1>1 DEF PdfFits
  <2> HIDE DEF mid
  <2>2. [mid EXCEPT !.row = row] = next
    BY <2>1
  <2> QED
    BY <2>2 DEF mid
<1>12. Goes(w, next) /\ UNCHANGED <<clients, suppliers, invoices, answers, today>>
  BY <1>11 DEF ReadLines, row
<1> QED
  BY <1>10, <1>12, TaskStep

LEMMA DisjointUnion ==
    ASSUME NEW S, NEW T, IsFiniteSet(S), IsFiniteSet(T), S \cap T = {}
    PROVE  IsFiniteSet(S \cup T) /\ Cardinality(S \cup T) = Cardinality(S) + Cardinality(T)
<1>1. Cardinality(S) \in Nat /\ Cardinality(T) \in Nat
  BY FS_CardinalityType
<1>2. Cardinality(S \cap T) = 0
  BY FS_EmptySet
<1>3. IsFiniteSet(S \cup T)
        /\ Cardinality(S \cup T) = Cardinality(S) + Cardinality(T) - Cardinality(S \cap T)
  BY FS_Union
<1> QED
  BY <1>1, <1>2, <1>3

\* An invoice is shown under one of the five statuses, so the five figures are
\* those of a partition.
LEMMA FiguresAddUp ==
    ASSUME InvoicesInv
    PROVE  LET byStatus == [s \in Commercial |->
                    Cardinality({i \in Stored : DisplayedStatus(invoices[i]) = s})]
           IN  Counted(byStatus) = Cardinality(Stored)
<1> DEFINE Of(s) == {i \in Stored : DisplayedStatus(invoices[i]) = s}
           figure(s) == Cardinality(Of(s))
           byStatus == [s \in Commercial |-> figure(s)]
           A == Of("BROUILLON") \cup Of("ENVOYEE")
           B == A \cup Of("EN_RETARD")
           C == B \cup Of("PAYEE")
<1>1. \A s : IsFiniteSet(Of(s)) /\ figure(s) \in Nat
  <2> TAKE s
  <2>1. Of(s) \in SUBSET Stored
    OBVIOUS
  <2>2. IsFiniteSet(Of(s))
    BY <2>1, FS_Subset DEF InvoicesInv
  <2> QED
    BY <2>2, FS_CardinalityType
<1>2. \A i \in Stored : DisplayedStatus(invoices[i]) \in Commercial
  BY DEF InvoicesInv, ContentInv, Invoice, DisplayedStatus, Commercial, Statuts
<1>3. Stored = C \cup Of("ANNULEE")
  BY <1>2 DEF Commercial, Statuts
<1>4. /\ Of("BROUILLON") \cap Of("ENVOYEE") = {}
      /\ A \cap Of("EN_RETARD") = {}
      /\ B \cap Of("PAYEE") = {}
      /\ C \cap Of("ANNULEE") = {}
  OBVIOUS
<1> HIDE DEF Of
<1>5. IsFiniteSet(A) /\ Cardinality(A) = figure("BROUILLON") + figure("ENVOYEE")
  BY <1>1, <1>4, DisjointUnion
<1>6. IsFiniteSet(B) /\ Cardinality(B) = Cardinality(A) + figure("EN_RETARD")
  <2> HIDE DEF A
  <2> QED
    BY <1>1, <1>4, <1>5, DisjointUnion
<1>7. IsFiniteSet(C) /\ Cardinality(C) = Cardinality(B) + figure("PAYEE")
  <2> HIDE DEF B
  <2> QED
    BY <1>1, <1>4, <1>6, DisjointUnion
<1>8. Cardinality(Stored) = Cardinality(C) + figure("ANNULEE")
  <2> HIDE DEF C
  <2> QED
    BY <1>1, <1>3, <1>4, <1>7, DisjointUnion
<1> HIDE DEF A, B, C
<1>9. Counted(byStatus) = figure("BROUILLON") + figure("ENVOYEE") + figure("EN_RETARD")
                            + figure("PAYEE") + figure("ANNULEE")
  <2> HIDE DEF figure
  <2> QED
    BY DEF Counted, Commercial, Statuts
<1>10. Counted(byStatus) = Cardinality(Stored)
  BY <1>1, <1>5, <1>6, <1>7, <1>8, <1>9
<1> QED
  BY <1>10 DEF figure, Of

LEMMA SummariseSafe ==
    ASSUME BillingInv, NEW w \in Workers, Summarise(w)
    PROVE  BillingInv'
<1> DEFINE byStatus == [s \in Commercial |->
                Cardinality({i \in Stored : DisplayedStatus(invoices[i]) = s})]
           next == [op |-> "summary", pc |-> "processing", rows |-> Cardinality(Stored),
                    byStatus |-> byStatus]
<1>1. Counted(byStatus) = Cardinality(Stored)
  BY FiguresAddUp DEF BillingInv
<1>2. Cardinality(Stored) \in Nat
  BY FS_CardinalityType DEF BillingInv, InvoicesInv
<1>3. Goes(w, next) /\ UNCHANGED <<clients, suppliers, invoices, answers, today>>
  BY DEF Summarise
<1> HIDE DEF byStatus
<1>4. SummaryFits(next, Stored)
  BY <1>1, <1>2 DEF SummaryFits
<1>5. Fits(next)
  BY <1>4 DEF Fits, Operations
<1> QED
  BY <1>3, <1>5, TaskStep

LEMMA CountStatesSafe ==
    ASSUME BillingInv, NEW w \in Workers, CountStates(w)
    PROVE  BillingInv'
<1> DEFINE t == task[w]
           next == [op |-> "summary", pc |-> "directions", rows |-> t.rows,
                    byStatus |-> t.byStatus, byProcessing |-> Cardinality(Stored)]
<1>1. SummaryFits(t, Stored)
  BY DEF BillingInv, TasksInv, TaskInv, Fits, CountStates
<1>2. Cardinality(Stored) \in Nat
  BY FS_CardinalityType DEF BillingInv, InvoicesInv
<1>3. SummaryFits(next, Stored)
  BY <1>1, <1>2 DEF SummaryFits
<1>4. Fits(next)
  BY <1>3 DEF Fits, Operations
<1>5. Goes(w, next) /\ UNCHANGED <<clients, suppliers, invoices, answers, today>>
  BY DEF CountStates
<1> QED
  BY <1>4, <1>5, TaskStep

LEMMA CreateInvoiceSafe ==
    ASSUME BillingInv, NEW w \in Workers, NEW c \in Clients, NEW due \in DueDates,
           NEW items \in Carts, NEW key \in Keys, CreateInvoice(w, c, due, items, key)
    PROVE  BillingInv'
<1>1. CASE Keyed(key) # {}
  <2>1. /\ answers' = [answers EXCEPT ![key] = @ \cup Keyed(key)]
        /\ UNCHANGED <<clients, suppliers, invoices, task, today>>
    BY <1>1 DEF CreateInvoice
  <2>2. ClientsInv' /\ InvoicesInv' /\ suppliers' \subseteq Suppliers /\ today' \in 1 .. LastDay
    BY <2>1 DEF BillingInv, ClientsInv, InvoicesInv, Stored, Exists
  <2>3. KeysInv'
    BY <2>1 DEF BillingInv, KeysInv, Keyed, Stored, Exists
  <2>4. TasksInv'
    BY <2>1 DEF BillingInv, TasksInv, TaskInv, HoldInv, Holds, LockInv, Writes, Fits, ClientFits,
               CreateFits, Keyed, Stored, Exists
  <2> QED
    BY <2>2, <2>3, <2>4 DEF BillingInv
<1>2. CASE Keyed(key) = {}
  <2> DEFINE row == Draft(c, due, items, key)
             next == [op |-> "create", pc |-> "insert", row |-> row]
  <2>1. /\ clients[c] # NoClient /\ LinesPass(clients[c].export, items)
        /\ Goes(w, next)
        /\ UNCHANGED <<clients, suppliers, invoices, answers, today>>
    BY <1>2 DEF CreateInvoice
  <2>2. clients[c] \in Client /\ ~ NeedsForeignCurrency(clients[c]) /\ today \in 1 .. LastDay
    BY <2>1 DEF BillingInv, ClientsInv
  <2>3. ContentInv(row) /\ row.key = key
    BY <2>1, <2>2, DraftFits
  <2> HIDE DEF row
  <2>4. Fits(next)
    BY <2>3 DEF Fits, CreateFits, Operations
  <2> QED
    BY <2>1, <2>4, TaskStep
<1> QED
  BY <1>1, <1>2

\* The tables move on and no session does: what remains is who holds a key.
LEMMA TasksStay ==
    ASSUME BillingInv, Onwards, NobodyNumbers, task' = task,
           \A k \in Keys : Keyed(k)' = Keyed(k)
    PROVE  TasksInv'
<1>1. ASSUME NEW w \in Workers PROVE TaskInv(w)'
  <2>1. PICK t : t = task[w]
    OBVIOUS
  <2>2. Fits(t)'
    BY <2>1, TaskStays DEF BillingInv, TasksInv, TaskInv
  <2> QED
    BY <2>1, <2>2 DEF TaskInv
<1>2. ASSUME NEW w \in Workers PROVE HoldInv(w)'
  <2>1. Holds(w) => task[w].row.key \in Keys
    BY DEF BillingInv, TasksInv, TaskInv, Fits, CreateFits, Holds
  <2> QED
    BY <2>1 DEF BillingInv, TasksInv, HoldInv, Holds
<1>3. ASSUME NEW w \in Workers PROVE LockInv(w)'
  BY LockStays
<1> QED
  BY <1>1, <1>2, <1>3 DEF BillingInv, TasksInv

\* Nobody numbers an invoice in a step that writes none.
LEMMA NobodyWrites == ASSUME BillingInv, invoices' = invoices PROVE NobodyNumbers
BY WritersHaveInvoices DEF NobodyNumbers

LEMMA CreateClientSafe ==
    ASSUME BillingInv, NEW c \in Clients, NEW client \in NewClients, CreateClient(c, client)
    PROVE  BillingInv'
<1>1. client \in Client /\ ~ NeedsForeignCurrency(client)
  BY InputsAssumption DEF CreateClient, ClientPasses
<1>2. ClientsInv'
  BY <1>1 DEF BillingInv, ClientsInv, CreateClient
<1>3. InvoicesInv' /\ suppliers' \subseteq Suppliers /\ today' \in 1 .. LastDay
  BY DEF BillingInv, InvoicesInv, Stored, Exists, CreateClient
<1>4. KeysInv' /\ \A k \in Keys : Keyed(k)' = Keyed(k)
  BY DEF BillingInv, KeysInv, Stored, Exists, Keyed, CreateClient
<1>5. Onwards
  BY <1>1, SameTermsAtOnce
     DEF BillingInv, ClientsInv, InvoicesInv, ContentInv, Onwards, Stored, Exists, CreateClient
<1>6. TasksInv'
  BY <1>4, <1>5, NobodyWrites, TasksStay DEF CreateClient
<1> QED
  BY <1>2, <1>3, <1>4, <1>6 DEF BillingInv

LEMMA SameInvoices ==
    ASSUME BillingInv, UNCHANGED <<clients, invoices, task, answers>>
    PROVE  ClientsInv' /\ InvoicesInv' /\ KeysInv' /\ TasksInv'
<1>1. ClientsInv' /\ InvoicesInv' /\ KeysInv'
  BY DEF BillingInv, ClientsInv, InvoicesInv, KeysInv, Stored, Exists, Keyed
<1>2. TasksInv'
  BY DEF BillingInv, TasksInv, TaskInv, HoldInv, Holds, LockInv, Writes, Fits, ClientFits,
         CreateFits, Keyed, Stored, Exists
<1> QED
  BY <1>1, <1>2

LEMMA CreateSupplierSafe ==
    ASSUME BillingInv, NEW nom \in Suppliers, CreateSupplier(nom)
    PROVE  BillingInv'
BY SameInvoices DEF BillingInv, CreateSupplier

LEMMA MidnightSafe ==
    ASSUME BillingInv, Midnight
    PROVE  BillingInv'
<1>1. today' \in 1 .. LastDay
  BY CalendarAssumption DEF BillingInv, Midnight
<1> QED
  BY <1>1, SameInvoices DEF BillingInv, Midnight

\* A worker's step that ends its request frees the key it held, if any.
LEMMA CommitClientSafe ==
    ASSUME BillingInv, NEW w \in Workers, CommitClient(w)
    PROVE  BillingInv'
<1> DEFINE t == task[w]
           row == Corrected(clients[t.client], t.set)
<1>1. ClientFits(t)
  BY DEF BillingInv, TasksInv, TaskInv, Fits, CommitClient
<1>2. row \in Client /\ ~ NeedsForeignCurrency(row)
  BY <1>1 DEF ClientFits, CommitClient, ClientPasses
<1>3. clients' = [clients EXCEPT ![t.client] = row] /\ t.client \in Clients
  BY <1>1 DEF CommitClient, ClientFits
<1> HIDE DEF row
<1>4. ClientsInv'
  BY <1>2, <1>3 DEF BillingInv, ClientsInv
<1>5. InvoicesInv' /\ suppliers' \subseteq Suppliers /\ today' \in 1 .. LastDay
  BY DEF BillingInv, InvoicesInv, Stored, Exists, CommitClient
<1>6. KeysInv' /\ \A k \in Keys : Keyed(k)' = Keyed(k)
  BY DEF BillingInv, KeysInv, Stored, Exists, Keyed, CommitClient
<1>7. Onwards
  BY <1>2, <1>3, SameTermsAtOnce
     DEF BillingInv, ClientsInv, InvoicesInv, ContentInv, Onwards, Stored, Exists, CommitClient
<1>8. /\ task' = [v \in Workers |-> task'[v]]
      /\ task'[w] = Idle
      /\ \A v \in Workers \ {w} : task'[v] = task[v]
  BY DEF BillingInv, TasksInv, Goes, CommitClient
<1>9. ASSUME NEW v \in Workers PROVE TaskInv(v)'
  <2>1. Fits(task'[v])
    BY <1>8, IdleFits DEF BillingInv, TasksInv, TaskInv
  <2>2. PICK next : next = task'[v]
    OBVIOUS
  <2>3. Fits(next)'
    BY <1>7, <2>1, <2>2, TaskStays
  <2> QED
    BY <2>2, <2>3 DEF TaskInv
<1>10. ASSUME NEW v \in Workers PROVE HoldInv(v)'
  <2>1. Holds(v) => task[v].row.key \in Keys
    BY DEF BillingInv, TasksInv, TaskInv, Fits, CreateFits, Holds
  <2> QED
    BY <1>6, <1>8, <2>1 DEF BillingInv, TasksInv, HoldInv, Holds, Idle
<1>11. ASSUME NEW v \in Workers PROVE LockInv(v)'
  <2>1. NobodyNumbers
    BY NobodyWrites DEF CommitClient
  <2> QED
    BY <1>8, <2>1, LockStays
<1> QED
  BY <1>4, <1>5, <1>6, <1>8, <1>9, <1>10, <1>11 DEF BillingInv, TasksInv

-----------------------------------------------------------------------------
(***************************************************************************)
(* The invoices.                                                           *)
(***************************************************************************)

\* What a new state of one row leaves alone
LEMMA RowStep ==
    ASSUME BillingInv, NEW i \in Invoices, NEW row, Exists(i),
           invoices' = [invoices EXCEPT ![i] = row], ContentInv(row), SameTerms(invoices[i], row),
           UNCHANGED <<clients, suppliers, answers, today>>
    PROVE  /\ ClientsInv' /\ InvoicesInv' /\ KeysInv' /\ suppliers' \subseteq Suppliers
           /\ today' \in 1 .. LastDay
           /\ Onwards
           /\ \A k \in Keys : Keyed(k)' = Keyed(k)
<1>1. /\ invoices' = [j \in Invoices |-> invoices'[j]]
      /\ invoices'[i] = row
      /\ \A j \in Invoices \ {i} : invoices'[j] = invoices[j]
  BY DEF BillingInv, InvoicesInv
<1>2. row # NoInvoice /\ row.key = invoices[i].key
  BY DEF SameTerms
<1>3. Stored' = Stored
  BY <1>1, <1>2 DEF Stored, Exists
<1>4. InvoicesInv'
  <2>1. \A j \in Stored : ContentInv(invoices'[j])
    BY <1>1 DEF BillingInv, InvoicesInv, Stored
  <2> QED
    BY <1>1, <1>3, <2>1 DEF BillingInv, InvoicesInv
<1>5. /\ \A j \in Stored : invoices'[j].key = invoices[j].key
      /\ \A k \in Keys : Keyed(k)' = Keyed(k)
  BY <1>1, <1>2, <1>3 DEF Keyed, Stored
<1>6. ClientsInv' /\ suppliers' \subseteq Suppliers /\ today' \in 1 .. LastDay
  BY DEF BillingInv, ClientsInv
<1>7. KeysInv'
  BY <1>3, <1>5 DEF BillingInv, KeysInv
<1>8. Onwards
  <2>1. \A j \in Stored \ {i} : SameTerms(invoices[j], invoices'[j])
    BY <1>1, SameTermsAtOnce DEF BillingInv, InvoicesInv, ContentInv, Stored
  <2> QED
    BY <1>1, <1>3, <2>1 DEF Onwards, BillingInv, InvoicesInv
<1> QED
  BY <1>4, <1>5, <1>6, <1>7, <1>8

LEMMA InvoiceStep ==
    ASSUME BillingInv, NEW i \in Invoices, NEW row, Exists(i), Becomes(i, row),
           ContentInv(row), SameTerms(invoices[i], row),
           row.numbered => invoices[i].numbered \/ \A w \in Workers : ~ Edits(w, i, {"commit"})
    PROVE  BillingInv' /\ Onwards
<1>1. /\ ClientsInv' /\ InvoicesInv' /\ KeysInv' /\ suppliers' \subseteq Suppliers
      /\ today' \in 1 .. LastDay
      /\ Onwards
      /\ \A k \in Keys : Keyed(k)' = Keyed(k)
  BY RowStep DEF Becomes
<1>2. NobodyNumbers
  <2> SUFFICES ASSUME NEW w \in Workers, Writes(w) PROVE ~ invoices'[task[w].of].numbered
    BY DEF NobodyNumbers
  <2>1. task[w].of \in Stored /\ ~ invoices[task[w].of].numbered
    BY WritersHaveInvoices
  <2>2. CASE task[w].of = i
    <3>1. invoices'[i] = row
      BY DEF BillingInv, InvoicesInv, Becomes
    <3>2. Edits(w, i, {"commit"})
      BY <2>2 DEF Writes, Edits
    <3> QED
      BY <2>1, <2>2, <3>1, <3>2
  <2>3. CASE task[w].of # i
    BY <2>1, <2>3 DEF BillingInv, InvoicesInv, Becomes, Stored
  <2> QED
    BY <2>2, <2>3
<1>3. TasksInv'
  BY <1>1, <1>2, TasksStay DEF Becomes
<1> QED
  BY <1>1, <1>3 DEF BillingInv

\* An edit loads and checks, ...
LEMMA EditInvoiceSafe ==
    ASSUME BillingInv, NEW w \in Workers, NEW i \in Invoices, NEW due \in DueDates,
           NEW items \in Carts, EditInvoice(w, i, due, items)
    PROVE  BillingInv'
<1> DEFINE row == invoices[i]
           next == [op |-> "edit", pc |-> "lines", of |-> i, read |-> row.totals,
                    readDue |-> row.due, due |-> due, items |-> items, loaded |-> {}]
<1>1. row # NoInvoice /\ ContentInv(row) /\ LinesPass(row.export, items)
  BY DEF EditInvoice, BillingInv, InvoicesInv, Stored, Exists
<1>2. row.totals \in Totals /\ (row.export => row.totals.ttc = row.totals.ht)
  BY <1>1 DEF ContentInv, Invoice
<1>3. Goes(w, next) /\ UNCHANGED <<clients, suppliers, invoices, answers, today>>
  BY DEF EditInvoice
<1>4. EditFits(next, invoices)
  BY <1>1, <1>2 DEF EditFits
<1>5. Fits(next) /\ next.op = "edit" /\ next.pc = "lines"
  BY <1>4 DEF Fits, Operations
<1> HIDE DEF next
<1> QED
  BY <1>3, <1>5, TaskStep

LEMMA EditRecord ==
    ASSUME NEW t, NEW table, EditFits(t, table), NEW pc, NEW loaded
    PROVE  [t EXCEPT !.pc = pc, !.loaded = loaded] =
             [op |-> "edit", pc |-> pc, of |-> t.of, read |-> t.read, readDue |-> t.readDue,
              due |-> t.due, items |-> t.items, loaded |-> loaded]
<1> DEFINE Row(at, ids) == [op |-> "edit", pc |-> at, of |-> t.of, read |-> t.read,
                            readDue |-> t.readDue, due |-> t.due, items |-> t.items, loaded |-> ids]
           old == Row(t.pc, t.loaded)
<1>1. t = old
  BY DEF EditFits
<1>2. [old EXCEPT !.pc = pc, !.loaded = loaded] = Row(pc, loaded)
  <2>1. [old EXCEPT !.pc = pc] = Row(pc, t.loaded)
    OBVIOUS
  <2>2. [Row(pc, t.loaded) EXCEPT !.loaded = loaded] = Row(pc, loaded)
    OBVIOUS
  <2>3. /\ DOMAIN old = {"op", "pc", "of", "read", "readDue", "due", "items", "loaded"}
        /\ old = [f \in DOMAIN old |-> old[f]]
    OBVIOUS
  <2> HIDE DEF old, Row
  <2>4. [old EXCEPT !.pc = pc, !.loaded = loaded] = [[old EXCEPT !.pc = pc] EXCEPT !.loaded = loaded]
    BY <2>3
  <2> QED
    BY <2>1, <2>2, <2>4
<1> HIDE DEF old
<1>3. [t EXCEPT !.pc = pc, !.loaded = loaded] = Row(pc, loaded)
  BY <1>1, <1>2
<1> QED
  BY <1>3

\* ... and moves on in its own memory ...
LEMMA EditStep ==
    ASSUME BillingInv, NEW w \in Workers, task[w].op = "edit",
           NEW pc \in {"delete", "insert", "commit"}, NEW loaded,
           Goes(w, [task[w] EXCEPT !.pc = pc, !.loaded = loaded]),
           pc = "commit" => ~ invoices[task[w].of].numbered,
           UNCHANGED <<clients, suppliers, invoices, answers, today>>
    PROVE  BillingInv'
<1> DEFINE t == task[w]
           next == [op |-> "edit", pc |-> pc, of |-> t.of, read |-> t.read, readDue |-> t.readDue,
                    due |-> t.due, items |-> t.items, loaded |-> loaded]
<1>1. EditFits(t, invoices)
  BY DEF BillingInv, TasksInv, TaskInv, Fits
<1>2. [t EXCEPT !.pc = pc, !.loaded = loaded] = next
  BY <1>1, EditRecord
<1>3. EditFits(next, invoices)
  BY <1>1 DEF EditFits
<1>4. Fits(next) /\ next.op = "edit" /\ next.pc = pc /\ next.of = t.of
  BY <1>3 DEF Fits, Operations
<1>5. Goes(w, next)
  BY <1>2
<1> HIDE DEF next
<1> QED
  BY <1>4, <1>5, TaskStep

LEMMA LoadLinesSafe ==
    ASSUME BillingInv, NEW w \in Workers, LoadLines(w)
    PROVE  BillingInv'
BY EditStep DEF LoadLines

\* ... (what it has loaded stays as it is) ...
LEMMA SameLoaded ==
    ASSUME BillingInv, NEW w \in Workers, task[w].op = "edit", NEW pc
    PROVE  [task[w] EXCEPT !.pc = pc] = [task[w] EXCEPT !.pc = pc, !.loaded = task[w].loaded]
<1> DEFINE t == task[w]
           mid == [t EXCEPT !.pc = pc]
<1>1. DOMAIN t = {"op", "pc", "of", "read", "readDue", "due", "items", "loaded"}
        /\ t = [f \in DOMAIN t |-> t[f]]
  BY DEF BillingInv, TasksInv, TaskInv, Fits, EditFits
<1>2. mid = [f \in DOMAIN t |-> IF f = "pc" THEN pc ELSE t[f]]
  BY <1>1
<1>3. [t EXCEPT !.pc = pc, !.loaded = t.loaded]
        = [f \in DOMAIN t |-> IF f = "loaded" THEN t.loaded ELSE IF f = "pc" THEN pc ELSE t[f]]
  BY <1>1
<1> QED
  BY <1>1, <1>2, <1>3

LEMMA DeleteLinesSafe ==
    ASSUME BillingInv, NEW w \in Workers, DeleteLines(w)
    PROVE  BillingInv'
<1>1. task[w].op = "edit" /\ UNCHANGED <<clients, suppliers, invoices, answers, today>>
  BY DEF DeleteLines
<1>2. Goes(w, [task[w] EXCEPT !.pc = "insert", !.loaded = task[w].loaded])
  BY <1>1, SameLoaded DEF DeleteLines
<1> QED
  BY <1>1, <1>2, EditStep

\* ... up to the flush that the triggers judge.
LEMMA WriteLinesSafe ==
    ASSUME BillingInv, NEW w \in Workers, WriteLines(w)
    PROVE  BillingInv'
<1>1. /\ task[w].op = "edit" /\ ~ invoices[task[w].of].numbered
      /\ UNCHANGED <<clients, suppliers, invoices, answers, today>>
  BY DEF WriteLines, Editable
<1>2. Goes(w, [task[w] EXCEPT !.pc = "commit", !.loaded = task[w].loaded])
  BY <1>1, SameLoaded DEF WriteLines
<1> QED
  BY <1>1, <1>2, EditStep

\* Lines of another edit may stay beside its own, but nothing of it is numbered.
LEMMA CommitEditSafe ==
    ASSUME BillingInv, NEW w \in Workers, NEW k \in 0 .. MaxBatch, CommitEdit(w, k)
    PROVE  BillingInv' /\ Onwards
<1> DEFINE t == task[w]
           i == t.of
           row == EditedInvoice(t, invoices[i], k)
<1>1. Writes(w) /\ EditFits(t, invoices)
  BY DEF CommitEdit, Writes, BillingInv, TasksInv, TaskInv, Fits
<1>2. i \in Invoices /\ Exists(i) /\ ContentInv(invoices[i]) /\ ~ invoices[i].numbered
  BY <1>1, WritersHaveInvoices DEF BillingInv, InvoicesInv, Stored
<1>3. ContentInv(row) /\ SameTerms(invoices[i], row) /\ ~ row.numbered
  BY <1>1, <1>2, Edited
<1>4. /\ invoices' = [invoices EXCEPT ![i] = row]
      /\ UNCHANGED <<clients, suppliers, answers, today>>
  BY DEF CommitEdit
<1> HIDE DEF row
<1>5. /\ ClientsInv' /\ InvoicesInv' /\ KeysInv' /\ suppliers' \subseteq Suppliers
      /\ today' \in 1 .. LastDay
      /\ Onwards
      /\ \A key \in Keys : Keyed(key)' = Keyed(key)
  <2> HIDE DEF i
  <2> QED
    BY <1>2, <1>3, <1>4, RowStep
<1>6. NobodyNumbers
  <2> SUFFICES ASSUME NEW v \in Workers, Writes(v) PROVE ~ invoices'[task[v].of].numbered
    BY DEF NobodyNumbers
  <2>1. task[v].of \in Stored /\ ~ invoices[task[v].of].numbered
    BY WritersHaveInvoices
  <2>2. task[v].of \in Invoices /\ invoices = [j \in Invoices |-> invoices[j]]
    BY <2>1 DEF Stored, BillingInv, InvoicesInv
  <2> QED
    BY <1>2, <1>3, <1>4, <2>1, <2>2
<1>7. /\ task' = [v \in Workers |-> task'[v]]
      /\ task'[w] = Idle
      /\ \A v \in Workers \ {w} : task'[v] = task[v]
  BY DEF BillingInv, TasksInv, Goes, CommitEdit
<1>8. ASSUME NEW v \in Workers PROVE TaskInv(v)'
  <2>1. Fits(task'[v])
    BY <1>7, IdleFits DEF BillingInv, TasksInv, TaskInv
  <2>2. PICK next : next = task'[v]
    OBVIOUS
  <2>3. Fits(next)'
    BY <1>5, <2>1, <2>2, TaskStays
  <2> QED
    BY <2>2, <2>3 DEF TaskInv
<1>9. ASSUME NEW v \in Workers PROVE HoldInv(v)'
  <2>1. Holds(v) => task[v].row.key \in Keys
    BY DEF BillingInv, TasksInv, TaskInv, Fits, CreateFits, Holds
  <2> QED
    BY <1>5, <1>7, <2>1 DEF BillingInv, TasksInv, HoldInv, Holds, Idle
<1>10. ASSUME NEW v \in Workers PROVE LockInv(v)'
  BY <1>6, <1>7, LockStays
<1> QED
  BY <1>5, <1>7, <1>8, <1>9, <1>10 DEF BillingInv, TasksInv

LEMMA ApproveInvoiceSafe ==
    ASSUME BillingInv, NEW i \in Invoices, ApproveInvoice(i)
    PROVE  BillingInv' /\ Onwards
<1> DEFINE row == [invoices[i] EXCEPT !.numbered = TRUE, !.issued = today]
<1>1. Exists(i) /\ ContentInv(invoices[i])
  BY DEF ApproveInvoice, BillingInv, InvoicesInv, Stored
<1>2. ContentInv(row) /\ SameTerms(invoices[i], row)
  BY <1>1, Numbered DEF BillingInv, ApproveInvoice, Editable
<1>3. Becomes(i, row) /\ \A w \in Workers : ~ Edits(w, i, {"commit"})
  BY DEF ApproveInvoice
<1> HIDE DEF row
<1> QED
  BY <1>1, <1>2, <1>3, InvoiceStep

\* Sending, paying and cancelling move the status alone.
LEMMA StatutSafe ==
    ASSUME BillingInv, NEW i \in Invoices, NEW statut \in Statuts, invoices[i].statut \in Statuts,
           Becomes(i, [invoices[i] EXCEPT !.statut = statut])
    PROVE  BillingInv' /\ Onwards
<1> DEFINE row == [invoices[i] EXCEPT !.statut = statut]
<1>1. Exists(i)
  BY DEF Exists, NoInvoice, Statuts
<1>2. ContentInv(invoices[i])
  BY <1>1 DEF BillingInv, InvoicesInv, Stored
<1>3. ContentInv(row) /\ SameTerms(invoices[i], row)
  BY <1>2, Moved
<1>4. row.numbered => invoices[i].numbered
  BY <1>2 DEF ContentInv, Invoice
<1>5. Becomes(i, row)
  OBVIOUS
<1> HIDE DEF row
<1> QED
  BY <1>1, <1>3, <1>4, <1>5, InvoiceStep

\* A row takes the next identifier.
LEMMA NewRow ==
    ASSUME BillingInv, NEW i \in Invoices, NEW row, ~ Exists(i), ContentInv(row),
           invoices' = [invoices EXCEPT ![i] = row], UNCHANGED clients
    PROVE  /\ InvoicesInv'
           /\ Onwards
           /\ NobodyNumbers
           /\ Stored' = Stored \cup {i}
           /\ \A k : Keyed(k)' = Keyed(k) \cup (IF row.key = k THEN {i} ELSE {})
<1>1. /\ invoices' = [j \in Invoices |-> invoices'[j]]
      /\ invoices'[i] = row
      /\ \A j \in Invoices \ {i} : invoices'[j] = invoices[j]
  BY DEF BillingInv, InvoicesInv
<1>2. row # NoInvoice
  BY RowsExist DEF ContentInv
<1>3. Stored' = Stored \cup {i} /\ i \notin Stored
  BY <1>1, <1>2 DEF Stored, Exists
<1>4. IsFiniteSet(Stored')
  BY <1>3, FS_AddElement DEF BillingInv, InvoicesInv
<1>5. InvoicesInv'
  BY <1>1, <1>3, <1>4 DEF BillingInv, InvoicesInv, Stored
<1>6. Onwards
  BY <1>1, <1>3, <1>4, SameTermsAtOnce DEF BillingInv, InvoicesInv, ContentInv, Onwards, Stored
<1>7. \A k : Keyed(k)' = Keyed(k) \cup (IF row.key = k THEN {i} ELSE {})
  BY <1>1, <1>3 DEF Keyed, Stored
<1>8. NobodyNumbers
  BY <1>1, <1>3, WritersHaveInvoices DEF NobodyNumbers, Stored
<1> QED
  BY <1>3, <1>5, <1>6, <1>7, <1>8

LEMMA RecordBillSafe ==
    ASSUME BillingInv, NEW i \in Invoices, NEW bill \in Bills, RecordBill(i, bill)
    PROVE  BillingInv' /\ Onwards
<1> DEFINE row == BillRow(bill)
<1>1. /\ ~ Exists(i)
      /\ invoices' = [invoices EXCEPT ![i] = row]
      /\ UNCHANGED <<clients, suppliers, task, answers, today>>
  BY DEF RecordBill, IsNextInvoice
<1>2. ContentInv(row) /\ row.key \notin Keys
  BY BillFits, NothingAssumption
<1> HIDE DEF row
<1>3. /\ InvoicesInv' /\ Onwards /\ NobodyNumbers
      /\ Stored' = Stored \cup {i}
      /\ \A k : Keyed(k)' = Keyed(k) \cup (IF row.key = k THEN {i} ELSE {})
  BY <1>1, <1>2, NewRow
<1>4. \A k \in Keys : Keyed(k)' = Keyed(k)
  BY <1>2, <1>3
<1>5. invoices'[i] = row /\ \A j \in Stored : invoices'[j] = invoices[j]
  BY <1>1 DEF BillingInv, InvoicesInv, Stored, Exists
<1>6. KeysInv'
  BY <1>1, <1>2, <1>3, <1>4, <1>5 DEF BillingInv, KeysInv
<1>7. TasksInv'
  BY <1>1, <1>3, <1>4, TasksStay
<1> QED
  BY <1>1, <1>3, <1>6, <1>7 DEF BillingInv, ClientsInv

LEMMA CommitInvoiceSafe ==
    ASSUME BillingInv, NEW w \in Workers, NEW i \in Invoices, NEW heard \in BOOLEAN,
           CommitInvoice(w, i, heard)
    PROVE  BillingInv' /\ Onwards
<1> DEFINE row == task[w].row
<1>1. /\ ~ Exists(i)
      /\ invoices' = [invoices EXCEPT ![i] = row]
      /\ answers' = IF heard THEN [answers EXCEPT ![row.key] = @ \cup {i}] ELSE answers
      /\ UNCHANGED <<clients, suppliers, today>>
  BY DEF CommitInvoice, IsNextInvoice
<1>2. Holds(w)
  BY DEF CommitInvoice, Holds
<1>3. ContentInv(row) /\ row.key \in Keys
  BY <1>2 DEF BillingInv, TasksInv, TaskInv, Fits, CreateFits, Holds
<1>4. /\ Keyed(row.key) = {}
      /\ \A q \in Workers : Holds(q) /\ task[q].row.key = row.key => q = w
  BY <1>2 DEF BillingInv, TasksInv, HoldInv
<1> HIDE DEF row
<1>5. /\ InvoicesInv' /\ Onwards /\ NobodyNumbers
      /\ Stored' = Stored \cup {i}
      /\ \A k : Keyed(k)' = Keyed(k) \cup (IF row.key = k THEN {i} ELSE {})
  BY <1>1, <1>3, NewRow
<1>6. invoices'[i] = row /\ \A j \in Stored : invoices'[j] = invoices[j]
  BY <1>1 DEF BillingInv, InvoicesInv, Stored, Exists
<1>7. \A j \in Stored : invoices[j].key # row.key
  BY <1>4 DEF Keyed
<1>8. KeysInv'
  <2>1. \A j, k \in Stored' :
          invoices'[j].key \in Keys /\ invoices'[j].key = invoices'[k].key => j = k
    BY <1>5, <1>6, <1>7 DEF BillingInv, KeysInv
  <2>2. answers' \in [Keys -> SUBSET Invoices]
    BY <1>1, <1>3 DEF BillingInv, KeysInv
  <2>3. \A k \in Keys : answers'[k] \subseteq Keyed(k)'
    BY <1>1, <1>3, <1>5 DEF BillingInv, KeysInv
  <2> QED
    BY <2>1, <2>2, <2>3 DEF KeysInv
<1>9. /\ task' = [v \in Workers |-> task'[v]]
      /\ task'[w] = Idle
      /\ \A v \in Workers \ {w} : task'[v] = task[v]
  BY DEF BillingInv, TasksInv, Goes, CommitInvoice
<1>10. ASSUME NEW v \in Workers PROVE TaskInv(v)'
  <2>1. Fits(task'[v])
    BY <1>9, IdleFits DEF BillingInv, TasksInv, TaskInv
  <2>2. PICK next : next = task'[v]
    OBVIOUS
  <2>3. Fits(next)'
    BY <1>5, <2>1, <2>2, TaskStays
  <2> QED
    BY <2>2, <2>3 DEF TaskInv
<1>11. ASSUME NEW v \in Workers PROVE HoldInv(v)'
  <2> SUFFICES ASSUME v # w, Holds(v) PROVE HoldInv(v)'
    BY <1>9 DEF HoldInv, Holds, Idle
  <2>1. task[v].row.key # row.key /\ Keyed(task[v].row.key) = {}
    BY <1>4 DEF BillingInv, TasksInv, HoldInv
  <2>2. Keyed(task[v].row.key)' = {}
    BY <1>5, <1>9, <2>1
  <2>3. \A q \in Workers : Holds(q) /\ task[q].row.key = task[v].row.key => q = v
    BY DEF BillingInv, TasksInv, HoldInv
  <2> QED
    BY <1>9, <2>2, <2>3 DEF HoldInv, Holds, Idle
<1>12. ASSUME NEW v \in Workers PROVE LockInv(v)'
  BY <1>5, <1>9, LockStays
<1> QED
  BY <1>1, <1>5, <1>8, <1>9, <1>10, <1>11, <1>12 DEF BillingInv, ClientsInv, TasksInv

-----------------------------------------------------------------------------
(***************************************************************************)
(* The theorems.                                                           *)
(***************************************************************************)

\* The steps that write no invoice.
LEMMA InvoicesStay ==
    ASSUME BillingInv, invoices' = invoices
    PROVE  \A i \in Stored : SameTerms(invoices[i], invoices'[i])
BY SameTermsAtOnce DEF BillingInv, InvoicesInv, ContentInv

\* Every request, every table and every midnight keep BillingInv, though an
\* edit deletes, inserts and updates in statements of its own and may leave
\* lines of another beside its own, with totals of neither.
THEOREM BillingInvInductive == BillingInv /\ [BillingNext]_vars => BillingInv'
<1> SUFFICES ASSUME BillingInv, [BillingNext]_vars PROVE BillingInv'
  OBVIOUS
<1>1. CASE \E c \in Clients, client \in NewClients : CreateClient(c, client)
  BY <1>1, CreateClientSafe
<1>2. CASE \E nom \in Suppliers : CreateSupplier(nom)
  BY <1>2, CreateSupplierSafe
<1>3. ASSUME NEW w \in Workers, \E c \in Clients, change \in Changes : UpdateClient(w, c, change)
      PROVE  BillingInv'
  BY <1>3, UpdateClientSafe
<1>4. ASSUME NEW w \in Workers, CommitClient(w) PROVE BillingInv'
  BY <1>4, CommitClientSafe
<1>5. ASSUME NEW w \in Workers,
             \E c \in Clients, due \in DueDates, items \in Types[w], k \in Keys :
                CreateInvoice(w, c, due, items, k)
      PROVE  BillingInv'
  BY <1>5, CreateInvoiceSafe, TypesAssumption
<1>6. ASSUME NEW w \in Workers, InsertInvoice(w) PROVE BillingInv'
  BY <1>6, InsertInvoiceSafe
<1>7. ASSUME NEW w \in Workers, \E i \in Invoices, heard \in BOOLEAN : CommitInvoice(w, i, heard)
      PROVE  BillingInv'
  BY <1>7, CommitInvoiceSafe
<1>8. ASSUME NEW w \in Workers, \E i \in Invoices : Download(w, i) PROVE BillingInv'
  BY <1>8, DownloadSafe
<1>9. ASSUME NEW w \in Workers, ReadLines(w) PROVE BillingInv'
  BY <1>9, ReadLinesSafe
<1>10. ASSUME NEW w \in Workers, WriteDocument(w) \/ CountDirections(w) \/ End(w)
       PROVE  BillingInv'
  BY <1>10, EndSafe DEF WriteDocument, CountDirections
<1>11. ASSUME NEW w \in Workers, Summarise(w) PROVE BillingInv'
  BY <1>11, SummariseSafe
<1>12. ASSUME NEW w \in Workers, CountStates(w) PROVE BillingInv'
  BY <1>12, CountStatesSafe
<1>13. ASSUME NEW i \in Invoices, \E bill \in Bills : RecordBill(i, bill) PROVE BillingInv'
  BY <1>13, RecordBillSafe
<1>14. ASSUME NEW w \in Workers,
              \E i \in Invoices, due \in DueDates, items \in Types[w] : EditInvoice(w, i, due, items)
       PROVE  BillingInv'
  BY <1>14, EditInvoiceSafe, TypesAssumption
<1>15. ASSUME NEW i \in Invoices, ApproveInvoice(i) PROVE BillingInv'
  BY <1>15, ApproveInvoiceSafe
<1>16. ASSUME NEW i \in Invoices, SendInvoice(i) \/ PayInvoice(i) \/ CancelInvoice(i)
       PROVE  BillingInv'
  BY <1>16, StatutSafe DEF SendInvoice, PayInvoice, CancelInvoice, Statuts
<1>17. CASE Midnight
  BY <1>17, MidnightSafe
<1>18. CASE UNCHANGED vars
  BY <1>18, SameInvoices DEF vars, BillingInv
<1>19. ASSUME NEW w \in Workers, LoadLines(w) \/ DeleteLines(w) \/ WriteLines(w)
       PROVE  BillingInv'
  BY <1>19, LoadLinesSafe, DeleteLinesSafe, WriteLinesSafe
<1>20. ASSUME NEW w \in Workers, \E k \in 0 .. MaxBatch : CommitEdit(w, k) PROVE BillingInv'
  BY <1>20, CommitEditSafe
<1> QED
  BY <1>1, <1>2, <1>3, <1>4, <1>5, <1>6, <1>7, <1>8, <1>9, <1>10, <1>11, <1>12, <1>13, <1>14,
     <1>15, <1>16, <1>17, <1>18, <1>19, <1>20 DEF BillingNext

THEOREM BillingInvHolds == BillingSpec => []BillingInv
<1>1. BillingInit => BillingInv
  BY Initially
<1> QED
  BY <1>1, BillingInvInductive, PTL DEF BillingSpec

\* The rows of the tables are what they can hold, and every request is at a
\* known step.
THEOREM BillingWellFormed == BillingSpec => []BillingTypeOK
<1>1. BillingInv => BillingTypeOK
  BY DEF BillingInv, ClientsInv, InvoicesInv, ContentInv, KeysInv, TasksInv, TaskInv, Fits,
         BillingTypeOK
<1> QED
  BY <1>1, BillingInvHolds, PTL

\* However often a request is repeated with its key, there is one invoice for
\* it and every answer names that one: the session that inserts waits for the
\* one that holds the key, and what was answered stays stored.
THEOREM KeysNameOneInvoice == BillingSpec => []OneInvoicePerKey
<1>1. BillingInv => OneInvoicePerKey
  <2> SUFFICES ASSUME BillingInv, NEW k \in Keys
               PROVE  Cardinality(Keyed(k)) <= 1 /\ answers[k] \subseteq Keyed(k)
    BY DEF OneInvoicePerKey
  <2>1. Keyed(k) = {} \/ \E i : Keyed(k) = {i}
    BY DEF BillingInv, KeysInv, Keyed
  <2>2. Cardinality(Keyed(k)) \in {0, 1}
    BY <2>1, FS_EmptySet, FS_Singleton
  <2> QED
    BY <2>2 DEF BillingInv, KeysInv
<1> QED
  BY <1>1, BillingInvHolds, PTL

\* Export clients pay in a foreign currency whatever corrections are in flight
\* together, and the invoices that copied their terms do so for good.
THEOREM ExportsStayForeign == BillingSpec => []ExportsAreForeign
<1>1. BillingInv => ExportsAreForeign
  BY DEF BillingInv, ClientsInv, InvoicesInv, ContentInv, ExportsAreForeign
<1> QED
  BY <1>1, BillingInvHolds, PTL

\* The list by status and the status that an invoice shows agree.
THEOREM ListsShowStatuses == BillingSpec => []ListedAsShown
<1>1. BillingInv => ListedAsShown
  <2> SUFFICES ASSUME BillingInv, NEW i \in Stored, NEW s \in Commercial
               PROVE  i \in Listed(s) <=> GetInvoice(i).status = StatusLabel[s]
    BY DEF ListedAsShown
  <2> DEFINE shown == DisplayedStatus(invoices[i])
  <2>1. GetInvoice(i).status = StatusLabel[shown]
    BY DEF GetInvoice, InvoiceOut
  <2>2. invoices[i].statut \in Statuts /\ invoices[i].due \in Int /\ today \in Int
    BY CalendarAssumption DEF BillingInv, InvoicesInv, ContentInv, Invoice
  <2>3. shown \in Commercial
    BY <2>2 DEF DisplayedStatus, Commercial, Statuts
  <2>4. StatusLabel[shown] = StatusLabel[s] <=> shown = s
    <3> HIDE DEF shown
    <3> QED
      BY <2>3 DEF StatusLabel, Commercial, Statuts
  <2>5. i \in Listed(s) <=> shown = s
    BY <2>2 DEF Listed, DisplayedStatus, Commercial, Statuts
  <2> QED
    BY <2>1, <2>4, <2>5
<1> QED
  BY <1>1, BillingInvHolds, PTL

\* The three figures of the dashboard come from three statements and still
\* hold together: the statuses partition the invoices there were, and no later
\* axis counts fewer.
THEOREM SummariesAgree == BillingSpec => []SummariesHoldTogether
<1>1. BillingInv => SummariesHoldTogether
  <2> SUFFICES ASSUME BillingInv, NEW w \in Workers,
                      task[w].op = "summary", task[w].pc = "directions"
               PROVE  /\ Counted(task[w].byStatus) = task[w].rows
                      /\ task[w].rows <= task[w].byProcessing
                      /\ task[w].byProcessing <= ByDirection("OUTGOING") + ByDirection("INCOMING")
    BY DEF SummariesHoldTogether
  <2> DEFINE Of(direction) == {i \in Stored : invoices[i].direction = direction}
  <2>1. SummaryFits(task[w], Stored)
    BY DEF BillingInv, TasksInv, TaskInv, Fits
  <2>2. Stored = Of("OUTGOING") \cup Of("INCOMING") /\ Of("OUTGOING") \cap Of("INCOMING") = {}
    BY DEF BillingInv, InvoicesInv, ContentInv, Invoice
  <2>3. IsFiniteSet(Of("OUTGOING")) /\ IsFiniteSet(Of("INCOMING"))
    <3>1. Of("OUTGOING") \in SUBSET Stored /\ Of("INCOMING") \in SUBSET Stored
      OBVIOUS
    <3> QED
      BY <3>1, FS_Subset DEF BillingInv, InvoicesInv
  <2>4. Cardinality(Stored) = ByDirection("OUTGOING") + ByDirection("INCOMING")
    <3> HIDE DEF Of
    <3>1. Cardinality(Stored) = Cardinality(Of("OUTGOING")) + Cardinality(Of("INCOMING"))
      BY <2>2, <2>3, DisjointUnion
    <3> QED
      BY <3>1 DEF ByDirection, Of
  <2> QED
    BY <2>1, <2>4 DEF SummaryFits
<1> QED
  BY <1>1, BillingInvHolds, PTL

-----------------------------------------------------------------------------
\* What is read of a numbered invoice of ours, in two statements or more, adds
\* up: it has lines, and an export of it has no VAT in its totals either.
LEMMA RowsAddUpWhenPrinted ==
    ASSUME NEW row, ContentInv(row), row.numbered, row.direction = "OUTGOING", NEW locale
    PROVE  VatAddsUp(Figures(Document(row, locale)))
<1> DEFINE lines == LinesOf(row.items)
           figures == Figures(Document(row, locale))
           totals == row.totals
           currency == row.devise
<1>1. row.items \in Seq(Item) /\ row.items # <<>> /\ row.totals \in Totals /\ row.devise \in Currencies
  BY DEF ContentInv, Invoice
<1>2. lines \in Seq(Line) /\ lines # <<>>
  <2>1. lines \in Seq(Line) /\ DOMAIN lines = DOMAIN row.items
    BY <1>1, LinesAreLines
  <2>2. DOMAIN row.items # {}
    <3>1. \A seq \in Seq(Item) : seq # <<>> => 1 \in DOMAIN seq
      OBVIOUS
    <3> QED
      BY <1>1, <3>1
  <2>3. DOMAIN <<>> = {}
    OBVIOUS
  <2> QED
    BY <2>1, <2>2, <2>3
<1>3. totals.ht \in Nat /\ totals.ttc \in Nat /\ currency \in Currencies
  BY <1>1 DEF Totals
<1>4. figures = [lines |-> lines, subtotal |-> totals.ht, due |-> totals.ttc, currency |-> currency,
                 vat |-> VatShown(row)]
  BY DEF Figures, Document
<1>5. CASE row.export
  <2>1. totals.ttc = totals.ht
    BY <1>5 DEF ContentInv
  <2>2. figures.vat = <<>> /\ figures.subtotal = totals.ht /\ figures.due = totals.ttc
    BY <1>4, <1>5 DEF VatShown
  <2> HIDE DEF figures, totals
  <2>3. DOMAIN figures.vat = {} /\ VatSum(figures.vat) = 0
    BY <2>2, NoRowsNoVat
  <2>4. 10 * figures.subtotal + VatSum(figures.vat) = 10 * figures.due
    BY <1>3, <2>1, <2>2, <2>3, SMT
  <2>5. VatAddsUp(figures)
    BY <2>3, <2>4 DEF VatAddsUp
  <2> QED
    BY <2>5 DEF figures
<1>6. CASE ~ row.export
  <2>1. figures = [lines |-> lines, subtotal |-> totals.ht, due |-> totals.ttc,
                   currency |-> currency, vat |-> VatRows(lines, totals, currency)]
    BY <1>4, <1>6 DEF VatShown
  <2> HIDE DEF lines, totals, currency, figures
  <2>2. VatAddsUp(figures)
    BY <1>2, <1>3, <2>1, VatRowsGiveTheDue
  <2> QED
    BY <2>2 DEF figures
<1> QED
  BY <1>5, <1>6

\* The row, its lines and its party are read in statements of their own, and
\* edits raced before; yet every document of a numbered invoice of ours is the
\* one that the table gives at any later moment, but for the status, and its
\* VAT rows give the amount due.
THEOREM NumberedDocumentsReprintAlways == BillingSpec => []NumberedDocumentsReprint
<1>1. BillingInv => NumberedDocumentsReprint
  <2> SUFFICES ASSUME BillingInv, NEW w \in Workers, NEW asked \in Locales,
                      task[w].op = "pdf", task[w].pc = "party",
                      ~ Printed(w, asked).draft, ~ Printed(w, asked).incoming
               PROVE  LET again == [invoices[task[w].of] EXCEPT !.statut = task[w].row.statut]
                      IN  /\ Printed(w, asked) = Document(again, LocaleOf(again, asked))
                          /\ VatAddsUp(Figures(Printed(w, asked)))
    BY DEF NumberedDocumentsReprint
  <2> DEFINE row == task[w].row
             stored == invoices[task[w].of]
             again == [stored EXCEPT !.statut = row.statut]
             doc == Printed(w, asked)
  <2>1. doc = Document(row, LocaleOf(row, asked))
    BY DEF Printed
  <2>2. PdfFits(task[w], invoices)
    BY DEF BillingInv, TasksInv, TaskInv, Fits
  <2>3. row \in Invoice /\ SameTerms(row, stored)
    BY <2>2 DEF PdfFits
  <2>4. row.numbered /\ row.direction = "OUTGOING"
    <3>1. row.numbered \in BOOLEAN /\ row.direction \in {"OUTGOING", "INCOMING"}
      BY <2>3 DEF Invoice
    <3>2. doc.draft = ~ row.numbered /\ doc.incoming = (row.direction = "INCOMING")
      BY <2>1 DEF Document
    <3> QED
      BY <3>1, <3>2
  <2>5. stored = [row EXCEPT !.statut = stored.statut]
    BY <2>3, <2>4 DEF SameTerms
  <2>6. again = row
    BY <2>3, <2>5 DEF Invoice
  <2>7. ContentInv(row)
    <3>1. stored # NoInvoice /\ task[w].of \in Invoices
      BY <2>2 DEF PdfFits, SameTerms
    <3>2. ContentInv(stored)
      BY <3>1 DEF BillingInv, InvoicesInv, Stored, Exists
    <3>4. stored.numbered /\ stored.direction = "OUTGOING"
      BY <2>3, <2>4, <2>5 DEF Invoice
    <3>3. /\ stored.items = row.items /\ stored.export = row.export /\ stored.totals = row.totals
          /\ stored.devise = row.devise
      BY <2>3, <2>5 DEF Invoice
    <3> QED
      BY <2>3, <2>4, <3>2, <3>3, <3>4 DEF ContentInv, NeedsForeignCurrency
  <2> HIDE DEF doc, row
  <2>8. VatAddsUp(Figures(doc))
    BY <2>1, <2>4, <2>7, RowsAddUpWhenPrinted
  <2> QED
    BY <2>1, <2>6, <2>8 DEF doc, row
<1> QED
  BY <1>1, BillingInvHolds, PTL

\* Lines typed to the precision of their columns add up when they are read at
\* once: in an export nothing is VAT, and elsewhere the VAT rows make up the
\* difference of the totals.  A price of more digits is rounded in its column
\* and not in the totals, so its lines need not give the subtotal.
THEOREM ContentsAddUp == CartsAddUp
<1> SUFFICES ASSUME NEW items \in Carts, NEW currency \in Currencies, NEW export \in BOOLEAN,
                    LinesPass(export, items), FitsColumns(items)
             PROVE  AddsUp(PrintedAtOnce(items, currency, export))
  BY DEF CartsAddUp
<1> DEFINE lines == LinesOf(Inserted(0, items))
           totals == InColumns(ComputeTotals(items))
           rows == VatRows(lines, totals, currency)
           figures == PrintedAtOnce(items, currency, export)
<1>1. items \in Seq(Line) /\ \A n \in DOMAIN items : InColumn(items[n]) \in Line
  BY CartsFit
<1>2. lines \in Seq(Line) /\ Len(lines) = Len(items)
      /\ \A n \in 1 .. Len(items) : items[n].price % 10 = 0 /\ lines[n] = InColumn(items[n])
  <2>1. DOMAIN items = 1 .. Len(items) /\ Len(items) \in Nat
    BY <1>1
  <2>2. lines = [n \in 1 .. Len(items) |-> InColumn(items[n])]
    BY <2>1 DEF Inserted, LinesOf
  <2>3. lines \in [1 .. Len(items) -> Line]
    BY <1>1, <2>1, <2>2
  <2>4. lines \in Seq(Line) /\ Len(lines) = Len(items)
    BY <2>1, <2>3, FunctionsAreSequences
  <2> QED
    BY <2>1, <2>2, <2>4 DEF FitsColumns
<1>3. totals = StoredTotals(lines)
  <2> HIDE DEF lines
  <2> QED
    BY <1>1, <1>2, TypedToTheColumns
<1>4. HalfUp(LinesSum(lines), 100) = totals.ht
  BY <1>3 DEF StoredTotals, LinesSum
<1>5. /\ figures.lines = lines /\ figures.subtotal = totals.ht /\ figures.due = totals.ttc
      /\ figures.currency = currency /\ figures.vat = IF export THEN <<>> ELSE rows
  BY DEF PrintedAtOnce
<1>6. totals.ht \in Nat /\ totals.ttc \in Nat
  BY <1>1, TotalsAreAmounts
<1>7. export => totals.ttc = totals.ht
  <2>1. export => \A n \in DOMAIN items : items[n].rate = 0
    BY DEF LinesPass
  <2> QED
    BY <1>1, <2>1, ExportTotalsHaveNoVat
<1>8. RowsAddUp(rows, totals, currency)
  <2> HIDE DEF lines, totals
  <2> QED
    BY <1>2, <1>3, VatRowsAddUp
<1> HIDE DEF totals, rows, figures, lines
<1>9. CASE export
  <2>1. figures.vat = <<>> /\ VatSum(<<>>) = 0 /\ DOMAIN figures.vat = {}
    BY <1>5, <1>9, NoRowsNoVat
  <2>2. 10 * figures.subtotal + VatSum(figures.vat) = 10 * figures.due
    BY <1>5, <1>6, <1>7, <1>9, <2>1, SMT
  <2>3. AddsUp(figures)
    BY <1>4, <1>5, <2>1, <2>2 DEF AddsUp
  <2> QED
    BY <2>3 DEF figures
<1>10. CASE ~ export
  <2>1. figures.vat = rows
    BY <1>5, <1>10
  <2>2. \A n \in DOMAIN rows :
          Near(100000 * rows[n].vat, rows[n].base * rows[n].rate, RoundingStep(figures))
    BY <1>5, <1>8, <2>1, SMT DEF RowsAddUp, RoundingStep
  <2>3. 10 * figures.subtotal + VatSum(rows) = 10 * figures.due
    BY <1>5, <1>8, SMT DEF RowsAddUp
  <2>4. AddsUp(figures)
    BY <1>4, <1>5, <2>1, <2>2, <2>3, SMT DEF AddsUp
  <2> QED
    BY <2>4 DEF figures
<1> QED
  BY <1>9, <1>10

-----------------------------------------------------------------------------
\* No step deletes an invoice or changes what a reader may rely on: whose it
\* is to pay, its currency, export terms and key; and all but its status, once
\* it is numbered.
LEMMA TermsKept ==
    ASSUME BillingInv, [BillingNext]_vars
    PROVE  \A i \in Stored : SameTerms(invoices[i], invoices'[i])
<1>1. CASE invoices' = invoices
  BY <1>1, InvoicesStay
<1>2. ASSUME NEW w \in Workers, NEW i \in Invoices, NEW heard \in BOOLEAN,
             CommitInvoice(w, i, heard)
      PROVE  Onwards
  BY <1>2, CommitInvoiceSafe
<1>3. ASSUME NEW i \in Invoices, NEW bill \in Bills, RecordBill(i, bill) PROVE Onwards
  BY <1>3, RecordBillSafe
<1>4. ASSUME NEW w \in Workers, NEW k \in 0 .. MaxBatch, CommitEdit(w, k) PROVE Onwards
  BY <1>4, CommitEditSafe
<1>5. ASSUME NEW i \in Invoices, ApproveInvoice(i) PROVE Onwards
  BY <1>5, ApproveInvoiceSafe
<1>6. ASSUME NEW i \in Invoices, SendInvoice(i) \/ PayInvoice(i) \/ CancelInvoice(i)
      PROVE  Onwards
  BY <1>6, StatutSafe DEF SendInvoice, PayInvoice, CancelInvoice, Statuts
<1>7. invoices' = invoices \/ Onwards
  BY <1>2, <1>3, <1>4, <1>5, <1>6, ZenonT(60)
     DEF BillingNext, vars, CreateClient, CreateSupplier, UpdateClient, CommitClient, CreateInvoice,
         InsertInvoice, EditInvoice, LoadLines, DeleteLines, WriteLines, Download, ReadLines,
         WriteDocument, Summarise, CountStates, CountDirections, End, Midnight
<1> QED
  BY <1>1, <1>7 DEF Onwards

THEOREM InvoicesKeepTheirTerms ==
    BillingSpec => [][\A i \in Stored : SameTerms(invoices[i], invoices'[i])]_vars
BY TermsKept, BillingInvHolds, PTL DEF BillingSpec

\* Any amount that the column montant_ttc can hold, said in words and read back
\* by someone who knows numbers, is found again, in each language and currency
\* (amount_in_words).
THEOREM WordsSayTheAmount == BillingSpec => []AmountsReadBack
<1>1. ASSUME NEW amount \in Amounts PROVE amount \in Nat /\ Sayable(amount \div 100)
  <2>1. amount \in Nat /\ amount \div 100 < 100000000
    BY SMT, AmountsAssumption
  <2>2. amount \div 100 \in Nat /\ (amount \div 100) \div 1000000000 < 1000
    BY SMT, <2>1
  <2> QED
    BY SMT, <2>1, <2>2 DEF Sayable
<1>2. AmountsReadBack
  BY <1>1, AmountReadsBack DEF AmountsReadBack
<1> QED
  BY <1>2, PTL
=============================================================================
