------------------------------- MODULE Billing -------------------------------
(***************************************************************************)
(* Clients, suppliers, the creation of invoices, and what is read back:    *)
(* the PDF, the list by status and the dashboard (app/routers/invoicing.py *)
(* and app/routers/dashboard.py).                                          *)
(*                                                                         *)
(* A worker serves one request at a time.  Those that read in one          *)
(* statement and write or read on in another are several steps; the others *)
(* are one.  The verification of an invoice is module InvoiceFlow: here it *)
(* is the step that numbers the invoice and so makes its content final.    *)
(***************************************************************************)
EXTENDS InvoiceDocument, FiniteSetsExt, TLC

CONSTANTS
    Clients,     \* identifiers of the clients, in the order of creation
    Names,       \* names of clients, without regard to case
    NewClients,  \* the rows that POST /clients asks for
    Changes,     \* the corrections of a client: some of its fields
    Invoices,    \* identifiers of the invoices, in the order of creation
    Keys,        \* idempotency keys
    NoKey,       \* idempotency_key of a supplier's bill
    Carts,       \* the lines that clients type for an invoice
    Suppliers,   \* names of suppliers, without regard to case
    NoSupplier,  \* supplier of an invoice of ours
    Bills,       \* supplier bills, as typed
    DueDates,    \* due dates that clients type
    LastDay,     \* bound of the calendar
    Workers,     \* requests served at once
    Serves,      \* operations of those that each worker serves
    Types,       \* carts of those that the clients of each worker type
    MaxBatch,    \* bound: identities of the lines inserted together
    Amounts      \* the amounts, in hundredths, whose words are read back

ASSUME IdentifiersAssumption == Clients \subseteq Nat \ {0} /\ Invoices \subseteq Nat \ {0}
ASSUME NothingAssumption == NoKey \notin Keys /\ NoSupplier \notin Suppliers
ASSUME ServesAssumption == Serves \in [Workers -> SUBSET {"client", "create", "edit", "pdf", "summary"}]
\* montant_ttc is Numeric(10, 2): fewer than 100 million units.
ASSUME AmountsAssumption == \A amount \in Amounts : amount \in Nat /\ amount \div 100 < 100000000
ASSUME CalendarAssumption == LastDay \in Nat \ {0} /\ DueDates \subseteq 1 .. LastDay
ASSUME TypesAssumption == Types \in [Workers -> SUBSET Carts]
ASSUME MaxBatchAssumption == MaxBatch \in Nat

Client == [nom : Names, export : BOOLEAN, devise : Currencies, locale : Locales]
NoClient == [nom |-> "", export |-> FALSE, devise |-> "TND", locale |-> "fr"]

\* ClientUpdate: only the fields sent change.
Corrected(row, change) ==
    [field \in DOMAIN row |-> IF field \in DOMAIN change THEN change[field] ELSE row[field]]

Statuts == {"BROUILLON", "ENVOYEE", "PAYEE", "ANNULEE"}
\* The order in which the dashboard shows them; overdue is derived.
Commercial == Statuts \cup {"EN_RETARD"}

Operations == {"client", "create", "edit", "pdf", "summary"}

NoInvoice == [statut |-> "NONE"]
NoBill == [supplier |-> NoSupplier, reference |-> 0]
Totals == [ht : Nat, ttc : Nat]
\* A row of invoice_items, with the identity of the request that inserted it
Item == [batch : 0 .. MaxBatch, line : Line]
Invoice == [statut : Statuts, direction : {"OUTGOING", "INCOMING"}, numbered : BOOLEAN,
            client : Clients \cup {0},
            bill : [supplier : Suppliers, reference : Nat \ {0}] \cup {NoBill},
            issued : 1 .. LastDay, due : 1 .. LastDay,
            totals : Totals, items : Seq(Item),
            devise : Currencies, export : BOOLEAN, key : Keys \cup {NoKey}]

\* Inputs are of their types.
ASSUME InputsAssumption ==
    /\ NewClients \subseteq Client
    /\ \A change \in Changes, row \in Client : Corrected(row, change) \in Client
    /\ \A bill \in Bills :
         /\ bill.id \in [supplier : Suppliers, reference : Nat \ {0}]
         /\ bill.issued \in 1 .. LastDay /\ bill.due \in 1 .. LastDay
         /\ bill.totals \in Totals /\ bill.items \in Seq(Line)
    /\ Carts \subseteq Seq(Line)
    /\ \A cart \in Carts \cup {bill.items : bill \in Bills} : \A n \in DOMAIN cart : InColumn(cart[n]) \in Line

VARIABLES
    clients,   \* the table clients
    suppliers, \* the table suppliers
    invoices,  \* the table invoices, with the lines of each
    task,      \* what each worker's session has in memory
    answers,   \* invoices that answers to each key have named
    today

vars == <<clients, suppliers, invoices, task, answers, today>>

Idle == [op |-> "none"]

BillingInit ==
    /\ clients = [c \in Clients |-> NoClient]
    /\ suppliers = {}
    /\ invoices = [i \in Invoices |-> NoInvoice]
    /\ task = [w \in Workers |-> Idle]
    /\ answers = [k \in Keys |-> {}]
    /\ today = 1

Exists(i) == invoices[i] # NoInvoice
Stored == {i \in Invoices : Exists(i)}

Free(w, op) == task[w] = Idle /\ op \in Serves[w]

Goes(w, next) == task' = [task EXCEPT ![w] = next]

\* The request ends: what it had not committed is rolled back, or the answer
\* is read by whoever asked.
End(w) ==
    /\ task[w] # Idle
    /\ Goes(w, Idle)
    /\ UNCHANGED <<clients, suppliers, invoices, answers, today>>

-----------------------------------------------------------------------------
(* Clients *)

\* export_currency_problem
NeedsForeignCurrency(client) == client.export /\ client.devise = "TND"

\* ux_clients_nom_ci
NameIsFree(c, nom) == \A d \in Clients \ {c} : clients[d].nom # nom

\* Mutant: no constraint of the table repeats the rule of the handler.
OnlyNames(c, client) == NameIsFree(c, client.nom)

\* The constraints of the table: what they refuse is answered "name taken".
ClientPasses(c, client) == NameIsFree(c, client.nom) /\ ~ NeedsForeignCurrency(client)

\* POST /clients
CreateClient(c, client) ==
    /\ c = Min({d \in Clients : clients[d] = NoClient} \cup {c})
    /\ clients[c] = NoClient
    /\ ClientPasses(c, client)
    /\ clients' = [clients EXCEPT ![c] = client]
    /\ UNCHANGED <<suppliers, invoices, task, answers, today>>

\* PATCH /clients/{id}: the rule holds on the client as it will be, judged on
\* the row as it was loaded; only fields that differ are written.
UpdateClient(w, c, change) ==
    LET differs == {field \in DOMAIN change : change[field] # clients[c][field]}
    IN  /\ Free(w, "client")
        /\ clients[c] # NoClient
        /\ ~ NeedsForeignCurrency(Corrected(clients[c], change))
        /\ differs # {}
        /\ Goes(w, [op |-> "client", client |-> c, set |-> [f \in differs |-> change[f]]])
        /\ UNCHANGED <<clients, suppliers, invoices, answers, today>>

\* _commit_client; refused, it is End.
CommitClient(w) ==
    LET t == task[w]
        row == Corrected(clients[t.client], t.set)
    IN  /\ t.op = "client"
        /\ ClientPasses(t.client, row)
        /\ clients' = [clients EXCEPT ![t.client] = row]
        /\ Goes(w, Idle)
        /\ UNCHANGED <<suppliers, invoices, answers, today>>

-----------------------------------------------------------------------------
(* Suppliers *)

\* POST /suppliers: ux_suppliers_nom_ci refuses a name that is taken.
CreateSupplier(nom) ==
    /\ nom \notin suppliers
    /\ suppliers' = suppliers \cup {nom}
    /\ UNCHANGED <<clients, invoices, task, answers, today>>

-----------------------------------------------------------------------------
(* Invoices *)

\* An export of services carries no VAT.
LinesPass(export, items) == export => \A n \in DOMAIN items : items[n].rate = 0

\* The rows of invoice_items that a request inserts for the lines typed
Inserted(batch, items) == [n \in DOMAIN items |-> [batch |-> batch, line |-> InColumn(items[n])]]

LinesOf(items) == [n \in DOMAIN items |-> items[n].line]
BatchesOf(items) == {items[n].batch : n \in DOMAIN items}

\* trg_export_lines_carry_no_vat: the invoice's own terms, once it is stored
ExportLinesCarryNoVat(row) == LinesPass(row.export, LinesOf(row.items))

\* ck_invoice_counterparty
HasOneParty(row) ==
    IF row.direction = "OUTGOING" THEN row.client # 0 /\ row.bill = NoBill
    ELSE row.client = 0 /\ row.bill # NoBill

\* InvoiceCreate
DueDatePasses(due) == due >= today

Draft(c, due, items, key) ==
    [statut |-> "BROUILLON", direction |-> "OUTGOING", numbered |-> FALSE, client |-> c,
     bill |-> NoBill, issued |-> today, due |-> due,
     totals |-> InColumns(ComputeTotals(items)), items |-> Inserted(0, items),
     devise |-> clients[c].devise, export |-> clients[c].export, key |-> key]

Keyed(key) == {i \in Stored : invoices[i].key = key}

\* POST /invoices with an Idempotency-Key: a key that is known is answered with
\* its invoice.
CreateInvoice(w, c, due, items, key) ==
    /\ Free(w, "create")
    /\ DueDatePasses(due)
    /\ IF Keyed(key) # {}
       THEN /\ answers' = [answers EXCEPT ![key] = @ \cup Keyed(key)]
            /\ task' = task
       ELSE /\ clients[c] # NoClient
            /\ LinesPass(clients[c].export, items)
            /\ Goes(w, [op |-> "create", pc |-> "insert", row |-> Draft(c, due, items, key)])
            /\ answers' = answers
    /\ UNCHANGED <<clients, suppliers, invoices, today>>

\* Mutant: the column idempotency_key is not unique.
KeyOnlyLooked(w, key) == TRUE

\* The unique key: an insert waits for one that is not committed, and fails on
\* one that is.
KeyIsFree(w, key) ==
    /\ Keyed(key) = {}
    /\ \A q \in Workers \ {w} :
         task[q].op = "create" /\ task[q].pc = "commit" => task[q].row.key # key

\* The flush of the row and its lines; refused, it is End.
InsertInvoice(w) ==
    LET t == task[w]
    IN  /\ t.op = "create" /\ t.pc = "insert"
        /\ KeyIsFree(w, t.row.key)
        /\ HasOneParty(t.row) /\ ExportLinesCarryNoVat(t.row)
        /\ Goes(w, [t EXCEPT !.pc = "commit"])
        /\ UNCHANGED <<clients, suppliers, invoices, answers, today>>

\* The identifiers that the next inserts take.
IsNextInvoice(i) == ~ Exists(i) /\ \A j \in Invoices : j < i => Exists(j)

\* The answer is built before the commit and may be lost after it.
CommitInvoice(w, i, heard) ==
    LET row == task[w].row
    IN  /\ task[w].op = "create" /\ task[w].pc = "commit"
        /\ IsNextInvoice(i)
        /\ invoices' = [invoices EXCEPT ![i] = row]
        /\ answers' = IF heard THEN [answers EXCEPT ![row.key] = @ \cup {i}] ELSE answers
        /\ Goes(w, Idle)
        /\ UNCHANGED <<clients, suppliers, today>>

\* SupplierInvoiceCreate
BillPasses(bill) == bill.totals.ttc >= bill.totals.ht /\ bill.due >= bill.issued

\* uq_supplier_reference
ReferenceIsFree(bill) == \A i \in Stored : invoices[i].bill # bill.id

BillRow(bill) ==
    [statut |-> "ENVOYEE", direction |-> "INCOMING", numbered |-> TRUE, client |-> 0,
     bill |-> bill.id, issued |-> bill.issued, due |-> bill.due,
     totals |-> bill.totals, items |-> Inserted(0, bill.items),
     devise |-> "TND", export |-> FALSE, key |-> NoKey]

\* POST /supplier-invoices: the totals are the supplier's, not those of the lines.
RecordBill(i, bill) ==
    /\ IsNextInvoice(i)
    /\ BillPasses(bill)
    /\ bill.id.supplier \in suppliers
    /\ ReferenceIsFree(bill)
    /\ HasOneParty(BillRow(bill))
    /\ invoices' = [invoices EXCEPT ![i] = BillRow(bill)]
    /\ UNCHANGED <<clients, suppliers, task, answers, today>>

Becomes(i, row) ==
    /\ invoices' = [invoices EXCEPT ![i] = row]
    /\ UNCHANGED <<clients, suppliers, task, answers, today>>

\* Mutant: an invoice can be corrected until it is sent.
EditUntilSent(i) == invoices[i].statut = "BROUILLON"

Editable(i) == invoices[i].statut = "BROUILLON" /\ ~ invoices[i].numbered

\* PATCH /invoices/{id}: update_invoice loads the row and checks it; ...
EditInvoice(w, i, due, items) ==
    /\ Free(w, "edit")
    /\ Exists(i) /\ Editable(i)
    /\ items # <<>>
    /\ due >= invoices[i].issued
    /\ LinesPass(invoices[i].export, items)
    /\ Goes(w, [op |-> "edit", pc |-> "lines", of |-> i, read |-> invoices[i].totals,
                readDue |-> invoices[i].due, due |-> due, items |-> items, loaded |-> {}])
    /\ UNCHANGED <<clients, suppliers, invoices, answers, today>>

\* ... in a statement of its own it loads the lines; ...
LoadLines(w) ==
    LET t == task[w]
    IN  /\ t.op = "edit" /\ t.pc = "lines"
        /\ Goes(w, [t EXCEPT !.pc = "delete", !.loaded = BatchesOf(invoices[t.of].items)])
        /\ UNCHANGED <<clients, suppliers, invoices, answers, today>>

Edits(w, i, pcs) == task[w].op = "edit" /\ task[w].of = i /\ task[w].pc \in pcs

\* Those it loaded that are still there
StillThere(t) == t.loaded \cap BatchesOf(invoices[t.of].items)

\* ... then it deletes those it loaded, and waits for an edit that has deleted
\* some of them; the trigger judges the ones still there.  Refused, it is End.
DeleteLines(w) ==
    LET t == task[w]
    IN  /\ t.op = "edit" /\ t.pc = "delete"
        /\ \A q \in Workers \ {w} :
             Edits(q, t.of, {"insert", "commit"}) => task[q].loaded \cap StillThere(t) = {}
        /\ StillThere(t) # {} => Editable(t.of)
        /\ Goes(w, [t EXCEPT !.pc = "insert"])
        /\ UNCHANGED <<clients, suppliers, invoices, answers, today>>

\* The row of the invoice, once an edit has written what differs from what it read
EditedRow(t, row) ==
    [row EXCEPT !.totals = Overwritten(ComputeTotals(t.items), t.read, row.totals),
                !.due = IF t.due = t.readDue THEN row.due ELSE t.due]

\* An UPDATE, which locks the row, is sent for columns that differ.
Touches(t) ==
    \/ t.due # t.readDue
    \/ ComputeTotals(t.items) # [ht |-> 1000 * t.read.ht, ttc |-> 10000000 * t.read.ttc]

RowIsFree(i) == \A q \in Workers : Edits(q, i, {"commit"}) => ~ Touches(task[q])

\* ck_invoices_amounts and ck_invoices_dates
FiguresPass(row) == row.totals.ttc >= row.totals.ht /\ row.due >= row.issued

\* ... and the last flush updates the row and inserts the new lines: the
\* triggers and the constraints judge the row as it is by then.
WriteLines(w) ==
    LET t == task[w]
    IN  /\ t.op = "edit" /\ t.pc = "insert"
        /\ Touches(t) => RowIsFree(t.of)
        /\ Editable(t.of)
        /\ FiguresPass(EditedRow(t, invoices[t.of]))
        /\ LinesPass(invoices[t.of].export, t.items)
        /\ Goes(w, [t EXCEPT !.pc = "commit"])
        /\ UNCHANGED <<clients, suppliers, invoices, answers, today>>

\* The lines that an edit did not load, in their order
Kept(items, loaded) ==
    LET left == {n \in DOMAIN items : items[n].batch \notin loaded}
        order == CHOOSE f \in [1 .. Cardinality(left) -> left] :
                    \A m, n \in DOMAIN f : m < n => f[m] < f[n]
    IN  [n \in DOMAIN order |-> items[order[n]]]

\* An identity that none of them has and no other edit of the invoice remembers
IsNextBatch(k, w) ==
    LET taken(j) ==
          \/ j \in BatchesOf(invoices[task[w].of].items) \ task[w].loaded
          \/ \E q \in Workers \ {w} :
               task[q].op = "edit" /\ task[q].of = task[w].of /\ j \in task[q].loaded
    IN  ~ taken(k) /\ \A j \in 0 .. MaxBatch : j < k => taken(j)

\* Lines that an edit did not load stay beside those it inserts.
EditedInvoice(t, row, k) ==
    [EditedRow(t, row) EXCEPT !.items = Kept(@, t.loaded) \o Inserted(k, t.items)]

CommitEdit(w, k) ==
    LET t == task[w]
    IN  /\ t.op = "edit" /\ t.pc = "commit"
        /\ IsNextBatch(k, w)
        /\ invoices' = [invoices EXCEPT ![t.of] = EditedInvoice(t, @, k)]
        /\ Goes(w, Idle)
        /\ UNCHANGED <<clients, suppliers, answers, today>>

\* Submission and approval: the number waits for edits that have inserted
\* lines (the foreign key locks the row).
ApproveInvoice(i) ==
    /\ Exists(i) /\ Editable(i)
    /\ \A w \in Workers : ~ Edits(w, i, {"commit"})
    /\ invoices[i].items # <<>>
    /\ invoices[i].due >= today
    /\ Becomes(i, [invoices[i] EXCEPT !.numbered = TRUE, !.issued = today])

\* Mutant: the status is stored as it shows.
SendAsShown(i) ==
    /\ invoices[i].statut = "BROUILLON" /\ invoices[i].numbered
    /\ Becomes(i, [invoices[i] EXCEPT !.statut =
                     IF invoices[i].due < today THEN "EN_RETARD" ELSE "ENVOYEE"])

SendInvoice(i) ==
    /\ invoices[i].statut = "BROUILLON" /\ invoices[i].numbered
    /\ Becomes(i, [invoices[i] EXCEPT !.statut = "ENVOYEE"])

PayInvoice(i) ==
    /\ invoices[i].statut = "ENVOYEE"
    /\ Becomes(i, [invoices[i] EXCEPT !.statut = "PAYEE"])

CancelInvoice(i) ==
    /\ invoices[i].statut \in {"BROUILLON", "ENVOYEE"}
    /\ RowIsFree(i)
    /\ Becomes(i, [invoices[i] EXCEPT !.statut = "ANNULEE"])

Midnight ==
    /\ today < LastDay
    /\ today' = today + 1
    /\ UNCHANGED <<clients, suppliers, invoices, task, answers>>

-----------------------------------------------------------------------------
(* What is read back *)

\* displayed_status
DisplayedStatus(row) ==
    IF row.statut = "ENVOYEE" /\ row.due < today THEN "EN_RETARD" ELSE row.statut

StatusLabel ==
    [BROUILLON |-> "Draft", ENVOYEE |-> "Sent", PAYEE |-> "Paid", EN_RETARD |-> "Overdue",
     ANNULEE |-> "Cancelled"]

\* An invoice as the API answers it
InvoiceOut(row) ==
    [numbered |-> row.numbered, direction |-> row.direction, status |-> StatusLabel[DisplayedStatus(row)],
     amountHT |-> row.totals.ht, amountTTC |-> row.totals.ttc, currency |-> row.devise,
     export |-> row.export,
     items |-> [n \in DOMAIN row.items |-> row.items[n].line @@ [total |-> LineTotal(row.items[n].line)]]]

\* GET /invoices/{id}
GetInvoice(i) == InvoiceOut(invoices[i])

\* Mutant: an invoice due today is listed with the overdue ones.
ListedFromToday(statut) ==
    {i \in Stored :
        CASE statut = "EN_RETARD" -> invoices[i].statut = "ENVOYEE" /\ invoices[i].due <= today
          [] statut = "ENVOYEE" -> invoices[i].statut = "ENVOYEE" /\ invoices[i].due >= today
          [] OTHER -> invoices[i].statut = statut}

\* GET /invoices?statut=...
Listed(statut) ==
    {i \in Stored :
        CASE statut = "EN_RETARD" -> invoices[i].statut = "ENVOYEE" /\ invoices[i].due < today
          [] statut = "ENVOYEE" -> invoices[i].statut = "ENVOYEE" /\ invoices[i].due >= today
          [] OTHER -> invoices[i].statut = statut}

\* GET /invoices/{id}/download: the row first, then in statements of their own
\* the lines and the party.
Download(w, i) ==
    /\ Free(w, "pdf")
    /\ Exists(i)
    /\ Goes(w, [op |-> "pdf", pc |-> "lines", row |-> invoices[i], of |-> i])
    /\ UNCHANGED <<clients, suppliers, invoices, answers, today>>

ReadLines(w) ==
    LET t == task[w]
    IN  /\ t.op = "pdf" /\ t.pc = "lines"
        /\ Goes(w, [t EXCEPT !.pc = "party",
                             !.row = [t.row EXCEPT !.items = invoices[t.of].items]])
        /\ UNCHANGED <<clients, suppliers, invoices, answers, today>>

\* An export of services has one VAT row, at zero.
VatShown(row) == IF row.export THEN <<>> ELSE VatRows(LinesOf(row.items), row.totals, row.devise)

DueInWords(row, locale) == AmountInWords(row.totals.ttc, row.devise, locale)

\* _pdf_data and generate_invoice_pdf
Document(row, locale) ==
    [draft    |-> ~ row.numbered,
     incoming |-> row.direction = "INCOMING",
     status   |-> DisplayedStatus(row),
     issued   |-> row.issued,
     dueBy    |-> row.due,
     lines    |-> LinesOf(row.items),
     subtotal |-> row.totals.ht,
     due      |-> row.totals.ttc,
     currency |-> row.devise,
     vat      |-> VatShown(row),
     words    |-> DueInWords(row, locale)]

\* A supplier's bill is read in the language of the request.
LocaleOf(row, asked) == IF row.direction = "INCOMING" THEN asked ELSE clients[row.client].locale

\* What worker w prints of the row and the lines it read.
Printed(w, asked) == Document(task[w].row, LocaleOf(task[w].row, asked))

WriteDocument(w) ==
    /\ task[w].op = "pdf" /\ task[w].pc = "party"
    /\ End(w)

\* Mutant: the dashboard was not told of the derived status.
SummariseStored(w) ==
    /\ Free(w, "summary")
    /\ Goes(w, [op |-> "summary", pc |-> "processing", rows |-> Cardinality(Stored),
                byStatus |-> [s \in Statuts |->
                    Cardinality({i \in Stored : DisplayedStatus(invoices[i]) = s})]])
    /\ UNCHANGED <<clients, suppliers, invoices, answers, today>>

\* GET /dashboard/summary, for all months: one grouped query per axis, each
\* seeing what is committed by then.  Statuses first, ...
Summarise(w) ==
    /\ Free(w, "summary")
    /\ Goes(w, [op |-> "summary", pc |-> "processing", rows |-> Cardinality(Stored),
                byStatus |-> [s \in Commercial |->
                    Cardinality({i \in Stored : DisplayedStatus(invoices[i]) = s})]])
    /\ UNCHANGED <<clients, suppliers, invoices, answers, today>>

\* ... then processing states, of which every invoice has one, ...
CountStates(w) ==
    /\ task[w].op = "summary" /\ task[w].pc = "processing"
    /\ Goes(w, [op |-> "summary", pc |-> "directions", rows |-> task[w].rows,
                byStatus |-> task[w].byStatus, byProcessing |-> Cardinality(Stored)])
    /\ UNCHANGED <<clients, suppliers, invoices, answers, today>>

\* ... then directions.
ByDirection(direction) == Cardinality({i \in Stored : invoices[i].direction = direction})

CountDirections(w) ==
    /\ task[w].op = "summary" /\ task[w].pc = "directions"
    /\ End(w)

-----------------------------------------------------------------------------
BillingNext ==
    \/ \E c \in Clients, client \in NewClients : CreateClient(c, client)
    \/ \E nom \in Suppliers : CreateSupplier(nom)
    \/ \E w \in Workers :
        \/ \E c \in Clients, change \in Changes : UpdateClient(w, c, change)
        \/ CommitClient(w)
        \/ \E c \in Clients, due \in DueDates, items \in Types[w], k \in Keys :
             CreateInvoice(w, c, due, items, k)
        \/ InsertInvoice(w)
        \/ \E i \in Invoices, heard \in BOOLEAN : CommitInvoice(w, i, heard)
        \/ \E i \in Invoices, due \in DueDates, items \in Types[w] : EditInvoice(w, i, due, items)
        \/ LoadLines(w) \/ DeleteLines(w) \/ WriteLines(w)
        \/ \E k \in 0 .. MaxBatch : CommitEdit(w, k)
        \/ \E i \in Invoices : Download(w, i)
        \/ ReadLines(w)
        \/ WriteDocument(w)
        \/ Summarise(w) \/ CountStates(w) \/ CountDirections(w)
        \/ End(w)
    \/ \E i \in Invoices :
        \/ \E bill \in Bills : RecordBill(i, bill)
        \/ ApproveInvoice(i) \/ SendInvoice(i) \/ PayInvoice(i) \/ CancelInvoice(i)
    \/ Midnight

BillingSpec == BillingInit /\ [][BillingNext]_vars

-----------------------------------------------------------------------------
(* Properties *)

\* The type invariant: rows are what the tables can hold, and a request is at
\* a known step.
BillingTypeOK ==
    /\ clients \in [Clients -> Client \cup {NoClient}]
    /\ \A i \in Stored : invoices[i] \in Invoice
    /\ \A w \in Workers : task[w].op \in Operations \cup {"none"}
    /\ suppliers \subseteq Suppliers
    /\ answers \in [Keys -> SUBSET Invoices]
    /\ today \in 1 .. LastDay

\* However often a request is repeated with its Idempotency-Key - at once, after
\* a lost answer, after a failure - there is one invoice for the key, and every
\* answer names it (create_invoice's promise).
OneInvoicePerKey ==
    \A k \in Keys :
        /\ Cardinality(Keyed(k)) <= 1
        /\ answers[k] \subseteq Keyed(k)

\* An export client pays in a foreign currency, though two corrections in
\* flight at once each judge the client as they loaded it; and an invoice that
\* copied its terms from such a client is in a foreign currency and without
\* VAT for good, whatever the client becomes.
ExportsAreForeign ==
    /\ \A c \in Clients : ~ NeedsForeignCurrency(clients[c])
    /\ \A i \in Stored :
        /\ ~ NeedsForeignCurrency(invoices[i])
        /\ LinesPass(invoices[i].export, LinesOf(invoices[i].items))

Figures(doc) ==
    [lines |-> doc.lines, subtotal |-> doc.subtotal, due |-> doc.due, currency |-> doc.currency,
     vat |-> doc.vat]

\* A numbered invoice of ours prints the same way, whoever downloads it and
\* whenever, but for its status: edits under way when it was numbered had read
\* it as a draft, and a PDF reads the row and its lines in different statements
\* ("it reprints as issued", "exactly what the client receives").  And whatever
\* the edits made of its totals and lines, subtotal and VAT rows give the
\* amount due ("the VAT rows add up to it exactly").  Only a draft, which says
\* that it is one, may show the totals of one content and the lines of another.
NumberedDocumentsReprint ==
    \A w \in Workers, asked \in Locales :
        task[w].op = "pdf" /\ task[w].pc = "party" =>
            LET doc == Printed(w, asked)
                again == [invoices[task[w].of] EXCEPT !.statut = task[w].row.statut]
            IN  ~ doc.draft /\ ~ doc.incoming =>
                    doc = Document(again, LocaleOf(again, asked)) /\ VatAddsUp(Figures(doc))

\* What is printed of lines that are typed and then read at once.
PrintedAtOnce(items, currency, export) ==
    LET totals == InColumns(ComputeTotals(items))
        lines == LinesOf(Inserted(0, items))
    IN  [lines |-> lines, subtotal |-> totals.ht, due |-> totals.ttc, currency |-> currency,
         vat |-> IF export THEN <<>> ELSE VatRows(lines, totals, currency)]

\* The price of a line has two decimals only, like its column.
FitsColumns(items) == \A n \in DOMAIN items : items[n].price % 10 = 0

\* Arithmetic alone: lines typed to the precision of their columns add up
\* when they are read at once.
CartsAddUp ==
    \A items \in Carts, currency \in Currencies, export \in BOOLEAN :
        LinesPass(export, items) /\ FitsColumns(items) => AddsUp(PrintedAtOnce(items, currency, export))

\* The amount in words says the amount: read back by someone who knows numbers,
\* every amount tested is found again, in each language and currency.  It is a
\* fact about operators, so it is judged once, at the start.
AmountsReadBack ==
    BillingInit =>
        \A amount \in Amounts, currency \in Currencies, locale \in Locales :
            ReadAmount(AmountInWords(amount, currency, locale), currency, locale) = amount

\* The list by status and the status an invoice shows agree at every moment,
\* overdue ones included: an invoice is listed under what it shows, and
\* nowhere else (list_invoices: "each invoice is under one status").
ListedAsShown ==
    \A i \in Stored, s \in Commercial :
        i \in Listed(s) <=> GetInvoice(i).status = StatusLabel[s]

\* The five figures of the status axis together; a status not answered is nil.
Counted(byStatus) ==
    LET figure(s) == IF s \in DOMAIN byStatus THEN byStatus[s] ELSE 0
    IN  figure("BROUILLON") + figure("ENVOYEE") + figure("EN_RETARD") + figure("PAYEE")
          + figure("ANNULEE")

\* The dashboard's figures come from three queries, each seeing later commits.
\* Invoices are never deleted, so what is counted first is counted again: all
\* the invoices there were, under their statuses; no fewer by processing
\* state; no fewer by direction.
SummariesHoldTogether ==
    \A w \in Workers :
        task[w].op = "summary" /\ task[w].pc = "directions" =>
            /\ Counted(task[w].byStatus) = task[w].rows
            /\ task[w].rows <= task[w].byProcessing
            /\ task[w].byProcessing <= ByDirection("OUTGOING") + ByDirection("INCOMING")
=============================================================================
