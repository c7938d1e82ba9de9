# DIXpertIA: TLA+ specifications

DIXpertIA manages the invoices, leave requests, accounts and enquiries of a
company: a FastAPI application over PostgreSQL, with a React front end. This
directory holds a formal model of the parts of it where the order of events
matters, the configurations that model-check it with TLC, and proofs that the
TLA+ proof system (TLAPS) checks.

The endpoints are synchronous functions that run in a pool of threads, several
processes wide. Each request has its own SQLAlchemy session
(`app/core/database.py`, `autoflush=False`), hence its own transaction at
PostgreSQL's default isolation, READ COMMITTED. A handler loads rows, checks
them in Python, assigns attributes and commits; the SQL of its assignments runs
at the flush. Between the check and the write anything may happen to the row.
The application answers with triggers and constraints in the database, and says
so: "a race between a check and its write is still caught there"
(`app/routers/invoicing.py:604`). Whether they catch every race is the main
question the models ask.

- [Inventory](#inventory)
- [Modules](#modules)
- [From the code to the model](#from-the-code-to-the-model)
- [Runs](#runs)
- [What the runs found](#what-the-runs-found)
- [Proofs](#proofs)
- [What is left out](#what-is-left-out)
- [Plan](#plan)
- [Running the checks](#running-the-checks)

## Inventory

"Hard" names what a test of the component would hardly reach; `PROJECT.json`
lists each such point with its line under `hazards`.

### Invoice endpoints: `app/routers/invoicing.py`
- State: `invoices` (direction, commercial status, review status, processing
  status, legal number, dates, totals, author), `invoice_items`,
  `invoice_reviews` (the history), `invoice_sequences` (the counter of each
  series and year).
- Operations: create a draft, edit it, submit, approve (takes the legal number),
  reject, send, pay, cancel, record a supplier's bill (takes a number of the other
  series), set the processing status; export, PDF and lists only read.
- Interacts with: the triggers, which judge every write; the monthly close,
  which archives invoices and closes their month; notifications and audit, whose
  rows go into the same transaction.
- Hard: two requests on one invoice; the counter's lock held until the commit;
  approvals that straddle midnight or New Year; a refusal after the number was
  taken; the lines of an edit and its row written by separate statements.
- Correct when: each series is gapless, without duplicates and in date order; the
  history explains the review status; a number means one approval by someone else
  than the author; content does not change once submitted; paid and cancelled are
  final; no two requests wait for each other for ever.

### Invoice rules: the triggers of `alembic/versions` and the CHECKs of `app/models/invoicing.py`
- State: none of their own; they read OLD, NEW and the committed tables.
- Hard: a trigger declared on columns fires only when the UPDATE names one of
  them; it sees the row as it is when the lock is granted, and the other tables
  as of its statement's snapshot.
- Correct when: what the handlers rely on is refused in every interleaving.

### Monthly accounting period: `app/routers/accounting.py`
- State: `accounting_periods` (a row exists once the month is closed, with the
  figures of that moment), and the invoices it archives.
- Operations: preview (reads), close.
- Hard: five statements with five snapshots; two closes of one month; invoices
  that change, appear or are sent meanwhile; row locks taken one by one, in no order.
- Correct when: a month is closed once; what it counted stays as counted; archived
  invoices are final; a deadlock of closes costs no request.

### Database sessions and identity: `app/core/database.py`, `identity.py`, `deps.py`, `main.py`
- State: the identity of a request in a context variable; the settings of its
  connection, which the row-level security policies read; the pool.
- Operations: identify the caller from a token or a purpose token, begin (which copies
  the identity), commit, close; the reminder job and the links act under identities
  of their own.
- Interacts with: every component that reads or writes a table.
- Hard: the next request borrows the connection; an identity that is known only once a
  transaction is open; a revocation beside a request; a second connection when the
  pool is exhausted.
- Correct when: a request reads what its own caller may read, records events in its own
  name, acts under a state its account was in while it was identified, and gets a
  connection.

### Accounts, links and roles: `main.py`, `app/services/accounts.py`, `app/core/security.py`
- State: `users` (role, active, verified, `token_version`), `account_tokens`
  (activation and reset links), the tokens that browsers hold.
- Operations: create, activate, sign in, change and reset the password, change a
  role, deactivate, reactivate.
- Hard: what a request read in one transaction it uses in the next; `token_version` read
  and written back by the ORM; two links asked for at once; two administrators who
  demote each other.
- Correct when: one reset link is live per account and works once; a token works only
  while its version is the account's; a password alone opens nothing once a second
  factor is on.

### Two-factor authentication: `app/routers/mfa.py`, `app/services/mfa.py`
- State: secret, enabled, last accepted step, recovery codes of each account.
- Operations: set up, confirm, verify, renew the recovery codes, disable, reset by an
  administrator or on the server (`reset_mfa.py`).
- Hard: counting the attempt, reading the secret, checking the code and enabling
  are transactions of their own; a second set-up may come between.
- Correct when: a step or a recovery code is accepted once.

### Attempt limits: `app/services/throttle.py`, migration `b3d7f1a9c2e5`
- State: the attempts of each key, under an advisory lock per key.
- Hard: parallel guesses; the window's edge; success that takes attempts back; purging
  rows that another transaction holds.
- Correct when: no window holds more attempts of a key than its limit.

### Reminders and notifications: `app/services/reminders.py`, `notifications.py`
- State: `notifications`, with their time, kind and invoice; an advisory lock keeps
  one pass at a time.
- Hard: a job in every process; a crash before or after the commit; an invoice
  that moves on during a pass; reminders read or cleared meanwhile.
- Correct when: one reminder per person, step and period; e-mail only of committed rows;
  whoever has to act is told in the end.

### Contact enquiries: `app/routers/contact.py`, `app/services/contact.py`
- State: `contact_requests` with who handled each and when. Hard: visitors at once at
  the limit, two administrators at once, e-mail after the commit.

### Leave requests and employees: `main.py`, `app/models`
- State: `employees`, `leave_requests`. Approve and reject check no status; a trigger
  and a CHECK judge who decides. The routers of `app/routers/leaves.py` and
  `payroll.py` are not mounted.

### Audit trail: `app/services/audit.py`
- Rows added to the caller's transaction, under a policy that compares their actor with
  the connection's identity.

### Clients, suppliers, creation and what is read back: `app/routers/invoicing.py`, `dashboard.py`
- State: `clients` (export, currency, language), `suppliers`, the terms an invoice
  copies from its client, `idempotency_key`.
- Operations: create and correct a client, create a supplier, create an invoice with an
  Idempotency-Key, record a bill; PDF, list by status, dashboard.
- Hard: a retry beside the first attempt or after a lost answer; corrections judged
  on a stale row; a document or a summary read in several statements; overdue, which
  is derived twice, in Python and in SQL.
- Correct when: one invoice per key; an export is in a foreign currency without VAT; a
  numbered document reprints as issued and its VAT rows give the amount due; an invoice
  is listed under what it shows.

### Invoice documents: `app/services/invoice_generator.py`, `amount_in_words.py`
- Pure functions: totals, VAT rows whose rounding leaves no remainder, an amount in
  words in two languages and four currencies.

### Browser application: `src/App.tsx`, `src/api.ts`
- State: the session, the current view, pending requests; the rest is presentation.

### Operations: `deploy/backup/backup.sh`, `deploy/monitoring/check.sh`
- State: files: dumps and roles, the success stamp, the problems known. Hard: a
  crash between two renames, an alert whose e-mail fails.

### Without behaviour of their own to model
Translations (catalogues), the e-mail transport (one call that may fail: a step of the
modules that send), set-up, seed and migration scripts (run once, by hand).

## Modules

| Module | Models | Theorems in |
|---|---|---|
| `InvoiceRules` | the triggers and CHECKs on `invoices`, as operators over the row before, the row after and the table | those of `InvoiceFlow` |
| `InvoiceFlow` | the ten invoice endpoints as transactions that interleave; row, counter and line locks; lost connections; the calendar | `InvoiceFlow_proofs` |
| `InvoiceLifecycle` | the abstract specification: an invoice's life, every request one atomic step | `InvoiceFlow_proofs` |
| `MonthClose` | `close_period`, statement by statement, composed with `InvoiceFlow` | `MonthClose_proofs` |
| `Throttle` | `auth_attempts` and the functions that count, forget and clear, with their locks | `Throttle_proofs` (lemmas) |
| `Accounts` | sign-in, passwords, links, account creation and change, over `Throttle` | `SecondFactor_proofs` |
| `SecondFactor` | two-factor authentication, over `Accounts` | `SecondFactor_proofs` |
| `Office` | what the next three share: clock, active accounts, notifications, audit trail, e-mails, requests | `Desk_proofs` |
| `Reminders` | the invoice flow as the job sees it, and the job in every process | `Desk_proofs` |
| `Contact` | the contact form and the administrators' inbox | `Desk_proofs` |
| `LeaveRequests` | employee records and leave requests | `Desk_proofs` |
| `Desk` | these three composed, with failures | `Desk_proofs` |
| `Sessions` | identity of a request, pool of connections, row-level security, revocation | `Sessions_proofs` |
| `InvoiceDocument` | totals, VAT rows and amounts in words as functions, the sums a reader checks, and a reference reader | `InvoiceDocument_proofs` |
| `Billing` | clients, suppliers, keys, creation, and what is read back: PDF, list, dashboard | `Billing_proofs` |
| `MCInvoiceFlow`, `MCMonthClose`, `MCAccounts`, `MCDesk`, `MCSessions`, `MCBilling` | small instances for TLC | |

`InvoiceFlow` extends `InvoiceRules`; `MonthClose` extends `InvoiceFlow` and adds
one variable; `InvoiceFlow` instantiates `InvoiceLifecycle` under a refinement
mapping (`Lifecycle`), and `FollowsLifecycle` says it implements it. Operators are
named after the triggers' migrations and actions after the handlers.
`SecondFactor` extends `Accounts`, which extends `Throttle`; `Desk` extends `Reminders`,
`Contact` and `LeaveRequests`, which extend `Office`; `Billing` extends
`InvoiceDocument`. No module declares a RECURSIVE operator. The proof modules extend one another
as their subjects do: `MonthClose_proofs` extends `InvoiceFlow_proofs`, `SecondFactor_proofs`
extends `Throttle_proofs`, `Billing_proofs` extends `InvoiceDocument_proofs`.

## From the code to the model

### Variables

| Variable | Code |
|---|---|
| `invoices` | the committed rows; `Absent` is a row not inserted yet |
| `lines` | committed `invoice_items`: one element per request that inserted lines, with an identity, because an edit deletes the identities it loaded |
| `reviews` | `invoice_reviews`, in the order of commits |
| `counter` | `invoice_sequences.last_number` of each direction and year |
| `periods` | `accounting_periods`; a month without a row is `Open` |
| `lock` | the session that holds the row lock of each invoice |
| `txn` | a request's memory: where it is, the row as loaded (`seen`), the row after the handler's assignments (`want`), the lines of the body and the lines loaded |
| `today` | `date.today()` and `CURRENT_DATE` |
| `closing` | a closing session's memory: where it is, the figures it read, the rows still to archive |

### A request

1. The handler (`CreateInvoice` ... `CancelInvoice`): loads and checks. Its guards
   are the handler's early returns and the role its route requires; a request
   refused here changes nothing and is not a step. Drafts and bills get the next
   identifier.
2. `Allocate` (`_allocate_invoice_number`): the counter's row is locked to the end
   of the transaction, so no second session passes while one holds a number of
   the series and year. The new value stays in the session until the commit.
3. `LoadLines`, `DeleteLines` or `DeleteRefused` (an edit only): the lines are
   loaded by a later statement than the row, deleted by a first flush, and the
   trigger on `invoice_items` judges each line that is still there.
4. `Flush` or `FlushRefused`: the UPDATE waits for the row's lock, then writes the
   columns the session changed (`Written`) over the row as it is by then, and every
   trigger and CHECK judges the result (`UpdateAllowed`, `InsertAllowed`). A trigger
   declared `UPDATE OF` some columns is consulted only if one of them was changed.
   A refusal is a 409 (or a 500) and rolls everything back.
5. `Commit`: row, lines, history and counter become visible together.
6. `Abort`, at any point: the process dies, the connection drops or building the
   response raises before the commit. `Midnight` may come at any point.

`FlushIsFree` says when a flush need not wait. Besides the row lock (`NeedsRowLock`), it has
the locks that a foreign key takes (`HoldsLines`, `HoldsFlush`): an INSERT of lines locks its invoice `FOR KEY
SHARE`, which conflicts with an UPDATE of the invoice only if that sets `numero`
(a unique column), and the unique key on a supplier's reference makes a second
bill wait for the outcome of the first.

### Closing a month

`CloseBegin` (no row for the month; `FOR UPDATE` of no row locks nothing),
`CloseBlocked` or `CloseNotBlocked` (`_blocking`), `CloseSummarise`
(`_summarise`), `CloseSelect` and `CloseArchiveRow` (the UPDATE finds its rows in
the snapshot of its start, locks them one by one, and checks its
WHERE clause again on the locked row), `CloseArchived`, then `CloseSeal` or
`CloseSealRefused` (the unique key on the month), and `CloseAbort`. Each reads the
committed tables of its own moment. The UPDATE has no ORDER BY, and an updated row moves:
it comes to its rows in any order (`ComesTo`), so two closes of a month may come to wait
for each other. PostgreSQL then fails one (`CloseDeadlock`, a 500), which is possible in the
model only when there is such a circle (`Circle`).

### Accounts, limits and the second factor

`accounts`, `links`, `factor` and `recovery` are the tables; `attempts` and `counting`
are `auth_attempts` and what each open transaction has done to it; `tokens` is every
signed token handed out; `req` is a request's memory between its transactions; `minted`
and `accepted` are bookkeeping (the last secret generated, which codes opened something), and
so are, in an account, the versions it `had` and those it came back to `again`.

A request is a chain of steps, each of which commits. `Start` is the handler up to its
first statement that waits; `Wait` and `CountAttempt` take the advisory locks and count;
`Refused` and `Allowed` commit the count. Then a sign-in is `CheckPassword` (reads the
row), `Admit` (takes the attempts back), `SignIn` (reads the second factor and signs a
token with the version read before). A reset link is counted, finds the live links
(`FindOldLinks`, the snapshot of the UPDATE), marks those that live still once their locks are
free (`MarkOldLinks`) and is inserted (`MailLink`) in one transaction, so the count's lock
orders the links. An activation link has no count: one inserted between the two statements
is missed. `ActivateAccount` and `ResetPassword` are one UPDATE each.
`UpdateUser` loads and checks, `WriteUser` writes the columns that differ, `token_version`
as the number it loaded plus one. In `SecondFactor`,
`Confirm`, `Verify` and `RenewRecoveryCodes` count, read and then judge (`Prove`,
`UseCode`) by conditions on the row as it is then. `Crash` and `DeadlockVictim` roll back the
open transaction. A tick is a 30-second step and also the unit of the windows; `now()`
is the start of the transaction, however long it waited for a lock. A code is its secret
and step; a person may type any code that an app could show them, or one on paper.
`NoCodeTwice` is about one enrolment: a secret set up anew has codes of its own, and a
request that read the older secret may use its code again under the new one.
`limit_public_requests` is a request of its own (`PublicRequest`), as it commits
before the handler.

### Reminders, enquiries, leave

`notices`, `trail`, `enquiries`, `employees` and `leaves` are the tables; `passes` is the job
of each process; `tasks` is what a request holds between two of its steps. A pass is
`StartPass` (notes the time), `TryLock`, `ReadInvoices`, `Write` (looks up what is there and
prepares what is missing), `CommitPass` (frees the lock), `Mail`. `FailPass`
ends it anywhere: an exception, which `reminder_loop` logs, or a restart. A message is sent
or lost (`SendEmail`) and never tried again; a crash after the commit loses the e-mails
of a period while the notices stay. An invoice is the step it is at and since when
(`date_emission` of a draft, `created_at` of the last review).

### Whose data a request reads

`pool` has the settings of each connection and who has borrowed it; `req[r].as` is the
context variable. `Begin` copies the context to the connection, unless it is empty;
`Commit` and `Close` clear the settings (`set_config(..., is_local => true)`) and return the
connection. `Identify` is `_identity_for`, in a short session of its own while
the request holds no connection. `CheckPurpose` and `Switch` are
`_purpose_identity` and the commit after it: the identity becomes known inside a
transaction. An administrator's update reads the row (`LoadAccount`) and writes the columns
that differ (`WriteAccount`), the version as read plus one, over whatever it has become;
`updates` holds those in between. `had` and a request's `since` are history: the rows of an
account so far, and those it had from the request's arrival to its identification. `Visible`
is the FOR SELECT policies; one row per table and owner stands for all.

### Billing and documents

`clients`, `suppliers` and `invoices` (with their lines) are the tables, `task` what a
worker's request has read or prepared. `UpdateClient` loads and judges, `CommitClient` writes the
fields that differ, under the CHECK and the unique name. `CreateInvoice` looks the key up
and loads the client, `InsertInvoice` flushes (the unique key waits for an
uncommitted one: `KeyIsFree`), `CommitInvoice` commits, and its answer may be lost. A
refusal, a rollback, a crash or a lost answer is `End`. A retry is another
`CreateInvoice`. `Download`, `ReadLines` and `WriteDocument` are the statements that load a
document, `Summarise`, `CountStates` and `CountDirections` the queries of the dashboard.
Submission and approval are one step, `ApproveInvoice`: their races are `InvoiceFlow`'s.
An edit is the statements of `update_invoice`: `EditInvoice` loads and checks, `LoadLines`,
`DeleteLines` (those it loaded), `WriteLines` (the flush, judged by the triggers on the row of
that moment) and `CommitEdit`. So two edits may leave a draft with the lines of both and the
totals of one, or half of each (`Overwritten`: a column is written if it differs from what was
loaded; `Touches`: the row is locked only then), and such a draft may be numbered and printed.

Lines are typed with a price in thousandths, and the totals are those of the typed lines, rounded
half up to their columns; the lines are stored with the price rounded to hundredths (`InColumn`), and
printed so. Stored quantities, prices and rates are hundredths; `InvoiceDocument` keeps exact
values in smaller units: a stored line's total in 10^-4, its VAT in 10^-8. `Rates` is the decreasing
list of the rates used, by the only property that list needs.

### Abstractions

- A number is its year and position; the series follows from the direction. The
  text `FA-2026-0001` is left out.
- The amounts before and after VAT and the VAT are one value; a set of lines is one
  of `Contents`, with its total `AmountOf`.
- `cancelled_at` and `cancellation_reason` are the status `ANNULEE` itself: the code
  sets them together and a CHECK keeps them together. Two racing cancellations differ
  in `cancelled_at`: `CancelsOnce`.
- The overdue status is derived at read time and never stored
  (`ck_invoices_overdue_is_derived`), so it is no status here.
- A typed line has a quantity and a rate of two decimals and a price of three, as the form's
  fields have (steps 0.01 and 0.001, `src/components/InvoiceLinesEditor.tsx:132` and `:149`). The API
  itself takes more digits, which would be rounded in the same two ways.
- The lines of an invoice are a sequence in the order of insertion. `Invoice.items` has no
  `order_by`, so the code promises no order, and no property is about it.
- In `InvoiceFlow` there is one client and one supplier; the unique key on a bill's
  reference is per supplier. `Billing` has several.
- The figures of a period are the set of counted invoices with their totals, which
  determines the sums and the counts the code records.
- Transactions of one request after its commit (`db.refresh`) only read.

### Bounds

| Constant | Bounds | Why it is enough |
|---|---|---|
| `Invoices` | rows | two for numbers and the close: a race for a number or between two row locks has two parties; one where everything happens to one invoice |
| `Sessions`, `Requests` | concurrent sessions | two at a time is what a check and the write that invalidates it take; the close has one request and two closers, three sessions |
| `MaxDay`, `MonthOf`, `YearOf` | the calendar | three days in two months and years in `numbering` (midnight and New Year); two days, in one or two months, elsewhere |
| `MaxAmount`, `Contents`, `AmountOf` | contents and totals | one or two contents; the total 2 of `c2` and the sums up to 4 tell which lines are there; 0 where totals play no part |
| `MaxReviews` | no submission once a history is this long | 3: submit, reject, submit again, with decisions that race beyond it; 1 in `numbering`, where reviews only lead to approvals |
| `BatchIds` | identities of lines | more than any history of the bound can use, identities being reused once no line or session has them |
| `Calls` | which operation, on which invoice, by whom | the operations a run is about; named in the MC modules |
| `DueDates`, `ProcessingMoves`, `References` | inputs | one due date before and one after a midnight; completed and, in the close, back to pending; two references so that two bills may differ |
| `Scenarios` (`MCAccounts`) | who calls what, how many times | six: guessing, forgetting, joining, enrolling, using codes, overtaking (two updates of one account by an administrator while its owner turns the second factor on); two requests at a time, three ticks, limit 2, window of one tick. Three calls pass a limit of 2; two requests make every pair of steps interleave. Nothing in `Accounts` bounds `token_version`: the calls do |
| `Scenarios` (`MCDesk`) | what happens, how many times | five: a chased, a corrected and a lingering invoice, enquiries, leave; two processes, two requests, three people, four ticks: two periods of the longest delay |
| `Pool`, `MaxCalls`, `MaxUpdates`, `MaxVersion`, `GivenRoles` (`MCSessions`) | connections, requests, administrators' updates, versions, roles they give | one connection, so that each request gets another's; two requests and two updates, which is what it takes to lose or lower a version between the steps of a request; versions up to 2, so that one can be raised twice and written back; one role to give, demotion |
| `Workers`, `Serves`, `Keys`, `Clients` ... (`MCBilling`) | requests at once and their operations | two corrections or two creations race, or one reads while another writes; one key, since keys do not meet; two clients for the names. Both workers edit; the readings, which disturb nobody, are one worker's |
| `Carts`, `Types`, `MaxBatch` (`MCBilling`) | what is typed, by whom; identities of lines | a cart of two rates with a price of 3.335 and one without VAT, a cart for each worker, so that mixed lines show; 1 gives two identities, enough for two edits at once |
| `Amounts` (`MCBilling`) | amounts read back | 876: every whole number up to 121, each irregular number of each group up to millions, with hundredths that test singulars, plurals and thousandths |

`ProcessingMoves` leaves `ARCHIVED` out: set by hand it makes an invoice final
without completing it, and its month can then never be closed. Sessions are symmetric
and TLC uses that (`Symmetry`) except in `numbering`, which checks a liveness property;
`accounts` does the same with its requests. In `MCBilling` amounts stay below what
`Numeric(10,2)` holds, so milliards are never printed; all `Keys` of `Throttle` have one window.

### Fairness

`FairSpec` (invoices) asks strong fairness of the `Statements` of each request: a statement
that can run again and again is run. PostgreSQL runs the statements it has
received and grants a lock to its waiters in their order, so a waiter
is not overtaken for ever by later requests. It asks nothing of `Handlers` (clients
need not call), `Abort` (connections need not drop) or `Midnight`. In particular
no liveness depends on an abort or on PostgreSQL's deadlock detector.

`Desk!Spec` asks weak fairness of the `PassSteps` of each process: `lifespan` starts
`reminder_loop`, which runs for as long as the process and logs what a pass raises.
Nothing is asked of clients, of the clock or of failures, which are bounded in number.

`Sessions!Spec` asks weak fairness of the `Progress` of each request: the server serves
what it has taken, a handler ends, and `get_db` closes its session. A request that
waits for a connection gets one because the requests that hold the pool end.

Deadlock is not checked (`CHECK_DEADLOCK FALSE`): a state where all is done, or the bounds
are used up, is a proper end. Circular waiting is checked for what it is: `CirclesAreOfOneMonth`
for invoices and closes and `LocksMakeNoCircle` for the limits, which are proved too, and
`EveryRequestEnds`, `SomeoneGoesOn` and `RequestsFinish`. The circles the code has, and
PostgreSQL breaks by failing a statement, are steps: `CloseDeadlock`, of closes of one month, and
`DeadlockVictim`, between a purge and a password change.

## Runs

| Run | Question | Distinct states |
|---|---|---|
| `numbering` | Two drafts or bills at a time compete for numbers over two years, are refused or lost: is each series gapless (`Gapless`) and in date order (`NumbersFollowDates`), and does each request end (`EveryRequestEnds`)? | 123,000 |
| `lifecycle` | Two requests at a time on one outgoing invoice, every endpoint of its commercial life, two people with both roles between them: does the history explain the status (`HistoryExplainsStatus`), is a number one approval by another person (`NumberedByOneOtherPerson`), do the statements implement an invoice's life (`FollowsLifecycle`)? Also `TypeOK`. | 886,000 |
| `close` | Two closes and one request at a time on an approved invoice and a bill: does what was counted stay so (`CountedStaysAsCounted`), is a close final (`ClosedIsForever`), are archived invoices only paid (`ArchivedIsOnlyPaid`), do only closes of one month ever wait in a circle (`CirclesAreOfOneMonth`), can someone always go on (`SomeoneGoesOn`)? Also `BooksTypeOK`. | 1,461,000 |
| `accounts` | Two requests at a time over accounts, limits and second factor, with crashes: do the limits hold (`AttemptsWithinLimit`), do their locks make no circle (`LocksMakeNoCircle`), does only the latest reset link work (`OneResetLink`), does a code open one thing (`NoCodeTwice`), is a session opened by the password alone worthless once the second factor is on, as long as the account does not come back to a version it has had (`OnlyARepeatedVersionRevives`)? Also `AccountsTypeOK`. | 576,000 |
| `desk` | The job in two processes that fail, enquiries and decisions that race: one reminder per period (`OneReminderPerPeriod`), e-mail of stored rows only (`MailsAreOfStoredRows`), limits (`EnquiriesWithinLimits`), decisions and their events together (`DecisionsAreOnRecord`), is whoever has to act reminded in the end (`EveryoneIsReminded`)? Also `DeskTypeOK`. | 353,000 |
| `sessions` | Two requests of any kind share a connection while accounts change: does each read its own caller's rows (`ReadsAreTheCallers`), act in its own name (`EventsInOwnName`), under a row its account had since it arrived, active and of the token's version (`CallersAreCurrent`), and end (`RequestsFinish`)? Also `SessionsTypeOK`. | 222,000 |
| `billing` | Two workers correct, create, retry, edit, print and sum up: one invoice per key (`OneInvoicePerKey`), exports in foreign currency (`ExportsAreForeign`), numbered documents reprint as issued with VAT rows that give the amount due (`NumberedDocumentsReprint`), amounts in words (`AmountsReadBack`), lists and shown status agree (`ListedAsShown`), the dashboard's queries fit together (`SummariesHoldTogether`)? Also `BillingTypeOK`. | 2,290,000 |
| `history` | Does the history follow the flow? No. | stops at the first |
| `totals` | Is the total the total of the lines? No. | |
| `frozen` | Do the lines stay what was submitted? No. | |
| `recount` | Do a closed month's figures match a recount? No. | |
| `revived` | Is a session that the password alone opened worthless once the second factor is on? No. | |

`close` starts from `ApprovedInit`, the state after one person
created and submitted invoice 1 and another approved it, one of the states `Init`
leads to: it leaves TLC the races of the close rather than the way to them.
`recount` runs with `QuietSpec`, where no request overlaps a close, to show that
its finding needs no race. `revived` is `accounts` with the scenario `Overtaking` alone.

Every property of a passing run has a mutant in `PROJECT.json`: a plausible bug in
a definition (`AllocateForGood`, a counter outside the transaction;
`ForgetsLocks`, a rollback that keeps locks; `EditUntilSent`, an edit that is allowed
of a numbered invoice ...) under which TLC finds that property violated. They stand in the
modules just before the definition they replace, and nothing uses them.

## What the runs found

Each is a place where the code and a comment or docstring of the repository differ.
None breaks a legal series.

1. `history`. Two submissions of one draft at the same moment both succeed. The
   second UPDATE waits, then sets `review_status` to the value it has by now, and
   `trg_invoice_review_rules` judges only changes. The history shows two
   submissions in a row and the accountants are notified twice. The comment at
   `app/routers/invoicing.py:603` says such a race is caught. Two rejections race
   alike. (Two approvals do not: the second wants to set the number.)
2. `totals`. Two edits of one draft at the same moment: each deletes the lines it
   loaded, and each inserts its own. The invoice has the lines of both and the
   total of the last (`app/routers/invoicing.py:570`).
3. `frozen`. An edit that changes the lines but neither the total nor the due date
   writes no column of `invoices`, so it neither takes the invoice's row lock nor
   meets its triggers. It can be checked before a submission and committed after it
   (`app/routers/invoicing.py:651`).
4. `recount`. An invoice approved in a month and not yet sent is in no books when the
   month closes; sent later, it joins the closed month's books uncounted
   (`app/models/accounting.py:61`).
5. `revived`. `update_user` raises the `token_version` it loaded and writes that number
   (`main.py:497`). Two changes of a role load version 0; the first writes 1; the account signs in
   with its password (a session of version 1), sets up its second factor and enables it (version
   2); the second change writes 1 over it, and the session that the password alone opened works
   again, with the second factor on. `app/routers/mfa.py:18`, `app/core/deps.py:11` and migration
   `e9c3a1f7b204` (lines 24-25) say that every session issued before is refused.

Three more were met without a run of their own:

- A close checks, reads its figures and archives in statements with different snapshots. An
  invoice that is set back to pending, sent late or recorded between the check and the UPDATE is
  archived unfinished, against the docstring at `app/routers/accounting.py:158`. The behaviour
  is in `MonthClose`; the shortest way to it is the late sending of `recount`.
- A price of 1.005 counts as 1.005 in the totals (`app/routers/invoicing.py:257`) and is stored and
  printed as 1.01 (the column has two decimals). A hundred of them are printed as 101 and counted
  as 100.50: the printed lines miss the subtotal by more than the "rounding step" of `_vat_rows`
  (`app/services/invoice_generator.py:286`), and the difference goes on the highest rate's VAT.
  The VAT rows still give the amount due.
- An invoice that finding 2 left with the lines of two edits can be submitted and numbered as it
  is, and prints lines that are not those of its totals.

## Proofs

Every safety property and action property that a passing run checks is a theorem of its
specification, for every value of the constants, except `SomeoneGoesOn`, which is about
ENABLED; and `FollowsLifecycle`, the refinement, is one too. The runs show them on small instances and show that
something happens in them; the theorems have no bound. `PROJECT.json` lists them.

Each component has one inductive invariant. Its theorem `...InvInductive` says that
every step keeps it, from one lemma per action; the properties follow from it. TLC has
checked each of these invariants on its run's instance before it was proved.

| Module | Invariant | Properties it gives |
|---|---|---|
| `InvoiceFlow_proofs` | `GaplessInv` | `Gapless`, `TypeOK` |
| | `HistoryInv` (over `GaplessInv`) | `NumbersFollowDates`, `HistoryExplainsStatus`, `NumberedByOneOtherPerson`, `FollowsLifecycle` |
| `MonthClose_proofs` | `BooksInv` (over `HistoryInv`) | `BooksTypeOK`, `CountedStaysAsCounted`, `ClosedIsForever`, `ArchivedIsOnlyPaid`; and those of the invoices again, while months are closed |
| | `RequestLocks` (over `BooksInv`) | `CirclesAreOfOneMonth` |
| `Throttle_proofs` | `ThrottleInv` | lemmas for the next |
| `SecondFactor_proofs` | `FactorInv` (over `ThrottleInv`) | `AccountsTypeOK`, `AttemptsWithinLimit`, `OneResetLink`, `NoCodeTwice`, `OnlyARepeatedVersionRevives` |
| | `LocksInOrder` (over `FactorInv`) | `LocksMakeNoCircle` |
| `Desk_proofs` | `DeskInv` | `DeskTypeOK`, `OneReminderPerPeriod`, `MailsAreOfStoredRows`, `EnquiriesWithinLimits`, `DecisionsAreOnRecord` |
| `Sessions_proofs` | `SessionsInv` | `SessionsTypeOK`, `ReadsAreTheCallers`, `EventsInOwnName`, `CallersAreCurrent` |
| `Billing_proofs` | `BillingInv` | `BillingTypeOK`, `OneInvoicePerKey`, `ExportsAreForeign`, `ListedAsShown`, `SummariesHoldTogether`, `NumberedDocumentsReprint` |
| `InvoiceDocument_proofs` | none: theorems about operators (`NumbersReadBack`, `AmountReadsBack`, `VatRowsGiveTheDue`, `VatRowsAddUp`) | through `Billing_proofs`: `AmountsReadBack`, and what `NumberedDocumentsReprint` needs of the figures |

The assumptions stand with the constants they are about, and TLC evaluates them in each
run: identifiers are positive integers, the values that stand for nobody or nothing are no
users, keys or rows, inputs are of their types, limits, delays and windows are positive,
people and invoices of `Desk` are finitely many (its counts are of finite sets). An amount in words
is below 10^8 whole units, as `montant_ttc` is `Numeric(10, 2)` (`AmountsAssumption`; the theorem
about words alone, `AmountReadsBack`, goes to 10^12). A cart is any sequence of lines (`Line`):
a quantity of at least a hundredth, a price in thousandths, a rate below a hundred, each of which its
column holds once rounded. That the
calendar of the invoices is monotone is assumed and not used: `trg_invoice_review_rules`
compares the dates themselves. `close` starts from `ApprovedInit`, which `Init` leads to, so
the theorems about `BooksSpec` cover its states.

### Gapless series

`Gapless` is not inductive: a session that remembers a number that is not the
counter's next, or a second session that remembers the same one, would break it
at its commit. `GaplessInv` adds what rules that out:

- `AbsentIsBlank`: a row not inserted yet has no number;
- for each session at work (`SessionInv`): `AboutOneInvoice` (the invoice exists
  unless this session, alone, is inserting it), `HoldsNextNumber` (a remembered number is
  `counter + 1` of its series and year) and `HoldsItsRow` (what was flushed is
  locked, and a row that is given a number has none);
- `OneHolder`: one session at most remembers a number of a series and year.

A handler establishes them for its session. `Allocate` establishes
`HoldsNextNumber` and needs the counter's lock for `OneHolder`. `Flush` is where
`NumberIsFinal` (in `trg_invoice_review_rules`) gives the second half of
`HoldsItsRow` (`FlushTakesFirstNumber`); the row lock preserves it until the commit.
`Commit` is the one step that changes the table and the counter: `CommitGapless` shows
that the series grows from `1 .. c` to `1 .. c + 1`. A rollback forgets the number
together with the session.

### Dates, history, lifecycle

What the triggers judge at the flush must still be true at the commit, when the row
becomes visible. `StillAllowed` says that: the verdicts on this row hold on while other
sessions commit, because the row is locked, the counter of the series is, and today only
advances. `SetsItsColumns` and `IsNewRow` say which columns each handler has changed, so
that a flush over a row others have changed since keeps the rest. `RowInv` (what we issue is
numbered exactly when it is approved) and `ApprovalsEnd` (an approval ends the history, by
someone other than the author) are what the history needs. `ImplementsLifecycle` shows
that a commit is one step of `InvoiceLifecycle` under the mapping `StageOf`, case by
operation (`CommitLife`), and every other statement a stutter.

### The close

A close reads its figures before it locks the rows, so they must stay in the books on their
own account: `CloseInv` says that what a close counted is in the month's books, with
the amount counted, from then on, and under its lock or still to do. A row in the books
has left draft (`ArchivedIsNoDraft` for those already archived), so nothing changes its amount,
its date or its being there. `RequestMindsBooks` says what a request at work may still want of
such a row, and that what a trigger verified for it at the flush still holds at its commit. A close keeps `HistoryInv` because it
changes `processing` alone, on rows it has locked (`CloseWrites`); this is what makes the
theorems of the invoices hold beside the closes.

### No circle

`WaitsFor` is read off the guards: a request waits for the holder of the counter, of the lines
it deletes, or of what its flush has to lock; a close for the holder of the row it has come to.
Nothing is assumed of the order in which a close comes to its rows, and two closes of a month may
indeed wait for each other: TLC meets that in `close`, where `CloseDeadlock` ends it.
`CirclesAreOfOneMonth` says that there is no other circle, and none that a request is in.
`RequestLocks` is why: a request has a row's lock only once nothing is left but its commit.
`WhatIsWaitedFor` lists what each session can be waiting for: a request, one whose flush has still to
come, one about to commit, or a close; a close, a request about to commit, or a close of the month
that the row it has come to belongs to, which is its own month. Now a request about to commit
waits for nobody, so it is in no circle; hence no close of a circle waits for a request, a request
that others wait for is at its flush, and those that wait for it are waited for by nobody
(`CirclesAreOfCloses`).

### Limits, accounts, second factor

`AttemptsWithinLimit` is about the committed rows; `CommitWouldKeepLimits` says the
same of each open transaction's rows added to them, for the keys it has locked, and
`LocksAreExclusive` with `RowsAreLocked` that nobody else adds to these. `LinkInv` follows
the e-mail count's lock from the hit to the insert of the link: whoever holds it has
marked every live link of the account. `CodeInv` says that secrets are new when they are
generated, and that a code accepted under the secret an account has is out of use.
`VersionInv` says that every token, and every row a sign-in has read, is of a version its account
has had; and that a token of the password alone is not of the account's version while the second
factor is on, unless the account is at that version `again`. The enabling moves the account to
a version: if it is new, no token has it; if it is not, the account is back at it. Only
`WriteUser` makes the latter happen, and the run `revived` shows that it does; so
`OnlyARepeatedVersionRevives` is what is left of the promise, and it says that the fault of the ORM's
number is the only one.

`LocksMakeNoCircle` is about the advisory locks alone. `AddressFirst` says which keys a
transaction may hold when it asks for the next: only a sign-in ever waits with a lock, that of its
address, and it waits for an account (`WaitingWithALock`). Whoever has that lock has the
lock of an account and so waits for no other. Hence a deadlock needs the rows that a hit has purged and not
committed: that one exists, and `DeadlockVictim` ends it.

### Desk

`TablesInv` has types, finiteness and that nothing is from the future. `ContactInv`: one
session at a time is between the counts and the insert, and the counts it read still allow it.
`LeavesInv`: what a decision has read is an earlier state of the row, and a decision stays one.
`RemindersInv` is the core: one process at a time is at work (the advisory lock), what it
read of an invoice is the row still or the row moved on after the pass began, what it is about
to commit is news (`IsNews`), and two reminders of one step are in two periods
(`PeriodsInv`), which needs that rows move on only to a time at or after the pass.
`MailsInv` follows each e-mail from the commit of its row.

### Sessions

`PoolIsClean` (a connection nobody has borrowed carries no settings), `OneConnection` and
`SettingsAreTheBorrowers` (the settings are the borrower's identity once its handler is at
work, and nobody's before) give the reads; `KindInv` says what each kind of request is at
each step; `EventInv` whose name an event bears. `TokenGood` says of a request that its `since` holds
the row its account has, as long as its caller is not known yet, and of one that acts as somebody that
`since` has an active row of the token's version and of the role it acts under. `WriteAccount` may
write any row that an update has read and changed (`RewriteFacts`): the claim does not depend on
versions growing.

### Billing

`KeysInv` and `HoldInv`: one stored invoice per key, and none yet for a key that a
session has flushed, which no second session has. `CreateFits`, `ClientFits`, `PdfFits` and
`SummaryFits` say what a session holds that was read earlier and is still good: a
correction fits whatever the client has become; a row being printed still has its party,
terms and, if it was numbered, its content (`SameTerms`); a count is of invoices that are still
there. `EditFits` says that an edit under way is of a stored invoice whose export terms its lines
and the totals it loaded fit, and `LockInv` that nobody numbers an invoice between the insert of an
edit's lines and its commit (the foreign key locks the row). So an edit that loaded a draft which has
been numbered since is refused at its flush, and one that was flushed commits before the
number. `Onwards` is the frame: every step keeps what these need (`SameTerms`, `NobodyNumbers`).
`ContentInv` has the terms of a row, stored or not, and none on how its totals go with its lines:
two edits may mix them. `NumberedDocumentsReprintAlways` follows from `PdfFits`: what was read of a
numbered row, in whatever statements, is the row as it stays; and from `VatRowsGiveTheDue`, which
asks nothing of the totals. `ContentsAddUp` is about one content read at once, whose prices have no
more digits than their column (`FitsColumns`): its lines give the subtotal too.

### VAT rows

`VatRowsGiveTheDue`: over any lines, any totals and in any currency, the subtotal and the VAT
rows sum exactly to the amount due, and each row but the first is its base times its rate, rounded.
`VatRowsAddUp`: with the totals that these lines give (`StoredTotals`), the first row too is within
`RoundingStep` of its base times its rate. The folds of the model are first given as tables of
partial sums (`Runs`), and the lemmas about sums speak of any two or three tables that are
related term by term: equal terms, terms that differ at one place, terms that add up or scale,
terms that stay near (`SumsAgree`, `SumsDifferByOne`, `SumsCombine`, `SumsScale`,
`SumsStayNear`). `RatesAreListed` says that the list of `Rates` exists and has each rate once.
`BasesTimesRates` then counts the VAT twice, by rate and by line, and finds the same.
`HalfUpIsNear` gives each rounding its half step; what they leave over is within the sum of
these, and it goes to the first row, where it makes the sum exact. `ExportsHaveNoVat` is
the case of lines with rate 0 only.

### Amounts in words

`NumbersReadBack`: a number below 10^12, put in words in either language, is read back as itself
by `ReadNumber`; `AmountReadsBack`: likewise an amount in each currency; `WordsSayTheAmount`
concludes for the amounts of the model. The reader is a fold over words that keeps a
sum and an open group. The lemmas say what a phrase does to it: it `Adds` its value to the
group, `Says` a group to who has heard none, `Counts` a group by its power into the sum, or
`Tells` the whole number. Each is proved of each way of saying a number, up from the words of the tables
(`Meaning` finds a word at the place it stands, since the tables' words are distinct:
`MeaningByPlace`). The nouns stand out from the words of the numbers
(`UnitNounsStandOut`), so the reader finds where the units end.

The inductions over positions in these two sections go by the least counterexample
(`Smallest`, `Climb`, from the library's `WFMin`): the set of positions where a claim fails has a first
element, if any. The claim is then a set and no operator is passed to a theorem.

### Only model-checked

- Liveness (`EveryRequestEnds`, `RequestsFinish`, `EveryoneIsReminded`) and the ENABLED in
  `SomeoneGoesOn`: out of the prover's reach. `CirclesAreOfOneMonth` is the part of it that is
  proved.
- The five runs that end in a counterexample.

## What is left out

Within the modelled components:

- Drafts that had a number before verification existed (#118) are kept by the code
  (`ApproveInvoice` has the branch) but are in no initial state, so that branch runs
  in no run; `Init` is an empty database.
- Notification and audit rows of the invoice endpoints: they are inserted in the same
  transaction as what they tell of, and nothing reads them to decide. A notification is
  repeated whenever a history row is (finding 1). The transactions that do depend on such
  rows, those of the job and of the leave decisions, are in `Desk`.
- The trigger that fixes an invoice's currency (no operation writes the column) and
  the refusal to delete an invoice (none deletes).
- The order of the history by `created_at` (the start of a transaction) where it differs
  from the order of commits.
- Two attempt keys with one `hashtext()`, which share an advisory lock: every key is its own
  lock (`LocksMakeNoCircle` depends on it, the limits do not).
- Paging, sort orders and the other filters of the lists; the dashboard's month filter and
  amounts by currency.
- Layout, page breaks, fonts, addresses and wording of documents and messages. A draft's
  PDF may show the totals of one content over the lines of another (it says it is a draft);
  `NumberedDocumentsReprint` is about the others.
- Dates, kinds and reasons of a leave; payslips; an account's name, picture and language.
- The write policies of row-level security other than that of `audit_events`.

Behaviours that are modelled, against what the repository says, and that no run of their own
shows:

- Two administrators may demote each other at once, and none is left. The docstring at
  `main.py:484-486` says of the rule that nobody demotes themselves "That is also what keeps at least
  one admin: the caller is an active admin, and only ever changes someone else". The caller was an
  active admin when the request was identified (`UpdateUser`).
- Two activation links re-sent at once may both stay live: the second UPDATE has not found the
  link that the first inserts (`FindOldLinks`). `app/services/accounts.py:5-6` says "only the latest
  link works", and `main.py:449` "the previous one stops working". Reset links keep the promise
  (`OneResetLink`).
- Two revocations at once may raise `token_version` once, and one that was loaded before others
  may write back a lower version, with which a revoked token works again
  (`app/core/deps.py:11-13`). This is finding 5, which has its run; in `Sessions` a request may act
  on such a token, and `CallersAreCurrent` says what still holds.
- The two behaviours of the close and of rounding listed under [What the runs
  found](#what-the-runs-found).
- The docstring of `app/services/throttle.py:11-13` says a locked account is answered like a wrong
  password (401); the code answers 429 (`main.py:366-368`). The answer's code is not in the model.

Behaviours that are modelled and of which we found no document that says otherwise: a second set-up
between the check of a code and the enabling turns on a secret nobody proved; two
administrators may handle one enquiry, and the last is shown; two decisions on a leave may mix
their columns; an approval may reach a content its author did not read.

Not modelled:

- Browser application: views over the API. What an answer that comes after a sign-out may
  do is decided by the server (`Sessions`).
- Backup and monitoring scripts: shell programs that run alone. Their crashes between two
  renames are the hazard listed at `deploy/backup/backup.sh:40`.
- Translations and error messages, set-up, deployment, seed and migration scripts, the
  service catalogue (plain rows).

## Plan

Done: the invoice flow and the monthly close; accounts, limits and second factor; reminders,
enquiries and leave; sessions and row-level security; billing and documents; and the
theorems above.

What is left, in order of weight:

1. Runs of their own for the promises on administrators and activation links, which the model
   already refutes (see above).
2. Two of the hazards listed without a property, which need a requirement first: an approval of
   a content its author did not read, a second set-up under way while a code is checked.
3. The backup and monitoring scripts, with their crashes between two renames.

## Running the checks

    tlc -config MCNumbering.cfg MCInvoiceFlow    # likewise MCLifecycle, MCHistory, MCTotals, MCFrozen
    tlc -config MCMonthClose.cfg MCMonthClose    # likewise MCRecount
    tlc -config MCAccounts.cfg MCAccounts        # likewise MCRevived
    tlc -config MCDesk.cfg MCDesk
    tlc -config MCSessions.cfg MCSessions
    tlc -config MCBilling.cfg MCBilling
    tlapm InvoiceFlow_proofs.tla                 # likewise MonthClose_proofs, Throttle_proofs,
                                                 # SecondFactor_proofs, Desk_proofs,
                                                 # Sessions_proofs, InvoiceDocument_proofs,
                                                 # Billing_proofs

The passing runs take between half a minute and two minutes each with two
workers, the others a few seconds. Each proof module takes a minute or two,
`InvoiceDocument_proofs` three.
The files `MCHistory`, `MCTotals`, `MCFrozen`, `MCRecount` and `MCRevived` are
expected to end in a counterexample.
