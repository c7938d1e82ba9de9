--------------------------- MODULE MonthClose_proofs ---------------------------
(***************************************************************************)
(* Theorems about MonthClose: what a close counted stays as it was         *)
(* counted, a closed month is closed for ever, and an archived invoice can *)
(* only be paid.  The closes keep every invariant of the invoices, so the  *)
(* theorems of the invoice requests hold while months are closed too.      *)
(***************************************************************************)
EXTENDS MonthClose, InvoiceFlow_proofs

-----------------------------------------------------------------------------
(***************************************************************************)
(* The inductive invariant.                                                *)
(***************************************************************************)

\* A payment sets the date with the status and nothing else sets it, a new
\* row is not archived, and what was verified at a flush about an archived
\* row still holds at the commit.
RequestMindsBooks(r) ==
    LET t == txn[r]
    IN  t.pc # "idle" =>
          /\ Inserts(t) => t.want.processing # "ARCHIVED"
          /\ ~ Inserts(t) =>
                IF t.op = "pay"
                THEN t.want.statut = "PAYEE" /\ t.seen.statut # "PAYEE"
                ELSE t.want.paid = t.seen.paid
          /\ t.pc = "commit" /\ ~ Inserts(t) => ArchivedIsFinal(invoices[t.inv], After(t))

\* An archived invoice has left draft.
ArchivedIsNoDraft(i) == invoices[i].processing = "ARCHIVED" => invoices[i].statut # "BROUILLON"

\* What a close counted is in the books, as counted, from the moment it reads
\* the figures; the UPDATE has each counted row before it or under its lock.  The rows it
\* has still to visit are in the month's books, and so are those it holds.
CloseInv(k) ==
    LET c == closing[k]
    IN  /\ c.pc = "idle" <=> c.month = 0
        /\ c.pc \in {"select", "archive", "seal"} =>
              \A f \in c.figures :
                  f[1] \in MonthBooks(c.month) /\ invoices[f[1]].amount = f[2]
        /\ c.pc \in {"archive", "seal"} =>
              \A f \in c.figures : f[1] \in c.todo \/ lock[f[1]] = k
        /\ c.pc = "seal" => c.todo = {}
        /\ c.pc = "archive" =>
              /\ c.row # 0 => c.row \in c.todo
              /\ \A i \in c.todo : i \in MonthBooks(c.month)
        /\ \A i \in Invoices :
              lock[i] = k => c.pc \in {"archive", "seal"} /\ i \in MonthBooks(c.month)

BooksInv ==
    /\ HistoryInv
    /\ closing \in [Closers -> Close]
    /\ \A i \in Invoices : ArchivedIsNoDraft(i)
    /\ \A r \in Requests : RequestMindsBooks(r)
    /\ \A k \in Closers : CloseInv(k)
    /\ CountedStaysAsCounted

-----------------------------------------------------------------------------
(***************************************************************************)
(* The closes keep the invariant of the invoice requests.                  *)
(***************************************************************************)

LEMMA CloserFacts ==
    ASSUME NEW k \in Closers
    PROVE  k \in Sessions /\ k \notin Requests /\ k # NoSession
BY SessionsAssumption DEF Closers

\* Archiving a row changes its processing status only.
LEMMA ArchivedRowFacts ==
    ASSUME NEW row \in Row
    PROVE  LET new == ArchivedRow(row)
           IN  /\ new \in Row
               /\ new.processing = "ARCHIVED"
               /\ new.direction = row.direction /\ new.statut = row.statut
               /\ new.review = row.review /\ new.numero = row.numero
               /\ new.issued = row.issued /\ new.due = row.due
               /\ new.amount = row.amount /\ new.by = row.by
BY DEF ArchivedRow, Row, ProcessingStatuses

\* What a statement of a close may do to the tables of the requests: archive
\* rows of the books it has locked, and take or release locks of its own.
CloseWrites(k) ==
    /\ UNCHANGED <<lines, reviews, counter, txn, today>>
    /\ TypeOK'
    /\ \A i \in Invoices :
          \/ invoices'[i] = invoices[i]
          \/ lock[i] = k /\ Exists(invoices[i]) /\ invoices'[i] = ArchivedRow(invoices[i])
    /\ \A i \in Invoices, r \in Requests : lock[i] = r => lock'[i] = r

\* The columns the requests' invariants are about stay.
LEMMA CloseWritesColumns ==
    ASSUME TypeOK, NEW k, CloseWrites(k), NEW i \in Invoices
    PROVE  /\ invoices'[i].direction = invoices[i].direction
           /\ invoices'[i].statut = invoices[i].statut
           /\ invoices'[i].review = invoices[i].review
           /\ invoices'[i].numero = invoices[i].numero
           /\ invoices'[i].issued = invoices[i].issued
           /\ invoices'[i].due = invoices[i].due
           /\ invoices'[i].amount = invoices[i].amount
           /\ invoices'[i].by = invoices[i].by
           /\ Exists(invoices'[i]) <=> Exists(invoices[i])
           /\ Numbered(invoices'[i]) <=> Numbered(invoices[i])
<1>1. invoices[i] \in Row
  BY DEF TypeOK
<1>2. CASE invoices'[i] = invoices[i]
  BY <1>2
<1>3. CASE invoices'[i] = ArchivedRow(invoices[i])
  BY <1>1, <1>3, ArchivedRowFacts DEF Exists, Numbered
<1> QED
  BY <1>2, <1>3 DEF CloseWrites

\* The series stay gapless.
LEMMA CloseWritesGapless ==
    ASSUME GaplessInv, NEW k \in Closers, CloseWrites(k)
    PROVE  GaplessInv'
<1>1. TypeOK /\ TypeOK' /\ UNCHANGED <<counter, txn>>
  BY DEF GaplessInv, CloseWrites
<1>2. Gapless'
  <2>1. \A i \in Invoices, s \in Directions, y \in Years :
           /\ InSeries(i, s, y)' <=> InSeries(i, s, y)
           /\ invoices'[i].numero = invoices[i].numero
    BY <1>1, CloseWritesColumns DEF InSeries
  <2> QED
    BY <1>1, <2>1 DEF GaplessInv, Gapless
<1>3. AbsentIsBlank'
  BY <1>1, CloseWritesColumns DEF GaplessInv, AbsentIsBlank, CloseWrites
<1>4. OneHolder'
  BY <1>1 DEF GaplessInv, OneHolder
<1>5. ASSUME NEW r \in Requests PROVE SessionInv(r)'
  <2>1. SessionInv(r) /\ txn'[r] = txn[r]
    BY <1>1 DEF GaplessInv
  <2>2. AboutOneInvoice(r) => AboutOneInvoice(r)'
    BY <1>1, CloseWritesColumns DEF AboutOneInvoice
  <2>3. HoldsNextNumber(r) => HoldsNextNumber(r)'
    BY <1>1 DEF HoldsNextNumber
  <2>4. AboutOneInvoice(r) /\ HoldsItsRow(r) => HoldsItsRow(r)'
    BY <1>1, CloseWritesColumns DEF AboutOneInvoice, HoldsItsRow, CloseWrites
  <2> QED
    BY <2>1, <2>2, <2>3, <2>4 DEF SessionInv
<1> QED
  BY <1>1, <1>2, <1>3, <1>4, <1>5 DEF GaplessInv

\* What was verified for a request holds on: if it changes its row it has the
\* lock and the close has not archived it.
LEMMA CloseWritesVerified ==
    ASSUME HistoryInv, NEW k \in Closers, CloseWrites(k), NEW r \in Requests,
           txn[r].pc = "commit"
    PROVE  /\ StillAllowed(txn[r])'
           /\ ~ Inserts(txn[r]) /\ ArchivedIsFinal(invoices[txn[r].inv], After(txn[r])) =>
                ArchivedIsFinal(invoices[txn[r].inv], After(txn[r]))'
<1> DEFINE t == txn[r]
<1>1. /\ TypeOK /\ TypeOK' /\ AboutOneInvoice(r) /\ HoldsItsRow(r) /\ StillAllowed(t)
      /\ UNCHANGED <<txn, today>>
  BY DEF HistoryInv, GaplessInv, SessionInv, RequestInv, CloseWrites
<1>2. t.inv \in Invoices /\ invoices[t.inv] \in Row /\ invoices'[t.inv] \in Row
  BY <1>1 DEF AboutOneInvoice, TypeOK
<1>3. DOMAIN invoices = Invoices /\ DOMAIN invoices' = Invoices
  BY <1>1 DEF TypeOK
<1>4. CASE invoices'[t.inv] = invoices[t.inv]
  <2>1. After(t)' = After(t)
    BY <1>1, <1>4 DEF After
  <2>2. NumberFollowsDate(invoices, After(t)) => NumberFollowsDate(invoices', After(t))
    BY <1>1, <1>3, CloseWritesColumns DEF NumberFollowsDate, Ordered
  <2> QED
    BY <1>1, <1>4, <2>1, <2>2 DEF StillAllowed
<1>5. CASE invoices'[t.inv] # invoices[t.inv]
  <2>1. lock[t.inv] = k /\ Exists(invoices[t.inv])
    BY <1>2, <1>5 DEF CloseWrites
  <2>2. ~ Inserts(t) /\ ~ Dirty(t)
    BY <1>1, <2>1, CloserFacts DEF AboutOneInvoice, HoldsItsRow
  <2>3. After(t)' = invoices'[t.inv] /\ ~ TakesNumber(t)
    BY <1>1, <1>2, <2>2, WrittenSame DEF After, Dirty, TakesNumber
  <2>4. invoices'[t.inv].by = invoices[t.inv].by
    BY <1>1, <1>2, CloseWritesColumns
  <2>5. StillAllowed(t)'
    BY <1>1, <2>2, <2>3, <2>4, RowMayStay DEF StillAllowed
  <2>6. ArchivedIsFinal(invoices[t.inv], After(t))'
    BY <1>1, <2>3 DEF ArchivedIsFinal
  <2> QED
    BY <2>5, <2>6
<1> QED
  BY <1>4, <1>5

LEMMA CloseWritesHistory ==
    ASSUME HistoryInv, NEW k \in Closers, CloseWrites(k)
    PROVE  HistoryInv'
<1>1. TypeOK /\ GaplessInv /\ UNCHANGED <<reviews, txn>>
  BY DEF HistoryInv, GaplessInv, CloseWrites
<1>2. GaplessInv'
  BY <1>1, CloseWritesGapless
<1>3. NumbersFollowDates' /\ HistoryExplainsStatus'
  BY <1>1, CloseWritesColumns
     DEF HistoryInv, NumbersFollowDates, NumberedRows, HistoryExplainsStatus
<1>4. ASSUME NEW i \in Invoices PROVE RowInv(i)' /\ ApprovalsEnd(i)'
  BY <1>1, CloseWritesColumns DEF HistoryInv, RowInv, ApprovalsEnd
<1>5. ASSUME NEW r \in Requests PROVE RequestInv(r)'
  <2>1. RequestInv(r)
    BY DEF HistoryInv
  <2> QED
    BY <1>1, <2>1, CloseWritesVerified
       DEF RequestInv, Inserts, IsNewRow, SetsItsColumns, Reviews, MovesStatut, TakesNumber
<1> QED
  BY <1>2, <1>3, <1>4, <1>5 DEF HistoryInv

-----------------------------------------------------------------------------
(***************************************************************************)
(* The statements of a close keep the invariant.                           *)
(***************************************************************************)

\* A close's own writes take no row out of a month's books or into it.
LEMMA CloseWritesSameBooks ==
    ASSUME TypeOK, NEW k, CloseWrites(k), NEW m
    PROVE  MonthBooks(m)' = MonthBooks(m)
<1>1. ASSUME NEW i \in Invoices
      PROVE  InMonth(invoices[i], m)' = InMonth(invoices[i], m)
             /\ InTheBooks(invoices[i])' = InTheBooks(invoices[i])
  BY CloseWritesColumns DEF InMonth, InTheBooks
<1> QED
  BY <1>1 DEF MonthBooks

\* A row in the books has left draft.
LEMMA InBooksIsNoDraft ==
    ASSUME HistoryInv, NEW m, NEW i \in MonthBooks(m)
    PROVE  invoices[i].statut # "BROUILLON"
<1>1. i \in Invoices /\ RowInv(i) /\ invoices[i].direction \in Directions
  BY DEF MonthBooks, HistoryInv, GaplessInv, TypeOK, Row
<1> QED
  BY <1>1 DEF MonthBooks, InMonth, InTheBooks, RowInv, Directions

\* A step of one close keeps the invariant if it does as every close does
\* with the tables, and counts and locks the way its place in the code says.
LEMMA CloseStep ==
    ASSUME BooksInv, NEW k \in Closers, CloseWrites(k),
           closing' \in [Closers -> Close],
           \A q \in Closers \ {k} : closing'[q] = closing[q],
           \A q \in Closers \ {k}, i \in Invoices : lock'[i] = q => lock[i] = q,
           \A q \in Closers \ {k}, i \in Invoices : lock[i] = q => lock'[i] = q,
           CloseInv(k)',
           UNCHANGED periods \/ CountedStaysAsCounted'
    PROVE  BooksInv'
<1>1. HistoryInv /\ TypeOK /\ TypeOK'
  BY DEF BooksInv, HistoryInv, GaplessInv, CloseWrites
<1>2. HistoryInv'
  BY <1>1, CloseWritesHistory
<1>3. ASSUME NEW i \in Invoices PROVE ArchivedIsNoDraft(i)'
  <2>1. CASE invoices'[i] = invoices[i]
    BY <2>1 DEF BooksInv, ArchivedIsNoDraft
  <2>2. CASE lock[i] = k
    <3>1. CloseInv(k)
      BY DEF BooksInv
    <3>2. i \in MonthBooks(closing[k].month)
      BY <2>2, <3>1 DEF CloseInv
    <3> QED
      BY <1>1, <3>2, InBooksIsNoDraft, CloseWritesColumns DEF ArchivedIsNoDraft
  <2> QED
    BY <2>1, <2>2 DEF CloseWrites
<1>4. ASSUME NEW r \in Requests PROVE RequestMindsBooks(r)'
  <2>1. RequestMindsBooks(r) /\ txn'[r] = txn[r]
    BY DEF BooksInv, CloseWrites
  <2> QED
    BY <1>1, <2>1, CloseWritesVerified DEF RequestMindsBooks, Inserts
<1>5. ASSUME NEW q \in Closers \ {k} PROVE CloseInv(q)'
  <2>1. CloseInv(q) /\ closing'[q] = closing[q] /\ closing[q] \in Close
    BY DEF BooksInv
  <2>2. \A m : MonthBooks(m)' = MonthBooks(m)
    BY <1>1, CloseWritesSameBooks
  <2>3. \A f \in closing[q].figures : f[1] \in Invoices
    BY <2>1 DEF Close
  <2>4. \A f \in closing[q].figures : invoices'[f[1]].amount = invoices[f[1]].amount
    BY <1>1, <2>3, CloseWritesColumns
  <2> QED
    BY <2>1, <2>2, <2>3, <2>4 DEF CloseInv
<1>6. CASE UNCHANGED periods
  <2>1. ASSUME NEW m \in Months, NEW f \in periods[m].figures
        PROVE  /\ invoices'[f[1]].processing = "ARCHIVED"
               /\ invoices'[f[1]].amount = f[2]
               /\ f[1] \in MonthBooks(m)'
    <3>1. /\ invoices[f[1]].processing = "ARCHIVED" /\ invoices[f[1]].amount = f[2]
          /\ f[1] \in MonthBooks(m) /\ f[1] \in Invoices
      BY DEF BooksInv, CountedStaysAsCounted, MonthBooks
    <3>2. \A i \in Invoices :
             invoices[i].processing = "ARCHIVED" => invoices'[i].processing = "ARCHIVED"
      <4>1. \A i \in Invoices : ArchivedRow(invoices[i]).processing = "ARCHIVED"
        BY <1>1, ArchivedRowFacts DEF TypeOK
      <4> QED
        BY <4>1 DEF CloseWrites
    <3> QED
      BY <1>1, <3>1, <3>2, CloseWritesColumns, CloseWritesSameBooks
  <2>2. CountedStaysAsCounted'
    BY <1>6, <2>1 DEF CountedStaysAsCounted
  <2> QED
    BY <1>2, <1>3, <1>4, <1>5, <2>2 DEF BooksInv
<1> QED
  BY <1>2, <1>3, <1>4, <1>5, <1>6 DEF BooksInv

\* Ending a close without effect.
LEMMA CloseRollbackBooks ==
    ASSUME BooksInv, NEW k \in Closers, CloseRollback(k)
    PROVE  BooksInv'
<1>1. TypeOK /\ closing \in [Closers -> Close]
  BY DEF BooksInv, HistoryInv, GaplessInv
<1>2. NoClose \in Close
  BY DEF NoClose, Close
<1>3. closing' \in [Closers -> Close] /\ closing'[k] = NoClose
      /\ \A q \in Closers \ {k} : closing'[q] = closing[q]
  BY <1>1, <1>2 DEF CloseRollback, Goes
<1>4. TypeOK'
  BY <1>1 DEF CloseRollback, TypeOK
<1>5. CloseWrites(k)
  BY <1>1, <1>4, CloserFacts DEF CloseRollback, CloseWrites
<1>6. \A i \in Invoices : lock'[i] # k
  BY <1>1, CloserFacts DEF CloseRollback
<1>7. CloseInv(k)'
  BY <1>3, <1>6 DEF CloseInv, NoClose
<1>8. \A q \in Closers \ {k}, i \in Invoices : lock'[i] = q <=> lock[i] = q
  BY CloserFacts DEF CloseRollback
<1> QED
  BY <1>3, <1>5, <1>7, <1>8, CloseStep DEF CloseRollback

\* A statement that only reads.
LEMMA CloseQuietBooks ==
    ASSUME BooksInv, NEW k \in Closers, NEW c \in Close, Goes(k, c), UNCHANGED vars, CloseInv(k)'
    PROVE  BooksInv'
<1>1. TypeOK /\ closing \in [Closers -> Close]
  BY DEF BooksInv, HistoryInv, GaplessInv
<1>2. UNCHANGED <<invoices, lines, reviews, counter, periods, lock, txn, today>>
  BY DEF vars
<1>3. TypeOK'
  BY <1>1, <1>2 DEF TypeOK
<1>4. CloseWrites(k)
  BY <1>2, <1>3 DEF CloseWrites
<1>5. closing' \in [Closers -> Close] /\ \A q \in Closers \ {k} : closing'[q] = closing[q]
  BY <1>1 DEF Goes
<1> QED
  BY <1>2, <1>4, <1>5, CloseStep

\* The statements before the UPDATE, and its end.
LEMMA CloseReadsBooks ==
    ASSUME BooksInv, NEW k \in Closers,
           \/ \E m \in Months : CloseBegin(k, m)
           \/ CloseNotBlocked(k)
           \/ CloseSummarise(k)
           \/ CloseSelect(k)
           \/ CloseArchived(k)
    PROVE  BooksInv'
<1> DEFINE c == closing[k]
<1>1. /\ TypeOK /\ CloseInv(k) /\ closing \in [Closers -> Close] /\ c \in Close
  BY DEF BooksInv, HistoryInv, GaplessInv
<1>2. ASSUME UNCHANGED vars PROVE \A m : MonthBooks(m)' = MonthBooks(m)
  BY <1>2 DEF vars, MonthBooks
<1>3. 0 \notin Months
  BY CalendarAssumption DEF Months
<1>4. \A d, e \in Close : c = d /\ Goes(k, e) => closing'[k] = e
  BY <1>1 DEF Goes
<1>5. ASSUME NEW m \in Months, CloseBegin(k, m) PROVE BooksInv'
  <2> DEFINE d == [NoClose EXCEPT !.pc = "blocking", !.month = m]
  <2>1. d \in Close /\ d.pc = "blocking" /\ d.month = m
    BY DEF NoClose, Close
  <2>2. c.pc = "idle" /\ Goes(k, d) /\ UNCHANGED vars /\ UNCHANGED lock
    <3>1. c = NoClose /\ Goes(k, d) /\ UNCHANGED vars
      BY <1>5 DEF CloseBegin
    <3> HIDE DEF d
    <3> QED
      BY <3>1 DEF NoClose, vars
  <2> HIDE DEF d
  <2>3. closing'[k] = d
    BY <1>1, <2>1, <2>2 DEF Goes
  <2>4. CloseInv(k)'
    BY <1>1, <1>3, <2>1, <2>2, <2>3 DEF CloseInv
  <2> QED
    BY <2>1, <2>2, <2>4, CloseQuietBooks
<1>6. CASE CloseNotBlocked(k)
  <2> DEFINE d == [c EXCEPT !.pc = "summarise"]
  <2>1. d \in Close /\ d.pc = "summarise" /\ d.month = c.month
    BY <1>1 DEF Close
  <2>2. c.pc = "blocking" /\ Goes(k, d) /\ UNCHANGED vars /\ UNCHANGED lock
    BY <1>6 DEF CloseNotBlocked, vars
  <2> HIDE DEF d
  <2>3. closing'[k] = d
    BY <1>1, <2>1, <2>2 DEF Goes
  <2>4. CloseInv(k)'
    BY <1>1, <2>1, <2>2, <2>3 DEF CloseInv
  <2> QED
    BY <2>1, <2>2, <2>4, CloseQuietBooks
<1>7. CASE CloseSummarise(k)
  <2> DEFINE d == [c EXCEPT !.pc = "select", !.figures = Summary(c.month)]
  <2>1. Summary(c.month) \in SUBSET (Invoices \X Amounts)
    BY <1>1 DEF Summary, MonthBooks, TypeOK, Row
  <2>2. d \in Close /\ d.pc = "select" /\ d.month = c.month /\ d.figures = Summary(c.month)
    BY <1>1, <2>1 DEF Close
  <2>3. c.pc = "summarise" /\ Goes(k, d) /\ UNCHANGED vars /\ UNCHANGED <<invoices, lock>>
    BY <1>7 DEF CloseSummarise, vars
  <2> HIDE DEF d
  <2>4. closing'[k] = d
    BY <1>1, <2>2, <2>3 DEF Goes
  <2>5. \A f \in Summary(c.month) : f[1] \in MonthBooks(c.month) /\ invoices[f[1]].amount = f[2]
    BY DEF Summary
  <2>6. CloseInv(k)'
    BY <1>1, <1>2, <2>2, <2>3, <2>4, <2>5 DEF CloseInv
  <2> QED
    BY <2>2, <2>3, <2>6, CloseQuietBooks
<1>8. CASE CloseSelect(k)
  <2>0. PICK i \in Invoices \cup {0} :
           /\ ComesTo(i, MonthBooks(c.month))
           /\ Goes(k, [c EXCEPT !.pc = "archive", !.todo = MonthBooks(c.month), !.row = i])
    BY <1>8 DEF CloseSelect
  <2> DEFINE d == [c EXCEPT !.pc = "archive", !.todo = MonthBooks(c.month), !.row = i]
  <2>1. /\ d \in Close /\ d.pc = "archive" /\ d.month = c.month /\ d.figures = c.figures
        /\ d.todo = MonthBooks(c.month) /\ d.row = i
    BY <1>1 DEF Close, MonthBooks
  <2>2. c.pc = "select" /\ UNCHANGED vars /\ UNCHANGED <<invoices, lock>>
    BY <1>8 DEF CloseSelect, vars
  <2>3. Goes(k, d)
    BY <2>0
  <2> HIDE DEF d
  <2>4. closing'[k] = d
    BY <1>1, <2>1, <2>3 DEF Goes
  <2>5. d.row # 0 => d.row \in d.todo
    BY <2>0, <2>1 DEF ComesTo
  <2>6. CloseInv(k)'
    BY <1>1, <1>2, <2>1, <2>2, <2>4, <2>5 DEF CloseInv
  <2> QED
    BY <2>1, <2>2, <2>3, <2>6, CloseQuietBooks
<1>9. CASE CloseArchived(k)
  <2> DEFINE d == [c EXCEPT !.pc = "seal"]
  <2>1. /\ d \in Close /\ d.pc = "seal" /\ d.month = c.month /\ d.figures = c.figures
        /\ d.todo = c.todo
    BY <1>1 DEF Close
  <2>2. /\ c.pc = "archive" /\ c.todo = {} /\ Goes(k, d)
        /\ UNCHANGED vars /\ UNCHANGED <<invoices, lock>>
    BY <1>9 DEF CloseArchived, vars
  <2> HIDE DEF d
  <2>3. closing'[k] = d
    BY <1>1, <2>1, <2>2 DEF Goes
  <2>4. CloseInv(k)'
    BY <1>1, <1>2, <2>1, <2>2, <2>3 DEF CloseInv
  <2> QED
    BY <2>1, <2>2, <2>4, CloseQuietBooks
<1> QED
  BY <1>5, <1>6, <1>7, <1>8, <1>9

\* The UPDATE locks the next row, unless the row has left the books.
LEMMA CloseArchiveRowBooks ==
    ASSUME BooksInv, NEW k \in Closers, CloseArchiveRow(k)
    PROVE  BooksInv'
<1> DEFINE c == closing[k]
<1>1. /\ TypeOK /\ CloseInv(k) /\ closing \in [Closers -> Close] /\ c \in Close
  BY DEF BooksInv, HistoryInv, GaplessInv
<1> DEFINE i == c.row
<1>2. PICK j \in Invoices \cup {0} :
         ComesTo(j, c.todo \ {i}) /\ Goes(k, [c EXCEPT !.todo = c.todo \ {i}, !.row = j])
  BY DEF CloseArchiveRow
<1> DEFINE d == [c EXCEPT !.todo = c.todo \ {i}, !.row = j]
<1>3. /\ c.pc = "archive" /\ UNCHANGED <<invoices, lines, reviews, counter, periods, txn, today>>
      /\ i \in Invoices /\ lock[i] = NoSession
      /\ lock' = IF i \in MonthBooks(c.month) THEN [lock EXCEPT ![i] = k] ELSE lock
  BY <1>1 DEF CloseArchiveRow, Close
<1>4. /\ d \in Close /\ d.pc = "archive" /\ d.month = c.month /\ d.figures = c.figures
      /\ d.todo = c.todo \ {i} /\ d.row = j
  BY <1>1, <1>3 DEF Close
<1>5. Goes(k, d) /\ (d.row # 0 => d.row \in d.todo)
  BY <1>2, <1>4 DEF ComesTo
<1> HIDE DEF d, i
<1>6. /\ closing' \in [Closers -> Close] /\ closing'[k] = d
      /\ \A q \in Closers \ {k} : closing'[q] = closing[q]
  BY <1>1, <1>4, <1>5 DEF Goes
<1>7. /\ \A n \in Invoices \ {i} : lock'[n] = lock[n]
      /\ i \in MonthBooks(c.month) => lock'[i] = k
      /\ i \notin MonthBooks(c.month) => lock'[i] = lock[i]
      /\ lock' \in [Invoices -> Sessions \cup {NoSession}]
  BY <1>1, <1>3, CloserFacts DEF TypeOK
<1>8. TypeOK'
  BY <1>1, <1>3, <1>7 DEF TypeOK
<1>9. CloseWrites(k)
  <2>1. ASSUME NEW n \in Invoices, NEW r \in Requests, lock[n] = r PROVE lock'[n] = r
    <3>1. r # NoSession
      BY SessionsAssumption
    <3> QED
      BY <1>3, <1>7, <2>1, <3>1
  <2> QED
    BY <1>3, <1>8, <2>1 DEF CloseWrites
<1>10. \A m : MonthBooks(m)' = MonthBooks(m)
  BY <1>3 DEF MonthBooks
<1>11. CloseInv(k)'
  <2>1. \A f \in c.figures : f[1] \in MonthBooks(c.month) /\ f[1] \in Invoices
    BY <1>1, <1>3 DEF CloseInv, MonthBooks
  <2>2. ASSUME NEW f \in c.figures PROVE f[1] \in d.todo \/ lock'[f[1]] = k
    <3>1. CASE f[1] = i
      BY <1>7, <2>1, <3>1
    <3>2. CASE f[1] # i
      <4>1. f[1] \in c.todo \/ lock[f[1]] = k
        BY <1>1, <1>3 DEF CloseInv
      <4> QED
        BY <1>4, <1>7, <2>1, <3>2, <4>1
    <3> QED
      BY <3>1, <3>2
  <2>3. ASSUME NEW n \in Invoices, lock'[n] = k PROVE n \in MonthBooks(c.month)
    BY <1>1, <1>3, <1>7, <2>3, CloserFacts DEF CloseInv
  <2>4. /\ c.month # 0
        /\ \A n \in d.todo : n \in MonthBooks(c.month)
        /\ \A f \in c.figures : f[1] \in MonthBooks(c.month) /\ invoices[f[1]].amount = f[2]
    BY <1>1, <1>3, <1>4 DEF CloseInv
  <2> QED
    BY <1>3, <1>4, <1>5, <1>6, <1>10, <2>2, <2>3, <2>4 DEF CloseInv
<1>12. ASSUME NEW q \in Closers \ {k}, NEW n \in Invoices PROVE lock'[n] = q <=> lock[n] = q
  BY <1>3, <1>7, CloserFacts
<1> QED
  BY <1>3, <1>6, <1>9, <1>11, <1>12, CloseStep

\* The commit archives what was counted, all of it.
LEMMA CloseSealBooks ==
    ASSUME BooksInv, NEW k \in Closers, CloseSeal(k)
    PROVE  BooksInv'
<1> DEFINE c == closing[k]
           m == c.month
<1>1. /\ TypeOK /\ CloseInv(k) /\ closing \in [Closers -> Close] /\ c \in Close
      /\ c.pc = "seal"
  BY DEF BooksInv, HistoryInv, GaplessInv, CloseSeal
<1>2. m \in Months
  BY <1>1 DEF CloseInv, Close
<1>3. /\ \A i \in Invoices : invoices'[i] =
            IF lock[i] = k THEN ArchivedRow(invoices[i]) ELSE invoices[i]
      /\ periods' = [periods EXCEPT ![m] = [state |-> "CLOSED", figures |-> c.figures]]
      /\ \A i \in Invoices : lock'[i] = IF lock[i] = k THEN NoSession ELSE lock[i]
      /\ UNCHANGED <<lines, reviews, counter, txn, today>>
  BY DEF CloseSeal
<1>4. NoClose \in Close
  BY DEF NoClose, Close
<1>5. /\ closing' \in [Closers -> Close] /\ closing'[k] = NoClose
      /\ \A q \in Closers \ {k} : closing'[q] = closing[q]
  BY <1>1, <1>4 DEF CloseSeal, Goes
<1>6. TypeOK'
  <2>1. invoices' \in [Invoices -> Row]
    <3>1. \A i \in Invoices : ArchivedRow(invoices[i]) \in Row
      BY <1>1, ArchivedRowFacts DEF TypeOK
    <3> HIDE DEF m
    <3> QED
      BY <1>1, <3>1 DEF TypeOK, CloseSeal
  <2>2. lock' \in [Invoices -> Sessions \cup {NoSession}]
    BY <1>1 DEF TypeOK, CloseSeal
  <2>3. periods' \in [Months -> [state : {"OPEN", "CLOSED"}, figures : SUBSET (Invoices \X Amounts)]]
    BY <1>1, <1>2, <1>3 DEF TypeOK, Close
  <2> QED
    BY <1>1, <1>3, <2>1, <2>2, <2>3 DEF TypeOK
<1>7. CloseWrites(k)
  <2>1. \A i \in Invoices : lock[i] = k => Exists(invoices[i])
    BY <1>1 DEF CloseInv, MonthBooks, InMonth
  <2>2. ASSUME NEW i \in Invoices, NEW r \in Requests, lock[i] = r PROVE lock'[i] = r
    BY <1>3, <2>2, CloserFacts
  <2> QED
    BY <1>3, <1>6, <2>1, <2>2 DEF CloseWrites
<1>8. CloseInv(k)'
  <2>1. \A i \in Invoices : lock'[i] # k
    BY <1>3, CloserFacts
  <2> QED
    BY <1>5, <2>1 DEF CloseInv, NoClose
<1>9. ASSUME NEW q \in Closers \ {k}, NEW j \in Invoices PROVE lock'[j] = q <=> lock[j] = q
  BY <1>3, CloserFacts
<1>10. CountedStaysAsCounted'
  <2>1. ASSUME NEW n \in Months, NEW f \in periods'[n].figures
        PROVE  /\ invoices'[f[1]].processing = "ARCHIVED"
               /\ invoices'[f[1]].amount = f[2]
               /\ f[1] \in MonthBooks(n)'
    <3>1. \A i \in Invoices : ArchivedRow(invoices[i]).processing = "ARCHIVED"
      BY <1>1, ArchivedRowFacts DEF TypeOK
    <3>2. CASE n = m
      <4>1. f \in c.figures
        BY <1>1, <1>2, <1>3, <3>2 DEF TypeOK
      <4>2. f[1] \in MonthBooks(n) /\ invoices[f[1]].amount = f[2] /\ lock[f[1]] = k
        BY <1>1, <3>2, <4>1 DEF CloseInv
      <4>3. f[1] \in Invoices
        BY <4>2 DEF MonthBooks
      <4> QED
        BY <1>1, <1>3, <1>7, <3>1, <4>2, <4>3, CloseWritesColumns, CloseWritesSameBooks
    <3>3. CASE n # m
      <4>1. f \in periods[n].figures
        BY <1>1, <1>2, <1>3, <3>3 DEF TypeOK
      <4>2. /\ f[1] \in MonthBooks(n) /\ invoices[f[1]].amount = f[2]
            /\ invoices[f[1]].processing = "ARCHIVED" /\ f[1] \in Invoices
        BY <4>1 DEF BooksInv, CountedStaysAsCounted, MonthBooks
      <4> QED
        BY <1>1, <1>3, <1>7, <3>1, <4>2, CloseWritesColumns, CloseWritesSameBooks
    <3> QED
      BY <3>2, <3>3
  <2> QED
    BY <2>1 DEF CountedStaysAsCounted
<1> QED
  BY <1>5, <1>7, <1>8, <1>9, <1>10, CloseStep

\* Every step of a close.
LEMMA CloseBooks ==
    ASSUME BooksInv, NEW k \in Closers,
           (\E m \in Months : CloseBegin(k, m)) \/ CloseStatements(k) \/ CloseAbort(k)
    PROVE  BooksInv'
BY CloseReadsBooks, CloseArchiveRowBooks, CloseSealBooks, CloseRollbackBooks
   DEF CloseStatements, CloseBlocked, CloseSealRefused, CloseDeadlock, CloseAbort

-----------------------------------------------------------------------------
(***************************************************************************)
(* The requests mind the books.                                            *)
(***************************************************************************)

\* A handler that starts sets no payment date but with the payment.
LEMMA BeginMindsBooks ==
    ASSUME TypeOK, NEW r \in Requests, NEW op, NEW u, NEW i, NEW seen, NEW want, NEW content,
           NEW pc \in {"load", "allocate", "flush"},
           Begin(r, op, u, i, seen, want, content, pc),
           op \in {"create", "bill"} => want.processing # "ARCHIVED",
           op \notin {"create", "bill"} =>
              IF op = "pay" THEN want.statut = "PAYEE" /\ seen.statut # "PAYEE" ELSE want.paid = seen.paid
    PROVE  /\ RequestMindsBooks(r)' /\ UNCHANGED database
           /\ \A q \in Requests \ {r} : txn'[q] = txn[q]
<1>1. /\ txn'[r].op = op /\ txn'[r].pc = pc /\ txn'[r].seen = seen /\ txn'[r].want = want
      /\ \A q \in Requests \ {r} : txn'[q] = txn[q]
      /\ UNCHANGED database
  BY DEF Begin, TypeOK
<1> QED
  BY <1>1 DEF RequestMindsBooks, Inserts

\* Every handler does, and writes no table.
LEMMA HandlersMindBooks ==
    ASSUME BooksInv, NEW r \in Requests, Handlers(r)
    PROVE  /\ RequestMindsBooks(r)' /\ UNCHANGED database
           /\ \A q \in Requests \ {r} : txn'[q] = txn[q]
<1>1. TypeOK /\ \A i \in Invoices : invoices[i] \in Row
  BY DEF BooksInv, HistoryInv, GaplessInv, TypeOK
<1>2. CASE \E u \in Users, i \in Invoices, due \in DueDates, c \in Contents \cup {Blank} :
             CreateInvoice(r, u, i, due, c)
  <2>1. PICK u \in Users, i \in Invoices, due \in DueDates, c \in Contents \cup {Blank} :
           CreateInvoice(r, u, i, due, c)
    BY <1>2
  <2> DEFINE row == [Absent EXCEPT !.statut = "BROUILLON", !.issued = today, !.due = due,
                                   !.amount = AmountOf[c], !.by = u]
  <2>2. Begin(r, "create", u, i, Absent, row, c, "flush")
    BY <2>1 DEF CreateInvoice
  <2>3. row.processing # "ARCHIVED"
    BY DEF Absent
  <2> HIDE DEF row
  <2> QED
    BY <1>1, <2>2, <2>3, BeginMindsBooks
<1>3. CASE \E u \in Users, i \in Invoices, issued \in Days, due \in DueDates, a \in Amounts,
              ref \in References : CreateSupplierInvoice(r, u, i, issued, due, a, ref)
  <2>1. PICK u \in Users, i \in Invoices, issued \in Days, due \in DueDates, a \in Amounts,
            ref \in References : CreateSupplierInvoice(r, u, i, issued, due, a, ref)
    BY <1>3
  <2> DEFINE row == [Absent EXCEPT !.direction = "INCOMING", !.statut = "ENVOYEE", !.issued = issued,
                                   !.due = due, !.amount = a, !.by = u, !.ref = ref]
  <2>2. Begin(r, "bill", u, i, Absent, row, Blank, "allocate")
    BY <2>1 DEF CreateSupplierInvoice
  <2>3. row.processing # "ARCHIVED"
    BY DEF Absent
  <2> HIDE DEF row
  <2> QED
    BY <1>1, <2>2, <2>3, BeginMindsBooks
<1>4. CASE \E u \in Users, i \in Invoices, p \in ProcessingMoves : SetProcessingStatus(r, u, i, p)
  <2>1. PICK u \in Users, i \in Invoices, p \in ProcessingMoves : SetProcessingStatus(r, u, i, p)
    BY <1>4
  <2> DEFINE row == [invoices[i] EXCEPT !.processing = p]
  <2>2. Begin(r, "processing", u, i, invoices[i], row, Blank, "flush")
    BY <2>1 DEF SetProcessingStatus
  <2>3. row.paid = invoices[i].paid
    BY <1>1 DEF Row
  <2> HIDE DEF row
  <2> QED
    BY <1>1, <2>2, <2>3, BeginMindsBooks
<1>5. CASE \E u \in Users, i \in Invoices, due \in DueDates, c \in Contents :
             UpdateInvoice(r, u, i, due, c)
  <2>1. PICK u \in Users, i \in Invoices, due \in DueDates, c \in Contents :
           UpdateInvoice(r, u, i, due, c)
    BY <1>5
  <2> DEFINE row == [invoices[i] EXCEPT !.due = due, !.amount = AmountOf[c]]
  <2>2. Begin(r, "edit", u, i, invoices[i], row, c, "load")
    BY <2>1 DEF UpdateInvoice
  <2>3. row.paid = invoices[i].paid
    BY <1>1 DEF Row
  <2> HIDE DEF row
  <2> QED
    BY <1>1, <2>2, <2>3, BeginMindsBooks
<1>6. CASE \E u \in Users, i \in Invoices :
             SubmitInvoice(r, u, i) \/ RejectInvoice(r, u, i)
  <2>1. PICK u \in Users, i \in Invoices : SubmitInvoice(r, u, i) \/ RejectInvoice(r, u, i)
    BY <1>6
  <2> DEFINE row(w) == [invoices[i] EXCEPT !.review = w]
  <2>2. \/ Begin(r, "submit", u, i, invoices[i], row("SUBMITTED"), Blank, "flush")
        \/ Begin(r, "reject", u, i, invoices[i], row("REJECTED"), Blank, "flush")
    BY <2>1 DEF SubmitInvoice, RejectInvoice
  <2>3. \A w : row(w).paid = invoices[i].paid
    BY <1>1 DEF Row
  <2> HIDE DEF row
  <2> QED
    BY <1>1, <2>2, <2>3, BeginMindsBooks
<1>7. CASE \E u \in Users, i \in Invoices : SendInvoice(r, u, i) \/ CancelInvoice(r, u, i)
  <2>1. PICK u \in Users, i \in Invoices : SendInvoice(r, u, i) \/ CancelInvoice(r, u, i)
    BY <1>7
  <2> DEFINE row(w) == [invoices[i] EXCEPT !.statut = w]
  <2>2. \/ Begin(r, "send", u, i, invoices[i], row("ENVOYEE"), Blank, "flush")
        \/ Begin(r, "cancel", u, i, invoices[i], row("ANNULEE"), Blank, "flush")
    BY <2>1 DEF SendInvoice, CancelInvoice
  <2>3. \A w : row(w).paid = invoices[i].paid
    BY <1>1 DEF Row
  <2> HIDE DEF row
  <2> QED
    BY <1>1, <2>2, <2>3, BeginMindsBooks
<1>8. CASE \E u \in Users, i \in Invoices, day \in Days : PayInvoice(r, u, i, day)
  <2>1. PICK u \in Users, i \in Invoices, day \in Days : PayInvoice(r, u, i, day)
    BY <1>8
  <2> DEFINE row == [invoices[i] EXCEPT !.statut = "PAYEE", !.paid = day]
  <2>2. Begin(r, "pay", u, i, invoices[i], row, Blank, "flush") /\ invoices[i].statut = "ENVOYEE"
    BY <2>1 DEF PayInvoice
  <2>3. row.statut = "PAYEE" /\ invoices[i].statut # "PAYEE"
    BY <1>1, <2>2 DEF Row
  <2> HIDE DEF row
  <2> QED
    BY <1>1, <2>2, <2>3, BeginMindsBooks
<1>9. CASE \E u \in Users, i \in Invoices : ApproveInvoice(r, u, i)
  <2>1. PICK u \in Users, i \in Invoices : ApproveInvoice(r, u, i)
    BY <1>9
  <2> DEFINE row == [invoices[i] EXCEPT !.review = "APPROVED", !.issued = today]
             kept == [invoices[i] EXCEPT !.review = "APPROVED"]
  <2>2. \/ Begin(r, "approve", u, i, invoices[i], row, Blank, "allocate")
        \/ Begin(r, "approve", u, i, invoices[i], kept, Blank, "flush")
    BY <2>1 DEF ApproveInvoice
  <2>3. row.paid = invoices[i].paid /\ kept.paid = invoices[i].paid
    BY <1>1 DEF Row
  <2> HIDE DEF row, kept
  <2> QED
    BY <1>1, <2>2, <2>3, BeginMindsBooks
<1> QED
  BY <1>2, <1>3, <1>4, <1>5, <1>6, <1>7, <1>8, <1>9 DEF Handlers

\* A session that goes on with its columns, or with a number it has taken.
LEMMA AdvanceMindsBooks ==
    ASSUME BooksInv, NEW r \in Requests, Allocate(r) \/ LoadLines(r) \/ DeleteLines(r)
    PROVE  /\ RequestMindsBooks(r)' /\ UNCHANGED database
           /\ \A q \in Requests \ {r} : txn'[q] = txn[q]
<1> DEFINE t == txn[r]
<1>1. TypeOK /\ t \in Transaction /\ t.want \in Row /\ RequestMindsBooks(r)
  BY DEF BooksInv, HistoryInv, GaplessInv, TypeOK, Transaction
<1>2. t.pc \in {"allocate", "load", "delete"} /\ UNCHANGED database
  BY DEF Allocate, LoadLines, DeleteLines
<1>3. CASE Allocate(r)
  <2> DEFINE next == [year |-> YearOf[t.want.issued],
                      n |-> counter[t.want.direction][YearOf[t.want.issued]] + 1]
             row == [t.want EXCEPT !.numero = next]
             new == [t EXCEPT !.pc = "flush", !.want = row]
  <2>1. row.paid = t.want.paid /\ row.statut = t.want.statut /\ row.processing = t.want.processing
    BY <1>1 DEF Row
  <2>2. new.pc = "flush" /\ new.op = t.op /\ new.seen = t.seen /\ new.want = row
    BY <1>1 DEF Transaction
  <2>3. txn' = [txn EXCEPT ![r] = new]
    BY <1>3 DEF Allocate
  <2> HIDE DEF new, row
  <2>4. txn'[r] = new /\ \A q \in Requests \ {r} : txn'[q] = txn[q]
    BY <1>1, <2>3 DEF TypeOK
  <2> QED
    BY <1>1, <1>2, <2>1, <2>2, <2>4 DEF RequestMindsBooks, Inserts
<1>4. CASE LoadLines(r) \/ DeleteLines(r)
  <2>1. /\ txn'[r].pc \in {"delete", "flush"}
        /\ txn'[r].op = t.op /\ txn'[r].seen = t.seen /\ txn'[r].want = t.want
        /\ \A q \in Requests \ {r} : txn'[q] = txn[q]
    <3>1. CASE LoadLines(r)
      BY <1>1, <3>1 DEF LoadLines, TypeOK, Transaction
    <3>2. CASE DeleteLines(r)
      BY <1>1, <3>2 DEF DeleteLines, TypeOK, Transaction
    <3> QED
      BY <1>4, <3>1, <3>2
  <2> QED
    BY <1>1, <1>2, <2>1 DEF RequestMindsBooks, Inserts
<1> QED
  BY <1>3, <1>4

\* A flush leaves verified that an archived row stays archived.
LEMMA FlushMindsBooks ==
    ASSUME BooksInv, NEW r \in Requests, Flush(r)
    PROVE  RequestMindsBooks(r)'
<1> DEFINE t == txn[r]
           old == invoices[t.inv]
<1>1. /\ TypeOK /\ t \in Transaction /\ RequestMindsBooks(r) /\ t.pc = "flush"
      /\ FlushPasses(t) /\ UNCHANGED invoices
  BY DEF BooksInv, HistoryInv, GaplessInv, TypeOK, Flush
<1>2. /\ txn'[r].pc = "commit" /\ txn'[r].inv = t.inv /\ txn'[r].op = t.op
      /\ txn'[r].seen = t.seen /\ txn'[r].want = t.want
  BY <1>1 DEF Flush, TypeOK, Transaction
<1>3. old \in Row
  BY <1>1 DEF BooksInv, HistoryInv, GaplessInv, SessionInv, AboutOneInvoice, TypeOK
<1>4. ~ Inserts(t) => ArchivedIsFinal(old, After(t))
  <2>1. CASE ~ Inserts(t) /\ ~ Dirty(t)
    BY <1>3, <2>1, CleanAfter DEF ArchivedIsFinal
  <2>2. CASE ~ Inserts(t) /\ Dirty(t)
    BY <1>1, <2>2 DEF FlushPasses, UpdateAllowed, After
  <2> QED
    BY <2>1, <2>2
<1>5. ~ Inserts(t) => ArchivedIsFinal(invoices[txn[r].inv], After(txn[r]))'
  BY <1>1, <1>2, <1>4 DEF After, Inserts
<1> QED
  BY <1>1, <1>2, <1>5 DEF RequestMindsBooks, Inserts

\* An archived row that a commit writes has been paid, or is as it was.
OnlyPaid(old, new) ==
    \/ new = old
    \/ old.statut = "ENVOYEE" /\ new = [old EXCEPT !.statut = "PAYEE", !.paid = new.paid]

\* Two rows are equal when their columns are.
LEMMA SameRow ==
    ASSUME NEW a \in Row, NEW b \in Row,
           a.direction = b.direction, a.statut = b.statut, a.review = b.review,
           a.processing = b.processing, a.numero = b.numero, a.issued = b.issued,
           a.due = b.due, a.amount = b.amount, a.paid = b.paid, a.by = b.by, a.ref = b.ref
    PROVE  a = b
BY DEF Row

\* The row a commit writes, when the request is about an existing invoice.
LEMMA CommitUpdateBooks ==
    ASSUME BooksInv, NEW r \in Requests, Commit(r), ~ Inserts(txn[r])
    PROVE  LET old == invoices[txn[r].inv]
               new == After(txn[r])
           IN  /\ new.processing = "ARCHIVED" => new.statut # "BROUILLON"
               /\ old.processing = "ARCHIVED" => new.processing = "ARCHIVED" /\ OnlyPaid(old, new)
               /\ Exists(old) /\ InTheBooks(old) =>
                    Exists(new) /\ InTheBooks(new) /\ new.issued = old.issued /\ new.amount = old.amount
<1>inv. PICK i \in Invoices : i = txn[r].inv
  BY CommitTables DEF BooksInv
<1> DEFINE t == txn[r]
           old == invoices[i]
           new == After(t)
<1>1. /\ t.pc = "commit" /\ i = t.inv /\ HistoryInv /\ GaplessInv /\ TypeOK
      /\ AboutOneInvoice(r) /\ RowInv(i) /\ ArchivedIsNoDraft(i) /\ RequestMindsBooks(r)
  BY <1>inv, CommitTables DEF BooksInv, HistoryInv, GaplessInv, SessionInv
<1>2. /\ old \in Row /\ Exists(old) /\ new \in Row
      /\ new = Written(t.seen, t.want, old)
  <2>1. new \in Row
    BY <1>1, AfterType DEF GaplessInv, SessionInv
  <2> QED
    BY <1>1, <2>1 DEF AboutOneInvoice, TypeOK, After
<1>3. /\ new.by = old.by /\ new.direction = old.direction /\ new.ref = old.ref
      /\ t.op # "pay" => new.paid = old.paid
      /\ t.op = "pay" => new.statut = "PAYEE"
  BY <1>1, <1>2 DEF Written, Column, RequestMindsBooks
<1>4. /\ t.op # "edit" => new.amount = old.amount
      /\ ~ Reviews(t) => new.review = old.review
      /\ t.op = "edit" \/ Reviews(t) => old.direction = "OUTGOING"
      /\ Reviews(t) => old.review # "APPROVED"
      /\ new.statut \in {old.statut, "ENVOYEE", "PAYEE", "ANNULEE"}
      /\ t.op # "approve" => ~ TakesNumber(t) /\ new.issued = old.issued
      /\ ReviewRules(old, new) /\ DraftIsEditable(old, new)
      /\ CommercialTransitions(old, new, today)
      /\ ArchivedIsFinal(old, new)
  <2>1. /\ t.op # "edit" => new.amount = old.amount
        /\ ~ Reviews(t) => new.review = old.review
        /\ t.op = "edit" \/ Reviews(t) => old.direction = "OUTGOING"
        /\ Reviews(t) => old.review # "APPROVED"
        /\ new.statut \in {old.statut, "ENVOYEE", "PAYEE", "ANNULEE"}
        /\ t.op # "approve" => ~ TakesNumber(t) /\ new.issued = old.issued
        /\ StillAllowed(t)
    BY <1>1, CommitColumns
  <2> QED
    BY <1>1, <2>1 DEF StillAllowed, RequestMindsBooks
<1>5. ~ TakesNumber(t) => new.numero = old.numero
  BY <1>1, CommittedRow
<1>6. old.direction \in {"OUTGOING", "INCOMING"}
  BY <1>2 DEF Row, Directions
<1>7. t.op = "approve" => Reviews(t)
  BY DEF Reviews
<1> HIDE DEF new, old
<1>8. old.direction = "INCOMING" => old.statut # "BROUILLON"
  BY <1>1, <1>2 DEF RowInv, old
<1>9. old.processing = "ARCHIVED" => old.statut # "BROUILLON"
  BY <1>1 DEF ArchivedIsNoDraft, old
<1>10. new.processing = "ARCHIVED" => new.statut # "BROUILLON"
  <2>1. CASE new.processing = old.processing
    BY <1>4, <1>9, <2>1
  <2>2. CASE new.processing # old.processing
    BY <1>3, <1>4, <1>6, <1>8, <2>2 DEF ReviewRules
  <2> QED
    BY <2>1, <2>2
<1>11. ASSUME old.processing = "ARCHIVED"
       PROVE  new.processing = "ARCHIVED" /\ OnlyPaid(old, new)
  <2>1. /\ new.processing = old.processing /\ new.numero = old.numero
        /\ new.issued = old.issued /\ new.due = old.due /\ new.amount = old.amount
    BY <1>4, <1>11 DEF ArchivedIsFinal
  <2>2. new.review = old.review
    <3>1. CASE ~ Reviews(t)
      BY <1>4, <3>1
    <3>2. CASE Reviews(t)
      BY <1>3, <1>4, <1>9, <1>11, <3>2 DEF ReviewRules
    <3> QED
      BY <3>1, <3>2
  <2>3. CASE new.statut = old.statut
    <3>1. new.paid = old.paid
      BY <1>3, <1>4, <2>3 DEF CommercialTransitions
    <3>2. new = old
      BY <1>2, <1>3, <2>1, <2>2, <2>3, <3>1, SameRow
    <3> QED
      BY <1>11, <3>2 DEF OnlyPaid
  <2>4. CASE new.statut # old.statut
    <3>1. old.statut = "ENVOYEE" /\ new.statut = "PAYEE"
      BY <1>4, <1>9, <1>11, <2>4 DEF CommercialTransitions, Cancellable
    <3>2. new = [old EXCEPT !.statut = "PAYEE", !.paid = new.paid]
      <4> DEFINE paid == [old EXCEPT !.statut = "PAYEE", !.paid = new.paid]
      <4>1. /\ paid \in Row
            /\ paid.direction = old.direction /\ paid.statut = "PAYEE" /\ paid.review = old.review
            /\ paid.processing = old.processing /\ paid.numero = old.numero
            /\ paid.issued = old.issued /\ paid.due = old.due /\ paid.amount = old.amount
            /\ paid.paid = new.paid /\ paid.by = old.by /\ paid.ref = old.ref
        BY <1>2, <3>1 DEF Row
      <4> HIDE DEF paid
      <4>2. new = paid
        BY <1>2, <1>3, <2>1, <2>2, <3>1, <4>1, SameRow
      <4> QED
        BY <4>2 DEF paid
    <3> QED
      BY <1>11, <2>1, <3>1, <3>2 DEF OnlyPaid
  <2> QED
    BY <2>1, <2>3, <2>4, <1>11
<1>12. ASSUME InTheBooks(old)
       PROVE  Exists(new) /\ InTheBooks(new) /\ new.issued = old.issued /\ new.amount = old.amount
  <2>1. ~ Reviews(t)
    BY <1>1, <1>2, <1>4, <1>12 DEF RowInv, InTheBooks, old
  <2>2. new.issued = old.issued /\ new.numero = old.numero
    BY <1>4, <1>5, <1>7, <2>1
  <2>3. Exists(new)
    BY <1>2, <1>4 DEF Exists
  <2>4. InTheBooks(new)
    BY <1>3, <1>4, <1>12, <2>2 DEF InTheBooks, Numbered
  <2>5. new.amount = old.amount
    BY <1>4, <1>12 DEF DraftIsEditable, Editable, InTheBooks
  <2> QED
    BY <2>2, <2>3, <2>4, <2>5
<1> QED
  BY <1>1, <1>10, <1>11, <1>12 DEF old, new

\* What a step of a request does to a row of the table.
LEMMA CommitRowBooks ==
    ASSUME BooksInv, NEW r \in Requests, Commit(r), NEW i \in Invoices
    PROVE  /\ ArchivedIsNoDraft(i)'
           /\ invoices[i].processing = "ARCHIVED" =>
                invoices'[i].processing = "ARCHIVED" /\ OnlyPaid(invoices[i], invoices'[i])
           /\ \A m : i \in MonthBooks(m) =>
                i \in MonthBooks(m)' /\ invoices'[i].amount = invoices[i].amount
<1> DEFINE t == txn[r]
<1>1. /\ t.pc = "commit" /\ t.inv \in Invoices /\ invoices'[t.inv] = After(t)
      /\ \A j \in Invoices \ {t.inv} : invoices'[j] = invoices[j]
      /\ HistoryInv /\ AboutOneInvoice(r) /\ RequestMindsBooks(r) /\ AbsentIsBlank
      /\ ArchivedIsNoDraft(i)
  BY CommitTables DEF BooksInv, HistoryInv, GaplessInv, SessionInv
<1>2. CASE i # t.inv
  <2>1. invoices'[i] = invoices[i]
    BY <1>1, <1>2
  <2> QED
    BY <1>1, <2>1 DEF ArchivedIsNoDraft, OnlyPaid, MonthBooks
<1>3. CASE i = t.inv /\ Inserts(t)
  <2>1. invoices[i] = Absent /\ invoices'[i].processing # "ARCHIVED"
    BY <1>1, <1>3 DEF AboutOneInvoice, AbsentIsBlank, After, RequestMindsBooks
  <2> QED
    BY <2>1 DEF ArchivedIsNoDraft, MonthBooks, InMonth, Absent, Exists
<1>4. CASE i = t.inv /\ ~ Inserts(t)
  <2> DEFINE old == invoices[i]
             new == invoices'[i]
  <2>1. /\ new.processing = "ARCHIVED" => new.statut # "BROUILLON"
        /\ old.processing = "ARCHIVED" => new.processing = "ARCHIVED" /\ OnlyPaid(old, new)
        /\ Exists(old) /\ InTheBooks(old) =>
             Exists(new) /\ InTheBooks(new) /\ new.issued = old.issued /\ new.amount = old.amount
    BY <1>1, <1>4, CommitUpdateBooks
  <2> QED
    BY <2>1 DEF ArchivedIsNoDraft, MonthBooks, InMonth
<1> QED
  BY <1>2, <1>3, <1>4

\* The tables after a step of a request: no month is closed or opened, and
\* the rows change by a commit only.
LEMMA NextTables ==
    ASSUME BooksInv, [Next]_vars
    PROVE  /\ UNCHANGED periods
           /\ UNCHANGED invoices \/ \E r \in Requests : Commit(r)
<1>1. ASSUME NEW r \in Requests, Handlers(r)
      PROVE  UNCHANGED <<periods, invoices>>
  BY <1>1, HandlersMindBooks DEF database
<1>2. ASSUME NEW r \in Requests, Statements(r) \/ Abort(r), ~ Commit(r)
      PROVE  UNCHANGED <<periods, invoices>>
  BY <1>2 DEF Statements, Abort, Allocate, LoadLines, DeleteLines, DeleteRefused, Flush, FlushRefused,
              Rollback, database
<1>3. ASSUME NEW r \in Requests, Commit(r) PROVE UNCHANGED periods
  BY <1>3 DEF Commit
<1>4. CASE Midnight \/ UNCHANGED vars
  BY <1>4 DEF Midnight, vars, database
<1> QED
  BY <1>1, <1>2, <1>3, <1>4 DEF Next, Statements

\* A request neither takes nor gives away the lock of a close.
LEMMA NextLeavesLocks ==
    ASSUME BooksInv, [Next]_vars, NEW k \in Closers, NEW i \in Invoices
    PROVE  lock'[i] = k <=> lock[i] = k
<1>1. TypeOK /\ k \notin Requests /\ k # NoSession /\ CloseInv(k)
  BY CloserFacts DEF BooksInv, HistoryInv, GaplessInv
<1>2. ASSUME NEW r \in Requests, Handlers(r) PROVE UNCHANGED lock
  BY <1>2, HandlersMindBooks DEF database
<1>3. ASSUME NEW r \in Requests, Rollback(r) PROVE lock'[i] = k <=> lock[i] = k
  BY <1>1, <1>3 DEF Rollback
<1>4. ASSUME NEW r \in Requests, Allocate(r) \/ LoadLines(r) \/ DeleteLines(r) PROVE UNCHANGED lock
  BY <1>4 DEF Allocate, LoadLines, DeleteLines, database
<1>5. ASSUME NEW r \in Requests, Flush(r) PROVE lock'[i] = k <=> lock[i] = k
  <2> DEFINE t == txn[r]
  <2>1. t.pc = "flush" /\ FlushIsFree(r) /\ lock' = IF Dirty(t) THEN [lock EXCEPT ![t.inv] = r] ELSE lock
    BY <1>5 DEF Flush
  <2>2. AboutOneInvoice(r)
    BY <2>1 DEF BooksInv, HistoryInv, GaplessInv, SessionInv
  <2>3. Dirty(t) => lock[t.inv] # k
    <3>1. CASE Inserts(t)
      BY <1>1, <2>2, <3>1 DEF AboutOneInvoice, CloseInv, MonthBooks, InMonth
    <3>2. CASE ~ Inserts(t)
      BY <1>1, <2>1, <3>2 DEF FlushIsFree, NeedsRowLock
    <3> QED
      BY <3>1, <3>2
  <2> QED
    BY <1>1, <2>1, <2>3 DEF TypeOK
<1>6. ASSUME NEW r \in Requests, Commit(r) PROVE lock'[i] = k <=> lock[i] = k
  BY <1>1, <1>6 DEF Commit, TypeOK
<1>7. CASE Midnight \/ UNCHANGED vars
  BY <1>7 DEF Midnight, vars, database
<1> QED
  BY <1>2, <1>3, <1>4, <1>5, <1>6, <1>7 DEF Next, Statements, DeleteRefused, FlushRefused, Abort

\* The other requests, while one goes on.
LEMMA OthersMindBooks ==
    ASSUME BooksInv, NEW r \in Requests, UNCHANGED invoices,
           \A q \in Requests \ {r} : txn'[q] = txn[q],
           RequestMindsBooks(r)'
    PROVE  \A q \in Requests : RequestMindsBooks(q)'
<1>1. ASSUME NEW q \in Requests \ {r} PROVE RequestMindsBooks(q)'
  <2>1. RequestMindsBooks(q) /\ txn'[q] = txn[q]
    BY DEF BooksInv
  <2> QED
    BY <2>1 DEF RequestMindsBooks, After, Inserts
<1> QED
  BY <1>1

\* A commit leaves verified what another session has flushed.
LEMMA CommitMindsBooks ==
    ASSUME BooksInv, NEW r \in Requests, Commit(r)
    PROVE  \A q \in Requests : RequestMindsBooks(q)'
<1> DEFINE t == txn[r]
<1>1. /\ t.pc = "commit" /\ t.inv \in Invoices /\ invoices'[t.inv] = After(t)
      /\ \A j \in Invoices \ {t.inv} : invoices'[j] = invoices[j]
      /\ txn'[r] = Idle
      /\ \A q \in Requests \ {r} : txn'[q] = txn[q]
      /\ HistoryInv /\ GaplessInv /\ AboutOneInvoice(r) /\ HoldsItsRow(r)
  BY CommitTables DEF BooksInv, HistoryInv, GaplessInv, SessionInv
<1>2. RequestMindsBooks(r)'
  BY <1>1 DEF RequestMindsBooks, Idle
<1>3. ASSUME NEW q \in Requests \ {r} PROVE RequestMindsBooks(q)'
  <2> DEFINE u == txn[q]
  <2>1. RequestMindsBooks(q) /\ txn'[q] = u
    BY <1>1 DEF BooksInv
  <2>2. ASSUME u.pc = "commit", ~ Inserts(u)
        PROVE  ArchivedIsFinal(invoices[u.inv], After(u))'
    <3>1. /\ AboutOneInvoice(q) /\ HoldsItsRow(q) /\ ArchivedIsFinal(invoices[u.inv], After(u))
      BY <1>1, <2>1, <2>2 DEF GaplessInv, SessionInv, RequestMindsBooks
    <3>2. CASE invoices'[u.inv] = invoices[u.inv]
      BY <2>1, <3>1, <3>2 DEF After
    <3>3. CASE invoices'[u.inv] # invoices[u.inv]
      <4>1. u.inv = t.inv /\ ~ Inserts(t)
        BY <1>1, <3>1, <3>3 DEF AboutOneInvoice
      <4>2. Dirty(t)
        BY <1>1, <3>3, <4>1, CommitColumns
      <4>3. ~ Dirty(u)
        BY <1>1, <2>2, <3>1, <4>1, <4>2 DEF HoldsItsRow
      <4>4. invoices'[t.inv] \in Row
        BY <1>1, CommittedRow
      <4>5. After(u)' = invoices'[u.inv]
        BY <2>1, <2>2, <4>1, <4>3, <4>4, WrittenSame DEF After, Dirty
      <4> QED
        BY <2>1, <4>5 DEF ArchivedIsFinal
    <3> QED
      BY <3>2, <3>3
  <2> QED
    BY <2>1, <2>2 DEF RequestMindsBooks, Inserts
<1> QED
  BY <1>2, <1>3

\* Every step of the requests and of the calendar keeps the invariant.
LEMMA NextBooks ==
    ASSUME BooksInv, [Next]_vars, UNCHANGED closing
    PROVE  BooksInv'
<1>1. HistoryInv /\ HistoryInv' /\ TypeOK
  BY HistoryInvInductive DEF BooksInv, HistoryInv, GaplessInv
<1>2. ASSUME NEW i \in Invoices
      PROVE  /\ ArchivedIsNoDraft(i)'
             /\ invoices[i].processing = "ARCHIVED" => invoices'[i].processing = "ARCHIVED"
             /\ \A m : i \in MonthBooks(m) =>
                  i \in MonthBooks(m)' /\ invoices'[i].amount = invoices[i].amount
  <2>1. CASE UNCHANGED invoices
    BY <2>1 DEF BooksInv, ArchivedIsNoDraft, MonthBooks
  <2>2. ASSUME NEW r \in Requests, Commit(r)
        PROVE  /\ ArchivedIsNoDraft(i)'
               /\ invoices[i].processing = "ARCHIVED" => invoices'[i].processing = "ARCHIVED"
               /\ \A m : i \in MonthBooks(m) =>
                    i \in MonthBooks(m)' /\ invoices'[i].amount = invoices[i].amount
    BY <2>2, CommitRowBooks
  <2> QED
    BY <2>1, <2>2, NextTables
<1>3. \A m : \A i \in MonthBooks(m) : i \in Invoices
  BY DEF MonthBooks
<1>4. ASSUME NEW k \in Closers PROVE CloseInv(k)'
  <2>1. CloseInv(k) /\ closing'[k] = closing[k] /\ closing[k] \in Close
    BY DEF BooksInv
  <2>2. \A i \in Invoices : lock'[i] = k <=> lock[i] = k
    BY NextLeavesLocks
  <2>3. /\ \A f \in closing[k].figures : f[1] \in Invoices
        /\ \A i \in closing[k].todo : i \in Invoices
    BY <2>1 DEF Close
  <2> QED
    BY <1>2, <2>1, <2>2, <2>3 DEF CloseInv
<1>5. CountedStaysAsCounted'
  <2>1. UNCHANGED periods
    BY NextTables
  <2> QED
    BY <1>2, <1>3, <2>1 DEF BooksInv, CountedStaysAsCounted
<1>6. \A r \in Requests : RequestMindsBooks(r)'
  <2>1. ASSUME NEW r \in Requests, Handlers(r) \/ Allocate(r) \/ LoadLines(r) \/ DeleteLines(r)
        PROVE  \A q \in Requests : RequestMindsBooks(q)'
    BY <2>1, HandlersMindBooks, AdvanceMindsBooks, OthersMindBooks DEF database
  <2>2. ASSUME NEW r \in Requests, Rollback(r)
        PROVE  \A q \in Requests : RequestMindsBooks(q)'
    <3>1. /\ txn'[r] = Idle /\ UNCHANGED invoices
          /\ \A q \in Requests \ {r} : txn'[q] = txn[q]
      BY <1>1, <2>2 DEF Rollback, TypeOK
    <3>2. RequestMindsBooks(r)'
      BY <3>1 DEF RequestMindsBooks, Idle
    <3> QED
      BY <3>1, <3>2, OthersMindBooks
  <2>3. ASSUME NEW r \in Requests, Flush(r)
        PROVE  \A q \in Requests : RequestMindsBooks(q)'
    <3>1. UNCHANGED invoices /\ \A q \in Requests \ {r} : txn'[q] = txn[q]
      BY <1>1, <2>3 DEF Flush, TypeOK
    <3> QED
      BY <2>3, <3>1, FlushMindsBooks, OthersMindBooks
  <2>4. ASSUME NEW r \in Requests, Commit(r)
        PROVE  \A q \in Requests : RequestMindsBooks(q)'
    BY <2>4, CommitMindsBooks
  <2>5. CASE Midnight \/ UNCHANGED vars
    <3>1. UNCHANGED <<invoices, txn>>
      BY <2>5 DEF Midnight, vars, database
    <3> QED
      BY <3>1 DEF BooksInv, RequestMindsBooks, After
  <2> QED
    BY <2>1, <2>2, <2>3, <2>4, <2>5 DEF Next, Statements, DeleteRefused, FlushRefused, Abort
<1> QED
  BY <1>1, <1>2, <1>4, <1>5, <1>6 DEF BooksInv

-----------------------------------------------------------------------------
(***************************************************************************)
(* The theorems.                                                           *)
(***************************************************************************)

\* Before anything happens nothing is counted and no close is under way.
LEMMA InitBooks == BooksInit => BooksInv
<1> SUFFICES ASSUME BooksInit PROVE BooksInv
  OBVIOUS
<1>1. HistoryInv
  BY InitHistory DEF BooksInit
<1>2. NoClose \in Close
  BY DEF NoClose, Close
<1>3. closing \in [Closers -> Close]
  BY <1>2 DEF BooksInit
<1>4. \A i \in Invoices : ArchivedIsNoDraft(i)
  BY DEF BooksInit, Init, Absent, ArchivedIsNoDraft
<1>5. \A r \in Requests : RequestMindsBooks(r)
  BY DEF BooksInit, Init, Idle, RequestMindsBooks
<1>6. \A k \in Closers : CloseInv(k)
  BY CloserFacts DEF BooksInit, Init, NoClose, CloseInv
<1>7. CountedStaysAsCounted
  BY DEF BooksInit, Init, Open, CountedStaysAsCounted
<1> QED
  BY <1>1, <1>3, <1>4, <1>5, <1>6, <1>7 DEF BooksInv

\* Every step of every request and of every close keeps the invariant
\* BooksInv (close_period and the handlers of invoicing.py).
THEOREM BooksInvInductive == BooksInv /\ [BooksNext]_booksVars => BooksInv'
<1> SUFFICES ASSUME BooksInv, [BooksNext]_booksVars PROVE BooksInv'
  OBVIOUS
<1>1. CASE (Next \/ UNCHANGED vars) /\ UNCHANGED closing
  BY <1>1, NextBooks
<1>2. ASSUME NEW k \in Closers,
             (\E m \in Months : CloseBegin(k, m)) \/ CloseStatements(k) \/ CloseAbort(k)
      PROVE  BooksInv'
  BY <1>2, CloseBooks
<1> QED
  BY <1>1, <1>2 DEF BooksNext, booksVars

\* The invariant holds in every state of the invoices and the closes together.
THEOREM BooksInvHolds == BooksSpec => []BooksInv
BY InitBooks, BooksInvInductive, PTL DEF BooksSpec

\* While months are closed the series stay gapless, numbers follow dates and
\* the review history agrees with the rows: a close archives rows and locks
\* them, and spoils nothing the invoice requests rely on (close_period).
THEOREM ClosesKeepSeries ==
    BooksSpec => [](Gapless /\ NumbersFollowDates /\ HistoryExplainsStatus)
<1>1. BooksInv => Gapless /\ NumbersFollowDates /\ HistoryExplainsStatus
  BY DEF BooksInv, HistoryInv, GaplessInv
<1> QED
  BY <1>1, BooksInvHolds, PTL

\* The tables, the requests and the closes hold values of their types.
THEOREM BooksWellFormed == BooksSpec => []BooksTypeOK
<1>1. BooksInv => BooksTypeOK
  BY DEF BooksInv, HistoryInv, GaplessInv, BooksTypeOK
<1> QED
  BY <1>1, BooksInvHolds, PTL

\* Every invoice in the figures of a closed month is archived, still in that
\* month's books and has the total it was counted with, although close_period
\* reads the figures before it locks the rows.
THEOREM CountedStays == BooksSpec => []CountedStaysAsCounted
<1>1. BooksInv => CountedStaysAsCounted
  BY DEF BooksInv
<1> QED
  BY <1>1, BooksInvHolds, PTL

\* A closed month stays closed with the same figures, whoever closes it at
\* the same moment (the unique key on accounting_periods.periode).
THEOREM ClosedForever == BooksSpec => ClosedIsForever
<1>1. BooksInv /\ [BooksNext]_booksVars =>
        [\A m \in Months : AlreadyClosed(m) => periods'[m] = periods[m]]_booksVars
  <2> SUFFICES ASSUME BooksInv, [BooksNext]_booksVars, NEW m \in Months, AlreadyClosed(m)
               PROVE  periods'[m] = periods[m]
    OBVIOUS
  <2>1. CASE (Next \/ UNCHANGED vars) /\ UNCHANGED closing
    BY <2>1, NextTables
  <2>2. ASSUME NEW k \in Closers, CloseSeal(k) PROVE periods'[m] = periods[m]
    <3>1. ~ AlreadyClosed(closing[k].month)
      BY <2>2 DEF CloseSeal, KeyIsFree
    <3>2. periods \in [Months -> [state : {"OPEN", "CLOSED"}, figures : SUBSET (Invoices \X Amounts)]]
      BY DEF BooksInv, HistoryInv, GaplessInv, TypeOK
    <3> QED
      BY <2>2, <3>1, <3>2 DEF CloseSeal
  <2>3. ASSUME NEW k \in Closers,
               (\E n \in Months : CloseBegin(k, n)) \/ CloseStatements(k) \/ CloseAbort(k),
               ~ CloseSeal(k)
        PROVE  UNCHANGED periods
    BY <2>3 DEF CloseBegin, CloseStatements, CloseAbort, CloseBlocked, CloseNotBlocked, CloseSummarise,
                CloseSelect, CloseArchiveRow, CloseArchived, CloseSealRefused, CloseDeadlock, CloseRollback,
                vars
  <2> QED
    BY <2>1, <2>2, <2>3 DEF BooksNext, booksVars
<1> QED
  BY <1>1, BooksInvHolds, PTL DEF BooksSpec, ClosedIsForever

\* The only thing that happens to an archived invoice is that it is paid: a
\* cancellation, an edit or a processing status begun before the close and
\* flushed after it is refused (trg_invoice_archived_is_final,
\* trg_invoice_commercial_transitions).
THEOREM ArchivedOnlyPaid == BooksSpec => ArchivedIsOnlyPaid
<1>1. BooksInv /\ [BooksNext]_booksVars =>
        [\A i \in Invoices : invoices[i].processing = "ARCHIVED" =>
            \/ invoices'[i] = invoices[i]
            \/ /\ invoices[i].statut = "ENVOYEE"
               /\ invoices'[i] = [invoices[i] EXCEPT !.statut = "PAYEE", !.paid = invoices'[i].paid]
        ]_booksVars
  <2> SUFFICES ASSUME BooksInv, [BooksNext]_booksVars, NEW i \in Invoices,
                      invoices[i].processing = "ARCHIVED"
               PROVE  OnlyPaid(invoices[i], invoices'[i])
    BY DEF OnlyPaid
  <2>1. CASE (Next \/ UNCHANGED vars) /\ UNCHANGED closing
    <3>1. CASE UNCHANGED invoices
      BY <3>1 DEF OnlyPaid
    <3>2. ASSUME NEW r \in Requests, Commit(r) PROVE OnlyPaid(invoices[i], invoices'[i])
      BY <3>2, CommitRowBooks
    <3> QED
      BY <2>1, <3>1, <3>2, NextTables
  <2>2. ASSUME NEW k \in Closers, CloseSeal(k) PROVE invoices'[i] = invoices[i]
    <3>1. invoices[i] \in Row
      BY DEF BooksInv, HistoryInv, GaplessInv, TypeOK
    <3>2. ArchivedRow(invoices[i]) = invoices[i]
      BY <3>1 DEF ArchivedRow, Row
    <3> QED
      BY <2>2, <3>2 DEF CloseSeal
  <2>3. ASSUME NEW k \in Closers,
               (\E n \in Months : CloseBegin(k, n)) \/ CloseStatements(k) \/ CloseAbort(k),
               ~ CloseSeal(k)
        PROVE  UNCHANGED invoices
    BY <2>3 DEF CloseBegin, CloseStatements, CloseAbort, CloseBlocked, CloseNotBlocked, CloseSummarise,
                CloseSelect, CloseArchiveRow, CloseArchived, CloseSealRefused, CloseDeadlock, CloseRollback,
                vars
  <2> QED
    BY <2>1, <2>2, <2>3 DEF BooksNext, booksVars, OnlyPaid
<1> QED
  BY <1>1, BooksInvHolds, PTL DEF BooksSpec, ArchivedIsOnlyPaid

-----------------------------------------------------------------------------
(***************************************************************************)
(* Only closes of one month wait in a circle.                              *)
(***************************************************************************)

\* A request holds a row's lock only between its flush and its commit.
RequestLocks ==
    \A r \in Requests, i \in Invoices : lock[i] = r => txn[r].pc = "commit" /\ txn[r].inv = i

\* The steps of the requests keep it so.
LEMMA NextRequestLocks ==
    ASSUME BooksInv, RequestLocks, [Next]_vars
    PROVE  RequestLocks'
<1>1. /\ TypeOK
      /\ \A r \in Requests : r \in Sessions /\ r # NoSession
  BY SessionsAssumption DEF BooksInv, HistoryInv, GaplessInv
<1>2. ASSUME NEW r \in Requests, txn[r].pc # "commit",
             \A q \in Requests \ {r} : txn'[q] = txn[q],
             \A i \in Invoices : lock'[i] \in {lock[i], NoSession}
      PROVE  \A q \in Requests, i \in Invoices :
                lock'[i] = q => txn'[q].pc = "commit" /\ txn'[q].inv = i
  BY <1>1, <1>2 DEF RequestLocks
<1>3. ASSUME NEW r \in Requests, Handlers(r)
      PROVE  \A q \in Requests, i \in Invoices :
                lock'[i] = q => txn'[q].pc = "commit" /\ txn'[q].inv = i
  <2>1. UNCHANGED lock /\ \A q \in Requests \ {r} : txn'[q] = txn[q]
    BY <1>3, HandlersMindBooks DEF database
  <2>2. txn[r] = Idle
    BY <1>3 DEF Handlers, CreateInvoice, CreateSupplierInvoice, SetProcessingStatus, UpdateInvoice,
                SubmitInvoice, ApproveInvoice, RejectInvoice, SendInvoice, PayInvoice, CancelInvoice, Begin
  <2> QED
    BY <1>2, <2>1, <2>2 DEF Idle
<1>4. ASSUME NEW r \in Requests, Rollback(r)
      PROVE  \A q \in Requests, i \in Invoices :
                lock'[i] = q => txn'[q].pc = "commit" /\ txn'[q].inv = i
  <2>1. /\ \A q \in Requests \ {r} : txn'[q] = txn[q]
        /\ \A i \in Invoices : lock'[i] \in {lock[i], NoSession} /\ lock'[i] # r
    BY <1>1, <1>4 DEF Rollback, TypeOK
  <2> QED
    BY <1>1, <2>1 DEF RequestLocks
<1>5. ASSUME NEW r \in Requests, Allocate(r) \/ LoadLines(r) \/ DeleteLines(r)
      PROVE  \A q \in Requests, i \in Invoices :
                lock'[i] = q => txn'[q].pc = "commit" /\ txn'[q].inv = i
  <2>1. UNCHANGED lock /\ txn[r].pc # "commit" /\ \A q \in Requests \ {r} : txn'[q] = txn[q]
    BY <1>1, <1>5 DEF Allocate, LoadLines, DeleteLines, database, TypeOK
  <2> QED
    BY <1>2, <2>1
<1>6. ASSUME NEW r \in Requests, Flush(r)
      PROVE  \A q \in Requests, i \in Invoices :
                lock'[i] = q => txn'[q].pc = "commit" /\ txn'[q].inv = i
  <2>1. /\ txn[r].pc = "flush"
        /\ txn' = [txn EXCEPT ![r] = [txn[r] EXCEPT !.pc = "commit"]]
        /\ lock' = IF Dirty(txn[r]) THEN [lock EXCEPT ![txn[r].inv] = r] ELSE lock
    BY <1>6 DEF Flush
  <2>2. txn[r] \in Transaction
    BY <1>1 DEF TypeOK
  <2>3. /\ txn'[r].pc = "commit" /\ txn'[r].inv = txn[r].inv
        /\ \A q \in Requests \ {r} : txn'[q] = txn[q]
    BY <1>1, <2>1, <2>2 DEF TypeOK, Transaction
  <2>4. \A i \in Invoices : lock'[i] = lock[i] \/ (i = txn[r].inv /\ lock'[i] = r)
    BY <1>1, <2>1 DEF TypeOK
  <2> QED
    BY <2>1, <2>3, <2>4 DEF RequestLocks
<1>7. ASSUME NEW r \in Requests, Commit(r)
      PROVE  \A q \in Requests, i \in Invoices :
                lock'[i] = q => txn'[q].pc = "commit" /\ txn'[q].inv = i
  <2>1. /\ \A q \in Requests \ {r} : txn'[q] = txn[q]
        /\ \A i \in Invoices : lock'[i] = IF i = txn[r].inv /\ lock[i] = r THEN NoSession ELSE lock[i]
    BY <1>1, <1>7 DEF Commit, TypeOK
  <2> QED
    BY <1>1, <2>1 DEF RequestLocks
<1>8. CASE Midnight \/ UNCHANGED vars
  BY <1>8 DEF Midnight, vars, database, RequestLocks
<1>9. \A q \in Requests, i \in Invoices : lock'[i] = q => txn'[q].pc = "commit" /\ txn'[q].inv = i
  <2>1. CASE \E r \in Requests : Handlers(r) \/ Statements(r) \/ Abort(r)
    BY <2>1, <1>3, <1>4, <1>5, <1>6, <1>7 DEF Statements, DeleteRefused, FlushRefused, Abort
  <2> QED
    BY <1>8, <2>1 DEF Next, RequestLocks
<1> QED
  BY <1>9 DEF RequestLocks

\* A close takes no lock for a request.
LEMMA CloseRequestLocks ==
    ASSUME BooksInv, RequestLocks, NEW k \in Closers,
           (\E m \in Months : CloseBegin(k, m)) \/ CloseStatements(k) \/ CloseAbort(k)
    PROVE  RequestLocks'
<1>1. TypeOK /\ k \notin Requests /\ \A r \in Requests : r # NoSession
  BY CloserFacts, SessionsAssumption DEF BooksInv, HistoryInv, GaplessInv
<1>2. UNCHANGED txn /\ \A i \in Invoices : lock'[i] \in {lock[i], k, NoSession}
  BY <1>1 DEF CloseBegin, CloseStatements, CloseAbort, CloseBlocked, CloseNotBlocked, CloseSummarise,
              CloseSelect, CloseArchiveRow, CloseArchived, CloseSeal, CloseSealRefused, CloseDeadlock,
              CloseRollback, vars, TypeOK
<1> QED
  BY <1>1, <1>2 DEF RequestLocks

\* What a session waits for.  A request waits for one whose flush has still to
\* come, for one about to commit or for a close; a close waits for whoever
\* holds the row it has come to: a request about to commit, or a close of the
\* month that row belongs to, which is its own month.
LEMMA WhatIsWaitedFor ==
    ASSUME BooksInv, RequestLocks, NEW s \in Sessions, NEW t \in Sessions, WaitsFor(s, t)
    PROVE  /\ s \in Requests =>
                /\ txn[s].pc # "commit"
                /\ t \in Requests => txn[t].pc \in {"flush", "commit"}
                /\ t \in Requests /\ txn[s].pc = "flush" => txn[t].pc = "commit"
           /\ s \in Closers =>
                /\ t \in Requests => txn[t].pc = "commit"
                /\ t \in Closers => closing[s].month = closing[t].month
<1>1. /\ \A r \in Requests : SessionInv(r) /\ txn[r] \in Transaction
      /\ closing \in [Closers -> Close]
      /\ Closers \cap Requests = {}
      /\ \A k \in Closers : CloseInv(k)
  BY DEF BooksInv, HistoryInv, GaplessInv, TypeOK, Closers
<1>2. ASSUME s \in Requests
      PROVE  /\ txn[s].pc # "commit"
             /\ t \in Requests => txn[t].pc \in {"flush", "commit"}
             /\ t \in Requests /\ txn[s].pc = "flush" => txn[t].pc = "commit"
  <2>1. txn[s].pc \in {"allocate", "delete", "flush"}
    BY <1>1, <1>2 DEF WaitsFor
  <2>2. ASSUME t \in Requests, txn[s].pc = "allocate" PROVE txn[t].pc \in {"flush", "commit"}
    <3>1. TakesNumber(txn[t])
      BY <1>1, <1>2, <2>2 DEF WaitsFor, HoldsCounter
    <3> QED
      BY <1>1, <2>2, <3>1 DEF SessionInv, HoldsNextNumber, Idle, TakesNumber
  <2>3. ASSUME t \in Requests, txn[s].pc = "delete" PROVE txn[t].pc \in {"flush", "commit"}
    BY <1>1, <1>2, <2>3 DEF WaitsFor, HoldsLines
  <2>4. ASSUME t \in Requests, txn[s].pc = "flush" PROVE txn[t].pc = "commit"
    <3>1. CASE HoldsFlush(t, s)
      BY <3>1 DEF HoldsFlush
    <3>2. CASE NeedsRowLock(txn[s]) /\ lock[txn[s].inv] = t
      <4>1. txn[s].inv \in Invoices
        BY <1>1, <1>2, <2>4 DEF SessionInv, AboutOneInvoice
      <4> QED
        BY <2>4, <3>2, <4>1 DEF RequestLocks
    <3> QED
      BY <1>1, <1>2, <2>4, <3>1, <3>2 DEF WaitsFor
  <2> QED
    BY <2>1, <2>2, <2>3, <2>4
<1>3. ASSUME s \in Closers
      PROVE  /\ t \in Requests => txn[t].pc = "commit"
             /\ t \in Closers => closing[s].month = closing[t].month
  <2> DEFINE i == closing[s].row
  <2>1. closing[s].pc = "archive" /\ i # 0 /\ lock[i] = t
    BY <1>1, <1>3 DEF WaitsFor
  <2>2. i \in Invoices /\ i \in MonthBooks(closing[s].month)
    BY <1>1, <1>3, <2>1 DEF Close, CloseInv
  <2>3. t \in Requests => txn[t].pc = "commit"
    BY <2>1, <2>2 DEF RequestLocks
  <2>4. t \in Closers => i \in MonthBooks(closing[t].month)
    BY <1>1, <2>1, <2>2 DEF CloseInv
  <2> QED
    BY <2>2, <2>3, <2>4 DEF MonthBooks, InMonth
<1> QED
  BY <1>2, <1>3

\* A request about to commit waits for nobody, so it is in no circle.  Then no
\* close of the circle waits for a request, a request that others wait for is
\* at its flush, and those that wait for it are not: nobody waits for them.
LEMMA CirclesAreOfCloses ==
    ASSUME BooksInv, RequestLocks
    PROVE  CirclesAreOfOneMonth
<1> SUFFICES ASSUME NEW group \in SUBSET Sessions, Circle(group)
             PROVE  /\ group \subseteq Closers
                    /\ \A s, t \in group : WaitsFor(s, t) => closing[s].month = closing[t].month
  BY DEF CirclesAreOfOneMonth
<1>1. /\ \A s \in group : s \in Requests \/ s \in Closers
      /\ \A s \in group : \E t \in group : WaitsFor(s, t)
      /\ \A t \in group : \E s \in group : WaitsFor(s, t)
  BY DEF Circle, Closers
<1>2. ASSUME NEW r \in group, r \in Requests PROVE txn[r].pc # "commit"
  <2>1. PICK t \in group : WaitsFor(r, t)
    BY <1>1
  <2> QED
    BY <1>2, <2>1, WhatIsWaitedFor
<1>3. ASSUME NEW r \in group, r \in Requests
      PROVE  \E s \in group : s \in Requests /\ WaitsFor(s, r)
  <2>1. PICK s \in group : WaitsFor(s, r)
    BY <1>1
  <2>2. s \notin Closers
    BY <1>2, <1>3, <2>1, WhatIsWaitedFor
  <2> QED
    BY <1>1, <2>1, <2>2
<1>4. ASSUME NEW r \in group, r \in Requests PROVE txn[r].pc = "flush"
  <2>1. PICK s \in group : s \in Requests /\ WaitsFor(s, r)
    BY <1>3, <1>4
  <2> QED
    BY <1>2, <1>4, <2>1, WhatIsWaitedFor
<1>5. ASSUME NEW r \in group, r \in Requests PROVE FALSE
  <2>1. PICK s \in group : s \in Requests /\ WaitsFor(s, r)
    BY <1>3, <1>5
  <2> QED
    BY <1>4, <1>5, <2>1, WhatIsWaitedFor
<1>6. group \subseteq Closers
  BY <1>1, <1>5
<1> QED
  BY <1>6, WhatIsWaitedFor

\* However many requests and closes run at once, and in whatever order the
\* database comes to the rows, only closes of one month ever wait for each
\* other in a circle: the deadlock that ends one of them never ends a request
\* (_allocate_invoice_number, update_invoice, close_period's archiving UPDATE).
THEOREM CirclesAreOfOneMonthAlways == BooksSpec => []CirclesAreOfOneMonth
<1>1. BooksInit => RequestLocks
  BY SessionsAssumption DEF BooksInit, Init, RequestLocks
<1>2. BooksInv /\ RequestLocks /\ [BooksNext]_booksVars => RequestLocks'
  <2> SUFFICES ASSUME BooksInv, RequestLocks, [BooksNext]_booksVars PROVE RequestLocks'
    OBVIOUS
  <2>1. CASE (Next \/ UNCHANGED vars) /\ UNCHANGED closing
    BY <2>1, NextRequestLocks
  <2>2. ASSUME NEW k \in Closers,
               (\E m \in Months : CloseBegin(k, m)) \/ CloseStatements(k) \/ CloseAbort(k)
        PROVE  RequestLocks'
    BY <2>2, CloseRequestLocks
  <2> QED
    BY <2>1, <2>2 DEF BooksNext, booksVars
<1>3. BooksInv /\ RequestLocks => CirclesAreOfOneMonth
  BY CirclesAreOfCloses
<1> QED
  BY <1>1, <1>2, <1>3, BooksInvHolds, PTL DEF BooksSpec
=============================================================================
