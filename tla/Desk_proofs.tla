------------------------------ MODULE Desk_proofs ------------------------------
(***************************************************************************)
(* Theorems about Desk: one reminder in each period, e-mails of committed  *)
(* rows only, the limits of the contact form, and the trail of decisions   *)
(* on leave, for any number of people, invoices, processes and requests.   *)
(***************************************************************************)
EXTENDS Desk, FiniteSetTheorems, TLAPS

-----------------------------------------------------------------------------
(***************************************************************************)
(* The inductive invariant.                                                *)
(***************************************************************************)

\* What a request holds between two steps is about rows of the right table.
Fits(t, stored) ==
    /\ t.pc \in {"submit", "insert"} => t.seen \in Senders
    /\ t.pc = "inbox" => t.about \in stored
    /\ t.pc = "handle" => t.by \in People /\ t.about \in stored
    /\ t.pc = "hire" => t.by \in People /\ t.about \in People
    /\ t.pc = "decide" =>
          t.by \in People /\ t.about \in Leaves /\ t.seen \in Leave /\ t.verdict \in Verdicts

TaskInv(r) == Fits(tasks[r], Stored)

\* The tables hold finitely many rows, and none from the future.
TablesInv ==
    /\ DeskTypeOK
    /\ IsFiniteSet(notices)
    /\ IsFiniteSet(Stored)
    /\ \A n \in notices : n.at <= now
    /\ \A i \in Invoices : invoices[i].since <= now
    /\ \A r \in Tasks : TaskInv(r) /\ tasks[r].at <= now

-----------------------------------------------------------------------------
\* One session at a time is between the counts and the insert, and the counts
\* still hold when it inserts.
InsertInv(r) ==
    TaskIs(r, "insert") =>
        /\ WithinLimits(tasks[r].seen, tasks[r].at)
        /\ \A q \in Tasks : TaskIs(q, "insert") => q = r

ContactInv == EnquiriesWithinLimits /\ \A r \in Tasks : InsertInv(r)

-----------------------------------------------------------------------------
\* A request has a validator exactly when it is decided, another person.
LeaveInv(l) ==
    leaves[l] # NoLeave =>
        /\ leaves[l].of \in People
        /\ leaves[l].validator # leaves[l].of
        /\ leaves[l].validator # NoOne <=> leaves[l].status \in Verdicts

\* What a decision has read is an earlier state of the row: whose it is stays,
\* a decision stays one, and nobody has validated one's own.
DecideInv(r) ==
    LET t == tasks[r]
    IN  t.pc = "decide" =>
          /\ leaves[t.about] # NoLeave
          /\ t.seen.validator # leaves[t.about].of
          /\ t.seen.status \in Verdicts \/ t.seen.validator # NoOne =>
                leaves[t.about].status \in Verdicts

LeavesInv ==
    /\ DecisionsAreOnRecord
    /\ \A e \in Range(trail) : e.about \in Leaves => leaves[e.about] # NoLeave
    /\ \A l \in Leaves : LeaveInv(l)
    /\ \A r \in Tasks : DecideInv(r)

-----------------------------------------------------------------------------
Kept(n) == \E m \in notices : Same(m, n) /\ m.copy = n.copy

Mailed(of) == \E m \in mails : m.of = of

\* n is a reminder of the step the invoice is at, in one of its periods.
ChasesNow(n) ==
    LET row == invoices[n.about]
    IN  /\ n.about \in Invoices
        /\ row.step \in Steps
        /\ n.kind = KindOf[row.step]
        /\ n.at >= row.since + DelayOf[row.step]

Likewise(n, m) == n.to = m.to /\ n.kind = m.kind /\ n.about = m.about

\* What a pass is about to commit is not there yet, nor any other reminder
\* of the period it falls in.
IsNews(n) ==
    \A m \in notices :
        /\ ~ Same(m, n)
        /\ ChasesNow(n) /\ Likewise(m, n) => m.at < PeriodStart(invoices[n.about], n.at)

AtWork(w) == passes[w].pc \in {"read", "write", "commit"}

\* What a pass has in memory: the rows it read, unless they moved on since it
\* started, then its reminders, and then those it has still to e-mail.
PassInv(w) ==
    LET p == passes[w]
    IN  /\ p.at <= now
        /\ \A v \in Workers : AtWork(v) /\ AtWork(w) => v = w
        /\ p.pc = "write" =>
              /\ p.seen \in [Invoices -> Row]
              /\ \A i \in Invoices : p.seen[i] = invoices[i] \/ p.at <= invoices[i].since
        /\ IsFiniteSet(p.told)
        /\ \A n \in p.told : n.kind \in ReminderKinds /\ n.at <= now
        /\ p.pc = "commit" =>
              /\ \A n, m \in p.told : n.to = m.to /\ n.about = m.about => n = m
              /\ \A n \in p.told : IsNews(n)
        /\ p.pc = "mail" =>
              /\ \A n \in p.told : Kept(n) /\ ~ Mailed(n)
              /\ \A v \in Workers \ {w} : passes[v].pc = "mail" => passes[v].told \cap p.told = {}
        /\ p.pc \notin {"commit", "mail"} => p.told = {}

\* Two reminders of one step to one person are in two periods.
PeriodsInv ==
    \A n, m \in notices :
        /\ ChasesNow(n) /\ ChasesNow(m) /\ Likewise(n, m)
        /\ PeriodStart(invoices[n.about], n.at) = PeriodStart(invoices[m.about], m.at)
        => n = m

RemindersInv == PeriodsInv /\ \A w \in Workers : PassInv(w)

\* An enquiry's e-mail is sent by the request that stored it, once.
InboxInv(r) ==
    TaskIs(r, "inbox") =>
        /\ ~ Mailed(tasks[r].about)
        /\ \A q \in Tasks \ {r} : TaskIs(q, "inbox") => tasks[q].about # tasks[r].about

MailsInv == MailsAreOfStoredRows /\ \A r \in Tasks : InboxInv(r)

DeskInv == TablesInv /\ ContactInv /\ LeavesInv /\ RemindersInv /\ MailsInv

-----------------------------------------------------------------------------
(***************************************************************************)
(* Finite sets, the calendar of a step, and rows.                          *)
(***************************************************************************)

\* A set whose elements are told apart by a value in a finite set is finite.
LEMMA ToldApart ==
    ASSUME NEW S, NEW T, IsFiniteSet(T), NEW f \in [S -> T],
           \A a, b \in S : f[a] = f[b] => a = b
    PROVE  IsFiniteSet(S)
<1>1. f \in Injection(S, T)
  BY DEF Injection, IsInjective
<1> QED
  BY <1>1, FS_Injection

\* The values of a function on a finite set are finitely many.
LEMMA ValuesFinite ==
    ASSUME NEW S, IsFiniteSet(S), NEW f, DOMAIN f = S
    PROVE  IsFiniteSet({f[a] : a \in S})
<1> DEFINE T == {f[a] : a \in S}
           g == [a \in S |-> f[a]]
<1>1. g \in Surjection(S, T)
  BY DEF Surjection
<1> QED
  BY <1>1, FS_Surjection

\* A set with no two elements has at most one.
LEMMA AtMostOne ==
    ASSUME NEW S, \A a, b \in S : a = b
    PROVE  Cardinality(S) <= 1
<1>1. S = {} \/ \E a \in S : S = {a}
  OBVIOUS
<1>2. Cardinality({}) = 0 /\ \A a : Cardinality({a}) = 1
  BY FS_EmptySet, FS_Singleton
<1>3. Cardinality(S) = 0 \/ Cardinality(S) = 1
  BY <1>1, <1>2
<1> QED
  BY <1>3

LEMMA TimesFacts == Times \subseteq Nat /\ 0 \in Times
BY ClockAssumption DEF Times

LEMMA StepsFacts ==
    /\ Steps = {"draft", "submitted", "rejected", "approved"}
    /\ \A s \in Steps : DelayOf[s] \in Nat /\ DelayOf[s] > 0 /\ KindOf[s] \in ReminderKinds
    /\ ReminderKinds \subseteq NoticeKinds
BY DelayAssumption DEF Steps, KindOf, ReminderKinds, NoticeKinds

\* The quotient that counts the periods.
LEMMA Quotient ==
    ASSUME NEW x \in Nat, NEW d \in Nat, d > 0
    PROVE  /\ x \div d \in Nat
           /\ d * (x \div d) <= x
           /\ x < d * (x \div d) + d
OBVIOUS

\* A product grows with its factor.
LEMMA ProductGrows ==
    ASSUME NEW j \in Int, NEW k \in Int, NEW d \in Nat, d > 0, j < k
    PROVE  j * d + d <= k * d
<1>1. (k - j - 1) * d >= 0
  <2>1. k - j - 1 \in Nat
    OBVIOUS
  <2> QED
    BY <2>1
<1>2. (k - j - 1) * d = k * d - j * d - d
  OBVIOUS
<1> QED
  BY <1>1, <1>2

\* The period a time falls in starts no later than the time; it is the k-th
\* one when the time lies between the starts of the k-th and of the next.
LEMMA PeriodFacts ==
    ASSUME NEW row, row.step \in Steps, NEW s \in Nat, row.since = s, NEW t \in Nat, s <= t
    PROVE  /\ PeriodStart(row, t) \in Nat
           /\ PeriodStart(row, t) <= t
           /\ \A k \in Nat :
                s + k * DelayOf[row.step] <= t /\ t < s + (k + 1) * DelayOf[row.step] =>
                    PeriodStart(row, t) = s + k * DelayOf[row.step]
<1> DEFINE d == DelayOf[row.step]
           x == t - s
           q == x \div d
<1>1. d \in Nat /\ d > 0 /\ x \in Nat
  BY StepsFacts
<1>2. PeriodStart(row, t) = s + d * q
  BY DEF PeriodStart
<1> HIDE DEF d
<1>3. q \in Nat /\ d * q <= x /\ x < d * q + d
  BY <1>1, Quotient
<1> HIDE DEF q
<1>4. d * q \in Nat /\ d * q = q * d
  BY <1>1, <1>3
<1>5. ASSUME NEW k \in Nat, s + k * d <= t, t < s + (k + 1) * d PROVE k = q
  <2>0. (k + 1) * d = k * d + d /\ k * d \in Nat
    BY <1>1
  <2>1. CASE k < q
    <3>1. k * d + d <= q * d
      BY <1>1, <1>3, <2>1, ProductGrows
    <3> QED
      BY <1>1, <1>3, <1>4, <1>5, <2>0, <3>1
  <2>2. CASE q < k
    <3>1. q * d + d <= k * d
      BY <1>1, <1>3, <2>2, ProductGrows
    <3> QED
      BY <1>1, <1>3, <1>4, <1>5, <2>0, <3>1
  <2> QED
    BY <1>3, <2>1, <2>2
<1>6. \A k \in Nat : s + k * d <= t /\ t < s + (k + 1) * d => PeriodStart(row, t) = s + k * d
  BY <1>2, <1>4, <1>5
<1>7. PeriodStart(row, t) \in Nat /\ PeriodStart(row, t) <= t
  BY <1>1, <1>2, <1>3, <1>4
<1> QED
  BY <1>6, <1>7 DEF d

-----------------------------------------------------------------------------
(***************************************************************************)
(* Notices.                                                                *)
(***************************************************************************)

\* The rows notify adds: one for each recipient, unread, of the given kind.
LEMMA NotesFacts ==
    ASSUME IsFiniteSet(notices), NEW people \in SUBSET People, NEW kind \in NoticeKinds,
           NEW about \in Invoices \cup Enquiries, NEW at \in Times, NEW exclude
    PROVE  LET new == Notes(people, kind, about, at, exclude)
           IN  /\ new \subseteq Notice
               /\ IsFiniteSet(new)
               /\ \A n \in new : n.to \in people /\ n.kind = kind /\ n.about = about /\ n.at = at
               /\ \A n, m \in new : n.to = m.to => n = m
<1> DEFINE blank(u) == [to |-> u, kind |-> kind, about |-> about, at |-> at,
                        copy |-> 1, read |-> FALSE, dismissed |-> FALSE]
           copies(u) == Cardinality({n \in notices : Same(n, blank(u))})
           note(u) == [blank(u) EXCEPT !.copy = 1 + copies(u)]
           new == Notes(people, kind, about, at, exclude)
<1>1. new = {note(u) : u \in people \ {exclude}}
  BY DEF Notes
<1>2. ASSUME NEW u \in people
      PROVE  /\ note(u) \in Notice
             /\ note(u).to = u /\ note(u).kind = kind /\ note(u).about = about /\ note(u).at = at
  <2>1. copies(u) \in Nat
    <3>1. IsFiniteSet({n \in notices : Same(n, blank(u))})
      BY FS_Subset
    <3> QED
      BY <3>1, FS_CardinalityType
  <2> DEFINE c == 1 + copies(u)
  <2>2. c \in Nat \ {0}
    BY <2>1
  <2>3. note(u) = [blank(u) EXCEPT !.copy = c]
    OBVIOUS
  <2> HIDE DEF copies, c, note
  <2>4. \A k \in Nat \ {0} :
           LET n == [blank(u) EXCEPT !.copy = k]
           IN  n \in Notice /\ n.to = u /\ n.kind = kind /\ n.about = about /\ n.at = at
    BY DEF Notice
  <2> HIDE DEF blank
  <2> QED
    BY <2>2, <2>3, <2>4
<1> HIDE DEF note
<1>3. /\ new \subseteq Notice
      /\ \A n \in new : n.to \in people /\ n.kind = kind /\ n.about = about /\ n.at = at
      /\ \A n, m \in new : n.to = m.to => n = m
  BY <1>1, <1>2
<1>4. IsFiniteSet(new)
  <2> DEFINE f == [n \in new |-> n.to]
  <2>1. f \in [new -> People] /\ \A n, m \in new : f[n] = f[m] => n = m
    BY <1>3
  <2> HIDE DEF f, new
  <2> QED
    BY <2>1, ToldApart, TablesAssumption
<1> QED
  BY <1>3, <1>4

\* The reminders a pass finds due: of the step it saw the invoice at, to
\* those who have to act and have none in the period.
LEMMA DueNotesFacts ==
    ASSUME IsFiniteSet(notices), active \subseteq People,
           NEW seen \in [Invoices -> Row], NEW t \in Times
    PROVE  LET new == DueNotes(seen, t)
           IN  /\ new \subseteq Notice
               /\ IsFiniteSet(new)
               /\ \A n \in new :
                     /\ n.about \in Invoices /\ n.at = t
                     /\ IsDue(seen[n.about], t)
                     /\ n.kind = KindOf[seen[n.about].step]
                     /\ Uncovered(n.to, n.about, seen[n.about], t)
               /\ \A n, m \in new : n.to = m.to /\ n.about = m.about => n = m
<1> DEFINE to(i) == {u \in Recipients(i, seen[i]) : Uncovered(u, i, seen[i], t)}
           notes(i) == Notes(to(i), KindOf[seen[i].step], i, t, NoOne)
           due == {j \in Invoices : IsDue(seen[j], t)}
           new == DueNotes(seen, t)
<1>1. new = UNION {notes(i) : i \in due}
  BY DEF DueNotes
<1>2. ASSUME NEW i \in due
      PROVE  /\ notes(i) \subseteq Notice
             /\ \A n \in notes(i) : n.to \in to(i) /\ n.kind = KindOf[seen[i].step] /\ n.about = i /\ n.at = t
             /\ \A n, m \in notes(i) : n.to = m.to => n = m
  <2>1. to(i) \subseteq People
    BY PeopleAssumption, AuthorsAssumption DEF Recipients, ActiveWith
  <2>2. KindOf[seen[i].step] \in NoticeKinds
    BY StepsFacts DEF IsDue
  <2> HIDE DEF to
  <2> QED
    BY <2>1, <2>2, NotesFacts
<1>3. /\ new \subseteq Notice
      /\ \A n \in new :
            /\ n.about \in Invoices /\ n.at = t
            /\ IsDue(seen[n.about], t)
            /\ n.kind = KindOf[seen[n.about].step]
            /\ Uncovered(n.to, n.about, seen[n.about], t)
            /\ n \in notes(n.about) /\ n.about \in due
  <2> HIDE DEF notes
  <2> QED
    BY <1>1, <1>2
<1>4. \A n, m \in new : n.to = m.to /\ n.about = m.about => n = m
  <2> HIDE DEF notes, new
  <2> QED
    BY <1>2, <1>3
<1>5. IsFiniteSet(new)
  <2> DEFINE f == [n \in new |-> <<n.to, n.about>>]
  <2>1. f \in [new -> People \X Invoices]
    <3>1. \A n \in new : n.to \in People
      BY <1>3 DEF Notice
    <3> QED
      BY <1>3, <3>1
  <2>2. \A n, m \in new : f[n] = f[m] => n = m
    BY <1>4
  <2>3. IsFiniteSet(People \X Invoices)
    BY TablesAssumption, FS_Product
  <2> HIDE DEF f, new
  <2> QED
    BY <2>1, <2>2, <2>3, ToldApart
<1> QED
  BY <1>3, <1>4, <1>5

\* Reading or clearing a notice changes nothing else of it.
LEMMA ReadingKeeps ==
    ASSUME NEW n \in Notice
    PROVE  LET read == [n EXCEPT !.read = TRUE]
               gone == [n EXCEPT !.dismissed = TRUE]
           IN  /\ read \in Notice /\ gone \in Notice
               /\ Same(n, read) /\ n.copy = read.copy
               /\ Same(n, gone) /\ n.copy = gone.copy
BY DEF Notice, Same

-----------------------------------------------------------------------------
(***************************************************************************)
(* Decisions on leave, and the trail.                                      *)
(***************************************************************************)

\* The request that takes a step has the new task, the others keep theirs.
LEMMA HoldFacts ==
    ASSUME TablesInv, NEW r \in Tasks, NEW t, Hold(r, t)
    PROVE  tasks'[r] = t /\ \A q \in Tasks \ {r} : tasks'[q] = tasks[q]
BY DEF TablesInv, DeskTypeOK, Hold

LEMMA DropFacts ==
    ASSUME TablesInv, NEW r \in Tasks, Drop(r)
    PROVE  tasks'[r] = NoTask /\ \A q \in Tasks \ {r} : tasks'[q] = tasks[q]
BY DEF TablesInv, DeskTypeOK, Drop

\* record_event adds its event and no other.
LEMMA RecordFacts ==
    ASSUME TablesInv, NEW event, Record(event)
    PROVE  Range(trail') = Range(trail) \cup {event}
<1> DEFINE Events == [actor : People,
                      action : {"contact_request.handled", "employee.created", "leave_request"},
                      about : Enquiries \cup People \cup Leaves,
                      before : {"none", "pending"} \cup Verdicts,
                      after : {"none"} \cup Verdicts]
<1>1. trail \in Seq(Events) /\ trail' = Append(trail, event)
  BY DEF TablesInv, DeskTypeOK, Record
<1> HIDE DEF Events
<1>2. /\ DOMAIN trail = 1 .. Len(trail) /\ Len(trail) \in Nat
      /\ DOMAIN trail' = 1 .. Len(trail) + 1
      /\ \A k \in 1 .. Len(trail) : trail'[k] = trail[k]
      /\ trail'[Len(trail) + 1] = event
  BY <1>1
<1>3. Range(trail') \subseteq Range(trail) \cup {event}
  <2> SUFFICES ASSUME NEW k \in DOMAIN trail' PROVE trail'[k] \in Range(trail) \cup {event}
    BY DEF Range
  <2>1. k \in 1 .. Len(trail) \/ k = Len(trail) + 1
    BY <1>2
  <2> QED
    BY <1>2, <2>1 DEF Range
<1>4. Range(trail) \subseteq Range(trail') /\ event \in Range(trail')
  <2>1. Len(trail) + 1 \in DOMAIN trail' /\ DOMAIN trail \subseteq DOMAIN trail'
    BY <1>2
  <2> QED
    BY <1>2, <2>1 DEF Range
<1> QED
  BY <1>3, <1>4

\* Nothing is decided, and no decision is read.
LEMMA LeavesStay ==
    ASSUME LeavesInv, UNCHANGED leaves,
           \A e \in Range(trail') : e \in Range(trail) \/ e.about \notin Leaves,
           Range(trail) \subseteq Range(trail'),
           \A r \in Tasks : tasks'[r] = tasks[r] \/ tasks'[r].pc # "decide"
    PROVE  LeavesInv'
<1>1. DecisionsAreOnRecord' /\ \A e \in Range(trail') : e.about \in Leaves => leaves'[e.about] # NoLeave
  BY DEF LeavesInv, DecisionsAreOnRecord
<1>2. \A l \in Leaves : LeaveInv(l)'
  BY DEF LeavesInv, LeaveInv
<1>3. \A r \in Tasks : DecideInv(r)'
  BY DEF LeavesInv, DecideInv
<1> QED
  BY <1>1, <1>2, <1>3 DEF LeavesInv

\* A person asks for leave: no event is about the new request.
LEMMA RequestLeaveLeaves ==
    ASSUME TablesInv, LeavesInv, NEW u \in People, RequestLeave(u)
    PROVE  LeavesInv'
<1>1. PICK l \in Leaves :
         /\ leaves[l] = NoLeave
         /\ leaves' = [leaves EXCEPT ![l] = [of |-> u, status |-> "pending", validator |-> NoOne]]
  BY DEF RequestLeave
<1>2. UNCHANGED <<trail, tasks>> /\ leaves \in [Leaves -> Leave]
  BY DEF RequestLeave, TablesInv, DeskTypeOK
<1>3. /\ \A k \in Leaves \ {l} : leaves'[k] = leaves[k]
      /\ leaves'[l].of = u /\ leaves'[l].status = "pending" /\ leaves'[l].validator = NoOne
      /\ leaves'[l] # NoLeave
  <2>1. leaves'[l] = [of |-> u, status |-> "pending", validator |-> NoOne]
    BY <1>1, <1>2
  <2>2. leaves'[l].status # NoLeave.status
    BY <2>1 DEF NoLeave
  <2> QED
    BY <1>1, <1>2, <2>1, <2>2
<1>4. \A e \in Range(trail) : e.about \in Leaves => e.about \in Leaves \ {l}
  BY <1>1 DEF LeavesInv
<1>5. DecisionsAreOnRecord' /\ \A e \in Range(trail') : e.about \in Leaves => leaves'[e.about] # NoLeave
  BY <1>2, <1>3, <1>4 DEF LeavesInv, DecisionsAreOnRecord, Verdicts
<1>6. \A k \in Leaves : LeaveInv(k)'
  BY <1>2, <1>3, PeopleAssumption DEF LeavesInv, LeaveInv, Verdicts
<1>7. ASSUME NEW r \in Tasks PROVE DecideInv(r)'
  <2>1. DecideInv(r) /\ TaskInv(r)
    BY DEF LeavesInv, TablesInv
  <2>2. tasks[r].pc = "decide" => tasks[r].about \in Leaves \ {l}
    BY <1>1, <2>1 DEF DecideInv, TaskInv, Fits
  <2> QED
    BY <1>2, <1>3, <2>1, <2>2 DEF DecideInv
<1> QED
  BY <1>5, <1>6, <1>7 DEF LeavesInv

\* A decision reads the request.
LEMMA OpenLeaveLeaves ==
    ASSUME TablesInv, LeavesInv, NEW r \in Tasks, NEW by \in People, NEW l \in Leaves,
           NEW v \in Verdicts, OpenLeave(r, by, l, v)
    PROVE  LeavesInv'
<1> DEFINE t == [NoTask EXCEPT !.pc = "decide", !.by = by, !.about = l, !.seen = leaves[l], !.verdict = v]
<1>1. t.pc = "decide" /\ t.about = l /\ t.seen = leaves[l]
  BY DEF NoTask
<1>2. /\ tasks'[r] = t /\ \A q \in Tasks \ {r} : tasks'[q] = tasks[q]
      /\ UNCHANGED <<trail, leaves>> /\ leaves[l] # NoLeave
  <2>1. Hold(r, t)
    BY DEF OpenLeave
  <2> HIDE DEF t
  <2> QED
    BY <2>1, HoldFacts DEF OpenLeave, personnel
<1> HIDE DEF t
<1>3. DecisionsAreOnRecord' /\ \A e \in Range(trail') : e.about \in Leaves => leaves'[e.about] # NoLeave
  BY <1>2 DEF LeavesInv, DecisionsAreOnRecord
<1>4. \A k \in Leaves : LeaveInv(k)'
  BY <1>2 DEF LeavesInv, LeaveInv
<1>5. DecideInv(r)'
  <2>1. LeaveInv(l)
    BY DEF LeavesInv
  <2> QED
    BY <1>1, <1>2, <2>1 DEF DecideInv, LeaveInv
<1>6. \A q \in Tasks \ {r} : DecideInv(q)'
  BY <1>2 DEF LeavesInv, DecideInv
<1> QED
  BY <1>3, <1>4, <1>5, <1>6 DEF LeavesInv

\* A decision: the columns it changes over the row as it is, and its event.
LEMMA DecideLeaves ==
    ASSUME TablesInv, LeavesInv, NEW r \in Tasks, Decide(r)
    PROVE  LeavesInv'
<1> DEFINE t == tasks[r]
           l == t.about
           old == leaves[l]
           new == Decided(t)
           event == Event(t.by, "leave_request", l, t.seen.status, t.verdict)
<1>1. /\ t.pc = "decide" /\ TaskInv(r) /\ DecideInv(r)
      /\ leaves \in [Leaves -> Leave]
  BY DEF Decide, TaskIs, LeavesInv, TablesInv, DeskTypeOK
<1>2. l \in Leaves /\ t.by \in People /\ t.seen \in Leave /\ t.verdict \in Verdicts /\ LeaveInv(l)
  BY <1>1 DEF TaskInv, Fits, LeavesInv
<1>3. tasks'[r] = NoTask /\ \A q \in Tasks \ {r} : tasks'[q] = tasks[q]
  BY DropFacts DEF Decide
<1>4. NoTask.pc # "decide"
  BY DEF NoTask
<1>5. CASE ~ (ValidatedByAnother(new) /\ HasValidator(new))
  <2>1. UNCHANGED <<trail, leaves>>
    BY <1>5 DEF Decide
  <2> QED
    BY <1>3, <1>4, <2>1, LeavesStay
<1>6. CASE ValidatedByAnother(new) /\ HasValidator(new)
  <2>1. leaves' = [leaves EXCEPT ![l] = new] /\ Record(event)
    BY <1>6 DEF Decide
  <2>2. Range(trail') = Range(trail) \cup {event}
    BY <2>1, RecordFacts
  <2>3. event.actor = t.by /\ event.about = l
    BY DEF Event
  <2>4. leaves'[l] = new /\ \A k \in Leaves \ {l} : leaves'[k] = leaves[k]
    BY <1>1, <1>2, <2>1
  <2>5. /\ new.of = old.of
        /\ new.status = Column(t.seen.status, t.verdict, old.status)
        /\ new.validator = Column(t.seen.validator, t.by, old.validator)
    BY <1>1, <1>2 DEF Decided, Leave
  <2>6. old.of \in People /\ old # NoLeave
    BY <1>1, <1>2 DEF DecideInv, LeaveInv
  <2> HIDE DEF new, event, old
  <2>7. new.status \in Verdicts
    <3>1. t.seen.status = t.verdict => old.status \in Verdicts
      BY <1>1, <1>2 DEF DecideInv, old
    <3> QED
      BY <1>2, <2>5, <3>1 DEF Column
  <2>8. new.validator # NoOne /\ new.validator # new.of
    BY <1>6, <2>7 DEF HasValidator, ValidatedByAnother
  <2>9. t.by # new.of
    <3>1. t.seen.validator # old.of
      BY <1>1 DEF DecideInv, old
    <3> QED
      BY <2>5, <2>8, <3>1 DEF Column
  <2>10. \E e \in Range(trail') : e.about = l /\ e.actor = new.validator
    <3>1. CASE new.validator = t.by
      BY <2>2, <2>3, <3>1
    <3>2. CASE new.validator # t.by
      <4>1. new.validator = old.validator /\ t.seen.validator = t.by
        BY <2>5, <3>2 DEF Column
      <4>2. t.seen.validator # NoOne
        BY <1>2, <4>1, PeopleAssumption
      <4>3. old.status \in Verdicts
        BY <1>1, <4>2 DEF DecideInv, old
      <4> QED
        BY <1>2, <2>2, <4>1, <4>3 DEF LeavesInv, DecisionsAreOnRecord, old
    <3> QED
      BY <3>1, <3>2
  <2>11. new # NoLeave
    BY <2>7 DEF NoLeave, Verdicts
  <2>12. DecisionsAreOnRecord' /\ \A e \in Range(trail') : e.about \in Leaves => leaves'[e.about] # NoLeave
    <3>1. ASSUME NEW k \in Leaves, leaves'[k].status \in Verdicts
          PROVE  /\ leaves'[k].validator \notin {NoOne, leaves'[k].of}
                 /\ \E e \in Range(trail') : e.about = k /\ e.actor = leaves'[k].validator
      BY <2>2, <2>4, <2>8, <2>10, <3>1 DEF LeavesInv, DecisionsAreOnRecord
    <3>2. ASSUME NEW e \in Range(trail'), e.about \in Leaves
          PROVE  e.actor # leaves'[e.about].of /\ leaves'[e.about] # NoLeave
      <4>1. CASE e \in Range(trail)
        <5>1. leaves'[e.about].of = leaves[e.about].of
          BY <2>4, <2>5, <3>2 DEF old
        <5> QED
          BY <2>4, <2>11, <3>2, <4>1, <5>1 DEF LeavesInv, DecisionsAreOnRecord
      <4>2. CASE e = event
        BY <2>3, <2>4, <2>9, <2>11, <4>2
      <4> QED
        BY <2>2, <4>1, <4>2
    <3> QED
      BY <3>1, <3>2 DEF DecisionsAreOnRecord
  <2>13. ASSUME NEW k \in Leaves PROVE LeaveInv(k)'
    <3>1. CASE k = l
      BY <2>4, <2>5, <2>6, <2>7, <2>8, <3>1 DEF LeaveInv
    <3>2. CASE k # l
      BY <2>4, <3>2 DEF LeavesInv, LeaveInv
    <3> QED
      BY <3>1, <3>2
  <2>14. ASSUME NEW q \in Tasks PROVE DecideInv(q)'
    <3>1. CASE q = r
      BY <1>3, <1>4, <3>1 DEF DecideInv
    <3>2. CASE q # r
      <4>1. DecideInv(q) /\ TaskInv(q) /\ tasks'[q] = tasks[q]
        BY <1>3, <3>2 DEF LeavesInv, TablesInv
      <4> QED
        BY <2>4, <2>5, <2>7, <2>11, <4>1 DEF DecideInv, TaskInv, Fits, old
    <3> QED
      BY <3>1, <3>2
  <2> QED
    BY <2>12, <2>13, <2>14 DEF LeavesInv
<1> QED
  BY <1>5, <1>6

-----------------------------------------------------------------------------
(***************************************************************************)
(* The limits of the contact form.                                         *)
(***************************************************************************)

\* Enquiries keep their sender and time, and no request comes to insert.
LEMMA ContactStays ==
    ASSUME ContactInv,
           \A e \in Enquiries : enquiries'[e].from = enquiries[e].from /\ enquiries'[e].at = enquiries[e].at,
           \A r \in Tasks : tasks'[r] = tasks[r] \/ tasks'[r].pc # "insert"
    PROVE  ContactInv' /\ Stored' = Stored
<1>1. Stored' = Stored
  BY DEF Stored
<1>2. \A t \in Times : {e \in Stored : t - Hour < enquiries[e].at /\ enquiries[e].at <= t}' =
                       {e \in Stored : t - Hour < enquiries[e].at /\ enquiries[e].at <= t}
  BY <1>1 DEF Stored
<1>3. ASSUME NEW s, NEW t \in Times
      PROVE  {e \in {f \in Stored : t - Hour < enquiries[f].at /\ enquiries[f].at <= t} : enquiries[e].from = s}' =
             {e \in {f \in Stored : t - Hour < enquiries[f].at /\ enquiries[f].at <= t} : enquiries[e].from = s}
  BY <1>1 DEF Stored
<1>4. EnquiriesWithinLimits'
  BY <1>2, <1>3 DEF ContactInv, EnquiriesWithinLimits
<1>5. \A t : Lately(t)' = Lately(t)
  BY <1>1 DEF Lately, Stored
<1>6. \A s, t : {e \in Lately(t) : enquiries[e].from = s}' = {e \in Lately(t) : enquiries[e].from = s}
  BY <1>5 DEF Lately, Stored
<1>7. \A s, t : WithinLimits(s, t)' <=> WithinLimits(s, t)
  BY <1>5, <1>6 DEF WithinLimits
<1>8. \A r \in Tasks : InsertInv(r)'
  BY <1>7 DEF ContactInv, InsertInv, TaskIs
<1> QED
  BY <1>1, <1>4, <1>8 DEF ContactInv

\* The function counts under the lock.
LEMMA CountContact ==
    ASSUME TablesInv, ContactInv, NEW r \in Tasks, CountEnquiries(r)
    PROVE  ContactInv' /\ Stored' = Stored
<1> DEFINE t == tasks[r]
<1>1. /\ t.pc = "submit" /\ UNCHANGED enquiries /\ tasks \in [Tasks -> Task]
      /\ \A q \in Tasks : tasks[q].pc # "insert"
  BY DEF CountEnquiries, TaskIs, SubmissionLockFree, TablesInv, DeskTypeOK
<1>2. CASE WithinLimits(t.seen, t.at)
  <2> DEFINE new == [t EXCEPT !.pc = "insert"]
  <2>1. new.pc = "insert" /\ new.seen = t.seen /\ new.at = t.at
    BY <1>1 DEF Task
  <2>2. Hold(r, new)
    BY <1>2 DEF CountEnquiries
  <2> HIDE DEF new
  <2>3. tasks'[r] = new /\ \A q \in Tasks \ {r} : tasks'[q] = tasks[q]
    BY <2>2, HoldFacts
  <2>4. EnquiriesWithinLimits' /\ Stored' = Stored
    BY <1>1 DEF ContactInv, EnquiriesWithinLimits, Stored
  <2>5. WithinLimits(t.seen, t.at)'
    <3>1. \A s, at : WithinLimits(s, at)' <=> WithinLimits(s, at)
      BY <1>1 DEF WithinLimits, Lately, Stored
    <3>2. t.seen' = tasks'[r].seen /\ t.at' = tasks'[r].at
      OBVIOUS
    <3> QED
      BY <1>2, <2>1, <2>3, <3>1
  <2>6. InsertInv(r)'
    BY <1>1, <2>1, <2>3, <2>5 DEF InsertInv, TaskIs
  <2>7. \A q \in Tasks \ {r} : InsertInv(q)'
    BY <1>1, <2>3 DEF InsertInv, TaskIs
  <2> QED
    BY <2>4, <2>6, <2>7 DEF ContactInv
<1>3. CASE ~ WithinLimits(t.seen, t.at)
  <2>1. Drop(r)
    BY <1>3 DEF CountEnquiries
  <2>2. tasks'[r] = NoTask /\ \A q \in Tasks \ {r} : tasks'[q] = tasks[q]
    BY <2>1, DropFacts
  <2> QED
    BY <1>1, <2>2, ContactStays DEF NoTask
<1> QED
  BY <1>2, <1>3

\* One more enquiry is still within the limits of every hour.
LEMMA StoreContact ==
    ASSUME TablesInv, ContactInv, NEW r \in Tasks, StoreEnquiry(r)
    PROVE  /\ ContactInv' /\ IsFiniteSet(Stored')
           /\ \E e \in Enquiries \ Stored :
                 /\ enquiries' = [enquiries EXCEPT
                       ![e] = [from |-> tasks[r].seen, at |-> tasks[r].at, handledBy |-> NoOne]]
                 /\ notices' = notices \cup
                       Notes(ActiveWith(Admins), "contact_request", e, tasks[r].at, NoOne)
                 /\ tasks'[r].pc = "inbox" /\ tasks'[r].about = e
                 /\ Stored' = Stored \cup {e}
<1> DEFINE t == tasks[r]
           e == CHOOSE free \in Enquiries : free \notin Stored
           new == [NoTask EXCEPT !.pc = "inbox", !.about = e]
           row == [from |-> t.seen, at |-> t.at, handledBy |-> NoOne]
<1>1. e \in Enquiries /\ e \notin Stored
  BY DEF StoreEnquiry, Stored
<1>2. /\ t.pc = "insert" /\ TaskInv(r) /\ InsertInv(r) /\ t \in Task
      /\ enquiries \in [Enquiries -> Enquiry]
      /\ enquiries' = [enquiries EXCEPT ![e] = row]
      /\ notices' = notices \cup Notes(ActiveWith(Admins), "contact_request", e, t.at, NoOne)
      /\ Hold(r, new)
  BY DEF StoreEnquiry, TaskIs, TablesInv, DeskTypeOK, ContactInv
<1>3. new.pc = "inbox" /\ new.about = e
  BY DEF NoTask
<1> HIDE DEF e, new
<1>4. tasks'[r] = new /\ \A q \in Tasks \ {r} : tasks'[q] = tasks[q]
  BY <1>2, HoldFacts
<1>5. t.seen \in Senders /\ t.seen # NoOne /\ t.at \in Times
  BY <1>2, ContactAssumption DEF TaskInv, Fits, Task
<1>6. /\ \A f \in Enquiries \ {e} : enquiries'[f] = enquiries[f]
      /\ enquiries'[e].from = t.seen /\ enquiries'[e].at = t.at
      /\ \A f \in Enquiries : enquiries[f].at \in Times /\ enquiries[f].at \in Nat
  BY <1>1, <1>2, TimesFacts DEF Enquiry
<1>7. Stored' = Stored \cup {e}
  BY <1>1, <1>5, <1>6 DEF Stored
<1>8. IsFiniteSet(Stored) /\ IsFiniteSet(Stored')
  BY <1>7, FS_AddElement DEF TablesInv
<1>9. Hour \in Nat /\ Hour > 0 /\ PerSender \in Nat /\ Total \in Nat
  BY ContactAssumption
<1>10. WithinLimits(t.seen, t.at)
  BY <1>2 DEF InsertInv, TaskIs
<1>11. ASSUME NEW at \in Times
       PROVE  LET kept == {f \in Stored : at - Hour < enquiries[f].at /\ enquiries[f].at <= at}'
              IN  /\ Cardinality(kept) <= Total
                  /\ \A s \in Senders :
                       Cardinality({f \in kept : enquiries'[f].from = s}) <= PerSender
  <2> DEFINE was == {f \in Stored : at - Hour < enquiries[f].at /\ enquiries[f].at <= at}
             kept == {f \in Stored' : at - Hour < enquiries'[f].at /\ enquiries'[f].at <= at}
  <2>1. /\ Cardinality(was) <= Total
        /\ \A s \in Senders : Cardinality({f \in was : enquiries[f].from = s}) <= PerSender
    BY DEF ContactInv, EnquiriesWithinLimits
  <2>2. was \subseteq Enquiries /\ e \notin was
    BY <1>1 DEF Stored
  <2>3. at \in Nat /\ t.at \in Nat
    BY <1>5, TimesFacts
  <2>4. CASE ~ (at - Hour < t.at /\ t.at <= at)
    <3>1. kept = was
      BY <1>1, <1>6, <1>7, <2>4 DEF Stored
    <3>2. \A s \in Senders : {f \in kept : enquiries'[f].from = s} = {f \in was : enquiries[f].from = s}
      BY <1>6, <2>2, <3>1
    <3> QED
      BY <2>1, <3>1, <3>2
  <2>5. CASE at - Hour < t.at /\ t.at <= at
    <3>1. kept = was \cup {e}
      BY <1>1, <1>6, <1>7, <2>5 DEF Stored
    <3>2. was \subseteq Lately(t.at)
      BY <1>6, <1>9, <2>3, <2>5 DEF Lately, Stored
    <3>3. IsFiniteSet(Lately(t.at)) /\ IsFiniteSet(was)
      BY <1>8, FS_Subset DEF Lately
    <3>4. Cardinality(was) <= Cardinality(Lately(t.at)) /\ Cardinality(was) \in Nat
          /\ Cardinality(Lately(t.at)) \in Nat
      BY <3>2, <3>3, FS_Subset, FS_CardinalityType
    <3>5. Cardinality(kept) = Cardinality(was) + 1
      BY <2>2, <3>1, <3>3, FS_AddElement
    <3>6. Cardinality(Lately(t.at)) < Total
      BY <1>10 DEF WithinLimits
    <3>7. Cardinality(kept) <= Total
      BY <1>9, <3>4, <3>5, <3>6
    <3>8. ASSUME NEW s \in Senders
          PROVE  Cardinality({f \in kept : enquiries'[f].from = s}) <= PerSender
      <4> DEFINE mine == {f \in was : enquiries[f].from = s}
                 now_ == {f \in kept : enquiries'[f].from = s}
                 late == {f \in Lately(t.at) : enquiries[f].from = s}
      <4>1. CASE s # t.seen
        <5>1. now_ = mine
          BY <1>6, <2>2, <3>1, <4>1
        <5> QED
          BY <2>1, <5>1
      <4>2. CASE s = t.seen
        <5>1. now_ = mine \cup {e} /\ e \notin mine
          BY <1>6, <2>2, <3>1, <4>2
        <5>2. mine \subseteq late /\ IsFiniteSet(mine) /\ IsFiniteSet(late)
          BY <3>2, <3>3, FS_Subset
        <5>3. Cardinality(mine) <= Cardinality(late) /\ Cardinality(mine) \in Nat
              /\ Cardinality(late) \in Nat
          BY <5>2, FS_Subset, FS_CardinalityType
        <5>4. Cardinality(now_) = Cardinality(mine) + 1
          BY <5>1, <5>2, FS_AddElement
        <5>5. Cardinality(late) < PerSender
          BY <1>10, <4>2 DEF WithinLimits
        <5> QED
          BY <1>9, <5>3, <5>4, <5>5
      <4> QED
        BY <4>1, <4>2
    <3> QED
      BY <3>7, <3>8
  <2> QED
    BY <2>4, <2>5
<1>12. EnquiriesWithinLimits'
  BY <1>11 DEF EnquiriesWithinLimits
<1>13. \A q \in Tasks : tasks'[q].pc # "insert"
  BY <1>2, <1>3, <1>4 DEF InsertInv, TaskIs
<1>14. ContactInv'
  BY <1>12, <1>13 DEF ContactInv, InsertInv, TaskIs
<1> QED
  BY <1>1, <1>2, <1>3, <1>4, <1>7, <1>8, <1>14

-----------------------------------------------------------------------------
(***************************************************************************)
(* E-mails.                                                                *)
(***************************************************************************)

\* An e-mail that has not been sent leaves once, or not at all.
LEMMA SendEmailFacts ==
    ASSUME NEW of, SendEmail(of), ~ Mailed(of)
    PROVE  /\ mails' = mails \/ mails' = mails \cup {[of |-> of, times |-> 1]}
           /\ \A x : Mailed(x)' => Mailed(x) \/ x = of
<1>1. {m \in mails : m.of = of} = {}
  BY DEF Mailed
<1>2. Cardinality({m \in mails : m.of = of}) = 0
  BY <1>1, FS_EmptySet
<1>3. mails' = mails \/ mails' = mails \cup {[of |-> of, times |-> 1]}
  BY <1>2 DEF SendEmail
<1>4. \A x : Mailed(x)' => Mailed(x) \/ x = of
  BY <1>3 DEF Mailed
<1> QED
  BY <1>3, <1>4

\* Nothing is sent, rows stay stored, and no request comes to its e-mail.
LEMMA MailsStay ==
    ASSUME MailsInv, UNCHANGED mails, Stored \subseteq Stored',
           \A n \in notices : \E m \in notices' : Same(m, n) /\ m.copy = n.copy,
           \A r \in Tasks : tasks'[r] = tasks[r] \/ tasks'[r].pc # "inbox"
    PROVE  MailsInv'
<1>1. ASSUME NEW m \in mails, m.of \notin Enquiries
      PROVE  \E n \in notices' : Same(n, m.of) /\ n.copy = m.of.copy
  <2>1. PICK n \in notices : Same(n, m.of) /\ n.copy = m.of.copy
    BY <1>1 DEF MailsInv, MailsAreOfStoredRows
  <2>2. PICK k \in notices' : Same(k, n) /\ k.copy = n.copy
    OBVIOUS
  <2> QED
    BY <2>1, <2>2 DEF Same
<1>2. MailsAreOfStoredRows'
  BY <1>1 DEF MailsInv, MailsAreOfStoredRows
<1>3. \A r \in Tasks : InboxInv(r)'
  BY DEF MailsInv, InboxInv, TaskIs, Mailed
<1> QED
  BY <1>2, <1>3 DEF MailsInv

\* The enquiry that is stored has not been e-mailed.
LEMMA StoreMails ==
    ASSUME TablesInv, ContactInv, MailsInv, NEW r \in Tasks, StoreEnquiry(r)
    PROVE  MailsInv'
<1>1. PICK e \in Enquiries \ Stored :
         /\ notices' = notices \cup
               Notes(ActiveWith(Admins), "contact_request", e, tasks[r].at, NoOne)
         /\ tasks'[r].pc = "inbox" /\ tasks'[r].about = e
         /\ Stored' = Stored \cup {e}
  BY StoreContact
<1>2. UNCHANGED mails /\ \A q \in Tasks \ {r} : tasks'[q] = tasks[q]
  BY DEF StoreEnquiry, Hold, TablesInv, DeskTypeOK
<1>3. MailsAreOfStoredRows'
  BY <1>1, <1>2 DEF MailsInv, MailsAreOfStoredRows
<1>4. ~ Mailed(e)
  BY <1>1 DEF MailsInv, MailsAreOfStoredRows, Mailed
<1>5. \A q \in Tasks \ {r} : TaskIs(q, "inbox") => tasks[q].about # e
  BY <1>1 DEF TablesInv, TaskInv, Fits, TaskIs
<1>6. \A q \in Tasks : InboxInv(q)'
  BY <1>1, <1>2, <1>4, <1>5 DEF MailsInv, InboxInv, TaskIs, Mailed
<1> QED
  BY <1>3, <1>6 DEF MailsInv

\* The request that stored an enquiry e-mails it.
LEMMA InboxMails ==
    ASSUME TablesInv, MailsInv, NEW r \in Tasks, EmailInbox(r)
    PROVE  /\ MailsInv'
           /\ \A n \in Notice : Mailed(n)' => Mailed(n)
           /\ mails' \subseteq [of : Notice \cup Enquiries, times : Nat]
<1> DEFINE e == tasks[r].about
<1>1. /\ tasks[r].pc = "inbox" /\ SendEmail(e) /\ Drop(r)
      /\ UNCHANGED <<notices, enquiries>> /\ TaskInv(r) /\ InboxInv(r)
      /\ mails \subseteq [of : Notice \cup Enquiries, times : Nat]
  BY DEF EmailInbox, TaskIs, TablesInv, DeskTypeOK, MailsInv
<1>2. e \in Stored /\ e \in Enquiries /\ ~ Mailed(e)
      /\ \A q \in Tasks \ {r} : TaskIs(q, "inbox") => tasks[q].about # e
  BY <1>1 DEF TaskInv, Fits, InboxInv, TaskIs, Stored
<1> HIDE DEF e
<1>3. /\ mails' = mails \/ mails' = mails \cup {[of |-> e, times |-> 1]}
      /\ \A x : Mailed(x)' => Mailed(x) \/ x = e
  BY <1>1, <1>2, SendEmailFacts
<1>4. tasks'[r] = NoTask /\ \A q \in Tasks \ {r} : tasks'[q] = tasks[q]
  BY <1>1, DropFacts
<1>5. MailsAreOfStoredRows'
  <2>1. Stored' = Stored
    BY <1>1 DEF Stored
  <2> QED
    BY <1>1, <1>2, <1>3, <2>1 DEF MailsInv, MailsAreOfStoredRows
<1>6. InboxInv(r)'
  BY <1>4 DEF InboxInv, TaskIs, NoTask
<1>7. ASSUME NEW q \in Tasks \ {r} PROVE InboxInv(q)'
  <2>1. InboxInv(q) /\ tasks'[q] = tasks[q]
    BY <1>4 DEF MailsInv
  <2>2. TaskIs(q, "inbox") => tasks[q].about # e
    BY <1>2
  <2>3. TaskIs(q, "inbox") => ~ Mailed(tasks[q].about)'
    BY <1>3, <2>1, <2>2 DEF InboxInv
  <2>4. TaskIs(q, "inbox") => \A p \in Tasks \ {q} : TaskIs(p, "inbox")' => tasks'[p].about # tasks[q].about
    BY <1>4, <2>1 DEF InboxInv, TaskIs, NoTask
  <2> QED
    BY <2>1, <2>3, <2>4 DEF InboxInv, TaskIs, Mailed
<1>8. \A n \in Notice : n # e
  BY <1>2, IdsAssumption
<1> QED
  BY <1>1, <1>2, <1>3, <1>5, <1>6, <1>7, <1>8 DEF MailsInv

\* A pass e-mails a reminder it has committed.
LEMMA MailMails ==
    ASSUME TablesInv, RemindersInv, MailsInv, NEW w \in Workers, Mail(w)
    PROVE  MailsInv' /\ mails' \subseteq [of : Notice \cup Enquiries, times : Nat]
<1>1. /\ passes[w].pc = "mail" /\ UNCHANGED <<notices, enquiries, tasks>>
      /\ PassInv(w) /\ passes[w].told \subseteq Notice
      /\ mails \subseteq [of : Notice \cup Enquiries, times : Nat]
  BY DEF Mail, UntouchedByPass, reading, RemindersInv, TablesInv, DeskTypeOK, Pass
<1>2. CASE UNCHANGED mails
  <2>1. MailsInv'
    BY <1>1, <1>2, MailsStay DEF Stored, Same
  <2> QED
    BY <1>1, <1>2, <2>1
<1>3. ASSUME NEW n \in passes[w].told, SendEmail(n)
      PROVE  MailsInv' /\ mails' \subseteq [of : Notice \cup Enquiries, times : Nat]
  <2>1. Kept(n) /\ ~ Mailed(n) /\ n \in Notice /\ n \notin Enquiries
    BY <1>1, IdsAssumption DEF PassInv
  <2>2. /\ mails' = mails \/ mails' = mails \cup {[of |-> n, times |-> 1]}
        /\ \A x : Mailed(x)' => Mailed(x) \/ x = n
    BY <1>3, <2>1, SendEmailFacts
  <2>3. MailsAreOfStoredRows'
    <3>1. Stored' = Stored
      BY <1>1 DEF Stored
    <3>2. \A m \in mails' : m \in mails \/ (m.times = 1 /\ m.of = n)
      BY <2>2
    <3> QED
      BY <1>1, <2>1, <3>1, <3>2 DEF MailsInv, MailsAreOfStoredRows, Kept
  <2>4. ASSUME NEW q \in Tasks PROVE InboxInv(q)'
    <3>1. InboxInv(q) /\ TaskInv(q)
      BY DEF MailsInv, TablesInv
    <3>2. TaskIs(q, "inbox") => tasks[q].about # n
      BY <2>1, <3>1 DEF TaskInv, Fits, TaskIs, Stored
    <3>3. TaskIs(q, "inbox") => ~ \E m \in mails' : m.of = tasks[q].about
      BY <2>2, <3>1, <3>2 DEF InboxInv, Mailed
    <3> QED
      BY <1>1, <3>1, <3>3 DEF InboxInv, TaskIs, Mailed
  <2> QED
    BY <1>1, <2>1, <2>2, <2>3, <2>4 DEF MailsInv
<1> QED
  BY <1>2, <1>3 DEF Mail

-----------------------------------------------------------------------------
(***************************************************************************)
(* Reminders.                                                              *)
(***************************************************************************)

\* What the types say of times and rows.
LEMMA RowFacts ==
    ASSUME TablesInv
    PROVE  /\ now \in Nat
           /\ \A n \in Notice : n.at \in Nat /\ n.at \in Times
           /\ \A i \in Invoices : invoices[i].since \in Nat /\ invoices[i].since <= now
           /\ \A i \in Invoices : invoices[i] \in Row
           /\ passes \in [Workers -> Pass]
           /\ \A w \in Workers :
                 /\ passes[w].at \in Nat /\ passes[w].at \in Times
                 /\ passes[w].told \subseteq Notice
           /\ notices \subseteq Notice /\ IsFiniteSet(notices)
           /\ \A n \in notices : n.at <= now
<1>1. \A n \in Notice : n.at \in Nat /\ n.at \in Times
  BY TimesFacts DEF Notice
<1>2. now \in Nat /\ invoices \in [Invoices -> Row] /\ passes \in [Workers -> Pass]
      /\ notices \subseteq Notice /\ IsFiniteSet(notices)
  BY TimesFacts DEF TablesInv, DeskTypeOK
<1>3. \A i \in Invoices : invoices[i].since \in Nat
  BY <1>2, TimesFacts DEF Row
<1>4. \A w \in Workers : passes[w].at \in Nat /\ passes[w].at \in Times /\ passes[w].told \subseteq Notice
  BY <1>2, TimesFacts DEF Pass
<1> QED
  BY <1>1, <1>2, <1>3, <1>4 DEF TablesInv

\* A reminder of the step an invoice is at is of a later time than the step.
LEMMA ChasingFacts ==
    ASSUME TablesInv, NEW n \in Notice, ChasesNow(n)
    PROVE  LET row == invoices[n.about]
           IN  /\ n.about \in Invoices /\ n.kind \in ReminderKinds
               /\ row.since < n.at
               /\ PeriodStart(row, n.at) <= n.at
<1> DEFINE row == invoices[n.about]
<1>1. n.about \in Invoices /\ row.step \in Steps /\ n.kind = KindOf[row.step]
      /\ n.at >= row.since + DelayOf[row.step]
  BY DEF ChasesNow
<1>2. row.since \in Nat /\ n.at \in Nat
  BY <1>1, RowFacts
<1> HIDE DEF row
<1>3. n.kind \in ReminderKinds /\ row.since < n.at
  BY <1>1, <1>2, StepsFacts
<1>4. PeriodStart(row, n.at) <= n.at
  BY <1>1, <1>2, <1>3, PeriodFacts
<1> QED
  BY <1>1, <1>3, <1>4 DEF row

\* Invoices move on and other notices are written: a reminder of the step an
\* invoice has just come to is of a time that has not come.
LEMMA RemindersStay ==
    ASSUME TablesInv, RemindersInv, UNCHANGED <<now, passes>>,
           \A i \in Invoices : invoices'[i] = invoices[i] \/ invoices'[i].since = now,
           NEW new \in SUBSET Notice, notices' = notices \cup new,
           \A n \in new : n.kind \notin ReminderKinds,
           \A n \in Notice : Mailed(n)' => Mailed(n)
    PROVE  RemindersInv'
<1>1. ASSUME NEW n \in Notice, n.at <= now, ChasesNow(n)'
      PROVE  /\ ChasesNow(n) /\ invoices'[n.about] = invoices[n.about]
             /\ n.kind \in ReminderKinds
  <2> DEFINE row == invoices'[n.about]
  <2>1. n.about \in Invoices /\ row.step \in Steps /\ n.kind = KindOf[row.step]
        /\ n.at >= row.since + DelayOf[row.step]
    BY <1>1 DEF ChasesNow
  <2>2. n.at \in Nat /\ now \in Nat
    BY RowFacts
  <2>3. row.since # now
    BY <1>1, <2>1, <2>2, StepsFacts
  <2>4. row = invoices[n.about]
    BY <2>1, <2>3
  <2> QED
    BY <2>1, <2>4, StepsFacts DEF ChasesNow
<1>2. PeriodsInv'
  <2> SUFFICES ASSUME NEW n \in notices', NEW m \in notices', ChasesNow(n)', ChasesNow(m)',
                      Likewise(n, m),
                      PeriodStart(invoices'[n.about], n.at) = PeriodStart(invoices'[m.about], m.at)
               PROVE  n = m
    BY DEF PeriodsInv, Likewise, PeriodStart
  <2>1. n.kind \in ReminderKinds /\ m.kind \in ReminderKinds
    BY StepsFacts DEF ChasesNow
  <2>2. n \in notices /\ m \in notices
    BY <2>1
  <2>3. /\ ChasesNow(n) /\ invoices'[n.about] = invoices[n.about]
        /\ ChasesNow(m) /\ invoices'[m.about] = invoices[m.about]
    BY <1>1, <2>2, RowFacts
  <2> QED
    BY <2>2, <2>3 DEF RemindersInv, PeriodsInv
<1>3. ASSUME NEW w \in Workers PROVE PassInv(w)'
  <2> DEFINE p == passes[w]
  <2>1. PassInv(w) /\ passes' = passes /\ p.told \subseteq Notice
        /\ now' = now /\ now \in Nat /\ p.at \in Nat
    BY RowFacts DEF RemindersInv
  <2>2. p.pc = "write" =>
          \A i \in Invoices : p.seen[i] = invoices'[i] \/ p.at <= invoices'[i].since
    BY <2>1 DEF PassInv
  <2>3. ASSUME p.pc = "commit", NEW n \in p.told PROVE IsNews(n)'
    <3>1. IsNews(n) /\ n.kind \in ReminderKinds /\ n.at <= now /\ n \in Notice
      BY <2>1, <2>3 DEF PassInv
    <3> SUFFICES ASSUME NEW m \in notices'
                 PROVE  /\ ~ Same(m, n)
                        /\ ChasesNow(n)' /\ Likewise(m, n) =>
                               m.at < PeriodStart(invoices'[n.about], n.at)
      BY DEF IsNews, Same, Likewise, PeriodStart
    <3>2. m.kind \in ReminderKinds => m \in notices
      OBVIOUS
    <3>3. ~ Same(m, n)
      BY <3>1, <3>2 DEF IsNews, Same
    <3>4. ChasesNow(n)' /\ Likewise(m, n) => m.at < PeriodStart(invoices'[n.about], n.at)
      BY <1>1, <3>1, <3>2 DEF IsNews, Likewise
    <3> QED
      BY <3>3, <3>4
  <2>4. ASSUME p.pc = "mail", NEW n \in p.told PROVE Kept(n)' /\ ~ Mailed(n)'
    BY <2>1, <2>4 DEF PassInv, Kept
  <2> QED
    BY <2>1, <2>2, <2>3, <2>4 DEF PassInv, AtWork
<1> QED
  BY <1>2, <1>3 DEF RemindersInv

\* Notices are read or cleared: the rows stay, with their times.
LEMMA RemindersRead ==
    ASSUME TablesInv, RemindersInv, UNCHANGED <<now, passes, invoices, mails>>,
           NEW f, notices' = {f[n] : n \in notices},
           \A n \in notices : Same(n, f[n]) /\ n.copy = f[n].copy
    PROVE  RemindersInv'
<1>1. ASSUME NEW n, NEW m, Same(n, m)
      PROVE  /\ ChasesNow(m)' => ChasesNow(n)
             /\ \A k : Likewise(m, k) => Likewise(n, k)
             /\ n.about = m.about /\ n.at = m.at
  BY <1>1 DEF ChasesNow, Same, Likewise
<1>2. PeriodsInv'
  <2> SUFFICES ASSUME NEW n \in notices, NEW m \in notices, ChasesNow(f[n])', ChasesNow(f[m])',
                      Likewise(f[n], f[m]),
                      PeriodStart(invoices[f[n].about], f[n].at) = PeriodStart(invoices[f[m].about], f[m].at)
               PROVE  f[n] = f[m]
    BY DEF PeriodsInv, Likewise, PeriodStart
  <2>1. Likewise(n, m)
    BY DEF Likewise, Same
  <2>2. ChasesNow(n) /\ ChasesNow(m) /\ n.about = f[n].about /\ n.at = f[n].at
        /\ m.about = f[m].about /\ m.at = f[m].at
    BY <1>1
  <2> QED
    BY <2>1, <2>2 DEF RemindersInv, PeriodsInv
<1>3. ASSUME NEW w \in Workers PROVE PassInv(w)'
  <2>1. PassInv(w)
    BY DEF RemindersInv
  <2>2. ASSUME NEW n, IsNews(n) PROVE IsNews(n)'
    <3> SUFFICES ASSUME NEW m \in notices
                 PROVE  /\ ~ Same(f[m], n)
                        /\ ChasesNow(n)' /\ Likewise(f[m], n) =>
                               f[m].at < PeriodStart(invoices[n.about], n.at)
      BY DEF IsNews, Same, Likewise, PeriodStart
    <3>1. Likewise(f[m], n) => Likewise(m, n)
      BY <1>1
    <3>2. f[m].at = m.at /\ (Same(f[m], n) => Same(m, n))
      BY DEF Same
    <3>3. ChasesNow(n)' => ChasesNow(n)
      BY DEF ChasesNow
    <3> QED
      BY <2>2, <3>1, <3>2, <3>3 DEF IsNews
  <2>3. ASSUME NEW n, Kept(n) PROVE Kept(n)'
    <3>1. PICK m \in notices : Same(m, n) /\ m.copy = n.copy
      BY <2>3 DEF Kept
    <3>2. Same(f[m], n) /\ f[m].copy = n.copy
      BY <3>1 DEF Same
    <3> QED
      BY <3>2 DEF Kept
  <2>4. \A n : Mailed(n)' <=> Mailed(n)
    BY DEF Mailed
  <2>5. passes' = passes /\ invoices' = invoices /\ now' = now
    OBVIOUS
  <2> QED
    BY <2>1, <2>2, <2>3, <2>4, <2>5 DEF PassInv, AtWork
<1> QED
  BY <1>2, <1>3 DEF RemindersInv

\* A step of one pass that leaves it with nothing to e-mail: the other passes
\* hold what they held, and one at most is at work.
LEMMA OthersPass ==
    ASSUME TablesInv, RemindersInv, UNCHANGED <<now, invoices, notices, mails>>,
           NEW w \in Workers, NEW p \in Pass, passes' = [passes EXCEPT ![w] = p],
           p.pc # "mail",
           p.pc \in {"read", "write", "commit"} => \A v \in Workers : AtWork(v) => v = w
    PROVE  /\ PeriodsInv'
           /\ \A v \in Workers \ {w} : PassInv(v)'
           /\ passes'[w] = p
           /\ \A v \in Workers : AtWork(v)' /\ AtWork(w)' => v = w
           /\ passes' \in [Workers -> Pass]
<1>1. passes'[w] = p /\ passes' \in [Workers -> Pass]
      /\ \A v \in Workers \ {w} : passes'[v] = passes[v]
  BY RowFacts
<1>2. \A n : (ChasesNow(n)' <=> ChasesNow(n)) /\ (IsNews(n)' <=> IsNews(n))
  BY DEF ChasesNow, IsNews, PeriodStart
<1>3. PeriodsInv'
  BY <1>2 DEF RemindersInv, PeriodsInv, PeriodStart
<1>4. \A v \in Workers : AtWork(v)' /\ AtWork(w)' => v = w
  BY <1>1 DEF AtWork
<1>5. ASSUME NEW v \in Workers \ {w} PROVE PassInv(v)'
  <2>1. PassInv(v) /\ passes'[v] = passes[v]
    BY <1>1 DEF RemindersInv
  <2>2. \A u \in Workers : AtWork(u)' /\ AtWork(v)' => u = v
    <3>1. \A u \in Workers \ {w} : AtWork(u)' => AtWork(u)
      BY <1>1 DEF AtWork
    <3>2. AtWork(w)' => ~ AtWork(v)'
      BY <1>4
    <3> QED
      BY <2>1, <3>1, <3>2 DEF PassInv
  <2>3. \A n : (Kept(n)' <=> Kept(n)) /\ (Mailed(n)' <=> Mailed(n))
    BY DEF Kept, Mailed
  <2>4. passes[v].pc = "mail" =>
           \A u \in Workers \ {v} : passes'[u].pc = "mail" => passes'[u].told \cap passes[v].told = {}
    BY <1>1, <2>1 DEF PassInv
  <2> QED
    BY <1>2, <2>1, <2>2, <2>3, <2>4 DEF PassInv
<1> QED
  BY <1>1, <1>3, <1>4, <1>5

\* A pass notes the time.
LEMMA StartReminders ==
    ASSUME TablesInv, RemindersInv, NEW w \in Workers, StartPass(w)
    PROVE  RemindersInv' /\ passes' \in [Workers -> Pass]
<1> DEFINE p == [Asleep EXCEPT !.pc = "lock", !.at = now]
<1>1. p.pc = "lock" /\ p.at = now /\ p.told = {} /\ p \in Pass
  BY DEF Asleep, Pass, TablesInv, DeskTypeOK
<1>2. passes' = [passes EXCEPT ![w] = p] /\ UNCHANGED <<now, invoices, notices, mails>>
  BY DEF StartPass, UntouchedByPass
<1> HIDE DEF p
<1>3. /\ PeriodsInv'
      /\ \A v \in Workers \ {w} : PassInv(v)'
      /\ passes'[w] = p
      /\ \A v \in Workers : AtWork(v)' /\ AtWork(w)' => v = w
      /\ passes' \in [Workers -> Pass]
  BY <1>1, <1>2, OthersPass
<1>4. PassInv(w)'
  <2>1. p.at <= now' /\ now' = now
    BY <1>1, <1>2, RowFacts
  <2>2. IsFiniteSet(p.told)
    BY <1>1, FS_EmptySet
  <2> QED
    BY <1>1, <1>3, <2>1, <2>2 DEF PassInv
<1> QED
  BY <1>3, <1>4 DEF RemindersInv

\* A pass that ends, or fails, forgets what it had.
LEMMA AsleepReminders ==
    ASSUME TablesInv, RemindersInv, NEW w \in Workers,
           passes' = [passes EXCEPT ![w] = Asleep],
           UNCHANGED <<now, invoices, notices, mails>>
    PROVE  RemindersInv' /\ passes' \in [Workers -> Pass]
<1>1. Asleep.pc = "asleep" /\ Asleep.at = 0 /\ Asleep.told = {} /\ Asleep \in Pass
  BY TimesFacts DEF Asleep, Pass
<1>2. /\ PeriodsInv'
      /\ \A v \in Workers \ {w} : PassInv(v)'
      /\ passes'[w] = Asleep
      /\ \A v \in Workers : AtWork(v)' /\ AtWork(w)' => v = w
      /\ passes' \in [Workers -> Pass]
  BY <1>1, OthersPass
<1>3. PassInv(w)'
  BY <1>1, <1>2, RowFacts, FS_EmptySet DEF PassInv
<1> QED
  BY <1>2, <1>3 DEF RemindersInv

\* The lock is free for one pass at a time.
LEMMA LockReminders ==
    ASSUME TablesInv, RemindersInv, NEW w \in Workers, TryLock(w)
    PROVE  RemindersInv' /\ passes' \in [Workers -> Pass]
<1>1. passes[w].pc = "lock" /\ UNCHANGED <<now, invoices, notices, mails>> /\ passes[w] \in Pass
      /\ PassInv(w)
  BY RowFacts DEF TryLock, UntouchedByPass, RemindersInv
<1>2. CASE LockHeld
  <2>1. passes' = [passes EXCEPT ![w] = Asleep]
    BY <1>2 DEF TryLock
  <2> QED
    BY <1>1, <2>1, AsleepReminders
<1>3. CASE ~ LockHeld
  <2> DEFINE p == [passes[w] EXCEPT !.pc = "read"]
  <2>1. passes' = [passes EXCEPT ![w] = p]
    BY <1>3 DEF TryLock
  <2>2. p.pc = "read" /\ p.at = passes[w].at /\ p.told = passes[w].told /\ p \in Pass
    BY <1>1 DEF Pass
  <2> HIDE DEF p
  <2>3. \A v \in Workers : ~ AtWork(v)
    BY <1>3 DEF LockHeld, AtWork
  <2>4. /\ PeriodsInv'
        /\ \A v \in Workers \ {w} : PassInv(v)'
        /\ passes'[w] = p
        /\ \A v \in Workers : AtWork(v)' /\ AtWork(w)' => v = w
        /\ passes' \in [Workers -> Pass]
    BY <1>1, <2>1, <2>2, <2>3, OthersPass
  <2>5. PassInv(w)'
    BY <1>1, <2>2, <2>4 DEF PassInv
  <2> QED
    BY <2>4, <2>5 DEF RemindersInv
<1> QED
  BY <1>2, <1>3

\* A pass reads the invoices.
LEMMA ReadReminders ==
    ASSUME TablesInv, RemindersInv, NEW w \in Workers, ReadInvoices(w)
    PROVE  RemindersInv' /\ passes' \in [Workers -> Pass]
<1> DEFINE p == [passes[w] EXCEPT !.pc = "write", !.seen = invoices]
<1>1. passes[w].pc = "read" /\ UNCHANGED <<now, invoices, notices, mails>> /\ passes[w] \in Pass
      /\ PassInv(w) /\ passes' = [passes EXCEPT ![w] = p] /\ invoices \in [Invoices -> Row]
  BY RowFacts DEF ReadInvoices, UntouchedByPass, RemindersInv, TablesInv, DeskTypeOK
<1>2. p.pc = "write" /\ p.at = passes[w].at /\ p.told = passes[w].told /\ p.seen = invoices
      /\ p \in Pass
  BY <1>1 DEF Pass
<1> HIDE DEF p
<1>3. \A v \in Workers : AtWork(v) => v = w
  BY <1>1 DEF PassInv, AtWork
<1>4. /\ PeriodsInv'
      /\ \A v \in Workers \ {w} : PassInv(v)'
      /\ passes'[w] = p
      /\ \A v \in Workers : AtWork(v)' /\ AtWork(w)' => v = w
      /\ passes' \in [Workers -> Pass]
  BY <1>1, <1>2, <1>3, OthersPass
<1>5. PassInv(w)'
  BY <1>1, <1>2, <1>4 DEF PassInv
<1> QED
  BY <1>4, <1>5 DEF RemindersInv

\* What the pass has read may be stale, but then it goes by a time before the
\* step the invoice is at now: what it writes reminds of an earlier step.
LEMMA WriteReminders ==
    ASSUME TablesInv, RemindersInv, NEW w \in Workers, Write(w)
    PROVE  RemindersInv' /\ passes' \in [Workers -> Pass]
<1> DEFINE seen == passes[w].seen
           t == passes[w].at
           new == DueNotes(seen, t)
           p == [Asleep EXCEPT !.pc = "commit", !.told = new]
<1>1. /\ passes[w].pc = "write" /\ PassInv(w)
      /\ passes' = [passes EXCEPT ![w] = p]
      /\ UNCHANGED <<now, invoices, notices, mails>>
  BY DEF Write, UntouchedByPass, RemindersInv
<1>2. seen \in [Invoices -> Row] /\ t \in Times /\ t \in Nat /\ t <= now
      /\ \A i \in Invoices : seen[i] = invoices[i] \/ t <= invoices[i].since
  BY <1>1, RowFacts DEF PassInv
<1>3. active \subseteq People /\ IsFiniteSet(notices)
  BY DEF TablesInv, DeskTypeOK
<1> HIDE DEF seen, t
<1>4. /\ new \subseteq Notice
      /\ IsFiniteSet(new)
      /\ \A n \in new :
            /\ n.about \in Invoices /\ n.at = t
            /\ IsDue(seen[n.about], t)
            /\ n.kind = KindOf[seen[n.about].step]
            /\ Uncovered(n.to, n.about, seen[n.about], t)
      /\ \A n, m \in new : n.to = m.to /\ n.about = m.about => n = m
  BY <1>2, <1>3, DueNotesFacts
<1> HIDE DEF new
<1>5. ASSUME NEW n \in new PROVE IsNews(n) /\ n.kind \in ReminderKinds /\ n.at <= now
  <2> DEFINE row == seen[n.about]
  <2>1. /\ n.about \in Invoices /\ n.at = t /\ n \in Notice
        /\ row.step \in Steps /\ t - row.since >= DelayOf[row.step]
        /\ n.kind = KindOf[row.step]
        /\ Uncovered(n.to, n.about, row, t)
    BY <1>4 DEF IsDue
  <2>2. row.since \in Nat /\ DelayOf[row.step] \in Nat /\ DelayOf[row.step] > 0
    BY <1>2, <2>1, TimesFacts, StepsFacts DEF Row
  <2>3. row = invoices[n.about] \/ t <= invoices[n.about].since
    BY <1>2, <2>1
  <2> HIDE DEF row
  <2>4. row.since <= t
    BY <1>2, <2>1, <2>2
  <2>5. PeriodStart(row, t) <= t /\ PeriodStart(row, t) \in Nat
    BY <1>2, <2>1, <2>2, <2>4, PeriodFacts
  <2>6. ASSUME NEW m \in notices, Likewise(m, n) PROVE ~ (m.at >= PeriodStart(row, t))
    BY <2>1, <2>6 DEF Uncovered, Likewise
  <2>7. ASSUME NEW m \in notices PROVE ~ Same(m, n)
    BY <2>1, <2>5, <2>6 DEF Same, Likewise
  <2>8. ChasesNow(n) => row = invoices[n.about]
    <3>1. ChasesNow(n) => invoices[n.about].since < n.at
      BY <2>1, ChasingFacts
    <3>2. invoices[n.about].since \in Nat
      BY <2>1, RowFacts
    <3> QED
      BY <1>2, <2>1, <2>3, <3>1, <3>2
  <2>9. ASSUME NEW m \in notices, ChasesNow(n), Likewise(m, n)
        PROVE  m.at < PeriodStart(invoices[n.about], n.at)
    <3>1. m.at \in Nat
      BY RowFacts
    <3> QED
      BY <2>1, <2>5, <2>6, <2>8, <2>9, <3>1
  <2> QED
    BY <1>2, <2>1, <2>7, <2>9, StepsFacts DEF IsNews
<1>6. p.pc = "commit" /\ p.at = 0 /\ p.told = new /\ p \in Pass
  BY <1>4, TimesFacts DEF Asleep, Pass
<1> HIDE DEF p
<1>7. \A v \in Workers : AtWork(v) => v = w
  BY <1>1 DEF PassInv, AtWork
<1>8. /\ PeriodsInv'
      /\ \A v \in Workers \ {w} : PassInv(v)'
      /\ passes'[w] = p
      /\ \A v \in Workers : AtWork(v)' /\ AtWork(w)' => v = w
      /\ passes' \in [Workers -> Pass]
  BY <1>1, <1>6, <1>7, OthersPass
<1>9. PassInv(w)'
  <2>1. \A n : IsNews(n)' <=> IsNews(n)
    BY <1>1 DEF IsNews, ChasesNow, PeriodStart
  <2>2. p.at <= now' /\ now' = now
    BY <1>1, <1>6, RowFacts
  <2> QED
    BY <1>4, <1>5, <1>6, <1>8, <2>1, <2>2 DEF PassInv
<1> QED
  BY <1>8, <1>9 DEF RemindersInv

\* The reminders of a pass are committed: each is the first of its period.
LEMMA CommitReminders ==
    ASSUME TablesInv, RemindersInv, MailsInv, NEW w \in Workers, CommitPass(w)
    PROVE  /\ RemindersInv' /\ passes' \in [Workers -> Pass]
           /\ notices' \subseteq Notice /\ IsFiniteSet(notices')
           /\ \A n \in notices' : n.at <= now
<1> DEFINE new == passes[w].told
           p == [passes[w] EXCEPT !.pc = "mail"]
<1>1. /\ passes[w].pc = "commit" /\ PassInv(w) /\ passes[w] \in Pass
      /\ notices' = notices \cup new
      /\ passes' = [passes EXCEPT ![w] = p]
      /\ UNCHANGED <<now, invoices, mails>>
  BY RowFacts DEF CommitPass, UntouchedByPass, RemindersInv
<1>2. /\ p.pc = "mail" /\ p.at = passes[w].at /\ p.told = new /\ p \in Pass
      /\ new \subseteq Notice
  BY <1>1 DEF Pass
<1> HIDE DEF p
<1>3. /\ IsFiniteSet(new) /\ p.at <= now
      /\ \A n \in new : n.kind \in ReminderKinds /\ n.at <= now /\ IsNews(n)
      /\ \A n, m \in new : n.to = m.to /\ n.about = m.about => n = m
      /\ \A v \in Workers : AtWork(v) => v = w
  BY <1>1, <1>2 DEF PassInv, AtWork
<1> HIDE DEF new
<1>4. passes'[w] = p /\ passes' \in [Workers -> Pass]
      /\ \A v \in Workers \ {w} : passes'[v] = passes[v]
  BY <1>1, <1>2, RowFacts
<1>5. /\ notices' \subseteq Notice /\ IsFiniteSet(notices') /\ \A n \in notices' : n.at <= now
  BY <1>1, <1>2, <1>3, RowFacts, FS_Union
<1>6. \A n : ChasesNow(n)' <=> ChasesNow(n)
  BY <1>1 DEF ChasesNow
<1>7. ASSUME NEW n \in new, NEW m \in notices, ChasesNow(n), ChasesNow(m), Likewise(m, n)
      PROVE  PeriodStart(invoices[n.about], n.at) # PeriodStart(invoices[m.about], m.at)
  <2>1. m.at < PeriodStart(invoices[n.about], n.at)
    BY <1>3, <1>7 DEF IsNews
  <2>2. PeriodStart(invoices[m.about], m.at) <= m.at /\ m.at \in Nat
        /\ m.about \in Invoices /\ m.about = n.about
        /\ invoices[m.about].step \in Steps /\ invoices[m.about].since < m.at
    BY <1>7, RowFacts, ChasingFacts DEF Likewise, ChasesNow
  <2>3. PeriodStart(invoices[m.about], m.at) \in Nat
    BY <2>2, RowFacts, PeriodFacts
  <2>4. PeriodStart(invoices[n.about], n.at) \in Nat
    <3>1. invoices[n.about].since < n.at /\ n.at \in Nat
      BY <1>2, <1>7, RowFacts, ChasingFacts
    <3> QED
      BY <2>2, <3>1, RowFacts, PeriodFacts
  <2> QED
    BY <2>1, <2>2, <2>3, <2>4
<1>8. PeriodsInv'
  <2> SUFFICES ASSUME NEW n \in notices', NEW m \in notices', ChasesNow(n), ChasesNow(m),
                      Likewise(n, m),
                      PeriodStart(invoices[n.about], n.at) = PeriodStart(invoices[m.about], m.at)
               PROVE  n = m
    BY <1>1, <1>6 DEF PeriodsInv, PeriodStart
  <2>1. Likewise(m, n) /\ n.to = m.to /\ n.about = m.about
    BY DEF Likewise
  <2>2. CASE n \in notices /\ m \in notices
    BY <2>2 DEF RemindersInv, PeriodsInv
  <2>3. CASE n \in new /\ m \in new
    BY <1>3, <2>1, <2>3
  <2>4. CASE n \in new /\ m \in notices
    BY <1>7, <2>1, <2>4
  <2>5. CASE n \in notices /\ m \in new
    BY <1>7, <2>1, <2>5
  <2> QED
    BY <1>1, <2>2, <2>3, <2>4, <2>5
<1>9. ASSUME NEW n \in new PROVE ~ Kept(n) /\ ~ Mailed(n)
  <2>1. ~ Kept(n)
    BY <1>3 DEF Kept, IsNews
  <2>2. n \notin Enquiries
    BY <1>2, IdsAssumption
  <2>3. ASSUME NEW m \in mails, m.of = n PROVE FALSE
    <3>1. \E k \in notices : Same(k, n) /\ k.copy = n.copy
      BY <2>2, <2>3 DEF MailsInv, MailsAreOfStoredRows
    <3> QED
      BY <2>1, <3>1 DEF Kept
  <2> QED
    BY <2>1, <2>3 DEF Mailed
<1>10. \A n : (Kept(n) => Kept(n)') /\ (Mailed(n)' <=> Mailed(n))
  BY <1>1 DEF Kept, Mailed
<1>11. \A n \in new : Kept(n)' /\ ~ Mailed(n)'
  BY <1>1, <1>9, <1>10 DEF Kept, Same
<1>12. \A v \in Workers \ {w} :
          /\ PassInv(v) /\ ~ AtWork(v)
          /\ passes[v].pc = "mail" => passes[v].told \cap new = {}
  BY <1>3, <1>9 DEF RemindersInv, PassInv
<1>13. ~ AtWork(w)' /\ \A v \in Workers \ {w} : ~ AtWork(v)'
  BY <1>2, <1>4, <1>12 DEF AtWork
<1>14. PassInv(w)'
  <2>1. p.at <= now' /\ now' = now
    BY <1>1, <1>3
  <2>2. \A v \in Workers \ {w} : passes'[v].pc = "mail" => passes'[v].told \cap new = {}
    BY <1>4, <1>12
  <2> QED
    BY <1>2, <1>3, <1>4, <1>11, <1>13, <2>1, <2>2 DEF PassInv
<1>15. ASSUME NEW v \in Workers \ {w} PROVE PassInv(v)'
  <2>1. PassInv(v) /\ passes'[v] = passes[v] /\ passes[v].pc # "commit"
    BY <1>4, <1>12 DEF AtWork
  <2>2. passes[v].pc = "mail" =>
          \A u \in Workers \ {v} : passes'[u].pc = "mail" => passes'[u].told \cap passes[v].told = {}
    BY <1>2, <1>4, <1>12, <2>1 DEF PassInv
  <2>3. \A u \in Workers : ~ AtWork(u)'
    BY <1>13
  <2> QED
    BY <1>1, <1>10, <2>1, <2>2, <2>3 DEF PassInv
<1> QED
  BY <1>4, <1>5, <1>8, <1>14, <1>15 DEF RemindersInv

\* An e-mail leaves: the pass does not hold that reminder any more, and no
\* other pass does.
LEMMA MailReminders ==
    ASSUME TablesInv, RemindersInv, NEW w \in Workers, Mail(w)
    PROVE  RemindersInv' /\ passes' \in [Workers -> Pass]
<1>1. /\ passes[w].pc = "mail" /\ PassInv(w) /\ passes[w] \in Pass
      /\ UNCHANGED <<now, invoices, notices>>
  BY RowFacts DEF Mail, UntouchedByPass, RemindersInv
<1>2. CASE passes' = [passes EXCEPT ![w] = Asleep] /\ UNCHANGED mails
  BY <1>1, <1>2, AsleepReminders
<1>3. ASSUME NEW n \in passes[w].told,
             passes' = [passes EXCEPT ![w].told = @ \ {n}], SendEmail(n)
      PROVE  RemindersInv' /\ passes' \in [Workers -> Pass]
  <2> DEFINE p == [passes[w] EXCEPT !.told = @ \ {n}]
             new == passes[w].told \ {n}
  <2>1. /\ p.pc = "mail" /\ p.at = passes[w].at /\ p.told = new /\ p \in Pass
        /\ passes' = [passes EXCEPT ![w] = p]
    BY <1>1, <1>3 DEF Pass
  <2> HIDE DEF p
  <2>2. passes'[w] = p /\ passes' \in [Workers -> Pass]
        /\ \A v \in Workers \ {w} : passes'[v] = passes[v]
    BY <2>1, RowFacts
  <2>3. ~ Mailed(n) /\ p.at <= now
        /\ \A v \in Workers \ {w} : passes[v].pc = "mail" => passes[v].told \cap passes[w].told = {}
    BY <1>1, <2>1 DEF PassInv
  <2>4. \A x : Mailed(x)' => Mailed(x) \/ x = n
    BY <1>3, <2>3, SendEmailFacts
  <2>5. \A x : (ChasesNow(x)' <=> ChasesNow(x)) /\ (IsNews(x)' <=> IsNews(x)) /\ (Kept(x)' <=> Kept(x))
    BY <1>1 DEF ChasesNow, IsNews, PeriodStart, Kept
  <2>6. PeriodsInv'
    BY <1>1, <2>5 DEF RemindersInv, PeriodsInv, PeriodStart
  <2>7. \A v \in Workers : AtWork(v)' => v # w /\ AtWork(v)
    BY <2>1, <2>2 DEF AtWork
  <2>8. PassInv(w)'
    <3>1. IsFiniteSet(new) /\ \A k \in new : k \in passes[w].told
      BY <1>1, FS_Subset DEF PassInv
    <3>2. \A k \in new : k.kind \in ReminderKinds /\ k.at <= now /\ Kept(k)' /\ ~ Mailed(k)'
      BY <1>1, <2>4, <2>5, <3>1 DEF PassInv
    <3>3. \A v \in Workers \ {w} : passes'[v].pc = "mail" => passes'[v].told \cap new = {}
      BY <2>2, <2>3
    <3> HIDE DEF new
    <3> QED
      BY <1>1, <2>1, <2>2, <2>3, <2>7, <3>1, <3>2, <3>3 DEF PassInv
  <2>9. ASSUME NEW v \in Workers \ {w} PROVE PassInv(v)'
    <3>1. PassInv(v) /\ passes'[v] = passes[v]
      BY <2>2 DEF RemindersInv
    <3>2. passes[v].pc = "mail" =>
            /\ \A k \in passes[v].told : Kept(k)' /\ ~ Mailed(k)'
            /\ \A u \in Workers \ {v} : passes'[u].pc = "mail" => passes'[u].told \cap passes[v].told = {}
      BY <1>1, <2>1, <2>2, <2>3, <2>4, <2>5, <3>1 DEF PassInv
    <3>3. \A u \in Workers : AtWork(u)' /\ AtWork(v)' => u = v
      BY <2>7, <3>1 DEF PassInv
    <3> QED
      BY <1>1, <2>5, <3>1, <3>2, <3>3 DEF PassInv
  <2> QED
    BY <2>2, <2>6, <2>8, <2>9 DEF RemindersInv
<1> QED
  BY <1>1, <1>2, <1>3 DEF Mail

\* Time passes.
LEMMA TickReminders ==
    ASSUME TablesInv, RemindersInv, Tick
    PROVE  RemindersInv' /\ now' \in Times /\ now <= now'
<1>1. /\ now \in Nat /\ now' = now + 1 /\ now < MaxTime /\ MaxTime \in Nat
      /\ UNCHANGED <<notices, invoices, passes, mails>>
  BY RowFacts, ClockAssumption DEF Tick, chasing
<1>2. now' \in Times /\ now <= now' /\ \A x \in Nat : x <= now => x <= now'
  BY <1>1 DEF Times
<1>3. \A x : (ChasesNow(x)' <=> ChasesNow(x)) /\ (IsNews(x)' <=> IsNews(x)) /\ (Kept(x)' <=> Kept(x))
             /\ (Mailed(x)' <=> Mailed(x))
  BY <1>1 DEF ChasesNow, IsNews, PeriodStart, Kept, Mailed
<1>4. PeriodsInv'
  BY <1>1, <1>3 DEF RemindersInv, PeriodsInv, PeriodStart
<1>5. ASSUME NEW w \in Workers PROVE PassInv(w)'
  <2>1. PassInv(w) /\ passes[w].at \in Nat /\ \A n \in passes[w].told : n.at \in Nat
    BY RowFacts DEF RemindersInv
  <2>2. passes[w].at <= now' /\ \A n \in passes[w].told : n.at <= now'
    BY <1>2, <2>1 DEF PassInv
  <2> QED
    BY <1>1, <1>3, <2>1, <2>2 DEF PassInv, AtWork
<1> QED
  BY <1>2, <1>4, <1>5 DEF RemindersInv

-----------------------------------------------------------------------------
(***************************************************************************)
(* Every step keeps the invariant.                                         *)
(***************************************************************************)

LEMMA NoTaskFacts ==
    NoTask \in Task /\ NoTask.pc = "idle" /\ NoTask.at = 0 /\ \A stored : Fits(NoTask, stored)
BY TimesFacts DEF NoTask, Task, Fits

\* A request takes a step and holds t: the tables of tasks.
LEMMA HoldTables ==
    ASSUME TablesInv, NEW r \in Tasks, NEW t \in Task, t.at <= now, Fits(t, Stored'),
           Hold(r, t), now' = now, Stored \subseteq Stored'
    PROVE  /\ tasks' \in [Tasks -> Task]
           /\ \A q \in Tasks : TaskInv(q)' /\ tasks'[q].at <= now'
<1>1. tasks \in [Tasks -> Task] /\ \A q \in Tasks : TaskInv(q) /\ tasks[q].at <= now
  BY DEF TablesInv, DeskTypeOK
<1>2. tasks'[r] = t /\ \A q \in Tasks \ {r} : tasks'[q] = tasks[q]
  BY HoldFacts
<1>3. tasks' \in [Tasks -> Task]
  BY <1>1 DEF Hold
<1>4. TaskInv(r)' /\ tasks'[r].at <= now'
  BY <1>2 DEF TaskInv
<1>5. ASSUME NEW q \in Tasks \ {r} PROVE TaskInv(q)' /\ tasks'[q].at <= now'
  BY <1>1, <1>2 DEF TaskInv, Fits
<1> QED
  BY <1>3, <1>4, <1>5

LEMMA DropTables ==
    ASSUME TablesInv, NEW r \in Tasks, Drop(r), now' = now, Stored \subseteq Stored'
    PROVE  /\ tasks' \in [Tasks -> Task]
           /\ \A q \in Tasks : TaskInv(q)' /\ tasks'[q].at <= now'
<1>1. NoTask.at <= now /\ Hold(r, NoTask)
  BY NoTaskFacts, RowFacts DEF Drop, Hold
<1> QED
  BY <1>1, NoTaskFacts, HoldTables

\* Notices, invoices and passes stay, and no reminder is e-mailed.
LEMMA RemindersRest ==
    ASSUME TablesInv, RemindersInv, UNCHANGED <<now, passes, invoices, notices>>,
           \A n \in Notice : Mailed(n)' => Mailed(n)
    PROVE  RemindersInv'
<1>1. notices' = notices \cup {} /\ {} \in SUBSET Notice
  OBVIOUS
<1>2. \A i \in Invoices : invoices'[i] = invoices[i] \/ invoices'[i].since = now
  OBVIOUS
<1>3. \A n \in {} : n.kind \notin ReminderKinds
  OBVIOUS
<1>4. UNCHANGED <<now, passes>>
  OBVIOUS
<1> QED
  BY <1>1, <1>2, <1>3, <1>4, RemindersStay

\* Notices are written: those that are there stay, and they are finitely many.
LEMMA NoticesGrow ==
    ASSUME TablesInv, NEW new \in SUBSET Notice, IsFiniteSet(new), notices' = notices \cup new,
           now' = now, \A n \in new : n.at <= now
    PROVE  /\ notices' \subseteq Notice /\ IsFiniteSet(notices')
           /\ \A n \in notices' : n.at <= now'
           /\ \A n \in notices : \E m \in notices' : Same(m, n) /\ m.copy = n.copy
<1>1. notices' \subseteq Notice /\ IsFiniteSet(notices') /\ \A n \in notices' : n.at <= now'
  BY RowFacts, FS_Union
<1>2. \A n \in notices : \E m \in notices' : Same(m, n) /\ m.copy = n.copy
  BY DEF Same
<1> QED
  BY <1>1, <1>2

\* A step that only changes what a request has in memory, and does not bring
\* it to the insert, to its e-mail or to a decision.
LEMMA TaskStep ==
    ASSUME DeskInv, NEW r \in Tasks, NEW t \in Task, t.at <= now, Fits(t, Stored),
           t.pc \notin {"insert", "inbox", "decide"}, Hold(r, t),
           UNCHANGED <<now, active, notices, trail, chasing, mails, enquiries, personnel>>
    PROVE  DeskInv'
<1>1. /\ TablesInv /\ ContactInv /\ LeavesInv /\ RemindersInv /\ MailsInv
      /\ Stored' = Stored /\ UNCHANGED <<invoices, passes, leaves, employees>>
  BY DEF DeskInv, chasing, personnel, Stored
<1>2. tasks'[r] = t /\ \A q \in Tasks \ {r} : tasks'[q] = tasks[q]
  BY <1>1, HoldFacts
<1>3. TablesInv'
  <2>1. tasks' \in [Tasks -> Task] /\ \A q \in Tasks : TaskInv(q)' /\ tasks'[q].at <= now'
    BY <1>1, HoldTables
  <2>2. DeskTypeOK'
    BY <1>1, <2>1 DEF TablesInv, DeskTypeOK
  <2> QED
    BY <1>1, <2>1, <2>2 DEF TablesInv
<1>4. ContactInv'
  BY <1>1, <1>2, ContactStays
<1>5. LeavesInv'
  BY <1>1, <1>2, LeavesStay
<1>6. RemindersInv'
  BY <1>1, RemindersRest DEF Mailed
<1>7. MailsInv'
  BY <1>1, <1>2, MailsStay DEF Same
<1> QED
  BY <1>3, <1>4, <1>5, <1>6, <1>7 DEF DeskInv

LEMMA DropStep ==
    ASSUME DeskInv, NEW r \in Tasks, Drop(r),
           UNCHANGED <<now, active, notices, trail, chasing, mails, enquiries, personnel>>
    PROVE  DeskInv'
<1>1. NoTask.at <= now /\ Hold(r, NoTask)
  BY NoTaskFacts, RowFacts DEF Drop, Hold, DeskInv
<1> QED
  BY <1>1, NoTaskFacts, TaskStep

LEMMA SendEnquiryKeeps ==
    ASSUME DeskInv, NEW r \in Tasks, NEW s \in Senders, SendEnquiry(r, s)
    PROVE  DeskInv'
<1> DEFINE t == [NoTask EXCEPT !.pc = "submit", !.seen = s, !.at = now]
<1>1. now \in Times /\ now <= now
  BY RowFacts DEF DeskInv, TablesInv, DeskTypeOK
<1>2. t \in Task /\ t.at = now /\ t.pc = "submit" /\ t.seen = s
  BY <1>1 DEF NoTask, Task
<1>3. Hold(r, t) /\ UNCHANGED <<now, active, notices, trail, chasing, mails, enquiries, personnel>>
  BY DEF SendEnquiry
<1> HIDE DEF t
<1>4. Fits(t, Stored)
  BY <1>2 DEF Fits
<1> QED
  BY <1>1, <1>2, <1>3, <1>4, TaskStep

LEMMA OpenEnquiryKeeps ==
    ASSUME DeskInv, NEW r \in Tasks, NEW by \in People, NEW e \in Enquiries, OpenEnquiry(r, by, e)
    PROVE  DeskInv'
<1> DEFINE t == [NoTask EXCEPT !.pc = "handle", !.by = by, !.about = e]
<1>1. t \in Task /\ t.at = 0 /\ t.pc = "handle" /\ t.by = by /\ t.about = e
  BY TimesFacts DEF NoTask, Task
<1>2. /\ Hold(r, t) /\ e \in Stored
      /\ UNCHANGED <<now, active, notices, trail, chasing, mails, enquiries, personnel>>
  BY DEF OpenEnquiry
<1> HIDE DEF t
<1>3. Fits(t, Stored) /\ t.at <= now
  BY <1>1, <1>2, RowFacts DEF Fits, DeskInv
<1> QED
  BY <1>1, <1>2, <1>3, TaskStep

LEMMA OpenRecordKeeps ==
    ASSUME DeskInv, NEW r \in Tasks, NEW by \in People, NEW u \in People, OpenRecord(r, by, u)
    PROVE  DeskInv'
<1> DEFINE t == [NoTask EXCEPT !.pc = "hire", !.by = by, !.about = u]
<1>1. t \in Task /\ t.at = 0 /\ t.pc = "hire" /\ t.by = by /\ t.about = u
  BY TimesFacts DEF NoTask, Task
<1>2. /\ Hold(r, t)
      /\ UNCHANGED <<now, active, notices, trail, chasing, mails, enquiries, personnel>>
  BY DEF OpenRecord
<1> HIDE DEF t
<1>3. Fits(t, Stored) /\ t.at <= now
  BY <1>1, RowFacts DEF Fits, DeskInv
<1> QED
  BY <1>1, <1>2, <1>3, TaskStep

LEMMA CountEnquiriesKeeps ==
    ASSUME DeskInv, NEW r \in Tasks, CountEnquiries(r)
    PROVE  DeskInv'
<1> DEFINE old == tasks[r]
           t == [old EXCEPT !.pc = "insert"]
<1>1. /\ TablesInv /\ ContactInv /\ LeavesInv /\ RemindersInv /\ MailsInv
      /\ old.pc = "submit" /\ old \in Task /\ TaskInv(r) /\ old.at <= now
      /\ UNCHANGED <<now, active, notices, trail, chasing, mails, enquiries, personnel>>
  BY DEF DeskInv, CountEnquiries, TaskIs, TablesInv, DeskTypeOK
<1>2. CASE Drop(r)
  BY <1>1, <1>2, DropStep
<1>3. CASE Hold(r, t)
  <2>1. t \in Task /\ t.pc = "insert" /\ t.seen = old.seen /\ t.at = old.at
    BY <1>1 DEF Task
  <2> HIDE DEF t
  <2>2. Stored' = Stored /\ UNCHANGED <<invoices, passes, leaves, employees>>
    BY <1>1 DEF Stored, chasing, personnel
  <2>3. Fits(t, Stored')
    BY <1>1, <2>1 DEF TaskInv, Fits
  <2>4. tasks'[r] = t /\ \A q \in Tasks \ {r} : tasks'[q] = tasks[q]
    BY <1>1, <1>3, HoldFacts
  <2>5. TablesInv'
    <3>1. tasks' \in [Tasks -> Task] /\ \A q \in Tasks : TaskInv(q)' /\ tasks'[q].at <= now'
      BY <1>1, <1>3, <2>1, <2>2, <2>3, HoldTables
    <3>2. DeskTypeOK'
      BY <1>1, <2>2, <3>1 DEF TablesInv, DeskTypeOK
    <3> QED
      BY <1>1, <2>2, <3>1, <3>2 DEF TablesInv
  <2>6. ContactInv'
    BY <1>1, CountContact
  <2>7. LeavesInv'
    BY <1>1, <2>1, <2>2, <2>4, LeavesStay
  <2>8. RemindersInv'
    BY <1>1, <2>2, RemindersRest DEF Mailed
  <2>9. MailsInv'
    BY <1>1, <2>1, <2>2, <2>4, MailsStay DEF Same
  <2> QED
    BY <2>5, <2>6, <2>7, <2>8, <2>9 DEF DeskInv
<1> QED
  BY <1>2, <1>3 DEF CountEnquiries

LEMMA StoreEnquiryKeeps ==
    ASSUME DeskInv, NEW r \in Tasks, StoreEnquiry(r)
    PROVE  DeskInv'
<1> DEFINE old == tasks[r]
<1>1. /\ TablesInv /\ ContactInv /\ LeavesInv /\ RemindersInv /\ MailsInv
      /\ old.pc = "insert" /\ old \in Task /\ TaskInv(r) /\ old.at <= now
      /\ UNCHANGED <<now, active, trail, chasing, mails, personnel>>
  BY DEF DeskInv, StoreEnquiry, TaskIs, TablesInv, DeskTypeOK
<1>2. PICK e \in Enquiries \ Stored :
         /\ enquiries' = [enquiries EXCEPT
               ![e] = [from |-> tasks[r].seen, at |-> tasks[r].at, handledBy |-> NoOne]]
         /\ notices' = notices \cup
               Notes(ActiveWith(Admins), "contact_request", e, tasks[r].at, NoOne)
         /\ tasks'[r].pc = "inbox" /\ tasks'[r].about = e
         /\ Stored' = Stored \cup {e}
  BY <1>1, StoreContact
<1> DEFINE new == Notes(ActiveWith(Admins), "contact_request", e, old.at, NoOne)
           t == [NoTask EXCEPT !.pc = "inbox", !.about = e]
<1>3. old.at \in Times /\ old.seen \in Senders
  BY <1>1 DEF Task, TaskInv, Fits
<1>4. new \subseteq Notice /\ IsFiniteSet(new) /\ \A n \in new : n.kind = "contact_request" /\ n.at = old.at
  <2>1. ActiveWith(Admins) \subseteq People /\ "contact_request" \in NoticeKinds
        /\ e \in Invoices \cup Enquiries /\ IsFiniteSet(notices)
    BY <1>1, PeopleAssumption DEF ActiveWith, NoticeKinds, TablesInv
  <2> HIDE DEF old
  <2> QED
    BY <1>3, <2>1, NotesFacts
<1>5. notices' = notices \cup new
  BY <1>2
<1> HIDE DEF new
<1>6. UNCHANGED <<now, passes, invoices, leaves, employees>>
  BY <1>1 DEF chasing, personnel
<1>7. /\ notices' \subseteq Notice /\ IsFiniteSet(notices')
      /\ \A n \in notices' : n.at <= now'
      /\ \A n \in notices : \E m \in notices' : Same(m, n) /\ m.copy = n.copy
  BY <1>1, <1>4, <1>5, <1>6, NoticesGrow
<1>8. t \in Task /\ t.at = 0 /\ t.pc = "inbox" /\ t.about = e /\ t.at <= now
  <2>1. t \in Task /\ t.at = 0 /\ t.pc = "inbox" /\ t.about = e
    BY TimesFacts DEF NoTask, Task
  <2> HIDE DEF t
  <2> QED
    BY <1>1, <2>1, RowFacts
<1>9. Hold(r, t)
  <2>1. tasks' = [tasks EXCEPT ![r] = [NoTask EXCEPT !.pc = "inbox",
              !.about = CHOOSE free \in Enquiries : free \notin Stored]]
    BY DEF StoreEnquiry, Hold
  <2>2. tasks'[r].about = CHOOSE free \in Enquiries : free \notin Stored
    BY <1>1, <2>1 DEF TablesInv, DeskTypeOK, NoTask
  <2> QED
    BY <1>2, <2>1, <2>2 DEF Hold
<1> HIDE DEF t
<1>10. TablesInv'
  <2>1. Fits(t, Stored')
    BY <1>2, <1>8 DEF Fits
  <2>2. tasks' \in [Tasks -> Task] /\ \A q \in Tasks : TaskInv(q)' /\ tasks'[q].at <= now'
    BY <1>1, <1>2, <1>6, <1>8, <1>9, <2>1, HoldTables
  <2>3. enquiries' \in [Enquiries -> Enquiry]
    <3>1. [from |-> old.seen, at |-> old.at, handledBy |-> NoOne] \in Enquiry
      BY <1>3 DEF Enquiry
    <3> HIDE DEF old
    <3> QED
      BY <1>1, <1>2, <3>1 DEF TablesInv, DeskTypeOK, old
  <2>4. IsFiniteSet(Stored')
    BY <1>1, StoreContact
  <2>5. DeskTypeOK'
    BY <1>1, <1>6, <1>7, <2>2, <2>3 DEF TablesInv, DeskTypeOK
  <2> QED
    BY <1>1, <1>6, <1>7, <2>2, <2>4, <2>5 DEF TablesInv
<1>11. ContactInv'
  BY <1>1, StoreContact
<1>12. tasks'[r] = t /\ \A q \in Tasks \ {r} : tasks'[q] = tasks[q]
  BY <1>1, <1>9, HoldFacts
<1>13. LeavesInv'
  BY <1>1, <1>6, <1>8, <1>12, LeavesStay
<1>14. RemindersInv'
  <2>1. \A n \in new : n.kind \notin ReminderKinds
    BY <1>4 DEF ReminderKinds
  <2>2. \A n \in Notice : Mailed(n)' => Mailed(n)
    BY <1>1 DEF Mailed
  <2>3. \A i \in Invoices : invoices'[i] = invoices[i] \/ invoices'[i].since = now
    BY <1>6
  <2> QED
    BY <1>1, <1>4, <1>5, <1>6, <2>1, <2>2, <2>3, RemindersStay
<1>15. MailsInv'
  BY <1>1, StoreMails
<1> QED
  BY <1>10, <1>11, <1>13, <1>14, <1>15 DEF DeskInv

LEMMA EmailInboxKeeps ==
    ASSUME DeskInv, NEW r \in Tasks, EmailInbox(r)
    PROVE  DeskInv'
<1>1. /\ TablesInv /\ ContactInv /\ LeavesInv /\ RemindersInv /\ MailsInv
      /\ UNCHANGED <<now, active, notices, trail, invoices, passes, enquiries, employees, leaves>>
      /\ Drop(r)
  BY DEF DeskInv, EmailInbox, chasing, personnel
<1>2. Stored' = Stored
  BY <1>1 DEF Stored
<1>3. tasks'[r] = NoTask /\ \A q \in Tasks \ {r} : tasks'[q] = tasks[q]
  BY <1>1, DropFacts
<1>4. /\ MailsInv'
      /\ \A n \in Notice : Mailed(n)' => Mailed(n)
      /\ mails' \subseteq [of : Notice \cup Enquiries, times : Nat]
  BY <1>1, InboxMails
<1>5. TablesInv'
  <2>1. tasks' \in [Tasks -> Task] /\ \A q \in Tasks : TaskInv(q)' /\ tasks'[q].at <= now'
    BY <1>1, <1>2, DropTables
  <2>2. DeskTypeOK'
    BY <1>1, <1>4, <2>1 DEF TablesInv, DeskTypeOK
  <2> QED
    BY <1>1, <1>2, <2>1, <2>2 DEF TablesInv
<1>6. ContactInv'
  BY <1>1, <1>3, NoTaskFacts, ContactStays
<1>7. LeavesInv'
  BY <1>1, <1>3, NoTaskFacts, LeavesStay
<1>8. RemindersInv'
  BY <1>1, <1>4, RemindersRest
<1> QED
  BY <1>4, <1>5, <1>6, <1>7, <1>8 DEF DeskInv

\* An event of the right shape keeps the trail's type.
LEMMA TrailType ==
    ASSUME TablesInv, NEW actor \in People, NEW about \in Enquiries \cup People \cup Leaves,
           NEW action \in {"contact_request.handled", "employee.created", "leave_request"},
           NEW before \in {"none", "pending"} \cup Verdicts, NEW after \in {"none"} \cup Verdicts,
           Record(Event(actor, action, about, before, after))
    PROVE  trail' \in Seq([actor : People,
                           action : {"contact_request.handled", "employee.created", "leave_request"},
                           about : Enquiries \cup People \cup Leaves,
                           before : {"none", "pending"} \cup Verdicts,
                           after : {"none"} \cup Verdicts])
<1> DEFINE Events == [actor : People,
                      action : {"contact_request.handled", "employee.created", "leave_request"},
                      about : Enquiries \cup People \cup Leaves,
                      before : {"none", "pending"} \cup Verdicts,
                      after : {"none"} \cup Verdicts]
           event == Event(actor, action, about, before, after)
<1>1. event \in Events
  BY DEF Event
<1>2. trail \in Seq(Events) /\ trail' = Append(trail, event)
  BY DEF TablesInv, DeskTypeOK, Record
<1> HIDE DEF event, Events
<1>3. trail' \in Seq(Events)
  BY <1>1, <1>2
<1> QED
  BY <1>3 DEF Events

LEMMA MarkHandledKeeps ==
    ASSUME DeskInv, NEW r \in Tasks, MarkHandled(r)
    PROVE  DeskInv'
<1> DEFINE t == tasks[r]
           event == Event(t.by, "contact_request.handled", t.about, "none", "none")
<1>1. /\ TablesInv /\ ContactInv /\ LeavesInv /\ RemindersInv /\ MailsInv
      /\ UNCHANGED <<now, active, notices, invoices, passes, mails, employees, leaves>>
      /\ t.pc = "handle" /\ TaskInv(r)
      /\ enquiries' = [enquiries EXCEPT ![t.about].handledBy = t.by]
      /\ enquiries \in [Enquiries -> Enquiry]
      /\ Record(event) /\ Drop(r)
  BY DEF DeskInv, MarkHandled, TaskIs, chasing, personnel, TablesInv, DeskTypeOK
<1>2. t.by \in People /\ t.about \in Stored /\ t.about \in Enquiries
  BY <1>1 DEF TaskInv, Fits, Stored
<1>3. tasks'[r] = NoTask /\ \A q \in Tasks \ {r} : tasks'[q] = tasks[q]
  BY <1>1, DropFacts
<1> HIDE DEF t
<1>4. /\ enquiries' \in [Enquiries -> Enquiry]
      /\ \A e \in Enquiries : enquiries'[e].from = enquiries[e].from /\ enquiries'[e].at = enquiries[e].at
  BY <1>1, <1>2 DEF Enquiry
<1>5. ContactInv' /\ Stored' = Stored
  BY <1>1, <1>3, <1>4, NoTaskFacts, ContactStays
<1>6. TablesInv'
  <2>1. tasks' \in [Tasks -> Task] /\ \A q \in Tasks : TaskInv(q)' /\ tasks'[q].at <= now'
    BY <1>1, <1>5, DropTables
  <2>2. trail' \in Seq([actor : People,
                        action : {"contact_request.handled", "employee.created", "leave_request"},
                        about : Enquiries \cup People \cup Leaves,
                        before : {"none", "pending"} \cup Verdicts,
                        after : {"none"} \cup Verdicts])
    BY <1>1, <1>2, TrailType
  <2>3. DeskTypeOK'
    BY <1>1, <1>4, <2>1, <2>2 DEF TablesInv, DeskTypeOK
  <2> QED
    BY <1>1, <1>5, <2>1, <2>3 DEF TablesInv
<1>7. LeavesInv'
  <2>1. Range(trail') = Range(trail) \cup {event}
    BY <1>1, RecordFacts
  <2>2. event.about \notin Leaves
    BY <1>2, IdsAssumption DEF Event
  <2> HIDE DEF event
  <2> QED
    BY <1>1, <1>3, <2>1, <2>2, NoTaskFacts, LeavesStay
<1>8. RemindersInv'
  BY <1>1, RemindersRest DEF Mailed
<1>9. MailsInv'
  BY <1>1, <1>3, <1>5, NoTaskFacts, MailsStay DEF Same
<1> QED
  BY <1>5, <1>6, <1>7, <1>8, <1>9 DEF DeskInv

LEMMA CreateEmployeeKeeps ==
    ASSUME DeskInv, NEW r \in Tasks, CreateEmployee(r)
    PROVE  DeskInv'
<1> DEFINE t == tasks[r]
           event == Event(t.by, "employee.created", t.about, "none", "none")
<1>1. /\ TablesInv /\ ContactInv /\ LeavesInv /\ RemindersInv /\ MailsInv
      /\ UNCHANGED <<now, active, notices, invoices, passes, mails, enquiries, leaves>>
      /\ t.pc = "hire" /\ TaskInv(r) /\ Drop(r)
      /\ \/ UNCHANGED <<employees, trail>>
         \/ employees' = employees \cup {t.about} /\ Record(event)
  <2> HIDE DEF event
  <2>1. \/ UNCHANGED <<employees, trail>>
        \/ employees' = employees \cup {t.about} /\ Record(event)
    BY DEF CreateEmployee, event
  <2>2. TablesInv /\ TaskInv(r)
    BY DEF DeskInv, TablesInv
  <2> QED
    BY <2>1, <2>2 DEF DeskInv, CreateEmployee, TaskIs, chasing
<1>2. t.by \in People /\ t.about \in People
  BY <1>1 DEF TaskInv, Fits
<1>3. tasks'[r] = NoTask /\ \A q \in Tasks \ {r} : tasks'[q] = tasks[q]
  BY <1>1, DropFacts
<1> HIDE DEF t
<1>4. Stored' = Stored /\ employees' \subseteq People
  BY <1>1, <1>2 DEF Stored, TablesInv, DeskTypeOK
<1>5. TablesInv'
  <2>1. tasks' \in [Tasks -> Task] /\ \A q \in Tasks : TaskInv(q)' /\ tasks'[q].at <= now'
    BY <1>1, <1>4, DropTables
  <2>2. trail' \in Seq([actor : People,
                        action : {"contact_request.handled", "employee.created", "leave_request"},
                        about : Enquiries \cup People \cup Leaves,
                        before : {"none", "pending"} \cup Verdicts,
                        after : {"none"} \cup Verdicts])
    <3>1. CASE Record(event)
      BY <1>1, <1>2, <3>1, TrailType
    <3>2. CASE UNCHANGED trail
      BY <1>1, <3>2 DEF TablesInv, DeskTypeOK
    <3> QED
      BY <1>1, <3>1, <3>2
  <2>3. DeskTypeOK'
    BY <1>1, <1>4, <2>1, <2>2 DEF TablesInv, DeskTypeOK
  <2> QED
    BY <1>1, <1>4, <2>1, <2>3 DEF TablesInv
<1>6. ContactInv'
  BY <1>1, <1>3, NoTaskFacts, ContactStays
<1>7. LeavesInv'
  <2>1. Range(trail') = Range(trail) \cup {event} \/ trail' = trail
    BY <1>1, RecordFacts
  <2>2. event.about \notin Leaves
    BY <1>2, IdsAssumption DEF Event
  <2> HIDE DEF event
  <2> QED
    BY <1>1, <1>3, <2>1, <2>2, NoTaskFacts, LeavesStay
<1>8. RemindersInv'
  BY <1>1, RemindersRest DEF Mailed
<1>9. MailsInv'
  BY <1>1, <1>3, <1>4, NoTaskFacts, MailsStay DEF Same
<1> QED
  BY <1>5, <1>6, <1>7, <1>8, <1>9 DEF DeskInv

LEMMA RequestLeaveKeeps ==
    ASSUME DeskInv, NEW u \in People, RequestLeave(u)
    PROVE  DeskInv'
<1>1. /\ TablesInv /\ ContactInv /\ LeavesInv /\ RemindersInv /\ MailsInv
      /\ UNCHANGED <<now, active, notices, trail, invoices, passes, mails, enquiries, employees, tasks>>
  BY DEF DeskInv, RequestLeave, chasing
<1>2. Stored' = Stored
  BY <1>1 DEF Stored
<1>3. TablesInv'
  <2>1. leaves' \in [Leaves -> Leave]
    <3>1. PICK l \in Leaves :
             leaves' = [leaves EXCEPT ![l] = [of |-> u, status |-> "pending", validator |-> NoOne]]
      BY DEF RequestLeave
    <3>2. [of |-> u, status |-> "pending", validator |-> NoOne] \in Leave
      BY DEF Leave
    <3> QED
      BY <1>1, <3>1, <3>2 DEF TablesInv, DeskTypeOK
  <2>2. DeskTypeOK'
    BY <1>1, <2>1 DEF TablesInv, DeskTypeOK
  <2> QED
    BY <1>1, <1>2, <2>2 DEF TablesInv, TaskInv
<1>4. ContactInv'
  BY <1>1, ContactStays
<1>5. LeavesInv'
  BY <1>1, RequestLeaveLeaves
<1>6. RemindersInv'
  BY <1>1, RemindersRest DEF Mailed
<1>7. MailsInv'
  BY <1>1, <1>2, MailsStay DEF Same
<1> QED
  BY <1>3, <1>4, <1>5, <1>6, <1>7 DEF DeskInv

LEMMA OpenLeaveKeeps ==
    ASSUME DeskInv, NEW r \in Tasks, NEW by \in People, NEW l \in Leaves, NEW v \in Verdicts,
           OpenLeave(r, by, l, v)
    PROVE  DeskInv'
<1> DEFINE t == [NoTask EXCEPT !.pc = "decide", !.by = by, !.about = l, !.seen = leaves[l],
                               !.verdict = v]
<1>1. /\ TablesInv /\ ContactInv /\ LeavesInv /\ RemindersInv /\ MailsInv
      /\ UNCHANGED <<now, active, notices, trail, invoices, passes, mails, enquiries, employees, leaves>>
      /\ Hold(r, t) /\ leaves[l] \in Leave
  BY DEF DeskInv, OpenLeave, chasing, personnel, TablesInv, DeskTypeOK
<1>2. t \in Task /\ t.pc = "decide" /\ t.at = 0 /\ Fits(t, Stored)
  <2>1. t \in Task /\ t.pc = "decide" /\ t.at = 0 /\ t.by = by /\ t.about = l /\ t.seen = leaves[l]
        /\ t.verdict = v
    BY <1>1, TimesFacts DEF NoTask, Task
  <2> HIDE DEF t
  <2> QED
    BY <1>1, <2>1 DEF Fits
<1> HIDE DEF t
<1>3. t.at <= now
  BY <1>1, <1>2, RowFacts
<1>4. tasks'[r] = t /\ \A q \in Tasks \ {r} : tasks'[q] = tasks[q]
  BY <1>1, HoldFacts
<1>5. Stored' = Stored
  BY <1>1 DEF Stored
<1>6. TablesInv'
  <2>1. tasks' \in [Tasks -> Task] /\ \A q \in Tasks : TaskInv(q)' /\ tasks'[q].at <= now'
    BY <1>1, <1>2, <1>3, <1>5, HoldTables
  <2>2. DeskTypeOK'
    BY <1>1, <2>1 DEF TablesInv, DeskTypeOK
  <2> QED
    BY <1>1, <1>5, <2>1, <2>2 DEF TablesInv
<1>7. ContactInv'
  BY <1>1, <1>2, <1>4, ContactStays
<1>8. LeavesInv'
  BY <1>1, OpenLeaveLeaves
<1>9. RemindersInv'
  BY <1>1, RemindersRest DEF Mailed
<1>10. MailsInv'
  BY <1>1, <1>2, <1>4, <1>5, MailsStay DEF Same
<1> QED
  BY <1>6, <1>7, <1>8, <1>9, <1>10 DEF DeskInv

LEMMA DecideKeeps ==
    ASSUME DeskInv, NEW r \in Tasks, Decide(r)
    PROVE  DeskInv'
<1> DEFINE t == tasks[r]
           new == Decided(t)
<1>1. /\ TablesInv /\ ContactInv /\ LeavesInv /\ RemindersInv /\ MailsInv
      /\ UNCHANGED <<now, active, notices, invoices, passes, mails, enquiries, employees>>
      /\ t.pc = "decide" /\ TaskInv(r) /\ Drop(r) /\ leaves \in [Leaves -> Leave]
      /\ \/ UNCHANGED <<leaves, trail>>
         \/ /\ leaves' = [leaves EXCEPT ![t.about] = new]
            /\ Record(Event(t.by, "leave_request", t.about, t.seen.status, t.verdict))
  BY DEF DeskInv, Decide, TaskIs, chasing, TablesInv, DeskTypeOK
<1>2. t.by \in People /\ t.about \in Leaves /\ t.seen \in Leave /\ t.verdict \in Verdicts
  BY <1>1 DEF TaskInv, Fits
<1>3. tasks'[r] = NoTask /\ \A q \in Tasks \ {r} : tasks'[q] = tasks[q]
  BY <1>1, DropFacts
<1>4. new \in Leave
  <2> DEFINE old == leaves[t.about]
             status == Column(t.seen.status, t.verdict, old.status)
             validator == Column(t.seen.validator, t.by, old.validator)
  <2>1. old \in Leave /\ new = [old EXCEPT !.status = status, !.validator = validator]
    BY <1>1, <1>2 DEF Decided, Leave
  <2>2. /\ status \in {"none", "pending"} \cup Verdicts
        /\ validator \in People \cup {NoOne}
    BY <1>2, <2>1 DEF Column, Leave
  <2> HIDE DEF old, status, validator, new
  <2> QED
    BY <2>1, <2>2 DEF Leave
<1>5. t.seen.status \in {"none", "pending"} \cup Verdicts
  BY <1>2 DEF Leave
<1> HIDE DEF t, new
<1>6. Stored' = Stored
  BY <1>1 DEF Stored
<1>7. TablesInv'
  <2>1. tasks' \in [Tasks -> Task] /\ \A q \in Tasks : TaskInv(q)' /\ tasks'[q].at <= now'
    BY <1>1, <1>6, DropTables
  <2>2. trail' \in Seq([actor : People,
                        action : {"contact_request.handled", "employee.created", "leave_request"},
                        about : Enquiries \cup People \cup Leaves,
                        before : {"none", "pending"} \cup Verdicts,
                        after : {"none"} \cup Verdicts])
    <3>1. CASE Record(Event(t.by, "leave_request", t.about, t.seen.status, t.verdict))
      BY <1>1, <1>2, <1>5, <3>1, TrailType
    <3>2. CASE UNCHANGED trail
      BY <1>1, <3>2 DEF TablesInv, DeskTypeOK
    <3> QED
      BY <1>1, <3>1, <3>2
  <2>3. leaves' \in [Leaves -> Leave]
    BY <1>1, <1>2, <1>4
  <2>4. DeskTypeOK'
    BY <1>1, <2>1, <2>2, <2>3 DEF TablesInv, DeskTypeOK
  <2> QED
    BY <1>1, <1>6, <2>1, <2>4 DEF TablesInv
<1>8. ContactInv'
  BY <1>1, <1>3, NoTaskFacts, ContactStays
<1>9. LeavesInv'
  BY <1>1, DecideLeaves
<1>10. RemindersInv'
  BY <1>1, RemindersRest DEF Mailed
<1>11. MailsInv'
  BY <1>1, <1>3, <1>6, NoTaskFacts, MailsStay DEF Same
<1> QED
  BY <1>7, <1>8, <1>9, <1>10, <1>11 DEF DeskInv

\* A step of the verification flow, with its notices.
LEMMA MoveKeeps ==
    ASSUME DeskInv, NEW i \in Invoices, NEW from, NEW to \in Steps \cup {"gone"},
           NEW told \in SUBSET Notice, IsFiniteSet(told),
           \A n \in told : n.kind \notin ReminderKinds /\ n.at = now,
           Move(i, from, to, told)
    PROVE  DeskInv'
<1>1. /\ TablesInv /\ ContactInv /\ LeavesInv /\ RemindersInv /\ MailsInv
      /\ UNCHANGED <<now, active, trail, passes, mails, enquiries, employees, leaves, tasks>>
      /\ invoices' = [invoices EXCEPT ![i] = [step |-> to, since |-> now]]
      /\ notices' = notices \cup told
      /\ invoices \in [Invoices -> Row] /\ now \in Times
  BY DEF DeskInv, Move, reading, personnel, TablesInv, DeskTypeOK
<1>2. Stored' = Stored /\ now \in Nat
  BY <1>1, RowFacts DEF Stored
<1>3. /\ notices' \subseteq Notice /\ IsFiniteSet(notices')
      /\ \A n \in notices' : n.at <= now'
      /\ \A n \in notices : \E m \in notices' : Same(m, n) /\ m.copy = n.copy
  <2>1. \A n \in told : n.at <= now
    BY <1>2
  <2> QED
    BY <1>1, <2>1, NoticesGrow
<1>4. /\ invoices' \in [Invoices -> Row]
      /\ \A j \in Invoices : invoices'[j] = invoices[j] \/ invoices'[j].since = now
  <2>1. [step |-> to, since |-> now] \in Row
    BY <1>1 DEF Row
  <2> QED
    BY <1>1, <2>1
<1>5. TablesInv'
  <2>1. DeskTypeOK'
    BY <1>1, <1>3, <1>4 DEF TablesInv, DeskTypeOK
  <2>2. \A j \in Invoices : invoices'[j].since <= now'
    BY <1>1, <1>2, <1>4, RowFacts
  <2> QED
    BY <1>1, <1>2, <1>3, <2>1, <2>2 DEF TablesInv, TaskInv
<1>6. ContactInv'
  BY <1>1, ContactStays
<1>7. LeavesInv'
  BY <1>1, LeavesStay
<1>8. RemindersInv'
  <2>1. \A n \in Notice : Mailed(n)' => Mailed(n)
    BY <1>1 DEF Mailed
  <2>2. \A n \in told : n.kind \notin ReminderKinds
    OBVIOUS
  <2> QED
    BY <1>1, <1>4, <2>1, <2>2, RemindersStay
<1>9. MailsInv'
  BY <1>1, <1>2, <1>3, MailsStay
<1> QED
  BY <1>5, <1>6, <1>7, <1>8, <1>9 DEF DeskInv

\* The notices of the flow are of now, and none is a reminder.
LEMMA FlowNotes ==
    ASSUME TablesInv, NEW people \in SUBSET People, NEW i \in Invoices, NEW by,
           NEW kind \in {"invoice_submitted", "invoice_approved", "invoice_rejected", "invoice_cancelled"}
    PROVE  LET told == Notes(people, kind, i, now, by)
           IN  /\ told \in SUBSET Notice /\ IsFiniteSet(told)
               /\ \A n \in told : n.kind \notin ReminderKinds /\ n.at = now
<1> DEFINE told == Notes(people, kind, i, now, by)
<1>1. kind \in NoticeKinds /\ kind \notin ReminderKinds /\ now \in Times /\ IsFiniteSet(notices)
      /\ i \in Invoices \cup Enquiries
  BY DEF NoticeKinds, ReminderKinds, TablesInv, DeskTypeOK
<1>2. /\ told \subseteq Notice /\ IsFiniteSet(told)
      /\ \A n \in told : n.kind = kind /\ n.at = now
  BY <1>1, NotesFacts
<1> QED
  BY <1>1, <1>2

LEMMA FlowKeeps ==
    ASSUME DeskInv, NEW i \in Invoices, FlowSteps(i)
    PROVE  DeskInv'
<1>1. TablesInv /\ ActiveWith(Accountants) \in SUBSET People /\ {AuthorOf[i]} \in SUBSET People
  BY PeopleAssumption, AuthorsAssumption DEF ActiveWith, DeskInv
<1>2. {} \in SUBSET Notice /\ IsFiniteSet({})
      /\ \A n \in {} : n.kind \notin ReminderKinds /\ n.at = now
  BY FS_EmptySet
<1>3. {"draft", "submitted", "approved", "rejected"} \subseteq Steps
  BY StepsFacts
<1>4. CASE CreateInvoice(i)
  BY <1>2, <1>3, <1>4, MoveKeeps DEF CreateInvoice
<1>5. CASE SendOrDrop(i)
  BY <1>2, <1>5, MoveKeeps DEF SendOrDrop
<1>6. ASSUME NEW by \in People, Submit(i, by) PROVE DeskInv'
  <2> DEFINE told == Notes(ActiveWith(Accountants), "invoice_submitted", i, now, by)
  <2>1. /\ told \in SUBSET Notice /\ IsFiniteSet(told)
        /\ \A n \in told : n.kind \notin ReminderKinds /\ n.at = now
    BY <1>1, FlowNotes
  <2>2. Move(i, {"draft", "rejected"}, "submitted", told)
    BY <1>6 DEF Submit
  <2> HIDE DEF told
  <2> QED
    BY <1>3, <2>1, <2>2, MoveKeeps
<1>7. ASSUME NEW by \in People, Approve(i, by) PROVE DeskInv'
  <2> DEFINE told == Notes({AuthorOf[i]}, "invoice_approved", i, now, by)
  <2>1. /\ told \in SUBSET Notice /\ IsFiniteSet(told)
        /\ \A n \in told : n.kind \notin ReminderKinds /\ n.at = now
    BY <1>1, FlowNotes
  <2>2. Move(i, {"submitted"}, "approved", told)
    BY <1>7 DEF Approve
  <2> HIDE DEF told
  <2> QED
    BY <1>3, <2>1, <2>2, MoveKeeps
<1>8. ASSUME NEW by \in People, Reject(i, by) PROVE DeskInv'
  <2> DEFINE told == Notes({AuthorOf[i]}, "invoice_rejected", i, now, by)
  <2>1. /\ told \in SUBSET Notice /\ IsFiniteSet(told)
        /\ \A n \in told : n.kind \notin ReminderKinds /\ n.at = now
    BY <1>1, FlowNotes
  <2>2. Move(i, {"submitted"}, "rejected", told)
    BY <1>8 DEF Reject
  <2> HIDE DEF told
  <2> QED
    BY <1>3, <2>1, <2>2, MoveKeeps
<1>9. ASSUME NEW by \in People, Cancel(i, by) PROVE DeskInv'
  <2> DEFINE told == Notes(ActiveWith(Accountants), "invoice_cancelled", i, now, by)
  <2>1. /\ told \in SUBSET Notice /\ IsFiniteSet(told)
        /\ \A n \in told : n.kind \notin ReminderKinds /\ n.at = now
    BY <1>1, FlowNotes
  <2>2. Move(i, {"approved"}, "gone", told)
    BY <1>9 DEF Cancel
  <2> HIDE DEF told
  <2> QED
    BY <2>1, <2>2, MoveKeeps
<1> QED
  BY <1>4, <1>5, <1>6, <1>7, <1>8, <1>9 DEF FlowSteps

\* Notices are read or cleared.
LEMMA ReadingStep ==
    ASSUME DeskInv, UntouchedByReading,
           NEW f, notices' = {f[n] : n \in notices}, DOMAIN f = notices,
           \A n \in notices : f[n] \in Notice /\ Same(n, f[n]) /\ n.copy = f[n].copy
    PROVE  DeskInv'
<1>1. /\ TablesInv /\ ContactInv /\ LeavesInv /\ RemindersInv /\ MailsInv
      /\ UNCHANGED <<now, active, trail, invoices, passes, mails, enquiries, employees, leaves, tasks>>
  BY DEF DeskInv, UntouchedByReading, chasing, reading, personnel
<1>2. Stored' = Stored
  BY <1>1 DEF Stored
<1>3. \A n \in notices : \E m \in notices' : Same(m, n) /\ m.copy = n.copy
  BY DEF Same
<1>4. TablesInv'
  <2>1. notices' \subseteq Notice
    OBVIOUS
  <2>2. \A n \in notices' : n.at <= now'
    BY <1>1, RowFacts DEF Same
  <2>3. IsFiniteSet(notices')
    BY <1>1, RowFacts, ValuesFinite
  <2>4. DeskTypeOK'
    BY <1>1, <2>1 DEF TablesInv, DeskTypeOK
  <2> QED
    BY <1>1, <1>2, <2>2, <2>3, <2>4 DEF TablesInv, TaskInv
<1>5. ContactInv'
  BY <1>1, ContactStays
<1>6. LeavesInv'
  BY <1>1, LeavesStay
<1>7. RemindersInv'
  BY <1>1, RemindersRead
<1>8. MailsInv'
  BY <1>1, <1>2, <1>3, MailsStay
<1> QED
  BY <1>4, <1>5, <1>6, <1>7, <1>8 DEF DeskInv

LEMMA NoticesKeep ==
    ASSUME DeskInv, NoticesNext
    PROVE  DeskInv'
<1>1. notices \subseteq Notice
  BY RowFacts DEF DeskInv
<1> DEFINE read(n) == [n EXCEPT !.read = TRUE]
           gone(n) == [n EXCEPT !.dismissed = TRUE]
<1>2. ASSUME NEW old \in SUBSET notices, notices' = (notices \ old) \cup {read(n) : n \in old},
             UntouchedByReading
      PROVE  DeskInv'
  <2> DEFINE f == [n \in notices |-> IF n \in old THEN read(n) ELSE n]
  <2>1. \A n \in notices : f[n] \in Notice /\ Same(n, f[n]) /\ n.copy = f[n].copy
    BY <1>1, ReadingKeeps DEF Same
  <2>2. notices' = {f[n] : n \in notices} /\ DOMAIN f = notices
    <3> HIDE DEF read
    <3> QED
      BY <1>2
  <2> HIDE DEF f
  <2> QED
    BY <1>2, <2>1, <2>2, ReadingStep
<1>3. ASSUME NEW old \in SUBSET notices, notices' = (notices \ old) \cup {gone(n) : n \in old},
             UntouchedByReading
      PROVE  DeskInv'
  <2> DEFINE f == [n \in notices |-> IF n \in old THEN gone(n) ELSE n]
  <2>1. \A n \in notices : f[n] \in Notice /\ Same(n, f[n]) /\ n.copy = f[n].copy
    BY <1>1, ReadingKeeps DEF Same
  <2>2. notices' = {f[n] : n \in notices} /\ DOMAIN f = notices
    <3> HIDE DEF gone
    <3> QED
      BY <1>3
  <2> HIDE DEF f
  <2> QED
    BY <1>3, <2>1, <2>2, ReadingStep
<1>4. PICK u \in active : MarkRead(u) \/ MarkAllRead(u) \/ Dismiss(u) \/ DismissAll(u)
  BY DEF NoticesNext
<1>5. Live(u) \in SUBSET notices
  BY DEF Live
<1>6. UntouchedByReading
  BY <1>4 DEF MarkRead, MarkAllRead, Dismiss, DismissAll
<1>7. CASE MarkRead(u)
  <2>1. PICK n \in Live(u) : notices' = (notices \ {n}) \cup {read(n)}
    BY <1>7 DEF MarkRead, Rewrite
  <2>2. {read(n)} = {read(m) : m \in {n}} /\ {n} \in SUBSET notices
    BY <1>5
  <2> HIDE DEF read
  <2> QED
    BY <1>2, <1>6, <2>1, <2>2
<1>8. CASE MarkAllRead(u)
  BY <1>2, <1>5, <1>6, <1>8 DEF MarkAllRead, Rewrite
<1>9. CASE Dismiss(u)
  <2>1. PICK n \in Live(u) : notices' = (notices \ {n}) \cup {gone(n)}
    BY <1>9 DEF Dismiss, Rewrite
  <2>2. {gone(n)} = {gone(m) : m \in {n}} /\ {n} \in SUBSET notices
    BY <1>5
  <2> HIDE DEF gone
  <2> QED
    BY <1>3, <1>6, <2>1, <2>2
<1>10. CASE DismissAll(u)
  BY <1>3, <1>5, <1>6, <1>10 DEF DismissAll, Rewrite
<1> QED
  BY <1>4, <1>7, <1>8, <1>9, <1>10

LEMMA SwitchKeeps ==
    ASSUME DeskInv, NEW u \in People, SwitchAccount(u)
    PROVE  DeskInv'
<1>1. /\ TablesInv /\ ContactInv /\ LeavesInv /\ RemindersInv /\ MailsInv
      /\ UNCHANGED <<now, notices, trail, invoices, passes, mails, enquiries, employees, leaves, tasks>>
  BY DEF DeskInv, SwitchAccount, chasing, reading, personnel
<1>2. Stored' = Stored /\ active' \subseteq People
  BY <1>1 DEF Stored, SwitchAccount, TablesInv, DeskTypeOK
<1>3. TablesInv'
  <2>1. DeskTypeOK'
    BY <1>1, <1>2 DEF TablesInv, DeskTypeOK
  <2> QED
    BY <1>1, <1>2, <2>1 DEF TablesInv, TaskInv
<1>4. ContactInv'
  BY <1>1, ContactStays
<1>5. LeavesInv'
  BY <1>1, LeavesStay
<1>6. RemindersInv'
  BY <1>1, RemindersRest DEF Mailed
<1>7. MailsInv'
  BY <1>1, <1>2, MailsStay DEF Same
<1> QED
  BY <1>3, <1>4, <1>5, <1>6, <1>7 DEF DeskInv

LEMMA TickKeeps ==
    ASSUME DeskInv, Tick
    PROVE  DeskInv'
<1>1. /\ TablesInv /\ ContactInv /\ LeavesInv /\ RemindersInv /\ MailsInv
      /\ UNCHANGED <<active, notices, trail, invoices, passes, mails, enquiries, employees, leaves, tasks>>
  BY DEF DeskInv, Tick, chasing, reading, personnel
<1>2. RemindersInv' /\ now' \in Times /\ now <= now'
  BY <1>1, TickReminders
<1>3. Stored' = Stored
  BY <1>1 DEF Stored
<1>4. TablesInv'
  <2>1. DeskTypeOK'
    BY <1>1, <1>2 DEF TablesInv, DeskTypeOK
  <2>2. now \in Nat /\ now' \in Nat
    BY <1>1, <1>2, RowFacts, TimesFacts
  <2>3. \A n \in notices : n.at \in Nat /\ n.at <= now
    BY <1>1, RowFacts
  <2>4. \A i \in Invoices : invoices[i].since \in Nat /\ invoices[i].since <= now
    BY <1>1, RowFacts
  <2>5. \A r \in Tasks : tasks[r].at \in Nat /\ tasks[r].at <= now /\ TaskInv(r)
    BY <1>1, TimesFacts DEF TablesInv, DeskTypeOK, Task
  <2>6. \A n \in notices' : n.at <= now'
    BY <1>1, <1>2, <2>2, <2>3
  <2>7. \A i \in Invoices : invoices'[i].since <= now'
    BY <1>1, <1>2, <2>2, <2>4
  <2>8. \A r \in Tasks : tasks'[r].at <= now' /\ TaskInv(r)'
    <3>1. \A r \in Tasks : TaskInv(r)'
      BY <1>1, <1>3, <2>5 DEF TaskInv
    <3>2. \A r \in Tasks : tasks'[r].at <= now'
      BY <1>1, <1>2, <2>2, <2>5
    <3> QED
      BY <3>1, <3>2
  <2> QED
    BY <1>1, <1>3, <2>1, <2>6, <2>7, <2>8 DEF TablesInv
<1>5. ContactInv'
  BY <1>1, ContactStays
<1>6. LeavesInv'
  BY <1>1, LeavesStay
<1>7. MailsInv'
  BY <1>1, <1>3, MailsStay DEF Same
<1> QED
  BY <1>2, <1>4, <1>5, <1>6, <1>7 DEF DeskInv

LEMMA PassKeeps ==
    ASSUME DeskInv, NEW w \in Workers, PassSteps(w) \/ FailPass(w)
    PROVE  DeskInv'
<1>1. /\ TablesInv /\ ContactInv /\ LeavesInv /\ RemindersInv /\ MailsInv
      /\ UNCHANGED <<now, active, trail, invoices, enquiries, employees, leaves, tasks>>
  BY DEF DeskInv, PassSteps, StartPass, TryLock, ReadInvoices, Write, CommitPass, Mail, FailPass,
         UntouchedByPass, reading, personnel
<1>2. Stored' = Stored /\ notices \subseteq Notice /\ IsFiniteSet(notices)
      /\ mails \subseteq [of : Notice \cup Enquiries, times : Nat]
  BY <1>1 DEF Stored, TablesInv, DeskTypeOK
<1>3. /\ RemindersInv' /\ passes' \in [Workers -> Pass]
      /\ MailsInv' /\ mails' \subseteq [of : Notice \cup Enquiries, times : Nat]
      /\ notices' \subseteq Notice /\ IsFiniteSet(notices') /\ \A n \in notices' : n.at <= now'
  <2>1. CASE UNCHANGED <<notices, mails>>
    <3>1. MailsInv' /\ \A n \in notices' : n.at <= now'
      BY <1>1, <1>2, <2>1, MailsStay DEF Same, TablesInv
    <3>2. CASE StartPass(w)
      BY <1>1, <1>2, <2>1, <3>1, <3>2, StartReminders
    <3>3. CASE TryLock(w)
      BY <1>1, <1>2, <2>1, <3>1, <3>3, LockReminders
    <3>4. CASE ReadInvoices(w)
      BY <1>1, <1>2, <2>1, <3>1, <3>4, ReadReminders
    <3>5. CASE Write(w)
      BY <1>1, <1>2, <2>1, <3>1, <3>5, WriteReminders
    <3>6. CASE FailPass(w)
      BY <1>1, <1>2, <2>1, <3>1, <3>6, AsleepReminders DEF FailPass
    <3>7. CASE CommitPass(w)
      BY <1>1, <1>2, <2>1, <3>1, <3>7, CommitReminders
    <3>8. CASE Mail(w)
      BY <1>1, <1>2, <2>1, <3>1, <3>8, MailReminders
    <3> QED
      BY <3>2, <3>3, <3>4, <3>5, <3>6, <3>7, <3>8 DEF PassSteps
  <2>2. CASE CommitPass(w)
    <3>1. /\ RemindersInv' /\ passes' \in [Workers -> Pass]
          /\ notices' \subseteq Notice /\ IsFiniteSet(notices')
          /\ \A n \in notices' : n.at <= now
      BY <1>1, <2>2, CommitReminders
    <3>2. UNCHANGED mails /\ notices \subseteq notices'
      BY <2>2 DEF CommitPass
    <3>3. MailsInv'
      BY <1>1, <1>2, <3>2, MailsStay DEF Same
    <3> QED
      BY <1>1, <1>2, <3>1, <3>2, <3>3
  <2>3. CASE Mail(w)
    <3>1. RemindersInv' /\ passes' \in [Workers -> Pass]
      BY <1>1, <2>3, MailReminders
    <3>2. MailsInv' /\ mails' \subseteq [of : Notice \cup Enquiries, times : Nat]
      BY <1>1, <2>3, MailMails
    <3>3. notices' = notices
      BY <2>3 DEF Mail
    <3> QED
      BY <1>1, <1>2, <3>1, <3>2, <3>3, RowFacts
  <2> QED
    BY <2>1, <2>2, <2>3 DEF PassSteps, StartPass, TryLock, ReadInvoices, Write, FailPass
<1>4. TablesInv'
  <2>1. DeskTypeOK'
    BY <1>1, <1>3 DEF TablesInv, DeskTypeOK
  <2> QED
    BY <1>1, <1>2, <1>3, <2>1 DEF TablesInv, TaskInv
<1>5. ContactInv'
  BY <1>1, ContactStays
<1>6. LeavesInv'
  BY <1>1, LeavesStay
<1> QED
  BY <1>3, <1>4, <1>5, <1>6 DEF DeskInv

LEMMA StutterKeeps ==
    ASSUME DeskInv, UNCHANGED vars
    PROVE  DeskInv'
<1>1. /\ TablesInv /\ ContactInv /\ LeavesInv /\ RemindersInv /\ MailsInv
      /\ UNCHANGED <<now, active, notices, trail, invoices, passes, mails, enquiries, employees, leaves, tasks>>
  BY DEF DeskInv, vars, chasing, reading, personnel
<1>2. Stored' = Stored
  BY <1>1 DEF Stored
<1>3. TablesInv'
  BY <1>1, <1>2 DEF TablesInv, DeskTypeOK, TaskInv
<1>4. ContactInv'
  BY <1>1, ContactStays
<1>5. LeavesInv'
  BY <1>1, LeavesStay
<1>6. RemindersInv'
  BY <1>1, RemindersRest DEF Mailed
<1>7. MailsInv'
  BY <1>1, <1>2, MailsStay DEF Same
<1> QED
  BY <1>3, <1>4, <1>5, <1>6, <1>7 DEF DeskInv

LEMMA DeskInit ==
    ASSUME Init
    PROVE  DeskInv
<1>1. /\ now = 0 /\ active = People /\ notices = {} /\ trail = <<>> /\ mails = {} /\ employees = {}
      /\ invoices = [i \in Invoices |-> [step |-> "none", since |-> 0]]
      /\ passes = [w \in Workers |-> Asleep]
      /\ enquiries = [e \in Enquiries |-> NoEnquiry]
      /\ leaves = [l \in Leaves |-> NoLeave]
      /\ tasks = [r \in Tasks |-> NoTask]
  BY DEF Init
<1>2. Stored = {} /\ IsFiniteSet({}) /\ Cardinality({}) = 0 /\ Range(trail) = {}
  BY <1>1, FS_EmptySet DEF Stored, NoEnquiry, Range
<1>3. Asleep \in Pass /\ Asleep.pc = "asleep" /\ Asleep.at = 0 /\ Asleep.told = {}
  BY TimesFacts DEF Asleep, Pass
<1>4. TablesInv
  <2>1. NoEnquiry \in Enquiry /\ NoLeave \in Leave /\ [step |-> "none", since |-> 0] \in Row
    BY TimesFacts DEF NoEnquiry, Enquiry, NoLeave, Leave, Row
  <2>2. trail \in Seq([actor : People,
                       action : {"contact_request.handled", "employee.created", "leave_request"},
                       about : Enquiries \cup People \cup Leaves,
                       before : {"none", "pending"} \cup Verdicts,
                       after : {"none"} \cup Verdicts])
    BY <1>1
  <2>3. DeskTypeOK
    BY <1>1, <1>3, <2>1, <2>2, NoTaskFacts, TimesFacts DEF DeskTypeOK
  <2>4. \A r \in Tasks : TaskInv(r) /\ tasks[r].at <= now
    BY <1>1, NoTaskFacts DEF TaskInv
  <2> QED
    BY <1>1, <1>2, <2>3, <2>4 DEF TablesInv
<1>5. ContactInv
  <2>1. EnquiriesWithinLimits
    <3> SUFFICES ASSUME NEW t \in Times
                 PROVE  LET kept == {e \in Stored : t - Hour < enquiries[e].at /\ enquiries[e].at <= t}
                        IN  /\ Cardinality(kept) <= Total
                            /\ \A s \in Senders :
                                 Cardinality({e \in kept : enquiries[e].from = s}) <= PerSender
      BY DEF EnquiriesWithinLimits
    <3> DEFINE kept == {e \in Stored : t - Hour < enquiries[e].at /\ enquiries[e].at <= t}
    <3>1. kept = {} /\ \A s : {e \in kept : enquiries[e].from = s} = {}
      BY <1>2
    <3>2. Total \in Nat /\ PerSender \in Nat
      BY ContactAssumption
    <3> HIDE DEF kept
    <3>3. Cardinality(kept) <= Total
      BY <1>2, <3>1, <3>2
    <3>4. ASSUME NEW s PROVE Cardinality({e \in kept : enquiries[e].from = s}) <= PerSender
      <4>1. {e \in kept : enquiries[e].from = s} = {}
        BY <3>1
      <4> QED
        BY <1>2, <3>2, <4>1
    <3> QED
      BY <3>3, <3>4 DEF kept
  <2>2. \A r \in Tasks : InsertInv(r)
    BY <1>1, NoTaskFacts DEF InsertInv, TaskIs
  <2> QED
    BY <2>1, <2>2 DEF ContactInv
<1>6. LeavesInv
  BY <1>1, <1>2, NoTaskFacts DEF LeavesInv, DecisionsAreOnRecord, LeaveInv, DecideInv, NoLeave, Verdicts
<1>7. RemindersInv
  <2>1. ASSUME NEW w \in Workers PROVE PassInv(w)
    <3>1. \A v \in Workers : passes[v] = Asleep /\ ~ AtWork(v)
      BY <1>1, <1>3 DEF AtWork
    <3>2. IsFiniteSet(passes[w].told)
      BY <1>2, <1>3, <3>1
    <3>3. passes[w].at <= now
      <4>1. passes[w].at = 0 /\ now = 0
        BY <1>1, <1>3, <3>1
      <4> QED
        BY <4>1
    <3> QED
      BY <1>3, <3>1, <3>2, <3>3 DEF PassInv
  <2> QED
    BY <1>1, <2>1 DEF RemindersInv, PeriodsInv
<1>8. MailsInv
  BY <1>1, NoTaskFacts DEF MailsInv, MailsAreOfStoredRows, InboxInv, TaskIs
<1> QED
  BY <1>4, <1>5, <1>6, <1>7, <1>8 DEF DeskInv

-----------------------------------------------------------------------------
(***************************************************************************)
(* The theorems.                                                           *)
(***************************************************************************)

\* The invariant of the office is inductive: every start satisfies it and
\* every step of a pass, of a request, of the flow or of the clock keeps it.
THEOREM DeskInvInductive ==
    /\ Init => DeskInv
    /\ DeskInv /\ [Next]_vars => DeskInv'
<1>1. Init => DeskInv
  BY DeskInit
<1>2. ASSUME DeskInv, Next PROVE DeskInv'
  <2>1. CASE RemindersNext
    BY <1>2, <2>1, PassKeeps, FlowKeeps DEF RemindersNext
  <2>2. CASE ContactNext
    BY <1>2, <2>2, SendEnquiryKeeps, CountEnquiriesKeeps, StoreEnquiryKeeps, EmailInboxKeeps,
       OpenEnquiryKeeps, MarkHandledKeeps DEF ContactNext
  <2>3. CASE LeavesNext
    <3>1. ASSUME NEW u \in People, RequestLeave(u) PROVE DeskInv'
      BY <1>2, <3>1, RequestLeaveKeeps
    <3>2. ASSUME NEW r \in Tasks, CreateEmployee(r) \/ Decide(r) PROVE DeskInv'
      BY <1>2, <3>2, CreateEmployeeKeeps, DecideKeeps
    <3>3. ASSUME NEW r \in Tasks, NEW by \in People, NEW u \in People, OpenRecord(r, by, u)
          PROVE DeskInv'
      BY <1>2, <3>3, OpenRecordKeeps
    <3>4. ASSUME NEW r \in Tasks, NEW by \in People, NEW l \in Leaves, NEW v \in Verdicts,
                 OpenLeave(r, by, l, v)
          PROVE DeskInv'
      BY <1>2, <3>4, OpenLeaveKeeps
    <3> QED
      BY <2>3, <3>1, <3>2, <3>3, <3>4 DEF LeavesNext
  <2>4. CASE NoticesNext
    BY <1>2, <2>4, NoticesKeep
  <2>5. ASSUME NEW u \in People, SwitchAccount(u) PROVE DeskInv'
    BY <1>2, <2>5, SwitchKeeps
  <2>6. ASSUME NEW r \in Tasks, LoseTask(r) PROVE DeskInv'
    BY <1>2, <2>6, DropStep DEF LoseTask
  <2>7. CASE Tick
    BY <1>2, <2>7, TickKeeps
  <2> QED
    BY <1>2, <2>1, <2>2, <2>3, <2>4, <2>5, <2>6, <2>7 DEF Next
<1> QED
  BY <1>1, <1>2, StutterKeeps

THEOREM DeskInvHolds == Spec => []DeskInv
BY DeskInvInductive, PTL DEF Spec

\* The tables and what requests and passes hold have their types
\* (db/models.py: the tables notifications, contact_requests, leave_requests
\* and audit_events).
THEOREM DeskWellFormed == Spec => []DeskTypeOK
<1>1. DeskInv => DeskTypeOK
  BY DEF DeskInv, TablesInv
<1> QED
  BY <1>1, DeskInvHolds, PTL

\* In no hour are more enquiries kept than the limits of the form, however
\* many submissions run at once (submit_contact_request).
THEOREM EnquiriesStayWithinLimits == Spec => []EnquiriesWithinLimits
<1>1. DeskInv => EnquiriesWithinLimits
  BY DEF DeskInv, ContactInv
<1> QED
  BY <1>1, DeskInvHolds, PTL

\* Every decision on leave is somebody else's and in the trail, and no
\* attempt on one's own request left an event (approve and reject of a leave
\* request, trg_leave_no_self_validation).
THEOREM DecisionsStayOnRecord == Spec => []DecisionsAreOnRecord
<1>1. DeskInv => DecisionsAreOnRecord
  BY DEF DeskInv, LeavesInv
<1> QED
  BY <1>1, DeskInvHolds, PTL

\* An e-mail is about a row that was committed, and leaves once, whatever
\* fails (run_reminders_once, submit_contact_request and email_inbox).
THEOREM MailsFollowCommits == Spec => []MailsAreOfStoredRows
<1>1. DeskInv => MailsAreOfStoredRows
  BY DEF DeskInv, MailsInv
<1> QED
  BY <1>1, DeskInvHolds, PTL

\* One reminder of an invoice at a step to a person in each period, with the
\* job in any number of processes (send_due_reminders).
THEOREM RemindedOncePerPeriod == Spec => []OneReminderPerPeriod
<1>1. ASSUME DeskInv PROVE OneReminderPerPeriod
  <2> SUFFICES ASSUME NEW i \in Invoices, NEW u \in People, invoices[i].step \in Steps,
                      NEW k \in 1 .. MaxTime
               PROVE  LET d == DelayOf[invoices[i].step]
                          start(j) == invoices[i].since + j * d
                      IN  Cardinality(RemindersIn(u, i, start(k), start(k + 1))) <= 1
    BY DEF OneReminderPerPeriod
  <2> DEFINE row == invoices[i]
             d == DelayOf[row.step]
             s == row.since
             start(j) == s + j * d
             S == RemindersIn(u, i, start(k), start(k + 1))
  <2>1. TablesInv /\ PeriodsInv
    BY <1>1 DEF DeskInv, RemindersInv
  <2>2. s \in Nat /\ d \in Nat /\ d > 0 /\ k \in Nat /\ k >= 1 /\ row.step \in Steps
    BY <2>1, RowFacts, StepsFacts, ClockAssumption
  <2>3. ASSUME NEW n \in S
        PROVE  /\ n \in notices /\ ChasesNow(n) /\ n.to = u /\ n.about = i /\ n.kind = KindOf[row.step]
               /\ PeriodStart(row, n.at) = s + k * d
    <3>1. /\ n \in notices /\ n.to = u /\ n.about = i /\ n.kind = KindOf[row.step]
          /\ s + k * d <= n.at /\ n.at < s + (k + 1) * d
      BY DEF RemindersIn
    <3>2. n.at \in Nat
      BY <2>1, <3>1, RowFacts
    <3> HIDE DEF s, d
    <3>3. k * d \in Nat /\ d <= k * d
      <4>1. k = 1 \/ 1 < k
        BY <2>2
      <4>2. 1 < k => 1 * d + d <= k * d
        BY <2>2, ProductGrows
      <4>3. 1 * d = d
        BY <2>2
      <4> QED
        BY <2>2, <4>1, <4>2, <4>3
    <3>4. s + d <= n.at /\ s <= n.at
      BY <2>2, <3>1, <3>2, <3>3
    <3>5. ChasesNow(n)
      BY <2>2, <3>1, <3>4 DEF ChasesNow, s, d
    <3>6. \A j \in Nat : s + j * d <= n.at /\ n.at < s + (j + 1) * d => PeriodStart(row, n.at) = s + j * d
      BY <2>2, <3>2, <3>4, PeriodFacts DEF s, d
    <3> QED
      BY <2>2, <3>1, <3>5, <3>6
  <2> HIDE DEF S
  <2>4. \A n, m \in S : n = m
    BY <2>1, <2>3 DEF PeriodsInv, Likewise
  <2>5. Cardinality(S) <= 1
    BY <2>4, AtMostOne
  <2> QED
    BY <2>5 DEF S
<1> QED
  BY <1>1, DeskInvHolds, PTL
=============================================================================
