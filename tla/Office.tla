------------------------------- MODULE Office -------------------------------
(***************************************************************************)
(* What reminders, enquiries and leave requests share: the clock, who is   *)
(* active, the notifications written by the server and the audit trail.    *)
(*                                                                         *)
(* services/notifications.py and services/audit.py add rows to the         *)
(* caller's transaction: they are seen when it commits, with everything    *)
(* else it did, or never.  So a transaction here is one step that commits, *)
(* and what a handler read before it, it holds in `tasks` or `passes`.     *)
(***************************************************************************)
EXTENDS Integers, Sequences, FiniteSets

CONSTANTS
    People,    \* accounts
    Admins,    \* those whose role is admin
    Accountants,
    NoOne,     \* NULL in a column that holds an account
    Invoices,  \* outgoing invoices
    AuthorOf,  \* cree_par_id of each invoice
    Enquiries, \* ids of contact_requests
    Leaves,    \* ids of leave_requests
    Workers,   \* API processes, each with its reminder job
    Tasks,     \* requests under way
    MaxTime,   \* bound: last tick explored
    Scenarios  \* bound: what happens in a behaviour, and how many times

ASSUME PeopleAssumption ==
    Admins \subseteq People /\ Accountants \subseteq People /\ NoOne \notin People
ASSUME AuthorsAssumption == AuthorOf \in [Invoices -> People]
ASSUME ClockAssumption == MaxTime \in Nat
ASSUME TablesAssumption == IsFiniteSet(People) /\ IsFiniteSet(Invoices)

VARIABLES
    now,       \* the clock of the server and of the database
    active,    \* accounts that are active
    notices,   \* the table notifications
    trail,     \* the table audit_events, in the order of commits
    invoices,  \* outgoing invoices in the verification flow
    passes,    \* the reminder job of each process
    mails,     \* e-mails sent
    enquiries, \* the table contact_requests
    employees, \* accounts with a row in the table employees
    leaves,    \* the table leave_requests
    tasks,     \* what each request has in memory
    left       \* bound: how many times each thing may still happen

chasing == <<invoices, passes>>
personnel == <<employees, leaves>>
reading == <<enquiries, personnel, tasks>>
vars == <<now, active, notices, trail, chasing, mails, reading, left>>

Times == 0 .. MaxTime

\* The behaviour has room for one more of these.
Again(thing) ==
    /\ thing \in DOMAIN left
    /\ left[thing] > 0
    /\ left' = [left EXCEPT ![thing] = @ - 1]

-----------------------------------------------------------------------------
ReminderKinds == {"reminder_draft", "reminder_review", "reminder_rejected", "reminder_approved"}

NoticeKinds ==
    ReminderKinds \cup {"invoice_submitted", "invoice_approved", "invoice_rejected",
                        "invoice_cancelled", "contact_request"}

\* copy tells apart two rows that agree on everything else.
Notice == [to : People, kind : NoticeKinds, about : Invoices \cup Enquiries, at : Times,
           copy : Nat \ {0}, read : BOOLEAN, dismissed : BOOLEAN]

\* The row an event, an e-mail or a notice is about is told by its table, too.
ASSUME IdsAssumption ==
    /\ Leaves \cap (People \cup Enquiries) = {}
    /\ \A e \in Enquiries : e \notin Notice

Same(n, m) == n.to = m.to /\ n.kind = m.kind /\ n.about = m.about /\ n.at = m.at

\* users_with_role
ActiveWith(role) == role \cap active

\* notify: one row for each recipient, the person who acted left out
Notes(people, kind, about, at, exclude) ==
    LET Blank(u) == [to |-> u, kind |-> kind, about |-> about, at |-> at,
                     copy |-> 1, read |-> FALSE, dismissed |-> FALSE]
        Copies(u) == Cardinality({n \in notices : Same(n, Blank(u))})
    IN  {[Blank(u) EXCEPT !.copy = 1 + Copies(u)] : u \in people \ {exclude}}

\* record_event: the actor is the identity of the request.
Event(actor, action, about, before, after) ==
    [actor |-> actor, action |-> action, about |-> about, before |-> before, after |-> after]

Record(event) == trail' = Append(trail, event)

\* send_email: it leaves once more, or it fails and is not tried again.
SendEmail(of) ==
    \/ /\ mails' = mails \cup {[of |-> of, times |-> 1 + Cardinality({m \in mails : m.of = of})]}
       /\ UNCHANGED left
    \/ /\ Again("outage")
       /\ UNCHANGED mails

\* What a request holds between two of its steps.
NoTask == [pc |-> "idle", by |-> NoOne, about |-> NoOne, at |-> 0, seen |-> NoOne, verdict |-> "none"]

TaskIs(r, pc) == tasks[r].pc = pc
Hold(r, task) == tasks' = [tasks EXCEPT ![r] = task]
Drop(r) == tasks' = [tasks EXCEPT ![r] = NoTask]

-----------------------------------------------------------------------------
\* _own and _live: the caller's, not dismissed
Live(u) == {n \in notices : n.to = u /\ ~ n.dismissed}

Rewrite(old, new) == notices' = (notices \ old) \cup new

UntouchedByReading == UNCHANGED <<now, active, trail, chasing, mails, reading>>

\* POST /api/notifications/{id}/read
MarkRead(u) ==
    /\ Again("notice")
    /\ \E n \in Live(u) :
         /\ ~ n.read
         /\ Rewrite({n}, {[n EXCEPT !.read = TRUE]})
    /\ UntouchedByReading

\* POST /api/notifications/read-all
MarkAllRead(u) ==
    /\ Again("notice")
    /\ Rewrite(Live(u), {[n EXCEPT !.read = TRUE] : n \in Live(u)})
    /\ UntouchedByReading

\* POST /api/notifications/{id}/dismiss: the row stays.
Dismiss(u) ==
    /\ Again("notice")
    /\ \E n \in Live(u) : Rewrite({n}, {[n EXCEPT !.dismissed = TRUE]})
    /\ UntouchedByReading

\* POST /api/notifications/dismiss-all
DismissAll(u) ==
    /\ Again("notice")
    /\ Rewrite(Live(u), {[n EXCEPT !.dismissed = TRUE] : n \in Live(u)})
    /\ UntouchedByReading

NoticesNext ==
    \E u \in active : MarkRead(u) \/ MarkAllRead(u) \/ Dismiss(u) \/ DismissAll(u)

\* An administrator deactivates an account, or activates it again.
SwitchAccount(u) ==
    /\ Again("switch")
    /\ active' = IF u \in active THEN active \ {u} ELSE active \cup {u}
    /\ UNCHANGED <<now, notices, trail, chasing, mails, reading>>

Tick ==
    /\ now < MaxTime
    /\ Again("tick")
    /\ now' = now + 1
    /\ UNCHANGED <<active, notices, trail, chasing, mails, reading>>
=============================================================================
