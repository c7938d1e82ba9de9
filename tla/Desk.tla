-------------------------------- MODULE Desk --------------------------------
(***************************************************************************)
(* The reminder job, the contact form and the leave requests together,     *)
(* over the notifications, the e-mails and the audit trail they share.     *)
(***************************************************************************)
EXTENDS Reminders, Contact, LeaveRequests, Functions

Task == [pc : {"idle", "submit", "insert", "inbox", "handle", "hire", "decide"},
         by : People \cup {NoOne},
         about : Enquiries \cup People \cup Leaves \cup {NoOne},
         at : Times,
         seen : Senders \cup Leave \cup {NoOne},
         verdict : Verdicts \cup {"none"}]

DeskTypeOK ==
    /\ now \in Times
    /\ active \subseteq People
    /\ notices \subseteq Notice
    /\ trail \in Seq([actor : People,
                      action : {"contact_request.handled", "employee.created", "leave_request"},
                      about : Enquiries \cup People \cup Leaves,
                      before : {"none", "pending"} \cup Verdicts,
                      after : {"none"} \cup Verdicts])
    /\ invoices \in [Invoices -> Row]
    /\ passes \in [Workers -> Pass]
    /\ mails \subseteq [of : Notice \cup Enquiries, times : Nat]
    /\ enquiries \in [Enquiries -> Enquiry]
    /\ employees \subseteq People
    /\ leaves \in [Leaves -> Leave]
    /\ tasks \in [Tasks -> Task]

Init ==
    /\ now = 0
    /\ active = People
    /\ notices = {}
    /\ trail = <<>>
    /\ invoices = [i \in Invoices |-> [step |-> "none", since |-> 0]]
    /\ passes = [w \in Workers |-> Asleep]
    /\ mails = {}
    /\ enquiries = [e \in Enquiries |-> NoEnquiry]
    /\ employees = {}
    /\ leaves = [l \in Leaves |-> NoLeave]
    /\ tasks = [r \in Tasks |-> NoTask]
    /\ left \in Scenarios

\* The process dies, or the connection drops, between two steps of a request.
LoseTask(r) ==
    /\ ~ TaskIs(r, "idle")
    /\ Again("fail")
    /\ Drop(r)
    /\ UNCHANGED <<now, active, notices, trail, chasing, mails, enquiries, personnel>>

Next ==
    \/ RemindersNext
    \/ ContactNext
    \/ LeavesNext
    \/ NoticesNext
    \/ \E u \in People : SwitchAccount(u)
    \/ \E r \in Tasks : LoseTask(r)
    \/ Tick

Spec == Init /\ [][Next]_vars /\ RemindersFairness

-----------------------------------------------------------------------------
(***************************************************************************)
(* Properties.                                                             *)
(***************************************************************************)

RemindersIn(u, i, first, last) ==
    {n \in notices : /\ n.to = u /\ n.about = i /\ n.kind = KindOf[invoices[i].step]
                     /\ first <= n.at /\ n.at < last}

\* While an invoice stays at a step, a person gets one reminder of it in each
\* period at most: with the job in every process, passes that fail, clocks read
\* before a wait and reminders cleared meanwhile (reminders.py: "One per period
\* at most").
OneReminderPerPeriod ==
    \A i \in Invoices, u \in People :
        invoices[i].step \in Steps =>
            LET d == DelayOf[invoices[i].step]
                start(k) == invoices[i].since + k * d
            IN  \A k \in 1 .. MaxTime :
                    Cardinality(RemindersIn(u, i, start(k), start(k + 1))) <= 1

\* An e-mail is only ever about a row that is committed, and leaves once: a
\* pass or a request that fails sends nothing (run_reminders_once: "E-mail goes
\* out only after the commit"; contact.py: "nothing is e-mailed for an enquiry
\* that was not stored").
MailsAreOfStoredRows ==
    \A m \in mails :
        /\ m.times = 1
        /\ IF m.of \in Enquiries
           THEN m.of \in Stored
           ELSE \E n \in notices : Same(n, m.of) /\ n.copy = m.of.copy

\* In no hour are more enquiries kept than one sender, and all senders
\* together, may send (e7b2: "so two concurrent ones cannot both pass a limit").
EnquiriesWithinLimits ==
    \A t \in Times :
        LET kept == {e \in Stored : t - Hour < enquiries[e].at /\ enquiries[e].at <= t}
        IN  /\ Cardinality(kept) <= Total
            /\ \A s \in Senders :
                 Cardinality({e \in kept : enquiries[e].from = s}) <= PerSender

\* A leave request that is decided was decided by somebody else, whose event is
\* in the trail, and no attempt on one's own request left an event: the event
\* and the decision are refused together (services/audit.py: "an action that
\* fails or rolls back records nothing").
DecisionsAreOnRecord ==
    /\ \A l \in Leaves :
         leaves[l].status \in Verdicts =>
            /\ leaves[l].validator \notin {NoOne, leaves[l].of}
            /\ \E e \in Range(trail) : e.about = l /\ e.actor = leaves[l].validator
    /\ \A e \in Range(trail) : e.about \in Leaves => e.actor # leaves[e.about].of

\* The person who has to act, active and past the delay, has no reminder yet.
Waiting(i, u) ==
    /\ IsDue(invoices[i], now)
    /\ u \in Recipients(i, invoices[i])
    /\ Uncovered(u, i, invoices[i], now)

\* Nobody who has to act waits for a reminder for ever, whatever fails on the
\* way (reminders.py: "An invoice must never sit at a step of the flow without
\* the person who has to act being told").
EveryoneIsReminded ==
    \A i \in Invoices, u \in People : Waiting(i, u) ~> ~ Waiting(i, u)
=============================================================================
