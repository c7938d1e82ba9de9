------------------------------ MODULE Contact ------------------------------
(***************************************************************************)
(* The public contact form and the administrators' inbox:                  *)
(* app/routers/contact.py, services/contact.py and the SECURITY DEFINER    *)
(* function submit_contact_request().                                      *)
(*                                                                         *)
(* The function takes one advisory lock, counts, and inserts the enquiry   *)
(* and the notices to the administrators; the lock is kept until the       *)
(* commit.  created_at and the window both go by now(), the start of the   *)
(* transaction.  The e-mail to the inbox is a background task.  An enquiry *)
(* with the honeypot filled in is no step: nothing is kept.                *)
(***************************************************************************)
EXTENDS Office

CONSTANTS
    Senders,   \* addresses the form is sent from
    PerSender, \* CONTACT_LIMIT_PER_SENDER
    Total,     \* CONTACT_LIMIT_TOTAL
    Hour       \* the window of both limits, in ticks

ASSUME ContactAssumption == {PerSender, Total, Hour} \subseteq Nat \ {0} /\ NoOne \notin Senders

Enquiry == [from : Senders \cup {NoOne}, at : Times, handledBy : People \cup {NoOne}]
NoEnquiry == [from |-> NoOne, at |-> 0, handledBy |-> NoOne]

Stored == {e \in Enquiries : enquiries[e].from # NoOne}

\* POST /api/contact: the transaction begins.
SendEnquiry(r, s) ==
    /\ TaskIs(r, "idle")
    /\ Again("enquiry")
    /\ Hold(r, [NoTask EXCEPT !.pc = "submit", !.seen = s, !.at = now])
    /\ UNCHANGED <<now, active, notices, trail, chasing, mails, enquiries, personnel>>

\* Mutant: the function does not wait for the lock.
Unlocked == TRUE

\* pg_advisory_xact_lock(hashtext('contact_requests'))
SubmissionLockFree == \A q \in Tasks : ~ TaskIs(q, "insert")

Lately(t) == {e \in Stored : enquiries[e].at > t - Hour}

WithinLimits(s, t) ==
    /\ Cardinality({e \in Lately(t) : enquiries[e].from = s}) < PerSender
    /\ Cardinality(Lately(t)) < Total

\* The lock and the counts of submit_contact_request()
CountEnquiries(r) ==
    /\ TaskIs(r, "submit")
    /\ SubmissionLockFree
    /\ IF WithinLimits(tasks[r].seen, tasks[r].at)
       THEN Hold(r, [tasks[r] EXCEPT !.pc = "insert"])
       ELSE Drop(r)
    /\ UNCHANGED <<now, active, notices, trail, chasing, mails, enquiries, personnel, left>>

\* The enquiry and the notices are inserted and committed; bound: the model
\* has an id left for it.
StoreEnquiry(r) ==
    /\ TaskIs(r, "insert")
    /\ Stored # Enquiries
    /\ LET e == CHOOSE free \in Enquiries : free \notin Stored
       IN
         /\ enquiries' = [enquiries EXCEPT
              ![e] = [from |-> tasks[r].seen, at |-> tasks[r].at, handledBy |-> NoOne]]
         /\ notices' = notices \cup
              Notes(ActiveWith(Admins), "contact_request", e, tasks[r].at, NoOne)
         /\ Hold(r, [NoTask EXCEPT !.pc = "inbox", !.about = e])
    /\ UNCHANGED <<now, active, trail, chasing, mails, personnel, left>>

\* email_inbox
EmailInbox(r) ==
    /\ TaskIs(r, "inbox")
    /\ SendEmail(tasks[r].about)
    /\ Drop(r)
    /\ UNCHANGED <<now, active, notices, trail, chasing, enquiries, personnel>>

\* POST /api/contact-requests/{id}/handle: the row is read.
OpenEnquiry(r, by, e) ==
    /\ TaskIs(r, "idle")
    /\ by \in ActiveWith(Admins)
    /\ e \in Stored
    /\ enquiries[e].handledBy = NoOne
    /\ Again("handle")
    /\ Hold(r, [NoTask EXCEPT !.pc = "handle", !.by = by, !.about = e])
    /\ UNCHANGED <<now, active, notices, trail, chasing, mails, enquiries, personnel>>

\* The event and the two columns, committed
MarkHandled(r) ==
    LET t == tasks[r]
    IN  /\ TaskIs(r, "handle")
        /\ enquiries' = [enquiries EXCEPT ![t.about].handledBy = t.by]
        /\ Record(Event(t.by, "contact_request.handled", t.about, "none", "none"))
        /\ Drop(r)
        /\ UNCHANGED <<now, active, notices, chasing, mails, personnel, left>>

ContactNext ==
    \E r \in Tasks :
      \/ CountEnquiries(r) \/ StoreEnquiry(r) \/ EmailInbox(r) \/ MarkHandled(r)
      \/ \E s \in Senders : SendEnquiry(r, s)
      \/ \E by \in People, e \in Enquiries : OpenEnquiry(r, by, e)
=============================================================================
