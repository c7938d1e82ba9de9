----------------------------- MODULE Reminders -----------------------------
(***************************************************************************)
(* services/reminders.py: the periodic job that reminds whoever has to act *)
(* on an invoice that stays at a step of the verification flow.            *)
(*                                                                         *)
(* Every API process runs the job.  A pass notes the time, tries the       *)
(* advisory lock, reads the invoices, writes and commits the reminders     *)
(* due, which frees the lock, and sends the e-mails after that.  Invoices  *)
(* move on while it works.                                                 *)
(***************************************************************************)
EXTENDS Office

CONSTANT DelayOf \* delay, in ticks, at each step of the flow

ASSUME DelayAssumption ==
    DelayOf \in [{"draft", "submitted", "rejected", "approved"} -> Nat \ {0}]

Steps == DOMAIN DelayOf

\* An invoice in the flow.  since is date_emission for a draft, or the
\* created_at of the last review; "gone" is sent or cancelled.
Row == [step : Steps \cup {"none", "gone"}, since : Times]

KindOf == [draft |-> "reminder_draft", submitted |-> "reminder_review",
           rejected |-> "reminder_rejected", approved |-> "reminder_approved"]

Asleep == [pc |-> "asleep", at |-> 0, seen |-> <<>>, told |-> {}]

Pass == [pc : {"asleep", "lock", "read", "write", "commit", "mail"},
         at : Times,                  \* the time the pass goes by
         seen : [Invoices -> Row] \cup {<<>>},
         told : SUBSET Notice]        \* reminders written, and then still to be e-mailed

-----------------------------------------------------------------------------
(***************************************************************************)
(* The verification flow, each step one transaction with its notices.      *)
(***************************************************************************)

Move(i, from, to, told) ==
    /\ invoices[i].step \in from
    /\ Again(to)
    /\ invoices' = [invoices EXCEPT ![i] = [step |-> to, since |-> now]]
    /\ notices' = notices \cup told
    /\ UNCHANGED <<now, active, trail, passes, mails, reading>>

\* create_invoice, an outgoing one
CreateInvoice(i) == Move(i, {"none"}, "draft", {})

\* submit_invoice
Submit(i, by) ==
    /\ by \in ActiveWith(Admins)
    /\ Move(i, {"draft", "rejected"}, "submitted",
            Notes(ActiveWith(Accountants), "invoice_submitted", i, now, by))

\* approve_invoice
Approve(i, by) ==
    /\ by \in ActiveWith(Accountants)
    /\ Move(i, {"submitted"}, "approved", Notes({AuthorOf[i]}, "invoice_approved", i, now, by))

\* reject_invoice
Reject(i, by) ==
    /\ by \in ActiveWith(Accountants)
    /\ Move(i, {"submitted"}, "rejected", Notes({AuthorOf[i]}, "invoice_rejected", i, now, by))

\* send_invoice, and cancel_invoice before the number
SendOrDrop(i) == Move(i, {"draft", "rejected", "approved"}, "gone", {})

\* cancel_invoice once numbered
Cancel(i, by) ==
    /\ by \in ActiveWith(Admins)
    /\ Move(i, {"approved"}, "gone",
            Notes(ActiveWith(Accountants), "invoice_cancelled", i, now, by))

-----------------------------------------------------------------------------
(***************************************************************************)
(* A pass.                                                                 *)
(***************************************************************************)

UntouchedByPass == UNCHANGED <<now, active, trail, invoices, reading>>

\* run_reminders_once: the time is taken first.  A pass over no invoice changes
\* nothing: it is left out.
StartPass(w) ==
    /\ passes[w].pc = "asleep"
    /\ \E i \in Invoices : invoices[i].step \in Steps
    /\ passes' = [passes EXCEPT ![w] = [Asleep EXCEPT !.pc = "lock", !.at = now]]
    /\ UntouchedByPass
    /\ UNCHANGED <<notices, mails, left>>

LockHeld == \E v \in Workers : passes[v].pc \in {"read", "write", "commit"}

\* Mutant: the lock is not looked at.
LockIgnored(w) ==
    /\ passes[w].pc = "lock"
    /\ passes' = [passes EXCEPT ![w].pc = "read"]
    /\ UntouchedByPass
    /\ UNCHANGED <<notices, mails, left>>

\* pg_try_advisory_xact_lock: without it the pass does nothing.
TryLock(w) ==
    /\ passes[w].pc = "lock"
    /\ passes' = [passes EXCEPT ![w] =
         IF LockHeld THEN Asleep ELSE [passes[w] EXCEPT !.pc = "read"]]
    /\ UntouchedByPass
    /\ UNCHANGED <<notices, mails, left>>

\* The invoices and their reviews
ReadInvoices(w) ==
    /\ passes[w].pc = "read"
    /\ passes' = [passes EXCEPT ![w] = [passes[w] EXCEPT !.pc = "write", !.seen = invoices]]
    /\ UntouchedByPass
    /\ UNCHANGED <<notices, mails, left>>

IsDue(row, t) == row.step \in Steps /\ t - row.since >= DelayOf[row.step]

PeriodStart(row, t) == row.since + DelayOf[row.step] * ((t - row.since) \div DelayOf[row.step])

\* Inactive accounts are left out.
Recipients(i, row) ==
    IF row.step = "submitted" THEN ActiveWith(Accountants) ELSE {AuthorOf[i]} \cap active

\* No reminder of this kind since the current period began, read or not,
\* dismissed or not
Uncovered(u, i, row, t) ==
    ~ \E n \in notices :
        /\ n.to = u /\ n.kind = KindOf[row.step] /\ n.about = i
        /\ n.at >= PeriodStart(row, t)

\* send_due_reminders
DueNotes(seen, t) ==
    UNION {LET row == seen[i]
               to == {u \in Recipients(i, row) : Uncovered(u, i, row, t)}
           IN  Notes(to, KindOf[row.step], i, t, NoOne) :
           i \in {j \in Invoices : IsDue(seen[j], t)}}

\* Which reminders are there is looked up, and those missing are inserted.
Write(w) ==
    /\ passes[w].pc = "write"
    /\ passes' = [passes EXCEPT ![w] =
         [Asleep EXCEPT !.pc = "commit", !.told = DueNotes(passes[w].seen, passes[w].at)]]
    /\ UntouchedByPass
    /\ UNCHANGED <<notices, mails, left>>

\* Mutant: the e-mails come before the commit, which may fail.
MailBeforeCommit(w) ==
    /\ passes[w].pc = "commit"
    /\ passes' = [passes EXCEPT ![w].pc = "mail"]
    /\ UntouchedByPass
    /\ UNCHANGED <<notices, mails, left>>

\* The commit, which frees the lock
CommitPass(w) ==
    /\ passes[w].pc = "commit"
    /\ notices' = notices \cup passes[w].told
    /\ passes' = [passes EXCEPT ![w].pc = "mail"]
    /\ UntouchedByPass
    /\ UNCHANGED <<mails, left>>

\* _email: one message after the other; send_email may fail and is not retried.
Mail(w) ==
    /\ passes[w].pc = "mail"
    /\ \/ \E n \in passes[w].told :
            /\ passes' = [passes EXCEPT ![w].told = @ \ {n}]
            /\ SendEmail(n)
       \/ /\ passes[w].told = {}
          /\ passes' = [passes EXCEPT ![w] = Asleep]
          /\ UNCHANGED <<mails, left>>
    /\ UntouchedByPass
    /\ UNCHANGED notices

\* Mutant: an exception ends the loop.
LoopEnds(w) ==
    /\ passes[w].pc # "asleep"
    /\ Again("fail")
    /\ passes' = [passes EXCEPT ![w] = [Asleep EXCEPT !.pc = "ended"]]
    /\ UntouchedByPass
    /\ UNCHANGED <<notices, mails>>

\* An exception, which reminder_loop logs, or a crash and a restart: what was
\* not committed is gone and the lock is free.
FailPass(w) ==
    /\ passes[w].pc # "asleep"
    /\ Again("fail")
    /\ passes' = [passes EXCEPT ![w] = Asleep]
    /\ UntouchedByPass
    /\ UNCHANGED <<notices, mails>>

PassSteps(w) ==
    StartPass(w) \/ TryLock(w) \/ ReadInvoices(w) \/ Write(w) \/ CommitPass(w) \/ Mail(w)

FlowSteps(i) ==
    \/ CreateInvoice(i) \/ SendOrDrop(i)
    \/ \E by \in People : Submit(i, by) \/ Approve(i, by) \/ Reject(i, by) \/ Cancel(i, by)

RemindersNext ==
    \/ \E w \in Workers : PassSteps(w) \/ FailPass(w)
    \/ \E i \in Invoices : FlowSteps(i)

\* reminder_loop runs for as long as the process.
RemindersFairness == \A w \in Workers : WF_vars(PassSteps(w))
=============================================================================
