--------------------------- MODULE LeaveRequests ---------------------------
(***************************************************************************)
(* Employee records and leave requests: the endpoints of main.py with the  *)
(* constraints and the trigger of the database, and the audit trail.       *)
(*                                                                         *)
(* A decision reads the request, records an event and writes the columns   *)
(* that differ from what it read.                                          *)
(***************************************************************************)
EXTENDS Office

Verdicts == {"approved", "refused"}

Leave == [of : People \cup {NoOne}, status : {"none", "pending"} \cup Verdicts,
          validator : People \cup {NoOne}]
NoLeave == [of |-> NoOne, status |-> "none", validator |-> NoOne]

\* POST /api/employees: the account has no record yet.
OpenRecord(r, by, u) ==
    /\ TaskIs(r, "idle")
    /\ by \in ActiveWith(Admins)
    /\ u \notin employees
    /\ Again("employee")
    /\ Hold(r, [NoTask EXCEPT !.pc = "hire", !.by = by, !.about = u])
    /\ UNCHANGED <<now, active, notices, trail, chasing, mails, enquiries, personnel>>

\* The insert: a second record for an account fails, with its event.
CreateEmployee(r) ==
    LET t == tasks[r]
    IN  /\ TaskIs(r, "hire")
        /\ IF t.about \in employees
           THEN UNCHANGED <<employees, trail>>
           ELSE /\ employees' = employees \cup {t.about}
                /\ Record(Event(t.by, "employee.created", t.about, "none", "none"))
        /\ Drop(r)
        /\ UNCHANGED <<now, active, notices, chasing, mails, enquiries, leaves, left>>

\* POST /api/leave-requests
RequestLeave(u) ==
    /\ u \in active \cap employees
    /\ Again("leave")
    /\ \E l \in Leaves :
         /\ leaves[l] = NoLeave
         /\ leaves' = [leaves EXCEPT ![l] = [of |-> u, status |-> "pending", validator |-> NoOne]]
    /\ UNCHANGED <<now, active, notices, trail, chasing, mails, enquiries, employees, tasks>>

\* POST /api/leave-requests/{id}/approve and /reject: whatever its status
OpenLeave(r, by, l, verdict) ==
    /\ TaskIs(r, "idle")
    /\ by \in ActiveWith(Admins)
    /\ leaves[l] # NoLeave
    /\ Again("decide")
    /\ Hold(r, [NoTask EXCEPT !.pc = "decide", !.by = by, !.about = l, !.seen = leaves[l],
                              !.verdict = verdict])
    /\ UNCHANGED <<now, active, notices, trail, chasing, mails, enquiries, personnel>>

\* The columns the session has changed, over the row as it is
Column(seen, want, latest) == IF want # seen THEN want ELSE latest

Decided(t) ==
    [leaves[t.about] EXCEPT
       !.status = Column(t.seen.status, t.verdict, @),
       !.validator = Column(t.seen.validator, t.by, @)]

\* trg_leave_no_self_validation
ValidatedByAnother(row) == row.validator # row.of

\* ck_leave_decision_has_validator
HasValidator(row) == row.status \in Verdicts => row.validator # NoOne

\* Mutant: the event is committed before the decision.
EventFirst(r) ==
    LET t == tasks[r]
    IN  /\ TaskIs(r, "decide")
        /\ Record(Event(t.by, "leave_request", t.about, t.seen.status, t.verdict))
        /\ IF ValidatedByAnother(Decided(t)) /\ HasValidator(Decided(t))
           THEN leaves' = [leaves EXCEPT ![t.about] = Decided(t)]
           ELSE UNCHANGED leaves
        /\ Drop(r)
        /\ UNCHANGED <<now, active, notices, chasing, mails, enquiries, employees, left>>

\* The event and the columns, committed together or refused together
Decide(r) ==
    LET t == tasks[r]
    IN  /\ TaskIs(r, "decide")
        /\ IF ValidatedByAnother(Decided(t)) /\ HasValidator(Decided(t))
           THEN /\ leaves' = [leaves EXCEPT ![t.about] = Decided(t)]
                /\ Record(Event(t.by, "leave_request", t.about, t.seen.status, t.verdict))
           ELSE UNCHANGED <<leaves, trail>>
        /\ Drop(r)
        /\ UNCHANGED <<now, active, notices, chasing, mails, enquiries, employees, left>>

LeavesNext ==
    \/ \E u \in People : RequestLeave(u)
    \/ \E r \in Tasks :
         \/ CreateEmployee(r) \/ Decide(r)
         \/ \E by, u \in People : OpenRecord(r, by, u)
         \/ \E by \in People, l \in Leaves, v \in Verdicts : OpenLeave(r, by, l, v)
=============================================================================
