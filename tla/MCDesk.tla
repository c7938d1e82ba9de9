------------------------------- MODULE MCDesk -------------------------------
(***************************************************************************)
(* A small instance of Desk for TLC: three people, one invoice, five       *)
(* scenarios.                                                              *)
(***************************************************************************)
EXTENDS Desk, TLC

CONSTANTS ann, eve, cal, inv

MCAuthorOf == [i \in Invoices |-> ann]
MCDelayOf == [draft |-> 2, submitted |-> 1, rejected |-> 1, approved |-> 1]

\* One invoice is verified while two processes run the job and one may fail.
Chasing ==
    "draft" :> 1 @@ "submitted" :> 1 @@ "approved" :> 1 @@ "gone" :> 1 @@ "fail" :> 2
      @@ "tick" :> 2

\* One is sent back; its reminders are read or cleared.
Correcting ==
    "draft" :> 1 @@ "submitted" :> 2 @@ "rejected" :> 1 @@ "notice" :> 1 @@ "tick" :> 2

\* One stays a draft while its author comes and goes.
Lingering == "draft" :> 1 @@ "gone" :> 1 @@ "switch" :> 2 @@ "notice" :> 1 @@ "tick" :> 3

\* Visitors write while the administrators answer.
Asking ==
    "enquiry" :> 3 @@ "handle" :> 1 @@ "fail" :> 1 @@ "outage" :> 1 @@ "tick" :> 1

\* Two administrators hire, and decide on leave.
Staffing == "employee" :> 2 @@ "leave" :> 1 @@ "decide" :> 2 @@ "fail" :> 1

MCScenarios == {Chasing, Correcting, Lingering, Asking, Staffing}
=============================================================================
