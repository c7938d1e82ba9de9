------------------------------ MODULE Sessions ------------------------------
(***************************************************************************)
(* Whose data a request reads: core/identity.py, core/database.py and      *)
(* core/deps.py over a pool of connections, with the row-level security    *)
(* policies of the migrations.                                             *)
(*                                                                         *)
(* The identity of a request is in a context variable.  Each transaction   *)
(* copies it, when it begins, to the settings of its connection that the   *)
(* policies read; they last until the transaction ends, and the next       *)
(* request may borrow the connection.                                      *)
(***************************************************************************)
EXTENDS Integers, FiniteSets

CONSTANTS
    Requests,   \* requests and passes of the reminder job under way
    Users,      \* accounts
    Nobody,     \* NULL in the place of an account
    Pool,       \* connections to the database
    FirstRoles, \* roles of the accounts at the start
    GivenRoles, \* bound: roles that updates give
    MaxVersion, \* bound on token_version
    MaxCalls,   \* bound: requests explored
    MaxUpdates  \* bound: updates of accounts explored

Roles == {"admin", "employee", "accountant"}

ASSUME NobodyAssumption == Nobody \notin Users \cup Requests
ASSUME FirstRolesAssumption == FirstRoles \in [Users -> Roles]
ASSUME BoundsAssumption == {MaxVersion, MaxCalls, MaxUpdates} \subseteq Nat /\ GivenRoles \subseteq Roles

VARIABLES
    accounts, \* the rows of users
    had,      \* history: every row of each account
    updates,  \* administrators' updates that have read a row and not yet written it
    pool,     \* the settings of each connection and who has borrowed it
    req,      \* each request: its context and what its last query returned
    events,   \* the committed rows of audit_events
    called,   \* bound: requests so far
    loads     \* bound: updates so far

rows == <<accounts, had, updates, loads>>
vars == <<accounts, had, updates, pool, req, events, called, loads>>

Identity == [id : Users \cup {Nobody}, role : Roles \cup {"none", "reminders"}]
NoIdentity == [id |-> Nobody, role |-> "none"]

Account == [role : Roles, active : BOOLEAN, version : 0 .. MaxVersion]

\* The row as it was read, and as the session wants it
Update == [user : Users, read : Account, new : Account]

-----------------------------------------------------------------------------
(***************************************************************************)
(* Row-level security.  One row of each table for each owner stands for    *)
(* them all.  "flow" is what the reminder job reads of the invoices, their *)
(* reviews and clients; "billing" is their lines and the suppliers.        *)
(***************************************************************************)

Owned == {"users", "employees", "payslips", "leave_requests", "notifications"}
Shared == {"flow", "billing", "periods", "contact_requests", "invoice_events", "other_events", "user_mfa"}

Rows == [table : Owned, owner : Users] \cup [table : Shared, owner : {Nobody}]

ReadByRole ==
    [users |-> {"admin", "accountant", "reminders"},
     employees |-> {"admin", "accountant"},
     payslips |-> {"admin", "accountant"},
     leave_requests |-> {"admin"},
     notifications |-> {"reminders"},
     flow |-> {"admin", "accountant", "reminders"},
     billing |-> {"admin", "accountant"},
     periods |-> Roles \cup {"reminders"},
     contact_requests |-> {"admin"},
     user_mfa |-> {}]

EventsReadBy(table) == IF table = "invoice_events" THEN {"admin", "accountant"} ELSE {"admin"}

ReadersOf(table) ==
    IF table \in {"invoice_events", "other_events"} THEN EventsReadBy(table) ELSE ReadByRole[table]

\* The policies FOR SELECT of a table, one of which has to hold: the role may
\* read it all, or the row is the caller's own.
Visible(row, as) ==
    \/ as.role \in ReadersOf(row.table)
    \/ as.id # Nobody /\ row.owner = as.id

\* audit_events_written_in_own_name
InOwnName(event, as) == event = as

-----------------------------------------------------------------------------
Resting == [pc |-> "idle", kind |-> "none", user |-> Nobody, version |-> 0, since |-> {},
            as |-> NoIdentity, got |-> {}, asked |-> FALSE, writing |-> {}]

Request ==
    [pc : {"idle", "identify", "purpose", "switch", "spend", "work", "refused", "denied"},
     kind : {"none", "route", "public", "purpose", "link", "job"},
     user : Users \cup {Nobody}, \* whose token, or whose link
     version : 0 .. MaxVersion,  \* of the token
     since : SUBSET Account,     \* history: the user's rows from its arrival to its identification
     as : Identity,              \* the context variables
     got : SUBSET Rows,          \* rows its last query returned
     asked : BOOLEAN,            \* it has queried under this identity
     writing : SUBSET Identity]  \* audit events, not committed

Connection == [by : Requests \cup {Nobody}, as : Identity]
Free == [by |-> Nobody, as |-> NoIdentity]

Borrowed(r) == {c \in Pool : pool[c].by = r}
InTransaction(r) == Borrowed(r) # {}
Settings(r) == pool[CHOOSE c \in Borrowed(r) : TRUE].as

SessionsTypeOK ==
    /\ accounts \in [Users -> Account]
    /\ had \in [Users -> SUBSET Account]
    /\ updates \subseteq Update
    /\ pool \in [Pool -> Connection]
    /\ req \in [Requests -> Request]
    /\ events \subseteq [as : Identity, by : Users \cup {Nobody}, kind : {"route", "purpose", "link"}]
    /\ called \in 0 .. MaxCalls
    /\ loads \in 0 .. MaxUpdates
    /\ \A r \in Requests :
         /\ Cardinality(Borrowed(r)) <= 1
         /\ InTransaction(r) => req[r].pc # "idle"

Init ==
    /\ accounts = [u \in Users |-> [role |-> FirstRoles[u], active |-> TRUE, version |-> 0]]
    /\ had = [u \in Users |-> {accounts[u]}]
    /\ updates = {}
    /\ pool = [c \in Pool |-> Free]
    /\ req = [r \in Requests |-> Resting]
    /\ events = {}
    /\ called = 0
    /\ loads = 0

Goto(r, pc) == req' = [req EXCEPT ![r].pc = pc]

-----------------------------------------------------------------------------
(***************************************************************************)
(* Transactions.                                                           *)
(***************************************************************************)

\* _apply_request_identity: a context that is empty leaves the settings alone.
Begin(r) ==
    /\ req[r].pc \in {"purpose", "spend", "work"}
    /\ ~ InTransaction(r)
    /\ \E c \in Pool :
         /\ pool[c].by = Nobody
         /\ pool' = [pool EXCEPT ![c] =
              [by |-> r, as |-> IF req[r].as = NoIdentity THEN @.as ELSE req[r].as]]
    /\ UNCHANGED <<rows, req, events, called>>

\* Mutant: the settings outlive the transaction.
KeepsSettings(r) == [c \in Pool |-> IF pool[c].by = r THEN [pool[c] EXCEPT !.by = Nobody] ELSE pool[c]]

\* set_config(..., is_local => true): the transaction's end clears the
\* settings, and the connection is back in the pool.
Returned(r) == [c \in Pool |-> IF pool[c].by = r THEN Free ELSE pool[c]]

Commits(r) ==
    /\ InTransaction(r)
    /\ pool' = Returned(r)
    /\ events' = events \cup
         {[as |-> e, by |-> req[r].user, kind |-> req[r].kind] : e \in req[r].writing}

\* A handler that commits goes on in another transaction.
Commit(r) ==
    /\ req[r].pc = "work"
    /\ Commits(r)
    /\ req' = [req EXCEPT ![r].writing = {}]
    /\ UNCHANGED <<rows, called>>

\* Mutant: a request that ends keeps its connection.
NeverCloses(r) ==
    /\ req[r].pc \in {"work", "refused", "denied"}
    /\ req' = [req EXCEPT ![r] = Resting]
    /\ UNCHANGED <<rows, pool, events, called>>

\* get_db closes the session, whatever has happened: what is not committed is
\* rolled back.
Close(r) ==
    /\ req[r].pc \in {"work", "refused", "denied"}
    /\ pool' = Returned(r)
    /\ req' = [req EXCEPT ![r] = Resting]
    /\ UNCHANGED <<rows, events, called>>

-----------------------------------------------------------------------------
(***************************************************************************)
(* Who is calling.                                                         *)
(***************************************************************************)

FirstStep(kind) ==
    CASE kind = "route" -> "identify"
      [] kind = "purpose" -> "purpose"
      [] kind = "link" -> "spend"
      [] kind \in {"public", "job"} -> "work"

\* require_authentication clears the context; run_reminders_once sets the job's.
Arrive(r, kind, u, version) ==
    /\ req[r].pc = "idle"
    /\ called < MaxCalls
    /\ called' = called + 1
    /\ u = Nobody <=> kind \in {"public", "job"}
    /\ version \in IF u = Nobody THEN {0} ELSE {row.version : row \in had[u]}
    /\ req' = [req EXCEPT ![r] =
         [Resting EXCEPT !.pc = FirstStep(kind), !.kind = kind, !.user = u, !.version = version,
                         !.since = IF u = Nobody THEN {} ELSE {accounts[u]},
                         !.as = IF kind = "job" THEN [NoIdentity EXCEPT !.role = "reminders"]
                                ELSE NoIdentity]]
    /\ UNCHANGED <<rows, pool, events>>

\* The row of u becomes `row`; requests whose caller is not known yet will be
\* judged on it.
Rewrite(u, row) ==
    /\ accounts' = [accounts EXCEPT ![u] = row]
    /\ had' = [had EXCEPT ![u] = @ \cup {row}]

Unknown == {"identify", "purpose"}

\* The same requests, once the row of u is `row`
Judged(u, row) ==
    [r \in Requests |->
        IF req[r].user = u /\ req[r].pc \in Unknown THEN [req[r] EXCEPT !.since = @ \cup {row}] ELSE req[r]]

\* Mutant: the version of the token is not looked at.
SignatureIsEnough(r) == accounts[req[r].user].active

\* session_identity, and the same test in _purpose_identity
TokenHolds(r) ==
    LET row == accounts[req[r].user]
    IN  row.active /\ row.version = req[r].version

IdentityOf(r) == [id |-> req[r].user, role |-> accounts[req[r].user].role]

\* _identity_for, in a short session of its own, and set_identity
Identify(r) ==
    /\ req[r].pc = "identify"
    /\ \E c \in Pool : pool[c].by = Nobody
    /\ req' = [req EXCEPT ![r] =
         IF TokenHolds(r) THEN [@ EXCEPT !.pc = "work", !.as = IdentityOf(r)] ELSE Resting]
    /\ UNCHANGED <<rows, pool, events, called>>

\* _purpose_identity, in the request's session: the transaction is open when
\* the context is set.
CheckPurpose(r) ==
    /\ req[r].pc = "purpose"
    /\ InTransaction(r)
    /\ req' = [req EXCEPT ![r] =
         IF TokenHolds(r) THEN [@ EXCEPT !.pc = "switch", !.as = IdentityOf(r)]
         ELSE [@ EXCEPT !.pc = "refused"]]
    /\ UNCHANGED <<rows, pool, events, called>>

\* Mutant: the transaction goes on.
SwitchWithoutCommit(r) ==
    /\ req[r].pc = "switch"
    /\ InTransaction(r)
    /\ Goto(r, "work")
    /\ UNCHANGED <<rows, pool, events, called>>

\* The commit after set_identity
Switch(r) ==
    /\ req[r].pc = "switch"
    /\ Commits(r)
    /\ Goto(r, "work")
    /\ UNCHANGED <<rows, called>>

\* activate and reset_password spend the link and record it, as nobody and in
\* one transaction; _unlock then acts as the account, without a role.
SpendLink(r) ==
    LET u == req[r].user
        row == [accounts[u] EXCEPT !.version = @ + 1]
    IN  /\ req[r].pc = "spend"
        /\ InTransaction(r)
        /\ \/ /\ accounts[u].active
              /\ row.version <= MaxVersion
              /\ Rewrite(u, row)
              /\ events' = events \cup {[as |-> req[r].as, by |-> u, kind |-> "link"]}
              /\ pool' = Returned(r)
              /\ req' = [Judged(u, row) EXCEPT
                   ![r] = [req[r] EXCEPT !.pc = "work", !.as = [id |-> u, role |-> "none"]]]
           \/ /\ Goto(r, "refused") \* the link is dead
              /\ UNCHANGED <<accounts, had, pool, events>>
        /\ UNCHANGED <<updates, loads, called>>

-----------------------------------------------------------------------------
(***************************************************************************)
(* What it does then.                                                      *)
(***************************************************************************)

\* A query on every table
Query(r) ==
    /\ req[r].pc = "work"
    /\ InTransaction(r)
    /\ req' = [req EXCEPT ![r].got = {row \in Rows : Visible(row, Settings(r))}, ![r].asked = TRUE]
    /\ UNCHANGED <<rows, pool, events, called>>

\* record_event names the context's identity, and the policy compares it with
\* the connection's: the request fails when they differ.
RecordEvent(r) ==
    /\ req[r].pc = "work"
    /\ req[r].kind \in {"route", "purpose"}
    /\ InTransaction(r)
    /\ req' = [req EXCEPT ![r] =
         IF InOwnName(req[r].as, Settings(r)) THEN [@ EXCEPT !.writing = req[r].writing \cup {req[r].as}]
         ELSE [@ EXCEPT !.pc = "denied"]]
    /\ UNCHANGED <<rows, pool, events, called>>

\* It may have identified its caller a while ago.
Administers(by) == \E row \in had[by] : row.role = "admin" /\ row.active

\* update_user, for another account than the administrator's, reads the row it
\* is to change the role of, to deactivate or to activate.
LoadAccount(by, u, role, active) ==
    LET row == accounts[u]
        revokes == role # row.role \/ (row.active /\ ~ active)
        new == [role |-> role, active |-> active,
                version |-> IF revokes THEN row.version + 1 ELSE row.version]
    IN  /\ by # u /\ Administers(by)
        /\ role \in GivenRoles
        /\ <<role, active>> # <<row.role, row.active>>
        /\ new.version <= MaxVersion
        /\ loads < MaxUpdates
        /\ loads' = loads + 1
        /\ updates' = updates \cup {[user |-> u, read |-> row, new |-> new]}
        /\ UNCHANGED <<accounts, had, pool, req, events, called>>

\* The flush writes the columns that differ from what was read, over the row as
\* it is: a version read before another's update takes the row back to it.
Flushed(t, row) ==
    [role |-> IF t.new.role # t.read.role THEN t.new.role ELSE row.role,
     active |-> IF t.new.active # t.read.active THEN t.new.active ELSE row.active,
     version |-> IF t.new.version # t.read.version THEN t.new.version ELSE row.version]

WriteAccount(t) ==
    LET row == Flushed(t, accounts[t.user])
    IN  /\ updates' = updates \ {t}
        /\ Rewrite(t.user, row)
        /\ req' = Judged(t.user, row)
        /\ UNCHANGED <<pool, events, called, loads>>

Steps(r) ==
    \/ Begin(r) \/ Commit(r) \/ Close(r)
    \/ Identify(r) \/ CheckPurpose(r) \/ Switch(r) \/ SpendLink(r)
    \/ Query(r) \/ RecordEvent(r)

Kinds == {"route", "public", "purpose", "link", "job"}

Next ==
    \/ \E r \in Requests :
         \/ Steps(r)
         \/ \E kind \in Kinds, u \in Users \cup {Nobody}, v \in 0 .. MaxVersion : Arrive(r, kind, u, v)
    \/ \E by, u \in Users, role \in Roles, active \in BOOLEAN : LoadAccount(by, u, role, active)
    \/ \E t \in updates : WriteAccount(t)

\* The server serves every request it has taken, and a handler ends.
Progress(r) ==
    \/ Identify(r) \/ CheckPurpose(r) \/ Switch(r) \/ SpendLink(r) \/ Close(r)
    \/ req[r].pc # "work" /\ Begin(r)

Spec == Init /\ [][Next]_vars /\ \A r \in Requests : WF_vars(Progress(r))

-----------------------------------------------------------------------------
(***************************************************************************)
(* Properties.                                                             *)
(***************************************************************************)

\* What a caller may find in a query's result: a row of their own, or what
\* the role is for.
Entitled(r, row) ==
    CASE req[r].as.role = "admin" -> row.table \notin {"notifications", "user_mfa"} \/ row.owner = req[r].user
      [] req[r].as.role = "accountant" ->
           \/ row.owner = req[r].user
           \/ row.table \in {"users", "employees", "payslips", "flow", "billing", "periods", "invoice_events"}
      [] req[r].as.role = "employee" -> row.owner = req[r].user \/ row.table = "periods"
      [] req[r].kind = "link" -> row.owner = req[r].user
      [] req[r].kind = "job" -> row.table \in {"users", "notifications", "flow", "periods"}

\* Whatever connection a request has borrowed, and whoever had it before, a
\* query returns rows its own caller is entitled to, and to somebody identified
\* it returns at least their own account; to nobody it returns nothing
\* (_apply_request_identity: the settings "cannot leak into the next request",
\* nor may a transaction "run with no identity and, under RLS, silently see
\* nothing").
ReadsAreTheCallers ==
    \A r \in Requests :
        req[r].asked =>
            IF req[r].kind = "public" THEN req[r].got = {}
            ELSE /\ \A row \in req[r].got : Entitled(r, row)
                 /\ req[r].kind # "job" => [table |-> "users", owner |-> req[r].user] \in req[r].got

\* No request is refused its own audit event, and every event names who
\* acted, or nobody for a link (d4b8: "Code cannot record an action as somebody
\* else").
EventsInOwnName ==
    /\ \A r \in Requests : req[r].pc # "denied"
    /\ \A e \in events : e.as.id = IF e.kind = "link" THEN Nobody ELSE e.by

\* A request acts under the role of a row that its account really had, active
\* and of the token's version, between the request's arrival and the reading
\* of the identity: a revocation committed before it arrived refuses it, unless
\* a stale update has taken the row back to the version it revoked (deps.py:
\* "refused on its next request"; require_roles: "the role is the one on the
\* account now, not the token's claim").
CallersAreCurrent ==
    \A r \in Requests :
        req[r].kind \in {"route", "purpose"} /\ req[r].as # NoIdentity =>
            [role |-> req[r].as.role, active |-> TRUE, version |-> req[r].version] \in req[r].since

\* No request waits for a connection for ever: identifying the caller takes a
\* second one only while the request holds none, and every one comes back
\* (_identity_for: "Its own short session, not the request's").
RequestsFinish == \A r \in Requests : req[r].pc # "idle" ~> req[r].pc = "idle"
=============================================================================
