------------------------------ MODULE Accounts ------------------------------
(***************************************************************************)
(* Accounts, their links, passwords and sessions: the endpoints of main.py *)
(* with services/accounts.py, core/security.py and core/deps.py, over the  *)
(* SECURITY DEFINER functions of the database.                             *)
(*                                                                         *)
(* A request is a sequence of transactions with Python between them.  What *)
(* it read in one (an account's row, a number of attempts, the version a   *)
(* token will carry) it uses in the next, whatever has happened meanwhile. *)
(* A token is a signed statement: nothing takes it back except that its    *)
(* version stops being the account's.                                      *)
(*                                                                         *)
(* Steps whose single UPDATE holds the row's lock until the commit are one *)
(* action.  A request that a handler refuses at once is no step.           *)
(***************************************************************************)
EXTENDS Throttle

CONSTANTS
    Users,         \* accounts that may exist
    NoUser,        \* in a session's memory: nobody
    Passwords,     \* what people type
    Unusable,      \* the placeholder hash of an account never activated
    Addresses,     \* addresses requests come from
    Links,         \* ids of account_tokens
    RequiredRoles, \* MFA_REQUIRED_ROLES
    Secrets,       \* TOTP secrets and batches of recovery codes, in order of creation
    Scenarios      \* bound: where a behaviour starts and what its clients call

ASSUME UsersAssumption == NoUser \notin Users /\ Unusable \notin Passwords
ASSUME NumbersAssumption ==
    /\ Links \subseteq Nat \ {0} /\ Secrets \subseteq Nat \ {0}
    /\ \A s \in Secrets : 1 .. s \subseteq Secrets

Roles == {"admin", "employee", "accountant"}
ASSUME RolesAssumption == RequiredRoles \subseteq Roles

VARIABLES
    accounts, \* the table users
    links,    \* the table account_tokens
    factor,   \* the table user_mfa
    recovery, \* the codes of user_mfa_recovery not used yet
    minted,   \* the last TOTP secret or batch of recovery codes generated
    accepted, \* history: the codes that opened something, under which secret, how many times
    tokens,   \* signed tokens handed out
    req,      \* what each request has in memory
    calls     \* bound: how many times clients still call an operation, by caller and account

secondFactor == <<factor, recovery, minted, accepted>>
stored == <<accounts, links, secondFactor>>
vars == <<throttleVars, stored, tokens, req, calls>>

LoginKey(u) == <<"login_account", u>>
MailKey(u) == <<"reset_mail", u>>
CodeKey(u) == <<"mfa_account", u>>
AddressKey(a) == <<"login_ip", a>>
PublicKey(a) == <<"public_ip", a>>

ASSUME KeysAssumption ==
    /\ \A u \in Users : {LoginKey(u), MailKey(u), CodeKey(u)} \subseteq Keys
    /\ \A a \in Addresses : {AddressKey(a), PublicKey(a)} \subseteq Keys

Operations ==
    {"login", "change", "forgot", "spend", "create", "resend", "update", "public",
     "setup", "confirm", "renew", "disable", "reset", "verify"}

\* had and again are history: the versions the account has had, and those it
\* came back to after it had left them.
Account == [role : Roles \cup {"none"}, active : BOOLEAN, verified : BOOLEAN,
            password : Passwords \cup {Unusable}, version : Nat, had : SUBSET Nat, again : SUBSET Nat]
NoAccount == [role |-> "none", active |-> FALSE, verified |-> FALSE, password |-> Unusable,
              version |-> 0, had |-> {0}, again |-> {}]

\* token_version is written.
Versioned(row, v) ==
    [row EXCEPT !.version = v, !.had = @ \cup {v},
                !.again = IF v \in row.had \ {row.version} THEN @ \cup {v} ELSE @]

NextVersion(row) == Versioned(row, row.version + 1)

Link == [user : Users \cup {NoUser}, purpose : {"reset", "activation"},
         state : {"none", "live", "used"}]
NoLink == [user |-> NoUser, purpose |-> "reset", state |-> "none"]

\* The second factor of an account; last is the last step accepted, 0 for NULL.
Factor == [state : {"none", "pending", "on"}, secret : Secrets \cup {0}, last : 0 .. MaxTime + 2]
NoFactor == [state |-> "none", secret |-> 0, last |-> 0]

\* A code as a person types it: what the app shows for a secret at a step, or
\* a recovery code of a batch (one code stands for the ten of a batch).
Code == [kind : {"app", "paper"}, of : Secrets \cup {0}, step : 0 .. MaxTime + 2]
NoCode == [kind |-> "app", of |-> 0, step |-> 0]

Kinds == {"access", "challenge", "enrol"}

\* how tells what opened an access token: the password alone, a code of the
\* second factor, or an earlier session.
Token == [kind : Kinds, user : Users, version : Nat, how : {"password", "code", "session"}]

Resting == [pc |-> "idle", op |-> "none", user |-> NoUser, by |-> NoUser, typed |-> Unusable,
            chosen |-> Unusable, seen |-> NoAccount, change |-> NoAccount, mfa |-> NoFactor,
            code |-> NoCode, tickets |-> {}, found |-> {}, marked |-> {}]

Request ==
    [pc : {"idle", "count", "password", "admit", "token", "current", "set", "fresh", "link",
           "mark", "mail", "unlock", "write", "replace", "prove", "read", "use", "remove"},
     op : Operations \cup {"none"},
     user : Users \cup {NoUser},            \* the account the request is about
     by : Users \cup {NoUser},              \* the account that calls, if any
     typed : Passwords \cup {Unusable},     \* the password in the body
     chosen : Passwords \cup {Unusable},    \* the new password in the body
     seen : Account,                        \* the account's row as read
     change : Account,                      \* the row after the handler's assignments
     mfa : Factor,                          \* the second factor as read
     code : Code,                           \* the code in the body
     tickets : SUBSET Attempt,              \* the hit that a success gives back
     found : SUBSET Links,                  \* live links the UPDATE found
     marked : SUBSET Links]                 \* links marked used, not committed

AccountsTypeOK ==
    /\ ThrottleTypeOK
    /\ accounts \in [Users -> Account]
    /\ links \in [Links -> Link]
    /\ factor \in [Users -> Factor]
    /\ recovery \in [Users -> SUBSET Secrets]
    /\ minted \in Secrets \cup {0}
    /\ accepted \subseteq [code : Code, under : Secrets, times : Nat]
    /\ tokens \subseteq Token
    /\ req \in [Requests -> Request]

\* A behaviour starts in a state the system has come to by itself: every second
\* factor has a secret of its own, versions have only grown, and a token is of
\* a version its account has had, of an earlier one if the password alone
\* opened it and the second factor is on.
IsStart(s) ==
    LET last == Max({s.factor[u].secret : u \in Users})
    IN  /\ s.accounts \in [Users -> Account]
        /\ \A u \in Users :
             s.accounts[u].had = 0 .. s.accounts[u].version /\ s.accounts[u].again = {}
        /\ s.factor \in [Users -> Factor]
        /\ last \in Secrets \cup {0}
        /\ \A u \in Users :
             /\ s.factor[u].secret <= last
             /\ s.factor[u].state = "none" <=> s.factor[u].secret = 0
             /\ \A v \in Users \ {u} :
                  s.factor[u].secret = s.factor[v].secret => s.factor[u].secret = 0
        /\ s.tokens \subseteq Token
        /\ \A t \in s.tokens :
             /\ t.version <= s.accounts[t.user].version
             /\ t.kind = "access" /\ t.how = "password" /\ s.factor[t.user].state = "on" =>
                   t.version < s.accounts[t.user].version

ASSUME ScenariosAssumption == \A s \in Scenarios : IsStart(s)

\* The code that turned a second factor on, before the behaviour starts.
FirstCode(f) ==
    [code |-> [kind |-> "app", of |-> f.secret, step |-> f.last], under |-> f.secret, times |-> 1]

AccountsInit ==
    /\ ThrottleInit
    /\ links = [k \in Links |-> NoLink]
    /\ req = [r \in Requests |-> Resting]
    /\ \E s \in Scenarios :
         /\ calls = s.calls
         /\ accounts = s.accounts
         /\ factor = s.factor
         /\ tokens = s.tokens
         /\ accepted = {FirstCode(s.factor[u]) : u \in {v \in Users : s.factor[v].state = "on"}}
         /\ minted = Max({s.factor[u].secret : u \in Users})
         /\ recovery = [u \in Users |-> IF s.factor[u].state = "on" THEN {s.factor[u].secret} ELSE {}]

-----------------------------------------------------------------------------
(***************************************************************************)
(* Tokens.                                                                 *)
(***************************************************************************)

\* session_identity, and the same test in _purpose_identity
Honoured(t) ==
    /\ accounts[t.user].active
    /\ accounts[t.user].verified
    /\ t.version = accounts[t.user].version

Holds(kind, u) == \E t \in tokens : t.kind = kind /\ t.user = u /\ Honoured(t)

\* get_current_user
SignedIn(u) == Holds("access", u)

\* require_admin
AdminSignedIn(u) == SignedIn(u) /\ accounts[u].role = "admin"

Grant(kind, u, version, how) ==
    tokens' = tokens \cup {[kind |-> kind, user |-> u, version |-> version, how |-> how]}

\* A client calls the operation, which this behaviour has room for.
Call(op, by, u) ==
    LET c == <<op, by, u>>
    IN  /\ c \in DOMAIN calls
        /\ calls[c] > 0
        /\ calls' = [calls EXCEPT ![c] = @ - 1]

\* Request r passed its first checks.
Start(r, op, by, u, fields) ==
    /\ req[r].pc = "idle"
    /\ Call(op, by, u)
    /\ req' = [req EXCEPT ![r] = [fields EXCEPT !.op = op, !.by = by, !.user = u]]

Goto(r, pc) == req' = [req EXCEPT ![r].pc = pc]
Finish(r) == req' = [req EXCEPT ![r] = Resting]

-----------------------------------------------------------------------------
(***************************************************************************)
(* Counting, in a transaction before the one that acts.                    *)
(***************************************************************************)

AfterCount(op) ==
    CASE op = "login" -> "password"
      [] op = "change" -> "current"
      [] op = "confirm" -> "prove"
      [] op = "verify" -> "read"
      [] op = "renew" -> "use"
      [] op = "public" -> "idle"

Wait(r) ==
    /\ req[r].pc = "count"
    /\ TakeLock(r)
    /\ UNCHANGED <<stored, tokens, req, calls>>

CountAttempt(r) ==
    /\ req[r].pc = "count"
    /\ Hit(r)
    /\ UNCHANGED <<stored, tokens, req, calls>>

Counted(r) == req[r].pc = "count" /\ counting[r].todo = <<>>

\* The caller commits the count whatever comes next; past a limit it answers
\* 429, or what it always answers.
Refused(r) ==
    /\ Counted(r)
    /\ counting[r].refused
    /\ CountCommits(r)
    /\ Finish(r)
    /\ UNCHANGED <<now, stored, tokens, calls>>

Allowed(r) ==
    /\ Counted(r)
    /\ ~ counting[r].refused
    /\ req[r].op # "forgot"
    /\ CountCommits(r)
    /\ req' = [req EXCEPT ![r] =
                 IF AfterCount(req[r].op) = "idle" THEN Resting
                 ELSE [req[r] EXCEPT !.pc = AfterCount(req[r].op), !.tickets = counting[r].rows]]
    /\ UNCHANGED <<now, stored, tokens, calls>>

\* PostgreSQL aborts one of two transactions that wait for each other.
DeadlockVictim(r) ==
    /\ req[r].pc = "count"
    /\ Deadlocked(r)
    /\ CountRollsBack(r)
    /\ Finish(r)
    /\ UNCHANGED <<now, stored, tokens, calls>>

\* limit_public_requests
PublicRequest(r, u, a) ==
    /\ Start(r, "public", NoUser, u, [Resting EXCEPT !.pc = "count"])
    /\ CountFirst(r, <<PublicKey(a)>>)
    /\ UNCHANGED <<now, attempts, stored, tokens>>

-----------------------------------------------------------------------------
(***************************************************************************)
(* Signing in.                                                             *)
(***************************************************************************)

\* POST /api/login
Login(r, u, a, p) ==
    /\ Start(r, "login", NoUser, u, [Resting EXCEPT !.pc = "count", !.typed = p])
    /\ CountFirst(r, <<AddressKey(a), LoginKey(u)>>)
    /\ UNCHANGED <<now, attempts, stored, tokens>>

PasswordFits(r, row) == row.password = req[r].typed

\* auth_account_by_email: all of the row, whoever asks
AccountByEmail(u) == accounts[u]

CheckPassword(r) ==
    LET row == AccountByEmail(req[r].user)
    IN  /\ req[r].pc = "password"
        /\ IF PasswordFits(r, row) /\ row.active /\ row.verified
           THEN req' = [req EXCEPT ![r] = [req[r] EXCEPT !.pc = "admit", !.seen = row]]
           ELSE Finish(r)
        /\ UNCHANGED <<throttleVars, stored, tokens, calls>>

\* The success takes its attempts back.
Admit(r) ==
    /\ req[r].pc = "admit"
    /\ Pardon({a \in req[r].tickets : a.key[1] = "login_ip"}, {LoginKey(req[r].user)})
    /\ Goto(r, "token")
    /\ UNCHANGED <<now, counting, stored, tokens, calls>>

\* What the password alone gives
KindAfterPassword(r) ==
    IF factor[req[r].user].state = "on" THEN "challenge"
    ELSE IF req[r].seen.role \in RequiredRoles THEN "enrol" ELSE "access"

\* Mutant: the token carries no version.
SignInUnversioned(r) ==
    /\ req[r].pc = "token"
    /\ Grant(KindAfterPassword(r), req[r].user, -1, "password")
    /\ Finish(r)
    /\ UNCHANGED <<throttleVars, stored, calls>>

\* The second factor is read after the password; the token carries the
\* version read with the password.
SignIn(r) ==
    LET u == req[r].user
    IN  /\ req[r].pc = "token"
        /\ Grant(KindAfterPassword(r), u, req[r].seen.version, "password")
        /\ Finish(r)
        /\ UNCHANGED <<throttleVars, stored, calls>>

\* A fresh session for the caller: the version is read again, after the commit.
FreshSession(r) ==
    LET how == IF req[r].op \in {"verify", "confirm"} THEN "code" ELSE "session"
    IN  /\ req[r].pc = "fresh"
        /\ Grant("access", req[r].user, accounts[req[r].user].version, how)
        /\ Finish(r)
        /\ UNCHANGED <<throttleVars, stored, calls>>

-----------------------------------------------------------------------------
(***************************************************************************)
(* Passwords and links.                                                    *)
(***************************************************************************)

\* Mutant: the address is counted too, after the account.
ChangeCountsAddress(r, u, p, q) ==
    /\ SignedIn(u)
    /\ Start(r, "change", u, u, [Resting EXCEPT !.pc = "count", !.typed = p, !.chosen = q])
    /\ \E a \in Addresses : CountFirst(r, <<LoginKey(u), AddressKey(a)>>)
    /\ UNCHANGED <<now, attempts, stored, tokens>>

\* POST /api/me/password
ChangeMyPassword(r, u, p, q) ==
    /\ SignedIn(u)
    /\ Start(r, "change", u, u, [Resting EXCEPT !.pc = "count", !.typed = p, !.chosen = q])
    /\ CountFirst(r, <<LoginKey(u)>>)
    /\ UNCHANGED <<now, attempts, stored, tokens>>

CheckCurrent(r) ==
    /\ req[r].pc = "current"
    /\ IF PasswordFits(r, accounts[req[r].user]) THEN Goto(r, "set") ELSE Finish(r)
    /\ UNCHANGED <<throttleVars, stored, tokens, calls>>

\* auth_set_own_password(), clear and commit
SetOwnPassword(r) ==
    LET u == req[r].user
    IN  /\ req[r].pc = "set"
        /\ IF accounts[u].active /\ accounts[u].verified
           THEN /\ accounts' = [accounts EXCEPT
                     ![u] = NextVersion([accounts[u] EXCEPT !.password = req[r].chosen])]
                /\ Pardon({}, {LoginKey(u)})
                /\ Goto(r, "fresh")
           ELSE /\ Finish(r)
                /\ UNCHANGED <<accounts, attempts>>
        /\ UNCHANGED <<now, counting, links, secondFactor, tokens, calls>>

\* POST /api/forgot-password
ForgotPassword(r, u) ==
    /\ accounts[u].active
    /\ accounts[u].verified
    /\ Start(r, "forgot", NoUser, u, [Resting EXCEPT !.pc = "count"])
    /\ CountFirst(r, <<MailKey(u)>>)
    /\ UNCHANGED <<now, attempts, stored, tokens>>

LiveLinks(u, purpose) ==
    {k \in Links : links[k] = [user |-> u, purpose |-> purpose, state |-> "live"]}

Marked == UNION {req[q].marked : q \in Requests}

PurposeOf(op) == IF op = "forgot" THEN "reset" ELSE "activation"

\* issue_token: its UPDATE finds the links still live.  A reset link is issued
\* in the transaction that counted it.
FindOldLinks(r) ==
    /\ \/ req[r].pc = "link"
       \/ req[r].op = "forgot" /\ Counted(r) /\ ~ counting[r].refused
    /\ req' = [req EXCEPT ![r] =
         [req[r] EXCEPT !.pc = "mark", !.found = LiveLinks(req[r].user, PurposeOf(req[r].op))]]
    /\ UNCHANGED <<throttleVars, stored, tokens, calls>>

\* Mutant: the links still live stay live.
KeepsOldLinks(r) ==
    /\ req[r].pc = "mark"
    /\ Goto(r, "mail")
    /\ UNCHANGED <<throttleVars, stored, tokens, calls>>

\* It waits while another transaction has marked one of them, and marks those
\* that live still; a link that came in meanwhile it has not found.
MarkOldLinks(r) ==
    /\ req[r].pc = "mark"
    /\ req[r].found \cap Marked = {}
    /\ req' = [req EXCEPT ![r] =
         [req[r] EXCEPT !.pc = "mail", !.marked = {k \in req[r].found : links[k].state = "live"}]]
    /\ UNCHANGED <<throttleVars, stored, tokens, calls>>

IsNextLink(k) ==
    /\ links[k].state = "none"
    /\ \A j \in Links : links[j].state = "none" => k <= j

\* The commit, after which the link is e-mailed to its owner
MailLink(r) ==
    /\ req[r].pc = "mail"
    /\ \E k \in Links :
         /\ IsNextLink(k)
         /\ links' = [j \in Links |->
              IF j = k
              THEN [user |-> req[r].user, purpose |-> PurposeOf(req[r].op), state |-> "live"]
              ELSE IF j \in req[r].marked THEN [links[j] EXCEPT !.state = "used"] ELSE links[j]]
    /\ CountCommits(r)
    /\ Finish(r)
    /\ UNCHANGED <<now, accounts, secondFactor, tokens, calls>>

\* A link past its lifetime is refused like a used one.
LinkExpires(k) ==
    /\ links[k].state = "live"
    /\ k \notin Marked
    /\ links' = [links EXCEPT ![k].state = "used"]
    /\ UNCHANGED <<throttleVars, accounts, secondFactor, tokens, req, calls>>

\* auth_spend_account_token() and the commit
SpendLink(r, k, purpose, p) ==
    LET u == links[k].user
    IN  /\ links[k].state = "live"
        /\ links[k].purpose = purpose
        /\ k \notin Marked
        /\ accounts[u].active
        /\ Start(r, "spend", NoUser, u, [Resting EXCEPT !.pc = "unlock"])
        /\ links' = [links EXCEPT ![k].state = "used"]
        /\ accounts' = [accounts EXCEPT ![u] = NextVersion(
             [accounts[u] EXCEPT !.password = p, !.verified = @ \/ purpose = "activation"])]
        /\ UNCHANGED <<throttleVars, secondFactor, tokens>>

\* POST /api/activate
ActivateAccount(r, k, p) == SpendLink(r, k, "activation", p)

\* POST /api/reset-password
ResetPassword(r, k, p) == SpendLink(r, k, "reset", p)

\* _unlock
Unlock(r) ==
    /\ req[r].pc = "unlock"
    /\ Pardon({}, {LoginKey(req[r].user)})
    /\ Finish(r)
    /\ UNCHANGED <<now, counting, stored, tokens, calls>>

-----------------------------------------------------------------------------
(***************************************************************************)
(* The administrator.                                                      *)
(***************************************************************************)

\* POST /api/users
CreateUser(r, by, u, role) ==
    /\ AdminSignedIn(by)
    /\ accounts[u] = NoAccount
    /\ \E k \in Links :
         /\ IsNextLink(k)
         /\ links' = [links EXCEPT ![k] = [user |-> u, purpose |-> "activation", state |-> "live"]]
    /\ req[r].pc = "idle"
    /\ Call("create", by, u)
    /\ accounts' = [accounts EXCEPT ![u] = [NoAccount EXCEPT !.role = role, !.active = TRUE]]
    /\ UNCHANGED <<throttleVars, secondFactor, tokens, req>>

\* POST /api/users/{id}/activation
ResendActivation(r, by, u) ==
    /\ AdminSignedIn(by)
    /\ accounts[u].role # "none"
    /\ ~ accounts[u].verified
    /\ Start(r, "resend", by, u, [Resting EXCEPT !.pc = "link"])
    /\ UNCHANGED <<throttleVars, stored, tokens>>

\* PATCH /api/users/{id} and POST /api/users/{id}/deactivate: load and check
UpdateUser(r, by, u, role, active) ==
    LET row == accounts[u]
        revokes == role # row.role \/ (row.active /\ ~ active)
    IN  /\ AdminSignedIn(by)
        /\ row.role # "none"
        /\ <<role, active>> # <<row.role, row.active>>
        /\ u = by => ~ revokes
        /\ Start(r, "update", by, u,
                 [Resting EXCEPT !.pc = "write", !.seen = row,
                    !.change = [row EXCEPT !.role = role, !.active = active,
                                  !.version = IF revokes THEN row.version + 1 ELSE row.version]])
        /\ UNCHANGED <<throttleVars, stored, tokens>>

Column(seen, want, latest) == IF want # seen THEN want ELSE latest

\* The flush writes the columns the session changed, over the row as it is:
\* the version is the one read plus one, whatever it has become.
WriteUser(r) ==
    LET t == req[r]
        row == accounts[t.user]
        version == Column(t.seen.version, t.change.version, row.version)
    IN  /\ t.pc = "write"
        /\ accounts' = [accounts EXCEPT ![t.user] =
             Versioned([row EXCEPT !.role = Column(t.seen.role, t.change.role, row.role),
                                   !.active = Column(t.seen.active, t.change.active, row.active)],
                       version)]
        /\ Finish(r)
        /\ UNCHANGED <<throttleVars, links, secondFactor, tokens, calls>>

TimePasses == Tick /\ UNCHANGED <<stored, tokens, req, calls>>

\* The process dies or the connection drops: nothing of the open transaction
\* remains, and what was committed does.
Crash(r) ==
    /\ req[r].pc # "idle"
    /\ CountRollsBack(r)
    /\ Finish(r)
    /\ UNCHANGED <<now, stored, tokens, calls>>

-----------------------------------------------------------------------------
AccountSteps(r) ==
    \/ Wait(r) \/ CountAttempt(r) \/ Refused(r) \/ Allowed(r) \/ DeadlockVictim(r)
    \/ CheckPassword(r) \/ Admit(r) \/ SignIn(r) \/ FreshSession(r)
    \/ CheckCurrent(r) \/ SetOwnPassword(r)
    \/ FindOldLinks(r) \/ MarkOldLinks(r) \/ MailLink(r) \/ Unlock(r)
    \/ WriteUser(r)

AccountCalls(r) ==
    \E u \in Users :
      \/ \E a \in Addresses : PublicRequest(r, u, a)
      \/ \E a \in Addresses, p \in Passwords : Login(r, u, a, p)
      \/ \E p, q \in Passwords : ChangeMyPassword(r, u, p, q)
      \/ ForgotPassword(r, u)
      \/ \E k \in Links, p \in Passwords : ActivateAccount(r, k, p) \/ ResetPassword(r, k, p)
      \/ \E by \in Users, role \in Roles : CreateUser(r, by, u, role)
      \/ \E by \in Users : ResendActivation(r, by, u)
      \/ \E by \in Users, role \in Roles, active \in BOOLEAN : UpdateUser(r, by, u, role, active)

AccountsNext ==
    \/ \E r \in Requests : AccountCalls(r) \/ AccountSteps(r) \/ Crash(r)
    \/ \E k \in Links : LinkExpires(k)
    \/ TimePasses
=============================================================================
