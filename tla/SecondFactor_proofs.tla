------------------------- MODULE SecondFactor_proofs -------------------------
(***************************************************************************)
(* Theorems about Accounts and SecondFactor, for any number of requests,   *)
(* accounts, links, secrets and attempts: the limits on attempts, the one  *)
(* reset link, the codes that work once, and what a password alone opens.  *)
(***************************************************************************)
EXTENDS SecondFactor, Throttle_proofs

-----------------------------------------------------------------------------
(***************************************************************************)
(* The inductive invariant.                                                *)
(***************************************************************************)

\* The types, but for those of the limits
AccountsTypes ==
    /\ accounts \in [Users -> Account]
    /\ links \in [Links -> Link]
    /\ factor \in [Users -> Factor]
    /\ recovery \in [Users -> SUBSET Secrets]
    /\ minted \in Secrets \cup {0}
    /\ accepted \subseteq [code : Code, under : Secrets, times : Nat]
    /\ tokens \subseteq Token
    /\ req \in [Requests -> Request]

\* What a request does at each of its steps
RequestInv(t) ==
    /\ t.pc # "idle" => t.user \in Users
    /\ t.pc = "count" => t.op \in {"login", "change", "forgot", "public", "confirm", "verify", "renew"}
    /\ t.pc = "link" => t.op = "resend"

\* A request for a reset link has the lock of its e-mail count from the hit to
\* the commit, and with it the only say in which of the account's links live.
ForgotInv(t, c) ==
    t.op = "forgot" =>
        /\ t.pc = "count" =>
              \/ c.todo = <<MailKey(t.user)>>
              \/ c.todo = <<>> /\ (c.refused \/ MailKey(t.user) \in c.held)
        /\ t.pc = "mark" =>
              /\ MailKey(t.user) \in c.held
              /\ LiveLinks(t.user, "reset") \subseteq t.found
        /\ t.pc = "mail" =>
              /\ MailKey(t.user) \in c.held
              /\ LiveLinks(t.user, "reset") \subseteq t.marked

LinkInv ==
    /\ \A k \in Links : links[k].state = "live" => links[k].user \in Users
    /\ \A u \in Users : \A j, k \in LiveLinks(u, "reset") : j = k
    /\ \A r \in Requests : ForgotInv(req[r], counting[r])

\* Secrets and batches are new when they are generated; what was accepted
\* under the secret an account has is out of use.
CodeInv ==
    /\ \A u \in Users :
         /\ factor[u].state = "none" <=> factor[u].secret = 0
         /\ factor[u].secret <= minted
         /\ \A b \in recovery[u] : b <= minted
         /\ \A v \in Users \ {u} : factor[u].secret = factor[v].secret => factor[u].secret = 0
    /\ \A a \in accepted :
         /\ a.times = 1
         /\ 0 < a.under /\ a.under <= minted
         /\ a.code.kind = "paper" => a.code.of <= minted
         /\ \A u \in Users : factor[u].secret = a.under =>
              /\ factor[u].state = "on"
              /\ a.code.kind = "app" => a.code.step <= factor[u].last
              /\ a.code.kind = "paper" => a.code.of \notin recovery[u]

\* A token is of a version its account has had; one that the password alone
\* gave is not of the version of an account whose second factor is on, until
\* the account is back at it.
TokenInv(t, row, f) ==
    /\ t.version \in row.had
    /\ t.kind = "access" /\ t.how = "password" /\ f.state = "on" /\ t.version = row.version =>
          t.version \in row.again

\* So is the row that a sign-in has read.
VersionInv ==
    \A u \in Users :
        /\ accounts[u].version \in accounts[u].had
        /\ \A t \in tokens : t.user = u => TokenInv(t, accounts[u], factor[u])
        /\ \A r \in Requests :
             req[r].user = u /\ req[r].pc \in {"admit", "token"} =>
                req[r].seen.version \in accounts[u].had

FactorInv ==
    /\ ThrottleInv
    /\ AccountsTypes
    /\ \A r \in Requests : RequestInv(req[r])
    /\ LinkInv
    /\ CodeInv
    /\ VersionInv

-----------------------------------------------------------------------------
(***************************************************************************)
(* Facts about the values.                                                 *)
(***************************************************************************)

LEMMA ValueFacts ==
    /\ NoAccount \in Account /\ NoFactor \in Factor /\ NoCode \in Code /\ NoLink \in Link
    /\ Resting \in Request
    /\ Resting.pc = "idle" /\ Resting.op = "none" /\ Resting.tickets = {} /\ Resting.marked = {}
<1>1. 0 \in 0 .. MaxTime + 2
  BY TimeAssumption
<1>2. NoAccount \in Account /\ NoFactor \in Factor /\ NoCode \in Code /\ NoLink \in Link
  BY <1>1 DEF NoAccount, Account, NoFactor, Factor, NoCode, Code, NoLink, Link
<1> QED
  BY <1>2 DEF Resting, Request

\* A person types codes that exist.
LEMMA TypedCodes == ASSUME FactorInv, NEW code \in Typed PROVE code \in Code
<1>1. now \in 0 .. MaxTime /\ minted \in Secrets \cup {0}
  BY DEF FactorInv, ThrottleInv, ThrottleTypeOK, Times, AccountsTypes
<1>2. 1 .. minted \subseteq Secrets
  BY <1>1, NumbersAssumption
<1>3. CASE code = NoCode
  BY <1>3, ValueFacts
<1>4. CASE code \in [kind : {"app"}, of : 1 .. minted, step : (CurrentStep - 1 .. CurrentStep + 1) \ {0}]
  <2>1. code.step \in 0 .. MaxTime + 2
    BY <1>1, <1>4, TimeAssumption DEF CurrentStep
  <2> QED
    BY <1>2, <1>4, <2>1 DEF Code
<1>5. CASE code \in [kind : {"paper"}, of : 1 .. minted, step : {0}]
  <2>1. 0 \in 0 .. MaxTime + 2
    BY TimeAssumption
  <2> QED
    BY <1>2, <1>5, <2>1 DEF Code
<1> QED
  BY <1>3, <1>4, <1>5 DEF Typed

-----------------------------------------------------------------------------
(***************************************************************************)
(* Versions.                                                               *)
(***************************************************************************)

\* The version is one the account had never had, or one it is back at.
Moved(old, new) == new.version \notin old.had \/ new.version \in new.again

\* What a step may do to the version of an account.
VersionStep(old, new) ==
    /\ old.had \subseteq new.had
    /\ old.again \subseteq new.again
    /\ new.version \in new.had
    /\ new.version = old.version \/ Moved(old, new)

LEMMA SameVersion ==
    ASSUME NEW old, NEW new, old.version \in old.had,
           new.version = old.version, new.had = old.had, new.again = old.again
    PROVE  VersionStep(old, new)
BY DEF VersionStep

LEMMA VersionedFacts ==
    ASSUME NEW row \in Account, NEW v \in Nat
    PROVE  /\ Versioned(row, v) \in Account
           /\ Versioned(row, v).version = v
           /\ VersionStep(row, Versioned(row, v))
           /\ v # row.version => Moved(row, Versioned(row, v))
<1> DEFINE had == row.had \cup {v}
           again == IF v \in row.had \ {row.version} THEN row.again \cup {v} ELSE row.again
           new == [row EXCEPT !.version = v, !.had = had, !.again = again]
<1>1. Versioned(row, v) = new
  BY DEF Versioned, Account
<1>2. had \in SUBSET Nat /\ again \in SUBSET Nat
  BY DEF Account
<1>3. row.again \subseteq again /\ row.had \subseteq had /\ v \in had
  OBVIOUS
<1>4. v # row.version => v \notin row.had \/ v \in again
  OBVIOUS
<1> HIDE DEF had, again
<1>5. new \in Account
  BY <1>2 DEF Account
<1>6. new.version = v /\ new.had = had /\ new.again = again
  BY DEF Account
<1> HIDE DEF new
<1> QED
  BY <1>1, <1>3, <1>4, <1>5, <1>6 DEF VersionStep, Moved

LEMMA NextVersionFacts ==
    ASSUME NEW row \in Account
    PROVE  /\ NextVersion(row) \in Account
           /\ VersionStep(row, NextVersion(row))
           /\ Moved(row, NextVersion(row))
<1>1. row.version + 1 \in Nat /\ row.version + 1 # row.version
  BY DEF Account
<1> QED
  BY <1>1, VersionedFacts DEF NextVersion

\* Other columns may be written in the same statement.
LEMMA NextVersionAfter ==
    ASSUME NEW old \in Account, NEW row \in Account,
           row.version = old.version, row.had = old.had, row.again = old.again
    PROVE  NextVersion(row) \in Account /\ VersionStep(old, NextVersion(row))
<1>1. NextVersion(row) \in Account /\ VersionStep(row, NextVersion(row))
  BY NextVersionFacts
<1> QED
  BY <1>1 DEF VersionStep, Moved

\* An update writes a version it has read, or one more.
LEMMA VersionedAfter ==
    ASSUME NEW old \in Account, NEW row \in Account, NEW v \in Nat, old.version \in old.had,
           row.version = old.version, row.had = old.had, row.again = old.again
    PROVE  Versioned(row, v) \in Account /\ VersionStep(old, Versioned(row, v))
<1>1. Versioned(row, v) \in Account /\ VersionStep(row, Versioned(row, v))
  BY VersionedFacts
<1> QED
  BY <1>1 DEF VersionStep, Moved

LEMMA AccountWritten ==
    ASSUME FactorInv, NEW u \in Users, NEW new \in Account, VersionStep(accounts[u], new),
           accounts' = [accounts EXCEPT ![u] = new]
    PROVE  /\ accounts' \in [Users -> Account] /\ accounts'[u] = new
           /\ \A v \in Users : VersionStep(accounts[v], accounts'[v])
<1>1. accounts \in [Users -> Account] /\ \A v \in Users : accounts[v].version \in accounts[v].had
  BY DEF FactorInv, AccountsTypes, VersionInv
<1>2. accounts' \in [Users -> Account] /\ accounts'[u] = new
  BY <1>1
<1>3. ASSUME NEW v \in Users PROVE VersionStep(accounts[v], accounts'[v])
  <2>1. CASE v = u
    BY <1>2, <2>1
  <2>2. CASE v # u
    <3>1. accounts'[v] = accounts[v]
      BY <1>1, <2>2
    <3> QED
      BY <1>1, <3>1, SameVersion
  <2> QED
    BY <2>1, <2>2
<1> QED
  BY <1>2, <1>3

LEMMA AccountsKept ==
    ASSUME FactorInv, UNCHANGED accounts
    PROVE  \A v \in Users : VersionStep(accounts[v], accounts'[v])
<1>1. \A v \in Users : accounts[v].version \in accounts[v].had
  BY DEF FactorInv, VersionInv
<1> QED
  BY <1>1, SameVersion

-----------------------------------------------------------------------------
(***************************************************************************)
(* What a step leaves alone.                                               *)
(***************************************************************************)

\* A step of request r that adds no reset link and leaves r neither counting
\* nor mailing one.
LEMMA LinkFrame ==
    ASSUME FactorInv, NEW r \in Requests, NEW t \in Request,
           req' = [req EXCEPT ![r] = t],
           \A q \in Requests \ {r} : counting'[q] = counting[q],
           \A k \in Links : links'[k].state = "live" =>
              links'[k] = links[k] \/ (links'[k].user \in Users /\ links'[k].purpose = "activation"),
           t.op = "forgot" => t.pc \notin {"count", "mark", "mail"}
    PROVE  LinkInv'
<1>1. LinkInv /\ req \in [Requests -> Request]
  BY DEF FactorInv, AccountsTypes
<1>2. \A k \in Links : links'[k].state = "live" => links'[k].user \in Users
  BY <1>1 DEF LinkInv
<1>3. \A u : LiveLinks(u, "reset")' \subseteq LiveLinks(u, "reset")
  <2> SUFFICES ASSUME NEW u, NEW k \in Links,
                      links'[k] = [user |-> u, purpose |-> "reset", state |-> "live"]
               PROVE  links[k] = [user |-> u, purpose |-> "reset", state |-> "live"]
    BY DEF LiveLinks
  <2>1. links'[k].state = "live" /\ links'[k].purpose = "reset"
    OBVIOUS
  <2> QED
    BY <2>1
<1>4. \A u \in Users : \A j, k \in LiveLinks(u, "reset")' : j = k
  BY <1>1, <1>3 DEF LinkInv
<1>5. ASSUME NEW q \in Requests PROVE ForgotInv(req[q], counting[q])'
  <2>1. CASE q = r
    BY <1>1, <2>1 DEF ForgotInv
  <2>2. CASE q # r
    <3>1. req'[q] = req[q] /\ counting'[q] = counting[q] /\ ForgotInv(req[q], counting[q])
      BY <1>1, <2>2 DEF LinkInv
    <3> QED
      BY <1>3, <3>1 DEF ForgotInv, MailKey
  <2> QED
    BY <2>1, <2>2
<1> QED
  BY <1>2, <1>4, <1>5 DEF LinkInv

\* A step of request r that takes no account back, hands out no token and
\* turns no second factor on without raising the account's version.
LEMMA VersionFrame ==
    ASSUME FactorInv, NEW r \in Requests, NEW t \in Request,
           req' = [req EXCEPT ![r] = t],
           \A u \in Users : VersionStep(accounts[u], accounts'[u]),
           tokens' = tokens,
           \A u \in Users : factor'[u].state = "on" =>
              factor[u].state = "on" \/ Moved(accounts[u], accounts'[u]),
           t.user \in Users /\ t.pc \in {"admit", "token"} =>
              t.seen.version \in accounts'[t.user].had
    PROVE  VersionInv'
<1>1. VersionInv /\ req \in [Requests -> Request] /\ tokens \subseteq Token
  BY DEF FactorInv, AccountsTypes
<1>2. SUFFICES ASSUME NEW u \in Users
               PROVE  /\ accounts'[u].version \in accounts'[u].had
                      /\ \A k \in tokens : k.user = u => TokenInv(k, accounts'[u], factor'[u])
                      /\ \A q \in Requests :
                           req'[q].user = u /\ req'[q].pc \in {"admit", "token"} =>
                              req'[q].seen.version \in accounts'[u].had
  BY DEF VersionInv
<1>3. VersionStep(accounts[u], accounts'[u])
  OBVIOUS
<1>4. ASSUME NEW k \in tokens, k.user = u PROVE TokenInv(k, accounts'[u], factor'[u])
  <2>1. TokenInv(k, accounts[u], factor[u])
    BY <1>1, <1>4 DEF VersionInv
  <2>2. factor'[u].state = "on" => factor[u].state = "on" \/ Moved(accounts[u], accounts'[u])
    OBVIOUS
  <2> QED
    BY <1>3, <2>1, <2>2 DEF TokenInv, VersionStep, Moved
<1>5. ASSUME NEW q \in Requests, req'[q].user = u, req'[q].pc \in {"admit", "token"}
      PROVE  req'[q].seen.version \in accounts'[u].had
  <2>1. CASE q = r
    BY <1>1, <1>2, <1>5, <2>1
  <2>2. CASE q # r
    <3>1. req'[q] = req[q]
      BY <1>1, <2>2
    <3>2. req[q].seen.version \in accounts[u].had
      BY <1>1, <1>5, <3>1 DEF VersionInv
    <3> QED
      BY <1>3, <3>1, <3>2 DEF VersionStep
  <2> QED
    BY <2>1, <2>2
<1> QED
  BY <1>3, <1>4, <1>5 DEF VersionStep

\* A request at rest promises nothing.
LEMMA RestInv == RequestInv(Resting)
BY ValueFacts DEF RequestInv

\* The others' steps are as they were.
LEMMA RequestFrame ==
    ASSUME FactorInv, NEW r \in Requests, NEW t \in Request, RequestInv(t),
           req' = [req EXCEPT ![r] = t]
    PROVE  /\ req' \in [Requests -> Request]
           /\ \A q \in Requests : RequestInv(req[q])'
<1>1. req \in [Requests -> Request] /\ \A q \in Requests : RequestInv(req[q])
  BY DEF FactorInv, AccountsTypes
<1> QED
  BY <1>1 DEF RequestInv

LEMMA VersionsAreNatural ==
    ASSUME FactorInv PROVE \A u \in Users : accounts[u].version \in Nat
BY DEF FactorInv, AccountsTypes, Account

\* A step of request r that stores nothing and hands out nothing.
LEMMA QuietStep ==
    ASSUME FactorInv, NEW r \in Requests, NEW t \in Request, RequestInv(t),
           req' = [req EXCEPT ![r] = t],
           UNCHANGED <<stored, tokens>>,
           ThrottleInv',
           \A q \in Requests \ {r} : counting'[q] = counting[q],
           t.op = "forgot" => t.pc \notin {"count", "mark", "mail"},
           t.user \in Users /\ t.pc \in {"admit", "token"} =>
              t.seen.version \in accounts[t.user].had
    PROVE  FactorInv'
<1>1. UNCHANGED <<accounts, links, factor, recovery, minted, accepted, tokens>>
  BY DEF stored, secondFactor
<1>2. AccountsTypes' /\ \A q \in Requests : RequestInv(req[q])'
  BY <1>1, RequestFrame DEF FactorInv, AccountsTypes
<1>3. LinkInv'
  <2>1. \A k \in Links : links'[k].state = "live" =>
           links'[k] = links[k] \/ (links'[k].user \in Users /\ links'[k].purpose = "activation")
    BY <1>1
  <2> QED
    BY <2>1, LinkFrame
<1>4. CodeInv'
  BY <1>1 DEF FactorInv, CodeInv
<1>5. VersionInv'
  <2>1. \A u \in Users : VersionStep(accounts[u], accounts'[u])
    BY <1>1, AccountsKept
  <2>2. \A u \in Users : factor'[u].state = "on" =>
           factor[u].state = "on" \/ Moved(accounts[u], accounts'[u])
    BY <1>1
  <2>3. t.user \in Users /\ t.pc \in {"admit", "token"} =>
           t.seen.version \in accounts'[t.user].had
    BY <1>1
  <2> QED
    BY <1>1, <2>1, <2>2, <2>3, VersionFrame
<1> QED
  BY <1>2, <1>3, <1>4, <1>5 DEF FactorInv

-----------------------------------------------------------------------------
(***************************************************************************)
(* Calls.                                                                  *)
(***************************************************************************)

\* A call is a new record in the place of a resting one.
LEMMA StartFacts ==
    ASSUME FactorInv, NEW r \in Requests, NEW op \in Operations, NEW by \in Users \cup {NoUser},
           NEW u \in Users, NEW fields \in Request, Start(r, op, by, u, fields)
    PROVE  \E t \in Request :
              /\ req' = [req EXCEPT ![r] = t]
              /\ t.pc = fields.pc /\ t.op = op /\ t.user = u /\ t.seen = fields.seen
<1> DEFINE t == [fields EXCEPT !.op = op, !.by = by, !.user = u]
<1>1. t \in Request /\ t.pc = fields.pc /\ t.op = op /\ t.user = u /\ t.seen = fields.seen
  BY DEF Request
<1>2. req' = [req EXCEPT ![r] = t]
  BY DEF Start
<1> QED
  BY <1>1, <1>2

\* A call that only begins, and counts or not.
LEMMA QuietCall ==
    ASSUME FactorInv, NEW r \in Requests, NEW op \in Operations, NEW by \in Users \cup {NoUser},
           NEW u \in Users, NEW fields \in Request, Start(r, op, by, u, fields),
           UNCHANGED <<stored, tokens>>,
           op # "forgot",
           fields.pc \notin {"admit", "token"},
           fields.pc = "count" => op \in {"login", "change", "public", "confirm", "verify", "renew"},
           fields.pc = "link" => op = "resend",
           ThrottleInv',
           \A q \in Requests \ {r} : counting'[q] = counting[q]
    PROVE  FactorInv'
<1>1. PICK t \in Request :
        /\ req' = [req EXCEPT ![r] = t]
        /\ t.pc = fields.pc /\ t.op = op /\ t.user = u /\ t.seen = fields.seen
  BY StartFacts
<1>2. RequestInv(t)
  BY <1>1 DEF RequestInv
<1>3. t.op = "forgot" => t.pc \notin {"count", "mark", "mail"}
  BY <1>1
<1>4. t.user \in Users /\ t.pc \in {"admit", "token"} =>
         t.seen.version \in accounts[t.user].had
  BY <1>1
<1> QED
  BY <1>1, <1>2, <1>3, <1>4, QuietStep

\* Counting is the caller's own.
LEMMA CountFirstFacts ==
    ASSUME FactorInv, NEW r \in Requests, NEW keys \in Seq(Keys), CountFirst(r, keys),
           UNCHANGED <<now, attempts>>
    PROVE  /\ ThrottleInv' /\ \A q \in Requests \ {r} : counting'[q] = counting[q]
           /\ counting'[r].todo = keys
<1>1. ThrottleInv'
  BY CountFirstKeeps DEF FactorInv
<1>2. counting \in [Requests -> Counting]
  BY DEF FactorInv, ThrottleInv, ThrottleTypeOK
<1> QED
  BY <1>1, <1>2 DEF CountFirst, NotCounting

LEMMA NothingCounted ==
    ASSUME FactorInv, UNCHANGED throttleVars
    PROVE  ThrottleInv' /\ UNCHANGED counting
BY ClockKeeps DEF throttleVars, FactorInv, ThrottleInv, ThrottleTypeOK

LEMMA KeySequences ==
    /\ \A u \in Users : /\ <<LoginKey(u)>> \in Seq(Keys) /\ <<MailKey(u)>> \in Seq(Keys)
                        /\ <<CodeKey(u)>> \in Seq(Keys)
    /\ \A a \in Addresses : <<PublicKey(a)>> \in Seq(Keys)
    /\ \A a \in Addresses, u \in Users : <<AddressKey(a), LoginKey(u)>> \in Seq(Keys)
BY KeysAssumption

LEMMA FactorIsTyped == ASSUME FactorInv, NEW u \in Users PROVE factor[u] \in Factor
BY DEF FactorInv, AccountsTypes

LEMMA PublicRequestKeeps ==
    ASSUME FactorInv, NEW r \in Requests, NEW u \in Users, NEW a \in Addresses,
           PublicRequest(r, u, a)
    PROVE  FactorInv'
<1> DEFINE fields == [Resting EXCEPT !.pc = "count"]
<1>1. fields \in Request /\ fields.pc = "count"
  BY ValueFacts DEF Request
<1>2. ThrottleInv' /\ \A q \in Requests \ {r} : counting'[q] = counting[q]
  BY KeySequences, CountFirstFacts DEF PublicRequest
<1>3. Start(r, "public", NoUser, u, fields) /\ UNCHANGED <<stored, tokens>>
  BY DEF PublicRequest
<1>4. "public" \in Operations
  BY DEF Operations
<1> HIDE DEF fields
<1> QED
  BY <1>1, <1>2, <1>3, <1>4, QuietCall

LEMMA LoginKeeps ==
    ASSUME FactorInv, NEW r \in Requests, NEW u \in Users, NEW a \in Addresses, NEW p \in Passwords,
           Login(r, u, a, p)
    PROVE  FactorInv'
<1> DEFINE fields == [Resting EXCEPT !.pc = "count", !.typed = p]
<1>1. fields \in Request /\ fields.pc = "count"
  BY ValueFacts DEF Request
<1>2. ThrottleInv' /\ \A q \in Requests \ {r} : counting'[q] = counting[q]
  BY KeySequences, CountFirstFacts DEF Login
<1>3. Start(r, "login", NoUser, u, fields) /\ UNCHANGED <<stored, tokens>>
  BY DEF Login
<1>4. "login" \in Operations
  BY DEF Operations
<1> HIDE DEF fields
<1> QED
  BY <1>1, <1>2, <1>3, <1>4, QuietCall

LEMMA ChangeMyPasswordKeeps ==
    ASSUME FactorInv, NEW r \in Requests, NEW u \in Users, NEW p \in Passwords, NEW q \in Passwords,
           ChangeMyPassword(r, u, p, q)
    PROVE  FactorInv'
<1> DEFINE fields == [Resting EXCEPT !.pc = "count", !.typed = p, !.chosen = q]
<1>1. fields \in Request /\ fields.pc = "count"
  BY ValueFacts DEF Request
<1>2. ThrottleInv' /\ \A o \in Requests \ {r} : counting'[o] = counting[o]
  BY KeySequences, CountFirstFacts DEF ChangeMyPassword
<1>3. Start(r, "change", u, u, fields) /\ UNCHANGED <<stored, tokens>>
  BY DEF ChangeMyPassword
<1>4. "change" \in Operations
  BY DEF Operations
<1> HIDE DEF fields
<1> QED
  BY <1>1, <1>2, <1>3, <1>4, QuietCall

LEMMA ResendActivationKeeps ==
    ASSUME FactorInv, NEW r \in Requests, NEW by \in Users, NEW u \in Users,
           ResendActivation(r, by, u)
    PROVE  FactorInv'
<1> DEFINE fields == [Resting EXCEPT !.pc = "link"]
<1>1. fields \in Request /\ fields.pc = "link"
  BY ValueFacts DEF Request
<1>2. ThrottleInv' /\ \A q \in Requests \ {r} : counting'[q] = counting[q]
  BY NothingCounted DEF ResendActivation
<1>3. Start(r, "resend", by, u, fields) /\ UNCHANGED <<stored, tokens>>
  BY DEF ResendActivation
<1>4. "resend" \in Operations
  BY DEF Operations
<1> HIDE DEF fields
<1> QED
  BY <1>1, <1>2, <1>3, <1>4, QuietCall

LEMMA SetupKeeps ==
    ASSUME FactorInv, NEW r \in Requests, NEW u \in Users,
           Setup(r, u)
    PROVE  FactorInv'
<1> DEFINE fields == [Resting EXCEPT !.pc = "replace"]
<1>1. fields \in Request /\ fields.pc = "replace"
  BY ValueFacts DEF Request
<1>2. ThrottleInv' /\ \A q \in Requests \ {r} : counting'[q] = counting[q]
  BY NothingCounted DEF Setup
<1>3. Start(r, "setup", u, u, fields) /\ UNCHANGED <<stored, tokens>>
  BY DEF Setup
<1>4. "setup" \in Operations
  BY DEF Operations
<1> HIDE DEF fields
<1> QED
  BY <1>1, <1>2, <1>3, <1>4, QuietCall

LEMMA DisableKeeps ==
    ASSUME FactorInv, NEW r \in Requests, NEW u \in Users, NEW p \in Passwords,
           Disable(r, u, p)
    PROVE  FactorInv'
<1> DEFINE fields == [Resting EXCEPT !.pc = "remove"]
<1>1. fields \in Request /\ fields.pc = "remove"
  BY ValueFacts DEF Request
<1>2. ThrottleInv' /\ \A q \in Requests \ {r} : counting'[q] = counting[q]
  BY NothingCounted DEF Disable
<1>3. Start(r, "disable", u, u, fields) /\ UNCHANGED <<stored, tokens>>
  BY DEF Disable
<1>4. "disable" \in Operations
  BY DEF Operations
<1> HIDE DEF fields
<1> QED
  BY <1>1, <1>2, <1>3, <1>4, QuietCall

LEMMA ResetFactorKeeps ==
    ASSUME FactorInv, NEW r \in Requests, NEW by \in Users, NEW u \in Users,
           ResetFactor(r, by, u)
    PROVE  FactorInv'
<1> DEFINE fields == [Resting EXCEPT !.pc = "remove"]
<1>1. fields \in Request /\ fields.pc = "remove"
  BY ValueFacts DEF Request
<1>2. ThrottleInv' /\ \A q \in Requests \ {r} : counting'[q] = counting[q]
  BY NothingCounted DEF ResetFactor
<1>3. Start(r, "reset", by, u, fields) /\ UNCHANGED <<stored, tokens>>
  BY DEF ResetFactor
<1>4. "reset" \in Operations
  BY DEF Operations
<1> HIDE DEF fields
<1> QED
  BY <1>1, <1>2, <1>3, <1>4, QuietCall

LEMMA VerifyKeeps ==
    ASSUME FactorInv, NEW r \in Requests, NEW u \in Users, NEW code \in Typed,
           Verify(r, u, code)
    PROVE  FactorInv'
<1> DEFINE fields == [Resting EXCEPT !.pc = "count", !.code = code]
<1>1. fields \in Request /\ fields.pc = "count"
  BY ValueFacts, TypedCodes DEF Request
<1>2. ThrottleInv' /\ \A q \in Requests \ {r} : counting'[q] = counting[q]
  BY KeySequences, CountFirstFacts DEF Verify
<1>3. Start(r, "verify", u, u, fields) /\ UNCHANGED <<stored, tokens>>
  BY DEF Verify
<1>4. "verify" \in Operations
  BY DEF Operations
<1> HIDE DEF fields
<1> QED
  BY <1>1, <1>2, <1>3, <1>4, QuietCall

LEMMA ConfirmKeeps ==
    ASSUME FactorInv, NEW r \in Requests, NEW u \in Users, NEW code \in Typed,
           Confirm(r, u, code)
    PROVE  FactorInv'
<1> DEFINE fields == [Resting EXCEPT !.pc = "count", !.code = code, !.mfa = factor[u]]
<1>1. fields \in Request /\ fields.pc = "count"
  BY ValueFacts, TypedCodes, FactorIsTyped DEF Request
<1>2. ThrottleInv' /\ \A q \in Requests \ {r} : counting'[q] = counting[q]
  BY KeySequences, CountFirstFacts DEF Confirm
<1>3. Start(r, "confirm", u, u, fields) /\ UNCHANGED <<stored, tokens>>
  BY DEF Confirm
<1>4. "confirm" \in Operations
  BY DEF Operations
<1> HIDE DEF fields
<1> QED
  BY <1>1, <1>2, <1>3, <1>4, QuietCall

LEMMA RenewRecoveryCodesKeeps ==
    ASSUME FactorInv, NEW r \in Requests, NEW u \in Users, NEW code \in Typed,
           RenewRecoveryCodes(r, u, code)
    PROVE  FactorInv'
<1> DEFINE fields == [Resting EXCEPT !.pc = "count", !.code = code, !.mfa = factor[u]]
<1>1. fields \in Request /\ fields.pc = "count"
  BY ValueFacts, TypedCodes, FactorIsTyped DEF Request
<1>2. ThrottleInv' /\ \A q \in Requests \ {r} : counting'[q] = counting[q]
  BY KeySequences, CountFirstFacts DEF RenewRecoveryCodes
<1>3. Start(r, "renew", u, u, fields) /\ UNCHANGED <<stored, tokens>>
  BY DEF RenewRecoveryCodes
<1>4. "renew" \in Operations
  BY DEF Operations
<1> HIDE DEF fields
<1> QED
  BY <1>1, <1>2, <1>3, <1>4, QuietCall

\* The row an administrator's update has read, and the row it will write
LEMMA UpdateUserKeeps ==
    ASSUME FactorInv, NEW r \in Requests, NEW by \in Users, NEW u \in Users, NEW role \in Roles,
           NEW active \in BOOLEAN, UpdateUser(r, by, u, role, active)
    PROVE  FactorInv'
<1> DEFINE row == accounts[u]
           revokes == role # row.role \/ (row.active /\ ~ active)
           version == IF revokes THEN row.version + 1 ELSE row.version
           new == [row EXCEPT !.role = role, !.active = active, !.version = version]
           fields == [Resting EXCEPT !.pc = "write", !.seen = row, !.change = new]
<1>1. row \in Account
  BY DEF FactorInv, AccountsTypes
<1>2. version \in Nat
  BY <1>1 DEF Account
<1>3. Start(r, "update", by, u, fields) /\ UNCHANGED <<throttleVars, stored, tokens>>
  BY DEF UpdateUser
<1> HIDE DEF version
<1>4. new \in Account
  BY <1>1, <1>2 DEF Account
<1> HIDE DEF new, row
<1>5. fields \in Request /\ fields.pc = "write"
  BY <1>1, <1>4, ValueFacts DEF Request
<1>6. ThrottleInv' /\ \A q \in Requests \ {r} : counting'[q] = counting[q]
  BY <1>3, NothingCounted
<1>7. "update" \in Operations
  BY DEF Operations
<1> HIDE DEF fields
<1> QED
  BY <1>3, <1>5, <1>6, <1>7, QuietCall

-----------------------------------------------------------------------------
(***************************************************************************)
(* Steps that store nothing.                                               *)
(***************************************************************************)

PCs == {"idle", "count", "password", "admit", "token", "current", "set", "fresh", "link",
        "mark", "mail", "unlock", "write", "replace", "prove", "read", "use", "remove"}

LEMMA RequestFacts ==
    ASSUME FactorInv, NEW r \in Requests
    PROVE  /\ req \in [Requests -> Request] /\ req[r] \in Request /\ RequestInv(req[r])
           /\ counting \in [Requests -> Counting] /\ counting[r] \in Counting /\ now \in Times
           /\ ForgotInv(req[r], counting[r])
           /\ req[r].pc # "idle" => req[r].user \in Users /\ accounts[req[r].user] \in Account
           /\ req[r].pc \in {"admit", "token"} =>
                 req[r].seen.version \in accounts[req[r].user].had
<1>1. /\ req[r] \in Request /\ RequestInv(req[r]) /\ counting[r] \in Counting
      /\ ForgotInv(req[r], counting[r]) /\ now \in Times
      /\ req \in [Requests -> Request] /\ counting \in [Requests -> Counting]
  BY DEF FactorInv, AccountsTypes, ThrottleInv, ThrottleTypeOK, LinkInv
<1>2. req[r].pc # "idle" => req[r].user \in Users /\ accounts[req[r].user] \in Account
  BY <1>1 DEF RequestInv, FactorInv, AccountsTypes
<1>3. req[r].pc \in {"admit", "token"} =>
         req[r].seen.version \in accounts[req[r].user].had
  BY <1>2 DEF FactorInv, VersionInv
<1> QED
  BY <1>1, <1>2, <1>3

\* A request ends.
LEMMA FinishQuietly ==
    ASSUME FactorInv, NEW r \in Requests, Finish(r), UNCHANGED <<stored, tokens>>, ThrottleInv',
           \A q \in Requests \ {r} : counting'[q] = counting[q]
    PROVE  FactorInv'
<1>1. req' = [req EXCEPT ![r] = Resting]
  BY DEF Finish
<1>2. Resting.op = "forgot" => Resting.pc \notin {"count", "mark", "mail"}
  BY ValueFacts
<1>3. Resting.user \in Users /\ Resting.pc \in {"admit", "token"} =>
         Resting.seen.version \in accounts[Resting.user].had
  BY ValueFacts
<1> QED
  BY <1>1, <1>2, <1>3, ValueFacts, RestInv, QuietStep

\* A request goes on to its next step, with what it has.
LEMMA GotoFacts ==
    ASSUME FactorInv, NEW r \in Requests, NEW pc \in PCs, Goto(r, pc)
    PROVE  \E t \in Request :
              /\ req' = [req EXCEPT ![r] = t]
              /\ t.pc = pc /\ t.op = req[r].op /\ t.user = req[r].user /\ t.seen = req[r].seen
<1> DEFINE t == [req[r] EXCEPT !.pc = pc]
<1>1. req[r] \in Request /\ req \in [Requests -> Request]
  BY RequestFacts
<1>2. t \in Request /\ t.pc = pc /\ t.op = req[r].op /\ t.user = req[r].user /\ t.seen = req[r].seen
  BY <1>1 DEF Request, PCs
<1>3. req' = [req EXCEPT ![r] = t]
  BY <1>1 DEF Goto
<1> QED
  BY <1>2, <1>3

LEMMA GotoQuietly ==
    ASSUME FactorInv, NEW r \in Requests, NEW pc \in PCs, Goto(r, pc), req[r].pc # "idle",
           pc \notin {"idle", "count", "link", "mark", "mail"},
           pc \in {"admit", "token"} => req[r].pc \in {"admit", "token"},
           UNCHANGED <<stored, tokens>>, ThrottleInv',
           \A q \in Requests \ {r} : counting'[q] = counting[q]
    PROVE  FactorInv'
<1>1. PICK t \in Request :
        /\ req' = [req EXCEPT ![r] = t]
        /\ t.pc = pc /\ t.op = req[r].op /\ t.user = req[r].user /\ t.seen = req[r].seen
  BY GotoFacts
<1>2. RequestInv(t)
  BY <1>1, RequestFacts DEF RequestInv
<1>3. t.op = "forgot" => t.pc \notin {"count", "mark", "mail"}
  BY <1>1
<1>4. t.user \in Users /\ t.pc \in {"admit", "token"} =>
         t.seen.version \in accounts[t.user].had
  BY <1>1, RequestFacts
<1> QED
  BY <1>1, <1>2, <1>3, <1>4, QuietStep

LEMMA CommitFacts ==
    ASSUME FactorInv, NEW r \in Requests, CountCommits(r) \/ CountRollsBack(r), now' = now
    PROVE  ThrottleInv' /\ \A q \in Requests \ {r} : counting'[q] = counting[q]
<1>1. ThrottleInv'
  BY CommitKeeps, RollBackKeeps DEF FactorInv
<1> QED
  BY <1>1, RequestFacts DEF CountCommits, CountRollsBack

LEMMA PardonFacts ==
    ASSUME FactorInv, NEW rows, NEW keys, Pardon(rows, keys), UNCHANGED <<now, counting>>
    PROVE  ThrottleInv'
BY PardonKeeps DEF FactorInv

LEMMA RefusedKeeps == ASSUME FactorInv, NEW r \in Requests, Refused(r) PROVE FactorInv'
BY CommitFacts, FinishQuietly DEF Refused

LEMMA DeadlockVictimKeeps == ASSUME FactorInv, NEW r \in Requests, DeadlockVictim(r) PROVE FactorInv'
BY CommitFacts, FinishQuietly DEF DeadlockVictim

LEMMA CrashKeeps == ASSUME FactorInv, NEW r \in Requests, Crash(r) PROVE FactorInv'
BY CommitFacts, FinishQuietly DEF Crash

\* Nothing goes on to the password, or to a code, before it is counted.
LEMMA AllowedKeeps == ASSUME FactorInv, NEW r \in Requests, Allowed(r) PROVE FactorInv'
<1> DEFINE t == [req[r] EXCEPT !.pc = AfterCount(req[r].op), !.tickets = counting[r].rows]
<1>1. /\ req[r].pc = "count" /\ req[r].op # "forgot" /\ UNCHANGED <<now, stored, tokens>>
      /\ CountCommits(r)
      /\ req' = [req EXCEPT ![r] = IF AfterCount(req[r].op) = "idle" THEN Resting ELSE t]
  BY DEF Allowed, Counted
<1>2. ThrottleInv' /\ \A q \in Requests \ {r} : counting'[q] = counting[q]
  BY <1>1, CommitFacts
<1>3. req[r].op \in {"login", "change", "public", "confirm", "verify", "renew"}
  BY <1>1, RequestFacts DEF RequestInv
<1>4. AfterCount(req[r].op) \in {"password", "current", "prove", "read", "use", "idle"}
  BY <1>3 DEF AfterCount
<1>5. CASE AfterCount(req[r].op) = "idle"
  <2>1. Finish(r)
    BY <1>1, <1>5 DEF Finish
  <2> QED
    BY <1>1, <1>2, <2>1, FinishQuietly
<1>6. CASE AfterCount(req[r].op) # "idle"
  <2>1. counting[r].rows \subseteq Attempt /\ req[r] \in Request /\ req[r].user \in Users
    BY <1>1, RequestFacts DEF Counting
  <2>2. t \in Request /\ t.pc = AfterCount(req[r].op) /\ t.op = req[r].op /\ t.user = req[r].user
    BY <1>4, <2>1 DEF Request
  <2> HIDE DEF t
  <2>3. RequestInv(t)
    BY <1>4, <1>6, <2>1, <2>2 DEF RequestInv
  <2>4. t.pc \notin {"admit", "token"} /\ t.op # "forgot"
    BY <1>1, <1>4, <2>2
  <2> QED
    BY <1>1, <1>2, <1>6, <2>2, <2>3, <2>4, QuietStep
<1> QED
  BY <1>5, <1>6

\* The row that the password fits is read as it is.
LEMMA CheckPasswordKeeps == ASSUME FactorInv, NEW r \in Requests, CheckPassword(r) PROVE FactorInv'
<1> DEFINE row == accounts[req[r].user]
           t == [req[r] EXCEPT !.pc = "admit", !.seen = row]
<1>1. /\ req[r].pc = "password" /\ UNCHANGED <<throttleVars, stored, tokens>>
      /\ req' = [req EXCEPT ![r] = t] \/ Finish(r)
  BY DEF CheckPassword, AccountByEmail
<1>2. ThrottleInv' /\ \A q \in Requests \ {r} : counting'[q] = counting[q]
  BY <1>1, NothingCounted
<1>3. CASE Finish(r)
  BY <1>1, <1>2, <1>3, FinishQuietly
<1>4. CASE req' = [req EXCEPT ![r] = t]
  <2>1. row \in Account /\ req[r] \in Request /\ req[r].user \in Users
    BY <1>1, RequestFacts
  <2>2. t \in Request /\ t.pc = "admit" /\ t.op = req[r].op /\ t.user = req[r].user /\ t.seen = row
    BY <2>1 DEF Request
  <2> HIDE DEF t
  <2>3. RequestInv(t)
    BY <2>1, <2>2 DEF RequestInv
  <2>4. t.op = "forgot" => t.pc \notin {"count", "mark", "mail"}
    BY <2>2
  <2>5. t.seen.version \in accounts[t.user].had
    BY <2>1, <2>2 DEF FactorInv, VersionInv
  <2> QED
    BY <1>1, <1>2, <1>4, <2>2, <2>3, <2>4, <2>5, QuietStep
<1> QED
  BY <1>1, <1>3, <1>4

LEMMA AdmitKeeps == ASSUME FactorInv, NEW r \in Requests, Admit(r) PROVE FactorInv'
<1>1. /\ req[r].pc = "admit" /\ Goto(r, "token") /\ UNCHANGED <<now, counting, stored, tokens>>
      /\ Pardon({a \in req[r].tickets : a.key[1] = "login_ip"}, {LoginKey(req[r].user)})
  BY DEF Admit
<1>2. ThrottleInv'
  BY <1>1, PardonFacts
<1>3. "token" \in PCs
  BY DEF PCs
<1> QED
  BY <1>1, <1>2, <1>3, GotoQuietly

LEMMA CheckCurrentKeeps == ASSUME FactorInv, NEW r \in Requests, CheckCurrent(r) PROVE FactorInv'
<1>1. /\ req[r].pc = "current" /\ UNCHANGED <<throttleVars, stored, tokens>>
      /\ Goto(r, "set") \/ Finish(r)
  BY DEF CheckCurrent
<1>2. ThrottleInv' /\ \A q \in Requests \ {r} : counting'[q] = counting[q]
  BY <1>1, NothingCounted
<1>3. "set" \in PCs
  BY DEF PCs
<1>4. CASE Finish(r)
  BY <1>1, <1>2, <1>4, FinishQuietly
<1>5. CASE Goto(r, "set")
  BY <1>1, <1>2, <1>3, <1>5, GotoQuietly
<1> QED
  BY <1>1, <1>4, <1>5

LEMMA UnlockKeeps == ASSUME FactorInv, NEW r \in Requests, Unlock(r) PROVE FactorInv'
<1>1. /\ Pardon({}, {LoginKey(req[r].user)}) /\ Finish(r) /\ UNCHANGED <<now, counting, stored, tokens>>
  BY DEF Unlock
<1>2. ThrottleInv'
  BY <1>1, PardonFacts
<1> QED
  BY <1>1, <1>2, FinishQuietly

LEMMA ReadFactorKeeps == ASSUME FactorInv, NEW r \in Requests, ReadFactor(r) PROVE FactorInv'
<1> DEFINE f == factor[req[r].user]
           t == [req[r] EXCEPT !.pc = "use", !.mfa = f]
<1>1. /\ req[r].pc = "read" /\ UNCHANGED <<throttleVars, stored, tokens>>
      /\ req' = [req EXCEPT ![r] = t] \/ Finish(r)
  BY DEF ReadFactor
<1>2. ThrottleInv' /\ \A q \in Requests \ {r} : counting'[q] = counting[q]
  BY <1>1, NothingCounted
<1>3. CASE Finish(r)
  BY <1>1, <1>2, <1>3, FinishQuietly
<1>4. CASE req' = [req EXCEPT ![r] = t]
  <2>1. f \in Factor /\ req[r] \in Request /\ req[r].user \in Users
    BY <1>1, RequestFacts, FactorIsTyped
  <2>2. t \in Request /\ t.pc = "use" /\ t.op = req[r].op /\ t.user = req[r].user
    BY <2>1 DEF Request
  <2> HIDE DEF t
  <2>3. RequestInv(t)
    BY <2>1, <2>2 DEF RequestInv
  <2>4. t.op = "forgot" => t.pc \notin {"count", "mark", "mail"}
    BY <2>2
  <2>5. t.pc \notin {"admit", "token"}
    BY <2>2
  <2> QED
    BY <1>1, <1>2, <1>4, <2>2, <2>3, <2>4, <2>5, QuietStep
<1> QED
  BY <1>1, <1>3, <1>4

-----------------------------------------------------------------------------
(***************************************************************************)
(* Counting.                                                               *)
(***************************************************************************)

\* A step that only counts for r: the links are looked after as before.
LEMMA OnlyCounts ==
    ASSUME FactorInv, NEW r \in Requests, UNCHANGED <<stored, tokens, req>>, ThrottleInv',
           \A q \in Requests \ {r} : counting'[q] = counting[q],
           ForgotInv(req[r], counting'[r])
    PROVE  FactorInv'
<1>1. UNCHANGED <<accounts, links, factor, recovery, minted, accepted, tokens, req>>
  BY DEF stored, secondFactor
<1>2. AccountsTypes' /\ \A q \in Requests : RequestInv(req[q])'
  BY <1>1 DEF FactorInv, AccountsTypes, RequestInv
<1>3. \A q \in Requests : ForgotInv(req[q], counting[q])'
  BY <1>1 DEF FactorInv, LinkInv, ForgotInv, LiveLinks
<1>4. LinkInv'
  BY <1>1, <1>3 DEF FactorInv, LinkInv, LiveLinks
<1>5. CodeInv' /\ VersionInv'
  BY <1>1 DEF FactorInv, CodeInv, VersionInv
<1> QED
  BY <1>2, <1>4, <1>5 DEF FactorInv

LEMMA WaitKeeps == ASSUME FactorInv, NEW r \in Requests, Wait(r) PROVE FactorInv'
<1>1. /\ req[r].pc = "count" /\ TakeLock(r) /\ UNCHANGED <<stored, tokens, req>>
  BY DEF Wait
<1>2. ThrottleInv'
  BY <1>1, TakeLockKeeps DEF FactorInv
<1>3. /\ \A q \in Requests \ {r} : counting'[q] = counting[q]
      /\ counting'[r].todo = counting[r].todo /\ counting[r].todo # <<>>
  BY <1>1, RequestFacts DEF TakeLock, NeedsLock, Counting
<1>4. ForgotInv(req[r], counting'[r])
  BY <1>1, <1>3, RequestFacts DEF ForgotInv
<1> QED
  BY <1>1, <1>2, <1>3, <1>4, OnlyCounts

LEMMA CountAttemptKeeps == ASSUME FactorInv, NEW r \in Requests, CountAttempt(r) PROVE FactorInv'
<1> DEFINE c == counting[r]
<1>1. /\ req[r].pc = "count" /\ Hit(r) /\ UNCHANGED <<stored, tokens, req>>
      /\ c \in Counting /\ counting \in [Requests -> Counting]
  BY RequestFacts DEF CountAttempt
<1>2. ThrottleInv'
  BY <1>1, HitKeeps DEF FactorInv
<1>3. c.todo # <<>> /\ Head(c.todo) \in c.held
  BY <1>1 DEF Hit
<1>4. \A q \in Requests \ {r} : counting'[q] = counting[q]
  BY <1>1 DEF Hit
<1>5. /\ counting'[r].held = c.held
      /\ \/ counting'[r].todo = <<>> /\ counting'[r].refused
         \/ counting'[r].todo = Tail(c.todo)
  <2>1. CASE Cardinality(Recent(r, Head(c.todo))) >= LimitOf[Head(c.todo)]
    <3>1. counting' = [counting EXCEPT ![r] =
            [c EXCEPT !.todo = <<>>, !.purged = c.purged \cup OldRows(r), !.refused = TRUE]]
      BY <1>1, <2>1 DEF Hit
    <3> QED
      BY <1>1, <3>1 DEF Counting
  <2>2. CASE ~ (Cardinality(Recent(r, Head(c.todo))) >= LimitOf[Head(c.todo)])
    <3>1. PICK id \in AttemptIds :
            counting' = [counting EXCEPT ![r] =
              [c EXCEPT !.todo = Tail(c.todo), !.purged = c.purged \cup OldRows(r),
                        !.rows = c.rows \cup {[key |-> Head(c.todo), at |-> c.since, id |-> id]}]]
      BY <1>1, <2>2 DEF Hit
    <3> QED
      BY <1>1, <3>1 DEF Counting
  <2> QED
    BY <2>1, <2>2
<1>6. ForgotInv(req[r], counting'[r])
  <2> SUFFICES ASSUME req[r].op = "forgot"
               PROVE  \/ counting'[r].todo = <<>> /\ counting'[r].refused
                      \/ counting'[r].todo = <<>> /\ MailKey(req[r].user) \in counting'[r].held
    BY <1>1 DEF ForgotInv
  <2>1. c.todo = <<MailKey(req[r].user)>>
    BY <1>1, <1>3, RequestFacts DEF ForgotInv
  <2>2. ASSUME NEW k PROVE Head(<<k>>) = k /\ Tail(<<k>>) = <<>>
    OBVIOUS
  <2>3. Head(c.todo) = MailKey(req[r].user) /\ Tail(c.todo) = <<>>
    BY <2>1, <2>2
  <2> QED
    BY <1>3, <1>5, <2>3
<1> QED
  BY <1>1, <1>2, <1>4, <1>6, OnlyCounts

LEMMA TimePassesKeeps == ASSUME FactorInv, TimePasses PROVE FactorInv'
<1>1. /\ now' \in Times /\ UNCHANGED <<attempts, counting, stored, tokens, req>>
  BY TimeAssumption DEF TimePasses, Tick, FactorInv, ThrottleInv, ThrottleTypeOK, Times
<1>2. ThrottleInv'
  BY <1>1, ClockKeeps DEF FactorInv
<1>3. UNCHANGED <<accounts, links, factor, recovery, minted, accepted, tokens, req, counting>>
  BY <1>1 DEF stored, secondFactor
<1>4. AccountsTypes' /\ (\A q \in Requests : RequestInv(req[q])') /\ CodeInv' /\ VersionInv'
  BY <1>3 DEF FactorInv, AccountsTypes, RequestInv, CodeInv, VersionInv
<1>5. LinkInv'
  BY <1>3 DEF FactorInv, LinkInv, ForgotInv, LiveLinks
<1> QED
  BY <1>2, <1>4, <1>5 DEF FactorInv

-----------------------------------------------------------------------------
(***************************************************************************)
(* Tokens handed out.                                                      *)
(***************************************************************************)

\* A request hands out a token of a version the account has had, and ends.
LEMMA TokenStep ==
    ASSUME FactorInv, NEW r \in Requests, Finish(r), UNCHANGED <<throttleVars, stored>>,
           NEW k \in Token, tokens' = tokens \cup {k},
           k.version \in accounts[k.user].had,
           ~ (k.kind = "access" /\ k.how = "password" /\ factor[k.user].state = "on")
    PROVE  FactorInv'
<1>1. UNCHANGED <<accounts, links, factor, recovery, minted, accepted>>
      /\ req' = [req EXCEPT ![r] = Resting]
  BY DEF stored, secondFactor, Finish
<1>2. ThrottleInv' /\ UNCHANGED counting
  BY NothingCounted
<1>3. AccountsTypes' /\ \A q \in Requests : RequestInv(req[q])'
  <2>1. req' \in [Requests -> Request] /\ \A q \in Requests : RequestInv(req[q])'
    BY <1>1, RequestFrame, ValueFacts, RestInv
  <2> QED
    BY <1>1, <2>1 DEF FactorInv, AccountsTypes
<1>4. LinkInv'
  <2>1. \A j \in Links : links'[j].state = "live" =>
           links'[j] = links[j] \/ (links'[j].user \in Users /\ links'[j].purpose = "activation")
    BY <1>1
  <2>2. Resting.op = "forgot" => Resting.pc \notin {"count", "mark", "mail"}
    BY ValueFacts
  <2> QED
    BY <1>1, <1>2, <2>1, <2>2, ValueFacts, LinkFrame
<1>5. CodeInv'
  BY <1>1 DEF FactorInv, CodeInv
<1>6. VersionInv'
  <2>1. req \in [Requests -> Request]
    BY RequestFacts
  <2>2. SUFFICES ASSUME NEW u \in Users
                 PROVE  /\ accounts[u].version \in accounts[u].had
                        /\ \A j \in tokens' : j.user = u => TokenInv(j, accounts[u], factor[u])
                        /\ \A q \in Requests :
                             req'[q].user = u /\ req'[q].pc \in {"admit", "token"} =>
                                req'[q].seen.version \in accounts[u].had
    BY <1>1 DEF VersionInv
  <2>3. /\ accounts[u].version \in accounts[u].had
        /\ \A j \in tokens : j.user = u => TokenInv(j, accounts[u], factor[u])
        /\ \A q \in Requests :
             req[q].user = u /\ req[q].pc \in {"admit", "token"} =>
                req[q].seen.version \in accounts[u].had
    BY DEF FactorInv, VersionInv
  <2>4. \A j \in tokens' : j \in tokens \/ j = k
    OBVIOUS
  <2>5. k.user = u => TokenInv(k, accounts[u], factor[u])
    BY DEF TokenInv
  <2>6. \A q \in Requests : q # r => req'[q] = req[q]
    BY <1>1, <2>1
  <2>7. req'[r].pc = "idle"
    BY <1>1, <2>1, ValueFacts
  <2> QED
    BY <2>3, <2>4, <2>5, <2>6, <2>7
<1>7. tokens' \subseteq Token
  BY DEF FactorInv, AccountsTypes
<1> QED
  BY <1>2, <1>3, <1>4, <1>5, <1>6 DEF FactorInv

\* The password alone gives a session only while no second factor is on.
LEMMA SignInKeeps == ASSUME FactorInv, NEW r \in Requests, SignIn(r) PROVE FactorInv'
<1> DEFINE u == req[r].user
           k == [kind |-> KindAfterPassword(r), user |-> u, version |-> req[r].seen.version,
                 how |-> "password"]
<1>1. /\ req[r].pc = "token" /\ tokens' = tokens \cup {k} /\ Finish(r)
      /\ UNCHANGED <<throttleVars, stored>>
  BY DEF SignIn, Grant, stored
<1>2. u \in Users /\ req[r].seen.version \in Nat
  BY <1>1, RequestFacts DEF Request, Account
<1>3. /\ KindAfterPassword(r) \in Kinds
      /\ factor[u].state = "on" => KindAfterPassword(r) # "access"
  BY DEF KindAfterPassword, Kinds
<1>4. k \in Token
  BY <1>2, <1>3 DEF Token
<1>5. req[r].seen.version \in accounts[u].had
  BY <1>1, RequestFacts
<1>6. k.user = u /\ k.version = req[r].seen.version /\ k.kind = KindAfterPassword(r)
  OBVIOUS
<1> HIDE DEF k, u
<1>7. /\ k.version \in accounts[k.user].had
      /\ ~ (k.kind = "access" /\ k.how = "password" /\ factor[k.user].state = "on")
  BY <1>3, <1>5, <1>6
<1> QED
  BY <1>1, <1>4, <1>7, TokenStep

LEMMA FreshSessionKeeps == ASSUME FactorInv, NEW r \in Requests, FreshSession(r) PROVE FactorInv'
<1> DEFINE u == req[r].user
           how == IF req[r].op \in {"verify", "confirm"} THEN "code" ELSE "session"
           k == [kind |-> "access", user |-> u, version |-> accounts[u].version, how |-> how]
<1>1. /\ req[r].pc = "fresh" /\ tokens' = tokens \cup {k} /\ Finish(r)
      /\ UNCHANGED <<throttleVars, stored>>
  BY DEF FreshSession, Grant, stored
<1>2. u \in Users /\ accounts[u].version \in Nat
  BY <1>1, RequestFacts, VersionsAreNatural
<1>3. how \in {"code", "session"}
  OBVIOUS
<1> HIDE DEF u, how
<1>4. k \in Token /\ k.user = u /\ k.version = accounts[u].version /\ k.how # "password"
  BY <1>2, <1>3 DEF Token, Kinds
<1> HIDE DEF k
<1>5. /\ k.version \in accounts[k.user].had
      /\ ~ (k.kind = "access" /\ k.how = "password" /\ factor[k.user].state = "on")
  BY <1>2, <1>4 DEF FactorInv, VersionInv
<1> QED
  BY <1>1, <1>4, <1>5, TokenStep

-----------------------------------------------------------------------------
(***************************************************************************)
(* Steps that store something.                                             *)
(***************************************************************************)

StoredTypes ==
    /\ accounts \in [Users -> Account]
    /\ links \in [Links -> Link]
    /\ factor \in [Users -> Factor]
    /\ recovery \in [Users -> SUBSET Secrets]
    /\ minted \in Secrets \cup {0}
    /\ accepted \subseteq [code : Code, under : Secrets, times : Nat]

\* A step of request r that takes no account back, and turns no second factor
\* on without raising the account's version.
LEMMA StoreStep ==
    ASSUME FactorInv, NEW r \in Requests, NEW t \in Request, RequestInv(t),
           req' = [req EXCEPT ![r] = t],
           tokens' = tokens,
           StoredTypes', CodeInv', ThrottleInv', LinkInv',
           \A u \in Users : VersionStep(accounts[u], accounts'[u]),
           \A u \in Users : factor'[u].state = "on" =>
              factor[u].state = "on" \/ Moved(accounts[u], accounts'[u]),
           t.pc \notin {"admit", "token"}
    PROVE  FactorInv'
<1>1. req' \in [Requests -> Request] /\ \A q \in Requests : RequestInv(req[q])'
  BY RequestFrame
<1>2. AccountsTypes'
  BY <1>1 DEF FactorInv, AccountsTypes, StoredTypes
<1>3. VersionInv'
  BY VersionFrame
<1> QED
  BY <1>1, <1>2, <1>3 DEF FactorInv

\* The second factors are left as they are.
LEMMA SameFactors ==
    ASSUME FactorInv, UNCHANGED secondFactor
    PROVE  /\ CodeInv' /\ UNCHANGED <<factor, recovery, minted, accepted>>
           /\ accounts' \in [Users -> Account] /\ links' \in [Links -> Link] => StoredTypes'
<1>1. UNCHANGED <<factor, recovery, minted, accepted>>
  BY DEF secondFactor
<1> QED
  BY <1>1 DEF FactorInv, CodeInv, AccountsTypes, StoredTypes

\* The links are left as they are.
LEMMA SameLinks ==
    ASSUME FactorInv, NEW r \in Requests, NEW t \in Request,
           req' = [req EXCEPT ![r] = t], UNCHANGED links,
           \A q \in Requests \ {r} : counting'[q] = counting[q],
           t.op = "forgot" => t.pc \notin {"count", "mark", "mail"}
    PROVE  links' \in [Links -> Link] /\ LinkInv'
<1>1. \A k \in Links : links'[k].state = "live" =>
         links'[k] = links[k] \/ (links'[k].user \in Users /\ links'[k].purpose = "activation")
  OBVIOUS
<1>2. LinkInv'
  BY <1>1, LinkFrame
<1> QED
  BY <1>2 DEF FactorInv, AccountsTypes

LEMMA StoredFacts ==
    ASSUME FactorInv
    PROVE  /\ accounts \in [Users -> Account] /\ links \in [Links -> Link]
           /\ factor \in [Users -> Factor] /\ recovery \in [Users -> SUBSET Secrets]
           /\ minted \in Secrets \cup {0} /\ minted \in Nat
           /\ accepted \subseteq [code : Code, under : Secrets, times : Nat]
BY NumbersAssumption DEF FactorInv, AccountsTypes

LEMMA SetOwnPasswordKeeps == ASSUME FactorInv, NEW r \in Requests, SetOwnPassword(r) PROVE FactorInv'
<1> DEFINE u == req[r].user
           named == [accounts[u] EXCEPT !.password = req[r].chosen]
           row == NextVersion(named)
<1>1. /\ req[r].pc = "set" /\ UNCHANGED <<now, counting, links, secondFactor, tokens>>
      /\ \/ /\ accounts' = [accounts EXCEPT ![u] = row]
            /\ Pardon({}, {LoginKey(u)})
            /\ Goto(r, "fresh")
         \/ Finish(r) /\ UNCHANGED <<accounts, attempts>>
  BY RequestFacts, StoredFacts DEF SetOwnPassword
<1>2. CASE Finish(r) /\ UNCHANGED <<accounts, attempts>>
  <2>1. UNCHANGED <<stored, tokens>> /\ UNCHANGED throttleVars
    BY <1>1, <1>2 DEF stored, throttleVars
  <2>2. ThrottleInv'
    BY <2>1, NothingCounted
  <2> QED
    BY <1>1, <1>2, <2>1, <2>2, FinishQuietly
<1>3. CASE accounts' = [accounts EXCEPT ![u] = row] /\ Pardon({}, {LoginKey(u)}) /\ Goto(r, "fresh")
  <2>1. u \in Users /\ accounts[u] \in Account /\ req[r].chosen \in Passwords \cup {Unusable}
    BY <1>1, RequestFacts DEF Request
  <2>2. row \in Account /\ VersionStep(accounts[u], row)
    <3>1. named \in Account
      BY <2>1 DEF Account
    <3>2. named.version = accounts[u].version /\ named.had = accounts[u].had
          /\ named.again = accounts[u].again
      BY <2>1 DEF Account
    <3> HIDE DEF named
    <3> QED
      BY <2>1, <3>1, <3>2, NextVersionAfter
  <2> HIDE DEF row, u
  <2>3. "fresh" \in PCs
    BY DEF PCs
  <2>4. PICK t \in Request :
          /\ req' = [req EXCEPT ![r] = t]
          /\ t.pc = "fresh" /\ t.op = req[r].op /\ t.user = req[r].user /\ t.seen = req[r].seen
    BY <1>3, <2>3, GotoFacts
  <2>5. RequestInv(t)
    BY <1>1, <2>1, <2>4 DEF RequestInv, u
  <2>6. ThrottleInv'
    BY <1>1, <1>3, PardonFacts
  <2>7. links' \in [Links -> Link] /\ LinkInv'
    BY <1>1, <2>4, SameLinks
  <2>8. /\ accounts' \in [Users -> Account]
        /\ \A v \in Users : VersionStep(accounts[v], accounts'[v])
    BY <1>3, <2>1, <2>2, AccountWritten
  <2>9. CodeInv' /\ StoredTypes' /\ factor' = factor
    BY <1>1, <2>7, <2>8, SameFactors
  <2>10. \A v \in Users : factor'[v].state = "on" =>
            factor[v].state = "on" \/ Moved(accounts[v], accounts'[v])
    BY <2>9
  <2> QED
    BY <1>1, <2>4, <2>5, <2>6, <2>7, <2>8, <2>9, <2>10, StoreStep
<1> QED
  BY <1>1, <1>2, <1>3

\* An update writes the version it read, or one more, whatever the version has
\* become.
LEMMA WriteUserKeeps == ASSUME FactorInv, NEW r \in Requests, WriteUser(r) PROVE FactorInv'
<1> DEFINE t == req[r]
           u == t.user
           role == Column(t.seen.role, t.change.role, accounts[u].role)
           active == Column(t.seen.active, t.change.active, accounts[u].active)
           version == Column(t.seen.version, t.change.version, accounts[u].version)
           named == [accounts[u] EXCEPT !.role = role, !.active = active]
           row == Versioned(named, version)
<1>1. /\ t.pc = "write" /\ Finish(r) /\ UNCHANGED <<throttleVars, links, secondFactor, tokens>>
      /\ accounts' = [accounts EXCEPT ![u] = row]
  BY DEF WriteUser
<1>2. /\ u \in Users /\ accounts[u] \in Account /\ t.seen \in Account /\ t.change \in Account
      /\ req' = [req EXCEPT ![r] = Resting]
  BY <1>1, RequestFacts DEF Request, Finish
<1>3. role \in Roles \cup {"none"} /\ version \in Nat
  BY <1>2 DEF Column, Account
<1>4. active \in BOOLEAN
  BY <1>2 DEF Column, Account
<1> HIDE DEF role, active, version
<1>5. named \in Account
  BY <1>2, <1>3, <1>4 DEF Account
<1>6. /\ named.version = accounts[u].version /\ named.had = accounts[u].had
      /\ named.again = accounts[u].again
  BY <1>2 DEF Account
<1> HIDE DEF named
<1>7. row \in Account /\ VersionStep(accounts[u], row)
  <2>1. accounts[u].version \in accounts[u].had
    BY <1>2 DEF FactorInv, VersionInv
  <2> QED
    BY <1>2, <1>3, <1>5, <1>6, <2>1, VersionedAfter
<1> HIDE DEF row, u
<1>8. ThrottleInv' /\ UNCHANGED counting
  BY <1>1, NothingCounted
<1>9. Resting.op = "forgot" => Resting.pc \notin {"count", "mark", "mail"}
  BY ValueFacts
<1>10. links' \in [Links -> Link] /\ LinkInv'
  BY <1>1, <1>2, <1>8, <1>9, ValueFacts, SameLinks
<1>11. /\ accounts' \in [Users -> Account]
       /\ \A v \in Users : VersionStep(accounts[v], accounts'[v])
  BY <1>1, <1>2, <1>7, AccountWritten
<1>12. CodeInv' /\ StoredTypes' /\ factor' = factor
  BY <1>1, <1>10, <1>11, SameFactors
<1>13. \A v \in Users : factor'[v].state = "on" =>
          factor[v].state = "on" \/ Moved(accounts[v], accounts'[v])
  BY <1>12
<1>14. Resting.pc \notin {"admit", "token"}
  BY ValueFacts
<1> QED
  BY <1>1, <1>2, <1>8, <1>10, <1>11, <1>12, <1>13, <1>14, ValueFacts, RestInv, StoreStep

\* A link that works is spent by the account it was mailed to.
LEMMA SpendLinkKeeps ==
    ASSUME FactorInv, NEW r \in Requests, NEW k \in Links, NEW purpose, NEW p \in Passwords,
           SpendLink(r, k, purpose, p)
    PROVE  FactorInv'
<1> DEFINE u == links[k].user
           verified == accounts[u].verified \/ purpose = "activation"
           named == [accounts[u] EXCEPT !.password = p, !.verified = verified]
           row == NextVersion(named)
           fields == [Resting EXCEPT !.pc = "unlock"]
<1>1. u \in Users /\ accounts[u] \in Account
  BY StoredFacts DEF SpendLink, FactorInv, LinkInv
<1>2. /\ Start(r, "spend", NoUser, u, fields)
      /\ links' = [links EXCEPT ![k].state = "used"]
      /\ accounts' = [accounts EXCEPT ![u] = row]
      /\ UNCHANGED <<throttleVars, secondFactor, tokens>>
  BY <1>1, StoredFacts DEF SpendLink
<1>3. fields \in Request /\ fields.pc = "unlock" /\ "spend" \in Operations
  BY ValueFacts DEF Request, Operations
<1> HIDE DEF fields
<1>4. PICK t \in Request :
        /\ req' = [req EXCEPT ![r] = t]
        /\ t.pc = fields.pc /\ t.op = "spend" /\ t.user = u /\ t.seen = fields.seen
  BY <1>1, <1>2, <1>3, StartFacts
<1>5. RequestInv(t) /\ t.pc = "unlock"
  BY <1>1, <1>3, <1>4 DEF RequestInv
<1>6. verified \in BOOLEAN
  BY <1>1 DEF Account
<1> HIDE DEF verified
<1>7. row \in Account /\ VersionStep(accounts[u], row)
  <2>1. named \in Account
    BY <1>1, <1>6 DEF Account
  <2>2. /\ named.version = accounts[u].version /\ named.had = accounts[u].had
        /\ named.again = accounts[u].again
    BY <1>1 DEF Account
  <2> HIDE DEF named
  <2> QED
    BY <1>1, <2>1, <2>2, NextVersionAfter
<1> HIDE DEF row
<1>8. ThrottleInv' /\ UNCHANGED counting
  BY <1>2, NothingCounted
<1>9. links' \in [Links -> Link] /\ LinkInv'
  <2>1. links' \in [Links -> Link]
    BY <1>2, StoredFacts DEF Link
  <2>2. \A j \in Links : links'[j].state = "live" =>
           links'[j] = links[j] \/ (links'[j].user \in Users /\ links'[j].purpose = "activation")
    BY <1>2, StoredFacts DEF Link
  <2>3. t.op = "forgot" => t.pc \notin {"count", "mark", "mail"}
    BY <1>4
  <2> QED
    BY <1>4, <1>8, <2>1, <2>2, <2>3, LinkFrame
<1> HIDE DEF u
<1>10. /\ accounts' \in [Users -> Account]
       /\ \A v \in Users : VersionStep(accounts[v], accounts'[v])
  BY <1>1, <1>2, <1>7, AccountWritten
<1>11. CodeInv' /\ StoredTypes' /\ factor' = factor
  BY <1>2, <1>9, <1>10, SameFactors
<1>12. \A v \in Users : factor'[v].state = "on" =>
          factor[v].state = "on" \/ Moved(accounts[v], accounts'[v])
  BY <1>11
<1> QED
  BY <1>2, <1>4, <1>5, <1>8, <1>9, <1>10, <1>11, <1>12, StoreStep

\* The link of a new account is for its activation.
LEMMA CreateUserKeeps ==
    ASSUME FactorInv, NEW r \in Requests, NEW by \in Users, NEW u \in Users, NEW role \in Roles,
           CreateUser(r, by, u, role)
    PROVE  FactorInv'
<1> DEFINE row == [NoAccount EXCEPT !.role = role, !.active = TRUE]
           new == [user |-> u, purpose |-> "activation", state |-> "live"]
           t == req[r]
<1>1. /\ accounts[u] = NoAccount /\ req[r].pc = "idle"
      /\ accounts' = [accounts EXCEPT ![u] = row]
      /\ UNCHANGED <<throttleVars, secondFactor, tokens, req>>
  BY DEF CreateUser
<1>2. PICK k \in Links : links' = [links EXCEPT ![k] = new]
  BY DEF CreateUser
<1>3. row \in Account /\ VersionStep(NoAccount, row)
  <2>1. row \in Account
    BY ValueFacts DEF Account
  <2>2. /\ row.version = NoAccount.version /\ row.had = NoAccount.had
        /\ row.again = NoAccount.again /\ NoAccount.version \in NoAccount.had
    BY DEF NoAccount
  <2> QED
    BY <2>1, <2>2, SameVersion
<1>4. new \in Link /\ new.user \in Users /\ new.purpose = "activation"
  BY DEF Link
<1> HIDE DEF row, new
<1>5. t \in Request /\ RequestInv(t) /\ req' = [req EXCEPT ![r] = t]
  BY <1>1, RequestFacts
<1>6. ThrottleInv' /\ UNCHANGED counting
  BY <1>1, NothingCounted
<1>7. links' \in [Links -> Link] /\ LinkInv'
  <2>1. links' \in [Links -> Link]
    BY <1>2, <1>4, StoredFacts
  <2>2. \A j \in Links : links'[j].state = "live" =>
           links'[j] = links[j] \/ (links'[j].user \in Users /\ links'[j].purpose = "activation")
    BY <1>2, <1>4, StoredFacts
  <2>3. t.op = "forgot" => t.pc \notin {"count", "mark", "mail"}
    BY <1>1
  <2> HIDE DEF t
  <2> QED
    BY <1>5, <1>6, <2>1, <2>2, <2>3, LinkFrame
<1>8. /\ accounts' \in [Users -> Account]
      /\ \A v \in Users : VersionStep(accounts[v], accounts'[v])
  BY <1>1, <1>3, AccountWritten
<1>9. CodeInv' /\ StoredTypes' /\ factor' = factor
  BY <1>1, <1>7, <1>8, SameFactors
<1>10. \A v \in Users : factor'[v].state = "on" =>
          factor[v].state = "on" \/ Moved(accounts[v], accounts'[v])
  BY <1>9
<1>11. t.pc \notin {"admit", "token"} /\ tokens' = tokens
  BY <1>1
<1> HIDE DEF t
<1> QED
  BY <1>5, <1>6, <1>7, <1>8, <1>9, <1>10, <1>11, StoreStep

\* A step of request r that stores nothing, in which a request for a reset
\* link gets or keeps the lock it needs.
LEMMA OwnLinkStep ==
    ASSUME FactorInv, NEW r \in Requests, NEW t \in Request, RequestInv(t),
           req' = [req EXCEPT ![r] = t],
           UNCHANGED <<stored, tokens>>, ThrottleInv',
           \A q \in Requests \ {r} : counting'[q] = counting[q],
           ForgotInv(t, counting'[r]),
           t.pc \notin {"admit", "token"}
    PROVE  FactorInv'
<1>1. UNCHANGED <<accounts, links, factor, recovery, minted, accepted>>
  BY DEF stored, secondFactor
<1>2. LinkInv /\ req \in [Requests -> Request]
  BY RequestFacts DEF FactorInv
<1>3. \A q \in Requests : ForgotInv(req[q], counting[q])'
  <2> TAKE q \in Requests
  <2>1. CASE q = r
    BY <1>1, <1>2, <2>1 DEF ForgotInv, LiveLinks
  <2>2. CASE q # r
    BY <1>1, <1>2, <2>2 DEF LinkInv, ForgotInv, LiveLinks
  <2> QED
    BY <2>1, <2>2
<1>4. LinkInv'
  BY <1>1, <1>2, <1>3 DEF LinkInv, LiveLinks
<1>5. CodeInv' /\ StoredTypes'
  BY <1>1 DEF FactorInv, CodeInv, AccountsTypes, StoredTypes
<1>6. \A v \in Users : VersionStep(accounts[v], accounts'[v])
  BY <1>1, AccountsKept
<1>7. \A v \in Users : factor'[v].state = "on" =>
         factor[v].state = "on" \/ Moved(accounts[v], accounts'[v])
  BY <1>1
<1> QED
  BY <1>4, <1>5, <1>6, <1>7, StoreStep

LEMMA ForgotPasswordKeeps ==
    ASSUME FactorInv, NEW r \in Requests, NEW u \in Users, ForgotPassword(r, u)
    PROVE  FactorInv'
<1> DEFINE fields == [Resting EXCEPT !.pc = "count"]
<1>1. fields \in Request /\ fields.pc = "count" /\ "forgot" \in Operations
  BY ValueFacts DEF Request, Operations
<1>2. /\ Start(r, "forgot", NoUser, u, fields) /\ CountFirst(r, <<MailKey(u)>>)
      /\ UNCHANGED <<now, attempts, stored, tokens>>
  BY DEF ForgotPassword
<1> HIDE DEF fields
<1>3. /\ ThrottleInv' /\ \A q \in Requests \ {r} : counting'[q] = counting[q]
      /\ counting'[r].todo = <<MailKey(u)>>
  BY <1>2, KeySequences, CountFirstFacts
<1>4. PICK t \in Request :
        /\ req' = [req EXCEPT ![r] = t]
        /\ t.pc = fields.pc /\ t.op = "forgot" /\ t.user = u /\ t.seen = fields.seen
  BY <1>1, <1>2, StartFacts
<1>5. RequestInv(t) /\ t.pc \notin {"admit", "token"}
  BY <1>1, <1>4 DEF RequestInv
<1>6. ForgotInv(t, counting'[r])
  BY <1>1, <1>3, <1>4 DEF ForgotInv
<1> QED
  BY <1>2, <1>3, <1>4, <1>5, <1>6, OwnLinkStep

\* A request for a reset link has counted, and so has the lock, when it finds
\* the links that are live.
LEMMA FindOldLinksKeeps == ASSUME FactorInv, NEW r \in Requests, FindOldLinks(r) PROVE FactorInv'
<1> DEFINE live == LiveLinks(req[r].user, PurposeOf(req[r].op))
           t == [req[r] EXCEPT !.pc = "mark", !.found = live]
<1>1. /\ \/ req[r].pc = "link"
         \/ /\ req[r].op = "forgot" /\ req[r].pc = "count"
            /\ counting[r].todo = <<>> /\ ~ counting[r].refused
      /\ req' = [req EXCEPT ![r] = t]
      /\ UNCHANGED <<throttleVars, stored, tokens>>
  BY DEF FindOldLinks, Counted
<1>2. req[r] \in Request /\ RequestInv(req[r]) /\ ForgotInv(req[r], counting[r])
  BY RequestFacts
<1>3. live \subseteq Links
  BY DEF LiveLinks
<1>4. req[r].op = "forgot" => live = LiveLinks(req[r].user, "reset")
  BY DEF PurposeOf
<1> HIDE DEF live
<1>5. /\ t \in Request /\ t.pc = "mark" /\ t.op = req[r].op /\ t.user = req[r].user
      /\ t.found = live
  BY <1>2, <1>3 DEF Request
<1> HIDE DEF t
<1>6. RequestInv(t)
  BY <1>1, <1>2, <1>5 DEF RequestInv
<1>7. ThrottleInv' /\ UNCHANGED counting
  BY <1>1, NothingCounted
<1>8. ForgotInv(t, counting'[r])
  <2> SUFFICES ASSUME t.op = "forgot"
               PROVE  /\ MailKey(t.user) \in counting[r].held
                      /\ LiveLinks(t.user, "reset") \subseteq t.found
    BY <1>5, <1>7 DEF ForgotInv
  <2>1. req[r].pc = "count" /\ counting[r].todo = <<>> /\ ~ counting[r].refused
    BY <1>1, <1>2, <1>5 DEF RequestInv
  <2>2. MailKey(t.user) \in counting[r].held
    <3>1. ASSUME NEW k PROVE <<k>> # <<>>
      OBVIOUS
    <3> QED
      BY <1>2, <1>5, <2>1, <3>1 DEF ForgotInv
  <2> QED
    BY <1>4, <1>5, <2>2
<1>9. t.pc \notin {"admit", "token"}
  BY <1>5
<1> QED
  BY <1>1, <1>5, <1>6, <1>7, <1>8, <1>9, OwnLinkStep

\* It has it still when it marks them, and has found every link that lives.
LEMMA MarkOldLinksKeeps == ASSUME FactorInv, NEW r \in Requests, MarkOldLinks(r) PROVE FactorInv'
<1> DEFINE marked == {k \in req[r].found : links[k].state = "live"}
           t == [req[r] EXCEPT !.pc = "mail", !.marked = marked]
<1>1. /\ req[r].pc = "mark"
      /\ req' = [req EXCEPT ![r] = t]
      /\ UNCHANGED <<throttleVars, stored, tokens>>
  BY DEF MarkOldLinks
<1>2. req[r] \in Request /\ RequestInv(req[r]) /\ ForgotInv(req[r], counting[r])
  BY RequestFacts
<1>3. marked \subseteq Links
  BY <1>2 DEF Request
<1>4. \A u : LiveLinks(u, "reset") \subseteq req[r].found => LiveLinks(u, "reset") \subseteq marked
  <2> SUFFICES ASSUME NEW u, NEW k \in req[r].found,
                      links[k] = [user |-> u, purpose |-> "reset", state |-> "live"]
               PROVE  k \in marked
    BY DEF LiveLinks
  <2>1. links[k].state = "live"
    OBVIOUS
  <2> QED
    BY <2>1
<1> HIDE DEF marked
<1>5. /\ t \in Request /\ t.pc = "mail" /\ t.op = req[r].op /\ t.user = req[r].user
      /\ t.marked = marked
  BY <1>2, <1>3 DEF Request
<1> HIDE DEF t
<1>6. RequestInv(t)
  BY <1>1, <1>2, <1>5 DEF RequestInv
<1>7. ThrottleInv' /\ UNCHANGED counting
  BY <1>1, NothingCounted
<1>8. ForgotInv(t, counting'[r])
  <2> SUFFICES ASSUME t.op = "forgot"
               PROVE  /\ MailKey(t.user) \in counting[r].held
                      /\ LiveLinks(t.user, "reset") \subseteq t.marked
    BY <1>5, <1>7 DEF ForgotInv
  <2>1. /\ MailKey(t.user) \in counting[r].held
        /\ LiveLinks(t.user, "reset") \subseteq req[r].found
    BY <1>1, <1>2, <1>5 DEF ForgotInv
  <2> QED
    BY <1>4, <1>5, <2>1
<1>9. t.pc \notin {"admit", "token"}
  BY <1>5
<1> QED
  BY <1>1, <1>5, <1>6, <1>7, <1>8, <1>9, OwnLinkStep

\* The new link is the only one of its account and purpose that a request for
\* a reset link leaves live; the lock keeps other such requests away.
LEMMA MailLinkKeeps == ASSUME FactorInv, NEW r \in Requests, MailLink(r) PROVE FactorInv'
<1> DEFINE u == req[r].user
           new == [user |-> u, purpose |-> PurposeOf(req[r].op), state |-> "live"]
           old(j) == IF j \in req[r].marked THEN [links[j] EXCEPT !.state = "used"] ELSE links[j]
<1>1. /\ req[r].pc = "mail" /\ CountCommits(r) /\ Finish(r)
      /\ UNCHANGED <<now, accounts, secondFactor, tokens>>
  BY DEF MailLink
<1>2. PICK k \in Links : links' = [j \in Links |-> IF j = k THEN new ELSE old(j)]
  BY DEF MailLink
<1>3. /\ u \in Users /\ req[r] \in Request /\ req' = [req EXCEPT ![r] = Resting]
      /\ LinkInv /\ ForgotInv(req[r], counting[r]) /\ req \in [Requests -> Request]
      /\ \A j \in Links : links[j] \in Link
  BY <1>1, RequestFacts, StoredFacts DEF Finish, FactorInv
<1>4. ThrottleInv' /\ \A q \in Requests \ {r} : counting'[q] = counting[q]
  BY <1>1, CommitFacts
<1>5. new \in Link /\ new.user = u /\ new.purpose = PurposeOf(req[r].op) /\ new.state = "live"
  BY <1>3 DEF Link, PurposeOf
<1>6. \A j \in Links : /\ old(j) \in Link
                       /\ old(j).state = "live" => old(j) = links[j] /\ j \notin req[r].marked
  BY <1>3 DEF Link
<1> HIDE DEF new, old
<1>7. links' \in [Links -> Link]
  BY <1>2, <1>5, <1>6
<1>8. \A j \in Links : links'[j].state = "live" =>
         \/ j = k /\ links'[j] = new
         \/ links'[j] = links[j] /\ j \notin req[r].marked
  BY <1>2, <1>6
<1>9. ASSUME NEW w \in Users, w # u \/ req[r].op # "forgot"
      PROVE  LiveLinks(w, "reset")' \subseteq LiveLinks(w, "reset")
  <2> SUFFICES ASSUME NEW j \in Links,
                      links'[j] = [user |-> w, purpose |-> "reset", state |-> "live"]
               PROVE  links[j] = [user |-> w, purpose |-> "reset", state |-> "live"]
    BY DEF LiveLinks
  <2>1. links'[j].state = "live" /\ links'[j].user = w /\ links'[j].purpose = "reset"
    OBVIOUS
  <2>2. links'[j] # new
    BY <1>5, <1>9, <2>1 DEF PurposeOf
  <2> QED
    BY <1>8, <2>1, <2>2
<1>10. ASSUME NEW w \in Users, w = u, req[r].op = "forgot"
       PROVE  \A j \in LiveLinks(w, "reset")' : j = k
  <2> SUFFICES ASSUME NEW j \in LiveLinks(w, "reset")'
               PROVE  j = k
    OBVIOUS
  <2>1. /\ j \in Links /\ links'[j].state = "live"
        /\ links'[j] = [user |-> w, purpose |-> "reset", state |-> "live"]
    <3>1. j \in Links /\ links'[j] = [user |-> w, purpose |-> "reset", state |-> "live"]
      BY DEF LiveLinks
    <3> QED
      BY <3>1
  <2>2. j = k \/ (links'[j] = links[j] /\ j \notin req[r].marked)
    BY <1>8, <2>1
  <2>3. j = k \/ j \in LiveLinks(u, "reset")
    BY <1>10, <2>1, <2>2 DEF LiveLinks
  <2> QED
    BY <1>1, <1>3, <1>10, <2>2, <2>3 DEF ForgotInv
<1>11. \A j \in Links : links'[j].state = "live" => links'[j].user \in Users
  BY <1>3, <1>5, <1>8 DEF LinkInv
<1>12. \A w \in Users : \A i, j \in LiveLinks(w, "reset")' : i = j
  <2> TAKE w \in Users
  <2>1. CASE w = u /\ req[r].op = "forgot"
    BY <1>10, <2>1
  <2>2. CASE ~ (w = u /\ req[r].op = "forgot")
    BY <1>3, <1>9, <2>2 DEF LinkInv
  <2> QED
    BY <2>1, <2>2
<1>13. ASSUME NEW q \in Requests PROVE ForgotInv(req[q], counting[q])'
  <2>1. CASE q = r
    <3>1. req'[q].op = "none"
      BY <1>3, <2>1, ValueFacts
    <3> QED
      BY <3>1 DEF ForgotInv
  <2>2. CASE q # r
    <3>1. req'[q] = req[q] /\ counting'[q] = counting[q] /\ ForgotInv(req[q], counting[q])
      BY <1>3, <1>4, <2>2 DEF LinkInv
    <3>2. ASSUME NEW w \in Users, w = req[q].user, req[q].op = "forgot", req[q].pc \in {"mark", "mail"}
          PROVE  LiveLinks(w, "reset")' \subseteq LiveLinks(w, "reset")
      <4>1. MailKey(w) \in counting[q].held
        BY <3>1, <3>2 DEF ForgotInv
      <4>2. w # u \/ req[r].op # "forgot"
        <5> SUFFICES ASSUME w = u, req[r].op = "forgot" PROVE FALSE
          OBVIOUS
        <5>1. MailKey(u) \in counting[q].held /\ MailKey(u) \in counting[r].held
          BY <1>1, <1>3, <4>1 DEF ForgotInv
        <5> QED
          BY <2>2, <5>1 DEF FactorInv, ThrottleInv, LocksAreExclusive
      <4> QED
        BY <1>9, <4>2
    <3>3. ASSUME req[q].op = "forgot", req[q].pc \in {"mark", "mail"}
          PROVE  LiveLinks(req[q].user, "reset")' \subseteq LiveLinks(req[q].user, "reset")
      <4>1. PICK w \in Users : w = req[q].user
        BY <3>3, RequestFacts
      <4> QED
        BY <3>1, <3>2, <3>3, <4>1 DEF LiveLinks
    <3> QED
      BY <3>1, <3>3 DEF ForgotInv, MailKey
  <2> QED
    BY <2>1, <2>2
<1>14. LinkInv'
  BY <1>11, <1>12, <1>13 DEF LinkInv
<1>15. accounts' \in [Users -> Account] /\ UNCHANGED <<accounts, tokens>>
  BY <1>1, StoredFacts
<1>16. CodeInv' /\ StoredTypes' /\ factor' = factor
  BY <1>1, <1>7, <1>15, SameFactors
<1>17. \A v \in Users : VersionStep(accounts[v], accounts'[v])
  BY <1>15, AccountsKept
<1>18. \A v \in Users : factor'[v].state = "on" =>
          factor[v].state = "on" \/ Moved(accounts[v], accounts'[v])
  BY <1>16
<1>19. Resting.pc \notin {"admit", "token"}
  BY ValueFacts
<1> QED
  BY <1>3, <1>4, <1>14, <1>15, <1>16, <1>17, <1>18, <1>19, ValueFacts, RestInv, StoreStep

LEMMA LinkExpiresKeeps == ASSUME FactorInv, NEW k \in Links, LinkExpires(k) PROVE FactorInv'
<1>1. /\ links' = [links EXCEPT ![k].state = "used"]
      /\ UNCHANGED <<throttleVars, accounts, factor, recovery, minted, accepted, tokens, req>>
  BY DEF LinkExpires, secondFactor
<1>2. ThrottleInv' /\ UNCHANGED counting
  BY <1>1, NothingCounted
<1>3. /\ links' \in [Links -> Link]
      /\ \A j \in Links : links'[j].state = "live" => links'[j] = links[j]
  BY <1>1, StoredFacts DEF Link
<1>4. AccountsTypes' /\ (\A q \in Requests : RequestInv(req[q])') /\ CodeInv' /\ VersionInv'
  BY <1>1, <1>3 DEF FactorInv, AccountsTypes, RequestInv, CodeInv, VersionInv
<1>5. \A u : LiveLinks(u, "reset")' \subseteq LiveLinks(u, "reset")
  <2> SUFFICES ASSUME NEW u, NEW j \in Links,
                      links'[j] = [user |-> u, purpose |-> "reset", state |-> "live"]
               PROVE  links[j] = [user |-> u, purpose |-> "reset", state |-> "live"]
    BY DEF LiveLinks
  <2>1. links'[j].state = "live"
    OBVIOUS
  <2> QED
    BY <1>3, <2>1
<1>6. \A q \in Requests : ForgotInv(req[q], counting[q])'
  BY <1>1, <1>2, <1>5 DEF FactorInv, LinkInv, ForgotInv
<1>7. LinkInv'
  BY <1>3, <1>5, <1>6 DEF FactorInv, LinkInv
<1> QED
  BY <1>2, <1>4, <1>7 DEF FactorInv

-----------------------------------------------------------------------------
(***************************************************************************)
(* The second factor.                                                      *)
(***************************************************************************)

\* The second factor of one account changes.  Its secret stays, goes, or is
\* one that nobody ever had, and what is accepted now is used up with it.
LEMMA CodeStep ==
    ASSUME FactorInv, NEW u \in Users, NEW f \in Factor, NEW codes \in SUBSET Secrets,
           factor' = [factor EXCEPT ![u] = f],
           recovery' = [recovery EXCEPT ![u] = codes],
           minted' \in Nat, minted <= minted',
           f.state = "none" <=> f.secret = 0,
           f.secret <= minted',
           \A b \in codes : b <= minted',
           f.secret \in {0, factor[u].secret} \/ minted < f.secret,
           \A a \in accepted' : a \in accepted \/
              /\ a.times = 1 /\ a.under = f.secret
              /\ f.state = "on"
              /\ a.code.kind = "app" => a.code.step <= f.last
              /\ a.code.kind = "paper" => a.code.of <= minted' /\ a.code.of \notin codes,
           \A a \in accepted : a.under = f.secret =>
              /\ f.state = "on"
              /\ a.code.kind = "app" => a.code.step <= f.last
              /\ a.code.kind = "paper" => a.code.of \notin codes
    PROVE  CodeInv'
<1>1. /\ factor \in [Users -> Factor] /\ recovery \in [Users -> SUBSET Secrets] /\ minted \in Nat
      /\ accepted \subseteq [code : Code, under : Secrets, times : Nat]
  BY StoredFacts
<1>2. /\ factor'[u] = f /\ recovery'[u] = codes
      /\ \A v \in Users \ {u} : factor'[v] = factor[v] /\ recovery'[v] = recovery[v]
  BY <1>1
<1>3. /\ \A s \in Secrets : s \in Nat \ {0}
      /\ f.secret \in Nat /\ \A v \in Users : factor[v].secret \in Nat
      /\ \A a \in accepted : a.under \in Nat /\ (a.code.kind = "paper" => a.code.of \in Nat)
  <2>1. \A s \in Secrets : s \in Nat \ {0}
    BY NumbersAssumption
  <2>2. \A a \in accepted : a.under \in Secrets /\ a.code.of \in Secrets \cup {0}
    BY <1>1 DEF Code
  <2>3. f.secret \in Secrets \cup {0} /\ \A v \in Users : factor[v].secret \in Secrets \cup {0}
    BY <1>1 DEF Factor
  <2> QED
    BY <2>1, <2>2, <2>3
<1>4. CodeInv
  BY DEF FactorInv
<1>5. ASSUME NEW v \in Users \ {u}, f.secret = factor[v].secret PROVE f.secret = 0
  <2>1. factor[v].secret <= minted
    BY <1>4 DEF CodeInv
  <2>2. factor[u].secret = factor[v].secret => factor[u].secret = 0
    BY <1>4 DEF CodeInv
  <2> QED
    BY <1>1, <1>3, <1>5, <2>1, <2>2
<1>6. \A v \in Users :
         /\ factor'[v].state = "none" <=> factor'[v].secret = 0
         /\ factor'[v].secret <= minted'
         /\ \A b \in recovery'[v] : b <= minted'
  <2> TAKE v \in Users
  <2>1. CASE v = u
    BY <1>2, <2>1
  <2>2. CASE v # u
    <3>1. factor'[v] = factor[v] /\ recovery'[v] = recovery[v] /\ recovery[v] \subseteq Secrets
      BY <1>1, <1>2, <2>2
    <3>2. /\ factor[v].state = "none" <=> factor[v].secret = 0
          /\ factor[v].secret <= minted
          /\ \A b \in recovery[v] : b <= minted /\ b \in Nat
      BY <1>3, <1>4, <3>1 DEF CodeInv
    <3>3. factor[v].secret <= minted' /\ \A b \in recovery[v] : b <= minted'
      BY <1>1, <1>3, <3>2
    <3> QED
      BY <3>1, <3>2, <3>3
  <2> QED
    BY <2>1, <2>2
<1>7. \A v \in Users : \A w \in Users \ {v} :
         factor'[v].secret = factor'[w].secret => factor'[v].secret = 0
  <2> TAKE v \in Users
  <2> TAKE w \in Users \ {v}
  <2>1. CASE v = u
    BY <1>2, <1>5, <2>1
  <2>2. CASE w = u
    BY <1>2, <1>5, <2>2
  <2>3. CASE v # u /\ w # u
    BY <1>2, <1>4, <2>3 DEF CodeInv
  <2> QED
    BY <2>1, <2>2, <2>3
<1>8. ASSUME NEW a \in accepted'
      PROVE  /\ a.times = 1
             /\ 0 < a.under /\ a.under <= minted'
             /\ a.code.kind = "paper" => a.code.of <= minted'
             /\ \A v \in Users : factor'[v].secret = a.under =>
                  /\ factor'[v].state = "on"
                  /\ a.code.kind = "app" => a.code.step <= factor'[v].last
                  /\ a.code.kind = "paper" => a.code.of \notin recovery'[v]
  <2>1. CASE a \in accepted
    <3>1. /\ a.times = 1 /\ 0 < a.under /\ a.under <= minted
          /\ a.code.kind = "paper" => a.code.of <= minted
          /\ \A v \in Users : factor[v].secret = a.under =>
                  /\ factor[v].state = "on"
                  /\ a.code.kind = "app" => a.code.step <= factor[v].last
                  /\ a.code.kind = "paper" => a.code.of \notin recovery[v]
      BY <1>4, <2>1 DEF CodeInv
    <3>2. a.under <= minted' /\ (a.code.kind = "paper" => a.code.of <= minted')
      BY <1>1, <1>3, <2>1, <3>1
    <3>3. ASSUME NEW v \in Users, factor'[v].secret = a.under
          PROVE  /\ factor'[v].state = "on"
                 /\ a.code.kind = "app" => a.code.step <= factor'[v].last
                 /\ a.code.kind = "paper" => a.code.of \notin recovery'[v]
      <4>1. CASE v = u
        BY <1>2, <2>1, <3>3, <4>1
      <4>2. CASE v # u
        BY <1>2, <3>1, <3>3, <4>2
      <4> QED
        BY <4>1, <4>2
    <3> QED
      BY <3>1, <3>2, <3>3
  <2>2. CASE a \notin accepted
    <3>1. /\ a.times = 1 /\ a.under = f.secret /\ f.state = "on"
          /\ a.code.kind = "app" => a.code.step <= f.last
          /\ a.code.kind = "paper" => a.code.of <= minted' /\ a.code.of \notin codes
      BY <2>2
    <3>2. f.secret # 0
      BY <3>1
    <3>3. 0 < a.under /\ a.under <= minted'
      BY <1>3, <3>1, <3>2
    <3>4. \A v \in Users : factor'[v].secret = a.under => v = u
      BY <1>2, <1>5, <3>1, <3>2
    <3> QED
      BY <1>2, <3>1, <3>3, <3>4
  <2> QED
    BY <2>1, <2>2
<1> QED
  BY <1>6, <1>7, <1>8 DEF CodeInv

\* What auth_mfa_enable() and auth_mfa_remove() do to the account's version.
Raised(u) == accounts' = [accounts EXCEPT ![u] = NextVersion(accounts[u])]

LEMMA RaisedFacts ==
    ASSUME FactorInv, NEW u \in Users, Raised(u)
    PROVE  /\ accounts' \in [Users -> Account] /\ Moved(accounts[u], accounts'[u])
           /\ \A v \in Users : VersionStep(accounts[v], accounts'[v])
<1>1. accounts[u] \in Account
  BY StoredFacts
<1>2. /\ NextVersion(accounts[u]) \in Account
      /\ VersionStep(accounts[u], NextVersion(accounts[u]))
      /\ Moved(accounts[u], NextVersion(accounts[u]))
  BY <1>1, NextVersionFacts
<1> QED
  BY <1>2, AccountWritten DEF Raised

\* A request that ends, or goes on, and changes the second factor of u, with
\* the version of u's account raised or not.
LEMMA FactorStep ==
    ASSUME FactorInv, NEW r \in Requests, NEW t \in Request, RequestInv(t),
           req' = [req EXCEPT ![r] = t],
           NEW u \in Users, NEW f \in Factor, NEW codes \in SUBSET Secrets,
           factor' = [factor EXCEPT ![u] = f],
           recovery' = [recovery EXCEPT ![u] = codes],
           minted' \in Secrets \cup {0},
           accepted' \subseteq [code : Code, under : Secrets, times : Nat],
           UNCHANGED accounts \/ Raised(u),
           f.state = "on" => factor[u].state = "on" \/ Raised(u),
           UNCHANGED <<links, tokens>>,
           CodeInv', ThrottleInv', UNCHANGED counting,
           t.op = "forgot" => t.pc \notin {"count", "mark", "mail"},
           t.pc \notin {"admit", "token"}
    PROVE  FactorInv'
<1>1. links' \in [Links -> Link] /\ LinkInv'
  BY SameLinks
<1>2. /\ accounts' \in [Users -> Account]
      /\ \A v \in Users : VersionStep(accounts[v], accounts'[v])
  <2>1. CASE UNCHANGED accounts
    BY <2>1, StoredFacts, AccountsKept
  <2>2. CASE Raised(u)
    BY <2>2, RaisedFacts
  <2> QED
    BY <2>1, <2>2
<1>3. StoredTypes'
  BY <1>1, <1>2, StoredFacts DEF StoredTypes
<1>4. \A v \in Users : factor'[v].state = "on" =>
         factor[v].state = "on" \/ Moved(accounts[v], accounts'[v])
  <2> TAKE v \in Users
  <2>1. CASE v # u
    BY <2>1, StoredFacts
  <2>2. CASE v = u
    <3>1. factor'[u] = f
      BY StoredFacts
    <3> QED
      BY <2>2, <3>1, RaisedFacts
  <2> QED
    BY <2>1, <2>2
<1> QED
  BY <1>1, <1>2, <1>3, <1>4, StoreStep

\* A secret is new, and comes with no code accepted under it.
LEMMA ReplaceSecretKeeps == ASSUME FactorInv, NEW r \in Requests, ReplaceSecret(r) PROVE FactorInv'
<1> DEFINE u == req[r].user
           f == [state |-> IF factor[u].state = "on" THEN "on" ELSE "pending",
                 secret |-> minted + 1, last |-> 0]
<1>1. /\ req[r].pc = "replace" /\ minted + 1 \in Secrets /\ minted' = minted + 1
      /\ Finish(r) /\ UNCHANGED <<throttleVars, accounts, links, recovery, tokens, accepted>>
      /\ factor' = [factor EXCEPT ![u] = f]
  BY DEF ReplaceSecret
<1>2. u \in Users /\ req' = [req EXCEPT ![r] = Resting] /\ minted \in Nat
      /\ recovery \in [Users -> SUBSET Secrets]
  BY <1>1, RequestFacts, StoredFacts DEF Finish
<1>3. 0 \in 0 .. MaxTime + 2
  BY TimeAssumption
<1>4. /\ f \in Factor /\ f.secret = minted + 1 /\ f.state # "none"
      /\ f.state = "on" <=> factor[u].state = "on"
  BY <1>1, <1>3 DEF Factor
<1> HIDE DEF f, u
<1>5. recovery' = [recovery EXCEPT ![u] = recovery[u]] /\ recovery[u] \in SUBSET Secrets
  BY <1>1, <1>2
<1>6. minted' \in Nat /\ minted <= minted' /\ minted' \in Secrets
  BY <1>1, <1>2
<1>7. /\ f.secret # 0 /\ f.secret <= minted' /\ minted < f.secret
      /\ f.state = "none" <=> f.secret = 0
  BY <1>1, <1>2, <1>4
<1>8. \A b \in recovery[u] : b <= minted'
  <2>1. \A b \in recovery[u] : b <= minted /\ b \in Nat
    BY <1>2, NumbersAssumption DEF FactorInv, CodeInv
  <2> QED
    BY <1>1, <1>2, <2>1
<1>9. \A a \in accepted : a.under # f.secret
  <2>1. \A a \in accepted : a.under <= minted /\ a.under \in Nat
    BY StoredFacts, NumbersAssumption DEF FactorInv, CodeInv
  <2> QED
    BY <1>2, <1>4, <2>1
<1>10. CodeInv'
  <2>1. \A a \in accepted' : a \in accepted
    BY <1>1
  <2>2. f.secret \in {0, factor[u].secret} \/ minted < f.secret
    BY <1>7
  <2> QED
    BY <1>1, <1>2, <1>4, <1>5, <1>6, <1>7, <1>8, <1>9, <2>1, <2>2, CodeStep
<1>11. ThrottleInv' /\ UNCHANGED counting
  BY <1>1, NothingCounted
<1>12. /\ Resting.op = "forgot" => Resting.pc \notin {"count", "mark", "mail"}
       /\ Resting.pc \notin {"admit", "token"}
  BY ValueFacts
<1>13. accepted' \subseteq [code : Code, under : Secrets, times : Nat]
  BY <1>1, StoredFacts
<1>14. f.state = "on" => factor[u].state = "on" \/ Raised(u)
  BY <1>4
<1>15. UNCHANGED <<links, tokens>> /\ UNCHANGED accounts
  BY <1>1
<1> QED
  BY <1>1, <1>2, <1>4, <1>5, <1>6, <1>10, <1>11, <1>12, <1>13, <1>14, <1>15,
     ValueFacts, RestInv, FactorStep

\* What Accept adds for a code that was not accepted under the secret.
LEMMA AcceptFacts ==
    ASSUME FactorInv, NEW u \in Users, NEW code \in Code, Accept(u, code),
           factor[u].secret # 0,
           \A a \in accepted : ~ (a.code = code /\ a.under = factor[u].secret)
    PROVE  /\ accepted' = accepted \cup {[code |-> code, under |-> factor[u].secret, times |-> 1]}
           /\ accepted' \subseteq [code : Code, under : Secrets, times : Nat]
<1> DEFINE before == {a \in accepted : a.code = code /\ a.under = factor[u].secret}
<1>1. accepted' = accepted \cup
        {[code |-> code, under |-> factor[u].secret, times |-> 1 + Cardinality(before)]}
  BY DEF Accept
<1>2. before = {}
  OBVIOUS
<1>3. Cardinality(before) = 0
  BY <1>2, FS_EmptySet
<1> HIDE DEF before
<1>4. accepted' = accepted \cup {[code |-> code, under |-> factor[u].secret, times |-> 1]}
  BY <1>1, <1>3
<1>5. factor[u].secret \in Secrets
  BY FactorIsTyped DEF Factor
<1> QED
  BY <1>4, <1>5, StoredFacts

LEMMA SecretNumbers == (\A s \in Secrets : s \in Nat /\ s # 0) /\ \A s \in Secrets \cup {0} : s \in Nat
<1>1. \A s \in Secrets : s \in Nat \ {0}
  BY NumbersAssumption
<1> QED
  BY <1>1

\* What codes and secrets have been so far
LEMMA UsedCodes ==
    ASSUME FactorInv, NEW u \in Users, NEW a \in accepted, a.under = factor[u].secret
    PROVE  /\ factor[u].state = "on"
           /\ a.code.kind = "app" => a.code.step <= factor[u].last
           /\ a.code.kind = "paper" => a.code.of \notin recovery[u]
           /\ a.code.step \in Nat /\ a.code.of \in Nat
           /\ a.code.kind = "paper" => a.code.of <= minted
<1>1. a.code \in Code
  BY StoredFacts
<1>2. a.code.step \in 0 .. MaxTime + 2 /\ a.code.of \in Secrets \cup {0}
  BY <1>1 DEF Code
<1>3. a.code.step \in Nat
  BY <1>2, TimeAssumption
<1>4. a.code.of \in Nat
  BY <1>2, SecretNumbers
<1> QED
  BY <1>3, <1>4 DEF FactorInv, CodeInv

LEMMA FactorNumbers ==
    ASSUME FactorInv, NEW u \in Users
    PROVE  /\ factor[u].last \in Nat /\ factor[u].secret \in Nat
           /\ factor[u].secret <= minted /\ (factor[u].state = "none" <=> factor[u].secret = 0)
           /\ \A b \in recovery[u] : b \in Nat /\ b <= minted
<1>1. factor[u].last \in 0 .. MaxTime + 2 /\ factor[u].secret \in Secrets \cup {0}
  BY FactorIsTyped DEF Factor
<1>2. recovery[u] \subseteq Secrets
  BY StoredFacts
<1>3. factor[u].last \in Nat
  BY <1>1, TimeAssumption
<1>4. factor[u].secret \in Nat /\ \A b \in recovery[u] : b \in Nat
  BY <1>1, <1>2, SecretNumbers
<1>5. /\ factor[u].secret <= minted /\ \A b \in recovery[u] : b <= minted
      /\ factor[u].state = "none" <=> factor[u].secret = 0
  BY DEF FactorInv, CodeInv
<1> QED
  BY <1>3, <1>4, <1>5

\* Turning the second factor on: its secret is pending, so that nothing was
\* accepted under it.
LEMMA ProveKeeps == ASSUME FactorInv, NEW r \in Requests, Prove(r) PROVE FactorInv'
<1> DEFINE u == req[r].user
           code == req[r].code
           f == [factor[u] EXCEPT !.state = "on", !.last = code.step]
<1>1. /\ req[r].pc = "prove" /\ UNCHANGED <<now, counting, links, tokens, minted>>
      /\ \/ /\ Matches(code, req[r].mfa.secret) /\ factor[u].state = "pending"
            /\ Enable(u, code.step) /\ Accept(u, code)
            /\ Pardon({}, {CodeKey(u)}) /\ Goto(r, "fresh")
         \/ Finish(r) /\ UNCHANGED <<factor, recovery, accounts, accepted, attempts>>
  BY DEF Prove
<1>2. CASE Finish(r) /\ UNCHANGED <<factor, recovery, accounts, accepted, attempts>>
  <2>1. UNCHANGED <<stored, tokens>> /\ UNCHANGED throttleVars
    BY <1>1, <1>2 DEF stored, secondFactor, throttleVars
  <2>2. ThrottleInv' /\ UNCHANGED counting
    BY <2>1, NothingCounted
  <2> QED
    BY <1>2, <2>1, <2>2, FinishQuietly
<1>3. CASE /\ Matches(code, req[r].mfa.secret) /\ factor[u].state = "pending"
           /\ Enable(u, code.step) /\ Accept(u, code)
           /\ Pardon({}, {CodeKey(u)}) /\ Goto(r, "fresh")
  <2>1. /\ u \in Users /\ code \in Code /\ factor[u] \in Factor /\ RequestInv(req[r])
        /\ recovery \in [Users -> SUBSET Secrets] /\ factor \in [Users -> Factor]
    BY <1>1, RequestFacts, FactorIsTyped, StoredFacts DEF Request
  <2>2. code.kind = "app" /\ code.step \in 0 .. MaxTime + 2
    BY <1>3, <2>1 DEF Matches, Code
  <2>3. /\ factor' = [factor EXCEPT ![u] = f]
        /\ recovery' = [recovery EXCEPT ![u] = {factor[u].secret}]
        /\ Raised(u)
    BY <1>3, <2>1, StoredFacts DEF Enable, Raised
  <2>4. /\ f \in Factor /\ f.state = "on" /\ f.secret = factor[u].secret /\ f.last = code.step
    BY <2>1, <2>2 DEF Factor
  <2>5. factor[u].secret # 0 /\ factor[u].secret <= minted /\ factor[u].secret \in Secrets
    BY <1>3, <2>1, FactorNumbers DEF Factor
  <2>6. \A a \in accepted : a.under # factor[u].secret
    <3> SUFFICES ASSUME NEW a \in accepted, a.under = factor[u].secret PROVE FALSE
      OBVIOUS
    <3>1. factor[u].state = "on"
      BY <2>1, UsedCodes
    <3> QED
      BY <1>3, <3>1
  <2>7. PICK t \in Request :
          /\ req' = [req EXCEPT ![r] = t]
          /\ t.pc = "fresh" /\ t.op = req[r].op /\ t.user = req[r].user /\ t.seen = req[r].seen
    <3>1. "fresh" \in PCs
      BY DEF PCs
    <3> QED
      BY <1>3, <3>1, GotoFacts
  <2>8. RequestInv(t)
    BY <2>1, <2>7 DEF RequestInv
  <2>9. ThrottleInv'
    BY <1>1, <1>3, PardonFacts
  <2> HIDE DEF f, code, u
  <2>10. /\ accepted' = accepted \cup {[code |-> code, under |-> factor[u].secret, times |-> 1]}
         /\ accepted' \subseteq [code : Code, under : Secrets, times : Nat]
    BY <1>3, <2>1, <2>5, <2>6, AcceptFacts
  <2>11. CodeInv'
    <3> DEFINE codes == {factor[u].secret}
    <3>1. minted' \in Nat /\ minted <= minted' /\ f.secret <= minted' /\ codes \in SUBSET Secrets
      BY <1>1, <2>4, <2>5, StoredFacts
    <3>2. (f.state = "none" <=> f.secret = 0) /\ f.secret \in {0, factor[u].secret}
      BY <2>4, <2>5
    <3>3. \A b \in codes : b <= minted'
      BY <1>1, <2>5
    <3>4. code.step <= f.last
      BY <2>2, <2>4
    <3>5. \A a \in accepted' : a \in accepted \/
             /\ a.times = 1 /\ a.under = f.secret
             /\ f.state = "on"
             /\ a.code.kind = "app" => a.code.step <= f.last
             /\ a.code.kind = "paper" => a.code.of <= minted' /\ a.code.of \notin codes
      BY <2>2, <2>4, <2>10, <3>4
    <3>6. \A a \in accepted : a.under # f.secret
      BY <2>4, <2>6
    <3>7. recovery' = [recovery EXCEPT ![u] = codes]
      BY <2>3
    <3>8. f.secret \in {0, factor[u].secret} \/ minted < f.secret
      BY <3>2
    <3>9. \A a \in accepted : a.under = f.secret =>
             /\ f.state = "on"
             /\ a.code.kind = "app" => a.code.step <= f.last
             /\ a.code.kind = "paper" => a.code.of \notin codes
      BY <3>6
    <3> HIDE DEF codes
    <3> QED
      BY <2>1, <2>3, <2>4, <3>1, <3>2, <3>3, <3>5, <3>7, <3>8, <3>9, CodeStep
  <2>13. f.state = "on" => factor[u].state = "on" \/ Raised(u)
    BY <2>3
  <2>14. /\ {factor[u].secret} \in SUBSET Secrets /\ minted' \in Secrets \cup {0}
         /\ UNCHANGED <<links, tokens>> /\ UNCHANGED counting
    BY <1>1, <2>5, StoredFacts
  <2>15. /\ t.op = "forgot" => t.pc \notin {"count", "mark", "mail"}
         /\ t.pc \notin {"admit", "token"}
    BY <2>7
  <2> QED
    BY <2>1, <2>3, <2>4, <2>7, <2>8, <2>9, <2>10, <2>11, <2>13, <2>14, <2>15, FactorStep
<1> QED
  BY <1>1, <1>2, <1>3

\* A second factor that goes takes its recovery codes with it.
LEMMA RemovedFacts ==
    ASSUME FactorInv, NEW u \in Users, FactorRemoved(u), UNCHANGED <<minted, accepted>>
    PROVE  /\ factor' = [factor EXCEPT ![u] = NoFactor]
           /\ recovery' = [recovery EXCEPT ![u] = {}]
           /\ Raised(u)
           /\ CodeInv'
<1>1. /\ factor' = [factor EXCEPT ![u] = NoFactor]
      /\ recovery' = [recovery EXCEPT ![u] = {}]
      /\ Raised(u)
  BY StoredFacts DEF FactorRemoved, Raised
<1>2. NoFactor \in Factor /\ NoFactor.state = "none" /\ NoFactor.secret = 0
  BY ValueFacts DEF NoFactor
<1>3. minted' \in Nat /\ minted <= minted' /\ 0 <= minted' /\ {} \in SUBSET Secrets
  BY StoredFacts
<1>4. \A a \in accepted : a.under # 0
  BY StoredFacts, NumbersAssumption
<1> QED
  BY <1>1, <1>2, <1>3, <1>4, CodeStep

LEMMA RemoveFactorKeeps == ASSUME FactorInv, NEW r \in Requests, RemoveFactor(r) PROVE FactorInv'
<1> DEFINE u == req[r].user
<1>1. /\ req[r].pc = "remove" /\ UNCHANGED <<throttleVars, links, tokens, minted, accepted>>
      /\ \/ FactorRemoved(u) /\ (Goto(r, "fresh") \/ Finish(r))
         \/ Finish(r) /\ UNCHANGED <<factor, recovery, accounts>>
  BY DEF RemoveFactor
<1>2. ThrottleInv' /\ UNCHANGED counting
  BY <1>1, NothingCounted
<1>3. CASE Finish(r) /\ UNCHANGED <<factor, recovery, accounts>>
  <2>1. UNCHANGED <<stored, tokens>>
    BY <1>1, <1>3 DEF stored, secondFactor
  <2> QED
    BY <1>2, <1>3, <2>1, FinishQuietly
<1>4. CASE FactorRemoved(u) /\ (Goto(r, "fresh") \/ Finish(r))
  <2>1. u \in Users /\ RequestInv(req[r])
    BY <1>1, RequestFacts
  <2>2. PICK t \in Request :
          /\ req' = [req EXCEPT ![r] = t] /\ RequestInv(t)
          /\ t.op = "forgot" => t.pc \notin {"count", "mark", "mail"}
          /\ t.pc \notin {"admit", "token"}
    <3>1. CASE Finish(r)
      BY <3>1, ValueFacts, RestInv DEF Finish
    <3>2. CASE Goto(r, "fresh")
      <4>1. "fresh" \in PCs
        BY DEF PCs
      <4>2. PICK t \in Request :
              /\ req' = [req EXCEPT ![r] = t]
              /\ t.pc = "fresh" /\ t.op = req[r].op /\ t.user = req[r].user /\ t.seen = req[r].seen
        BY <3>2, <4>1, GotoFacts
      <4>3. RequestInv(t)
        BY <2>1, <4>2 DEF RequestInv
      <4> QED
        BY <4>2, <4>3
    <3> QED
      BY <1>4, <3>1, <3>2
  <2> HIDE DEF u
  <2>3. /\ factor' = [factor EXCEPT ![u] = NoFactor]
        /\ recovery' = [recovery EXCEPT ![u] = {}]
        /\ Raised(u)
        /\ CodeInv'
    BY <1>1, <1>4, <2>1, RemovedFacts
  <2>4. NoFactor \in Factor /\ NoFactor.state # "on"
    BY ValueFacts DEF NoFactor
  <2>5. /\ {} \in SUBSET Secrets /\ minted' \in Secrets \cup {0}
        /\ accepted' \subseteq [code : Code, under : Secrets, times : Nat]
        /\ UNCHANGED <<links, tokens>>
    BY <1>1, StoredFacts
  <2>6. NoFactor.state = "on" => factor[u].state = "on" \/ Raised(u)
    BY <2>4
  <2> QED
    BY <1>2, <2>1, <2>2, <2>3, <2>4, <2>5, <2>6, FactorStep
<1> QED
  BY <1>1, <1>3, <1>4

\* The same from the server's command line, which no request waits for
LEMMA RemoveOnServerKeeps == ASSUME FactorInv, NEW u \in Users, RemoveOnServer(u) PROVE FactorInv'
<1>1. FactorRemoved(u) /\ UNCHANGED <<throttleVars, links, tokens, req, minted, accepted>>
  BY DEF RemoveOnServer
<1>2. /\ factor' = [factor EXCEPT ![u] = NoFactor]
      /\ recovery' = [recovery EXCEPT ![u] = {}]
      /\ Raised(u)
      /\ CodeInv'
  BY <1>1, RemovedFacts
<1>3. /\ accounts' \in [Users -> Account]
      /\ \A v \in Users : VersionStep(accounts[v], accounts'[v])
  BY <1>2, RaisedFacts
<1>4. ThrottleInv' /\ UNCHANGED counting
  BY <1>1, NothingCounted
<1>5. AccountsTypes'
  <2>1. NoFactor \in Factor /\ {} \in SUBSET Secrets
    BY ValueFacts
  <2> QED
    BY <1>1, <1>2, <1>3, <2>1 DEF FactorInv, AccountsTypes
<1>6. (\A q \in Requests : RequestInv(req[q])') /\ LinkInv'
  BY <1>1, <1>4 DEF FactorInv, RequestInv, LinkInv, ForgotInv, LiveLinks
<1>7. VersionInv'
  <2> SUFFICES ASSUME NEW v \in Users
               PROVE  /\ accounts'[v].version \in accounts'[v].had
                      /\ \A j \in tokens : j.user = v => TokenInv(j, accounts'[v], factor'[v])
                      /\ \A q \in Requests :
                           req[q].user = v /\ req[q].pc \in {"admit", "token"} =>
                              req[q].seen.version \in accounts'[v].had
    BY <1>1 DEF VersionInv
  <2>1. VersionStep(accounts[v], accounts'[v])
    BY <1>3
  <2>2. factor'[v].state = "on" => factor[v].state = "on"
    BY <1>2, StoredFacts DEF NoFactor
  <2>3. /\ \A j \in tokens : j.user = v => TokenInv(j, accounts[v], factor[v])
        /\ \A q \in Requests :
             req[q].user = v /\ req[q].pc \in {"admit", "token"} =>
                req[q].seen.version \in accounts[v].had
    BY DEF FactorInv, VersionInv
  <2> QED
    BY <2>1, <2>2, <2>3 DEF VersionStep, Moved, TokenInv
<1> QED
  BY <1>2, <1>4, <1>5, <1>6, <1>7 DEF FactorInv

\* An app's code is of a later step than all that were accepted, a recovery
\* code is one that was not spent: either was not accepted under this secret.
LEMMA UseCodeKeeps == ASSUME FactorInv, NEW r \in Requests, UseCode(r) PROVE FactorInv'
<1> DEFINE t == req[r]
           u == t.user
           code == t.code
           app == AppCodeWorks(t)
           paper == PaperCodeWorks(t)
           f == IF app THEN [factor[u] EXCEPT !.last = code.step] ELSE factor[u]
           codes == IF t.op = "renew" THEN {minted + 1}
                    ELSE IF paper THEN recovery[u] \ {code.of} ELSE recovery[u]
<1>1. /\ t.pc = "use" /\ UNCHANGED <<now, counting, accounts, links, tokens>>
      /\ t \in Request /\ u \in Users /\ RequestInv(t) /\ code \in Code
      /\ factor \in [Users -> Factor] /\ recovery \in [Users -> SUBSET Secrets]
  BY RequestFacts, StoredFacts DEF UseCode, Request
<1>2. CASE ~ (app \/ paper)
  <2>1. Finish(r) /\ UNCHANGED <<stored, tokens>> /\ UNCHANGED throttleVars
    BY <1>1, <1>2 DEF UseCode, stored, secondFactor, throttleVars
  <2>2. ThrottleInv' /\ UNCHANGED counting
    BY <2>1, NothingCounted
  <2> QED
    BY <2>1, <2>2, FinishQuietly
<1>3. CASE app \/ paper
  <2>1. /\ Accept(u, code) /\ Pardon({}, {CodeKey(u)})
        /\ factor' = IF app THEN [factor EXCEPT ![u].last = code.step] ELSE factor
        /\ \/ /\ t.op = "renew" /\ minted + 1 \in Secrets /\ minted' = minted + 1
              /\ recovery' = [recovery EXCEPT ![u] = {minted + 1}]
              /\ Finish(r)
           \/ /\ t.op # "renew" /\ minted' = minted
              /\ recovery' = [recovery EXCEPT ![u] =
                                IF paper THEN recovery[u] \ {code.of} ELSE recovery[u]]
              /\ Goto(r, "fresh")
    BY <1>1, <1>3 DEF UseCode
  <2>2. /\ factor' = [factor EXCEPT ![u] = f]
        /\ recovery' = [recovery EXCEPT ![u] = codes]
    BY <1>1, <2>1
  <2>3. /\ factor[u] \in Factor /\ factor[u].state = "on"
        /\ app => code.kind = "app" /\ factor[u].last < code.step
        /\ ~ app => code.kind = "paper" /\ code.of \in recovery[u] /\ t.op = "verify"
        /\ paper => code.kind = "paper" /\ t.op = "verify"
    BY <1>1, <1>3 DEF AppCodeWorks, Matches, StepIsUnused, PaperCodeWorks
  <2>4. code.step \in 0 .. MaxTime + 2 /\ code.step \in Nat /\ code.of \in Nat
    <3>1. code.step \in 0 .. MaxTime + 2 /\ code.of \in Secrets \cup {0}
      BY <1>1 DEF Code
    <3>2. code.step \in Nat
      BY <3>1, TimeAssumption
    <3> QED
      BY <3>1, <3>2, SecretNumbers
  <2>5. /\ factor[u].last \in Nat /\ factor[u].secret # 0 /\ factor[u].secret <= minted
        /\ \A b \in recovery[u] : b \in Nat /\ b <= minted
        /\ minted \in Nat
    BY <1>1, <2>3, FactorNumbers, StoredFacts
  <2>6. /\ f \in Factor /\ f.state = "on" /\ f.secret = factor[u].secret
        /\ factor[u].last <= f.last
        /\ code.kind = "app" => f.last = code.step
        /\ f.last \in Nat
    <3>1. CASE app
      <4>1. f = [factor[u] EXCEPT !.last = code.step]
        BY <3>1
      <4>2. f \in Factor /\ f.state = "on" /\ f.secret = factor[u].secret /\ f.last = code.step
        BY <2>3, <2>4, <4>1 DEF Factor
      <4> QED
        BY <2>3, <2>4, <2>5, <3>1, <4>2
    <3>2. CASE ~ app
      <4>1. f = factor[u]
        BY <3>2
      <4> QED
        BY <2>3, <2>5, <3>2, <4>1
    <3> QED
      BY <3>1, <3>2
  <2>7. /\ minted' \in Nat /\ minted <= minted' /\ minted' \in Secrets \cup {0}
        /\ codes \in SUBSET Secrets
        /\ \A b \in codes : b <= minted' /\ (b \in recovery[u] \/ b = minted + 1)
        /\ code.kind = "paper" => code.of \notin codes /\ code.of <= minted'
    <3>1. CASE t.op = "renew"
      <4>1. codes = {minted + 1} /\ minted' = minted + 1 /\ minted + 1 \in Secrets
        BY <2>1, <3>1
      <4>2. code.kind = "app"
        BY <1>3, <2>3, <3>1
      <4> QED
        BY <2>5, <4>1, <4>2
    <3>2. CASE t.op # "renew"
      <4>1. /\ codes = IF paper THEN recovery[u] \ {code.of} ELSE recovery[u]
            /\ minted' = minted /\ recovery[u] \subseteq Secrets
        BY <1>1, <2>1, <3>2
      <4>2. codes \subseteq recovery[u] /\ (paper => code.of \notin codes)
        BY <4>1
      <4>3. code.kind = "paper" => paper /\ code.of \in recovery[u]
        BY <1>3, <2>3
      <4> QED
        BY <2>5, <4>1, <4>2, <4>3, StoredFacts
    <3> QED
      BY <3>1, <3>2
  <2>8. ASSUME NEW a \in accepted, a.under = factor[u].secret
        PROVE  /\ a.code.kind = "app" => a.code.step <= factor[u].last /\ a.code.step \in Nat
               /\ a.code.kind = "paper" =>
                    a.code.of \notin recovery[u] /\ a.code.of <= minted /\ a.code.of \in Nat
    BY <1>1, <2>8, UsedCodes
  <2>9. ASSUME NEW a \in accepted, a.code = code, a.under = factor[u].secret PROVE FALSE
    <3>1. CASE app
      BY <2>3, <2>4, <2>5, <2>8, <2>9, <3>1
    <3>2. CASE ~ app
      BY <2>3, <2>8, <2>9, <3>2
    <3> QED
      BY <3>1, <3>2
  <2> HIDE DEF app, paper, f, codes
  <2>10. /\ accepted' = accepted \cup {[code |-> code, under |-> factor[u].secret, times |-> 1]}
         /\ accepted' \subseteq [code : Code, under : Secrets, times : Nat]
    <3> HIDE DEF u, code
    <3> QED
      BY <1>1, <2>1, <2>5, <2>9, AcceptFacts
  <2>11. CodeInv'
    <3>1. \A a \in accepted' : a \in accepted \/
             /\ a.times = 1 /\ a.under = f.secret
             /\ f.state = "on"
             /\ a.code.kind = "app" => a.code.step <= f.last
             /\ a.code.kind = "paper" => a.code.of <= minted' /\ a.code.of \notin codes
      <4>1. SUFFICES ASSUME NEW a \in accepted', a \notin accepted
                     PROVE  /\ a.times = 1 /\ a.under = f.secret
                            /\ f.state = "on"
                            /\ a.code.kind = "app" => a.code.step <= f.last
                            /\ a.code.kind = "paper" => a.code.of <= minted' /\ a.code.of \notin codes
        OBVIOUS
      <4>2. a.code = code /\ a.under = factor[u].secret /\ a.times = 1
        BY <2>10, <4>1
      <4>3. a.code.kind = "app" => a.code.step <= f.last
        BY <2>4, <2>6, <4>2
      <4> QED
        BY <2>6, <2>7, <4>2, <4>3
    <3>2. \A a \in accepted : a.under = f.secret =>
             /\ f.state = "on"
             /\ a.code.kind = "app" => a.code.step <= f.last
             /\ a.code.kind = "paper" => a.code.of \notin codes
      <4> SUFFICES ASSUME NEW a \in accepted, a.under = f.secret
                   PROVE  /\ f.state = "on"
                          /\ a.code.kind = "app" => a.code.step <= f.last
                          /\ a.code.kind = "paper" => a.code.of \notin codes
        OBVIOUS
      <4>1. a.under = factor[u].secret
        BY <2>6
      <4>2. a.code.kind = "app" => a.code.step <= f.last
        BY <2>5, <2>6, <2>8, <4>1
      <4>3. a.code.kind = "paper" => a.code.of \notin codes
        BY <2>5, <2>7, <2>8, <4>1
      <4> QED
        BY <2>6, <4>2, <4>3
    <3>3. f.secret \in Nat /\ f.secret <= minted' /\ (f.state = "none" <=> f.secret = 0)
      <4>1. factor[u].secret \in Nat
        BY <1>1, FactorNumbers
      <4> QED
        BY <2>5, <2>6, <2>7, <4>1
    <3>4. f.secret \in {0, factor[u].secret} \/ minted < f.secret
      BY <2>6
    <3>5. \A b \in codes : b <= minted'
      BY <2>7
    <3> HIDE DEF u
    <3> QED
      BY <1>1, <2>2, <2>6, <2>7, <3>1, <3>2, <3>3, <3>4, <3>5, CodeStep
  <2>12. PICK s \in Request :
           /\ req' = [req EXCEPT ![r] = s] /\ RequestInv(s)
           /\ s.op = "forgot" => s.pc \notin {"count", "mark", "mail"}
           /\ s.pc \notin {"admit", "token"}
    <3>1. CASE Finish(r)
      BY <3>1, ValueFacts, RestInv DEF Finish
    <3>2. CASE Goto(r, "fresh")
      <4>1. "fresh" \in PCs
        BY DEF PCs
      <4>2. PICK s \in Request :
              /\ req' = [req EXCEPT ![r] = s]
              /\ s.pc = "fresh" /\ s.op = req[r].op /\ s.user = req[r].user /\ s.seen = req[r].seen
        BY <3>2, <4>1, GotoFacts
      <4>3. RequestInv(s)
        BY <1>1, <4>2 DEF RequestInv
      <4> QED
        BY <4>2, <4>3
    <3> QED
      BY <2>1, <3>1, <3>2
  <2>13. ThrottleInv'
    BY <1>1, <2>1, PardonFacts
  <2>14. f.state = "on" => factor[u].state = "on" \/ Raised(u)
    BY <2>3
  <2>15. UNCHANGED <<links, tokens>> /\ UNCHANGED counting /\ UNCHANGED accounts
    BY <1>1
  <2> HIDE DEF u, code, t
  <2> QED
    BY <1>1, <2>2, <2>6, <2>7, <2>10, <2>11, <2>12, <2>13, <2>14, <2>15, FactorStep
<1> QED
  BY <1>2, <1>3

-----------------------------------------------------------------------------
(***************************************************************************)
(* The start.                                                              *)
(***************************************************************************)

LEMMA FactorStarts == ASSUME AccountsInit PROVE FactorInv
<1>1. PICK s \in Scenarios :
        /\ accounts = s.accounts
        /\ factor = s.factor
        /\ tokens = s.tokens
        /\ accepted = {FirstCode(factor[u]) : u \in {v \in Users : factor[v].state = "on"}}
        /\ minted = Max({factor[u].secret : u \in Users})
        /\ recovery = [u \in Users |-> IF factor[u].state = "on" THEN {factor[u].secret} ELSE {}]
  BY DEF AccountsInit
<1>2. /\ accounts \in [Users -> Account] /\ factor \in [Users -> Factor] /\ tokens \subseteq Token
      /\ minted \in Secrets \cup {0}
      /\ \A u \in Users :
           /\ factor[u].secret <= minted
           /\ factor[u].state = "none" <=> factor[u].secret = 0
           /\ \A v \in Users \ {u} : factor[u].secret = factor[v].secret => factor[u].secret = 0
      /\ \A u \in Users : accounts[u].had = 0 .. accounts[u].version /\ accounts[u].version \in Nat
      /\ \A t \in tokens :
           /\ t.version <= accounts[t.user].version
           /\ t.kind = "access" /\ t.how = "password" /\ factor[t.user].state = "on" =>
                 t.version < accounts[t.user].version
  <2>1. IsStart(s)
    BY ScenariosAssumption
  <2>2. /\ s.accounts \in [Users -> Account] /\ s.factor \in [Users -> Factor]
        /\ s.tokens \subseteq Token
        /\ Max({s.factor[u].secret : u \in Users}) \in Secrets \cup {0}
    BY <2>1 DEF IsStart
  <2>3. \A u \in Users :
           /\ s.factor[u].secret <= Max({s.factor[v].secret : v \in Users})
           /\ s.factor[u].state = "none" <=> s.factor[u].secret = 0
           /\ \A v \in Users \ {u} :
                s.factor[u].secret = s.factor[v].secret => s.factor[u].secret = 0
    BY <2>1, Zenon DEF IsStart
  <2>4. \A t \in s.tokens :
           /\ t.version <= s.accounts[t.user].version
           /\ t.kind = "access" /\ t.how = "password" /\ s.factor[t.user].state = "on" =>
                 t.version < s.accounts[t.user].version
    BY <2>1, Zenon DEF IsStart
  <2>5. \A u \in Users : s.accounts[u].had = 0 .. s.accounts[u].version
    BY <2>1, Zenon DEF IsStart
  <2>6. \A u \in Users : s.accounts[u].version \in Nat
    BY <2>2 DEF Account
  <2> QED
    BY <1>1, <2>2, <2>3, <2>4, <2>5, <2>6
<1>3. /\ links = [k \in Links |-> NoLink] /\ req = [r \in Requests |-> Resting]
      /\ ThrottleInv
  BY ThrottleStarts DEF AccountsInit
<1>4. ASSUME NEW u \in Users, factor[u].state = "on"
      PROVE  /\ factor[u].secret \in Secrets /\ factor[u].secret \in Nat /\ 0 < factor[u].secret
             /\ factor[u].last \in 0 .. MaxTime + 2 /\ factor[u].secret <= minted
  <2>1. factor[u].secret \in Secrets \cup {0} /\ factor[u].last \in 0 .. MaxTime + 2
    BY <1>2 DEF Factor
  <2>2. factor[u].secret # 0 /\ factor[u].secret <= minted
    BY <1>2, <1>4
  <2>3. factor[u].secret \in Secrets
    BY <2>1, <2>2
  <2>4. factor[u].secret \in Nat /\ 0 < factor[u].secret
    BY <2>2, <2>3, SecretNumbers
  <2> QED
    BY <2>1, <2>2, <2>3, <2>4
<1>5. ASSUME NEW a \in accepted
      PROVE  \E u \in Users :
                /\ factor[u].state = "on"
                /\ a.code.kind = "app" /\ a.code.of = factor[u].secret /\ a.code.step = factor[u].last
                /\ a.under = factor[u].secret /\ a.times = 1
                /\ a \in [code : Code, under : Secrets, times : Nat]
  <2>1. PICK u \in Users : factor[u].state = "on" /\ a = FirstCode(factor[u])
    BY <1>1, <1>5
  <2>2. factor[u].secret \in Secrets /\ factor[u].last \in 0 .. MaxTime + 2
    BY <1>4, <2>1
  <2>3. [kind |-> "app", of |-> factor[u].secret, step |-> factor[u].last] \in Code
    BY <2>2 DEF Code
  <2> QED
    BY <2>1, <2>2, <2>3 DEF FirstCode
<1>6. AccountsTypes
  <2>1. recovery \in [Users -> SUBSET Secrets]
    BY <1>1, <1>4
  <2>2. accepted \subseteq [code : Code, under : Secrets, times : Nat]
    BY <1>5
  <2> QED
    BY <1>2, <1>3, <2>1, <2>2, ValueFacts DEF AccountsTypes
<1>7. \A r \in Requests : RequestInv(req[r])
  BY <1>3, RestInv
<1>8. LinkInv
  <2>1. \A k \in Links : links[k].state = "none"
    BY <1>3 DEF NoLink
  <2>2. \A u : LiveLinks(u, "reset") = {}
    <3> SUFFICES ASSUME NEW u, NEW k \in Links,
                        links[k] = [user |-> u, purpose |-> "reset", state |-> "live"]
                 PROVE  FALSE
      BY DEF LiveLinks
    <3>1. links[k].state = "live"
      OBVIOUS
    <3> QED
      BY <2>1, <3>1
  <2>3. \A r \in Requests : ForgotInv(req[r], counting[r])
    BY <1>3, ValueFacts DEF ForgotInv
  <2> QED
    BY <2>1, <2>2, <2>3 DEF LinkInv
<1>9. CodeInv
  <2>1. ASSUME NEW u \in Users, NEW b \in recovery[u] PROVE b <= minted
    BY <1>1, <1>2, <2>1
  <2>2. ASSUME NEW a \in accepted
        PROVE  /\ a.times = 1
               /\ 0 < a.under /\ a.under <= minted
               /\ a.code.kind = "paper" => a.code.of <= minted
               /\ \A v \in Users : factor[v].secret = a.under =>
                    /\ factor[v].state = "on"
                    /\ a.code.kind = "app" => a.code.step <= factor[v].last
                    /\ a.code.kind = "paper" => a.code.of \notin recovery[v]
    <3>1. PICK u \in Users :
            /\ factor[u].state = "on"
            /\ a.code.kind = "app" /\ a.code.of = factor[u].secret /\ a.code.step = factor[u].last
            /\ a.under = factor[u].secret /\ a.times = 1
      BY <1>5
    <3>2. /\ factor[u].secret \in Nat /\ 0 < factor[u].secret /\ factor[u].secret <= minted
          /\ factor[u].last \in 0 .. MaxTime + 2
      BY <1>4, <3>1
    <3>3. factor[u].last <= factor[u].last
      BY <3>2, TimeAssumption
    <3>4. \A v \in Users : factor[v].secret = a.under => v = u
      BY <1>2, <3>1, <3>2
    <3> QED
      BY <3>1, <3>2, <3>3, <3>4
  <2> QED
    BY <1>2, <2>1, <2>2 DEF CodeInv
<1>10. VersionInv
  <2>1. ASSUME NEW u \in Users PROVE accounts[u].version \in accounts[u].had
    BY <1>2
  <2>2. ASSUME NEW u \in Users, NEW t \in tokens, t.user = u
        PROVE  TokenInv(t, accounts[u], factor[u])
    <3>1. t.version \in Nat /\ accounts[u].version \in Nat /\ accounts[u].had = 0 .. accounts[u].version
      BY <1>2 DEF Token
    <3>2. /\ t.version <= accounts[u].version
          /\ t.kind = "access" /\ t.how = "password" /\ factor[u].state = "on" =>
                t.version < accounts[u].version
      BY <1>2, <2>2
    <3> QED
      BY <3>1, <3>2 DEF TokenInv
  <2> QED
    BY <1>3, <2>1, <2>2, ValueFacts DEF VersionInv
<1> QED
  BY <1>3, <1>6, <1>7, <1>8, <1>9, <1>10 DEF FactorInv

-----------------------------------------------------------------------------
(***************************************************************************)
(* Every step.                                                             *)
(***************************************************************************)

LEMMA AccountCallsKeep == ASSUME FactorInv, NEW r \in Requests, AccountCalls(r) PROVE FactorInv'
<1>1. PICK u \in Users :
        \/ \E a \in Addresses : PublicRequest(r, u, a)
        \/ \E a \in Addresses, p \in Passwords : Login(r, u, a, p)
        \/ \E p, q \in Passwords : ChangeMyPassword(r, u, p, q)
        \/ ForgotPassword(r, u)
        \/ \E k \in Links, p \in Passwords : ActivateAccount(r, k, p) \/ ResetPassword(r, k, p)
        \/ \E by \in Users, role \in Roles : CreateUser(r, by, u, role)
        \/ \E by \in Users : ResendActivation(r, by, u)
        \/ \E by \in Users, role \in Roles, active \in BOOLEAN : UpdateUser(r, by, u, role, active)
  BY DEF AccountCalls
<1>2. CASE \E a \in Addresses : PublicRequest(r, u, a)
  BY <1>2, PublicRequestKeeps
<1>3. CASE \E a \in Addresses, p \in Passwords : Login(r, u, a, p)
  BY <1>3, LoginKeeps
<1>4. CASE \E p, q \in Passwords : ChangeMyPassword(r, u, p, q)
  BY <1>4, ChangeMyPasswordKeeps
<1>5. CASE ForgotPassword(r, u)
  BY <1>5, ForgotPasswordKeeps
<1>6. CASE \E k \in Links, p \in Passwords : ActivateAccount(r, k, p) \/ ResetPassword(r, k, p)
  BY <1>6, SpendLinkKeeps DEF ActivateAccount, ResetPassword
<1>7. CASE \E by \in Users, role \in Roles : CreateUser(r, by, u, role)
  BY <1>7, CreateUserKeeps
<1>8. CASE \E by \in Users : ResendActivation(r, by, u)
  BY <1>8, ResendActivationKeeps
<1>9. CASE \E by \in Users, role \in Roles, active \in BOOLEAN : UpdateUser(r, by, u, role, active)
  BY <1>9, UpdateUserKeeps
<1> QED
  BY <1>1, <1>2, <1>3, <1>4, <1>5, <1>6, <1>7, <1>8, <1>9

LEMMA AccountStepsKeep == ASSUME FactorInv, NEW r \in Requests, AccountSteps(r) PROVE FactorInv'
BY WaitKeeps, CountAttemptKeeps, RefusedKeeps, AllowedKeeps, DeadlockVictimKeeps,
   CheckPasswordKeeps, AdmitKeeps, SignInKeeps, FreshSessionKeeps, CheckCurrentKeeps,
   SetOwnPasswordKeeps, FindOldLinksKeeps, MarkOldLinksKeeps, MailLinkKeeps, UnlockKeeps, WriteUserKeeps
   DEF AccountSteps

LEMMA FactorCallsKeep == ASSUME FactorInv, NEW r \in Requests, FactorCalls(r) PROVE FactorInv'
<1>1. PICK u \in Users :
        \/ Setup(r, u)
        \/ \E code \in Typed : Confirm(r, u, code)
        \/ \E code \in Typed : Verify(r, u, code)
        \/ \E code \in Typed : RenewRecoveryCodes(r, u, code)
        \/ \E p \in Passwords : Disable(r, u, p)
        \/ \E by \in Users : ResetFactor(r, by, u)
  BY DEF FactorCalls
<1> QED
  BY <1>1, SetupKeeps, ConfirmKeeps, VerifyKeeps, RenewRecoveryCodesKeeps, DisableKeeps,
     ResetFactorKeeps

LEMMA FactorStepsKeep == ASSUME FactorInv, NEW r \in Requests, FactorSteps(r) PROVE FactorInv'
BY ReplaceSecretKeeps, ProveKeeps, ReadFactorKeeps, UseCodeKeeps, RemoveFactorKeeps DEF FactorSteps

LEMMA StutterKeeps == ASSUME FactorInv, UNCHANGED vars PROVE FactorInv'
<1>1. UNCHANGED <<now, attempts, counting, accounts, links, factor, recovery, minted, accepted,
                  tokens, req>>
  BY DEF vars, throttleVars, stored, secondFactor
<1>2. ThrottleInv'
  BY <1>1, NothingCounted DEF throttleVars
<1>3. AccountsTypes' /\ (\A q \in Requests : RequestInv(req[q])') /\ CodeInv' /\ VersionInv'
  BY <1>1 DEF FactorInv, AccountsTypes, RequestInv, CodeInv, VersionInv
<1>4. LinkInv'
  BY <1>1 DEF FactorInv, LinkInv, ForgotInv, LiveLinks
<1> QED
  BY <1>2, <1>3, <1>4 DEF FactorInv

\* FactorInv is inductive: every operation of accounts.py, security.py, mfa.py
\* and throttle.py, and every crash between two of their transactions, keeps it.
THEOREM FactorInvInductive == FactorInv /\ [FactorNext]_vars => FactorInv'
<1> SUFFICES ASSUME FactorInv, [FactorNext]_vars PROVE FactorInv'
  OBVIOUS
<1>1. CASE UNCHANGED vars
  BY <1>1, StutterKeeps
<1>2. ASSUME NEW r \in Requests, AccountCalls(r) \/ AccountSteps(r) \/ Crash(r) PROVE FactorInv'
  BY <1>2, AccountCallsKeep, AccountStepsKeep, CrashKeeps
<1>3. ASSUME NEW k \in Links, LinkExpires(k) PROVE FactorInv'
  BY <1>3, LinkExpiresKeeps
<1>4. CASE TimePasses
  BY <1>4, TimePassesKeeps
<1>5. ASSUME NEW r \in Requests, FactorCalls(r) \/ FactorSteps(r) PROVE FactorInv'
  BY <1>5, FactorCallsKeep, FactorStepsKeep
<1>6. ASSUME NEW u \in Users, RemoveOnServer(u) PROVE FactorInv'
  BY <1>6, RemoveOnServerKeeps
<1> QED
  BY <1>1, <1>2, <1>3, <1>4, <1>5, <1>6 DEF FactorNext, AccountsNext

THEOREM FactorInvHolds == FactorSpec => []FactorInv
<1>1. AccountsInit => FactorInv
  BY FactorStarts
<1> QED
  BY <1>1, FactorInvInductive, PTL DEF FactorSpec

\* Every row, token and request has the form the code gives it.
THEOREM AccountsWellFormed == FactorSpec => []AccountsTypeOK
<1>1. FactorInv => AccountsTypeOK
  BY DEF FactorInv, ThrottleInv, AccountsTypes, AccountsTypeOK
<1> QED
  BY <1>1, FactorInvHolds, PTL

\* However many sign-ins, codes and e-mails are asked for at once, however
\* long they wait for a lock and wherever they crash, no window holds more
\* attempts than its limit (auth_throttle_hit).
THEOREM AttemptsStayWithinLimit == FactorSpec => []AttemptsWithinLimit
<1>1. FactorInv => AttemptsWithinLimit
  BY DEF FactorInv, ThrottleInv
<1> QED
  BY <1>1, FactorInvHolds, PTL

\* An account never has two reset links that work (issue_token).
THEOREM OnlyOneResetLink == FactorSpec => []OneResetLink
<1>1. FactorInv => OneResetLink
  <2> SUFFICES ASSUME FactorInv, NEW u \in Users
               PROVE  Cardinality(LiveLinks(u, "reset")) <= 1
    BY DEF OneResetLink
  <2>1. \A j, k \in LiveLinks(u, "reset") : j = k
    BY DEF FactorInv, LinkInv
  <2>2. CASE LiveLinks(u, "reset") = {}
    BY <2>2, FS_EmptySet
  <2>3. CASE LiveLinks(u, "reset") # {}
    <3>1. PICK k : LiveLinks(u, "reset") = {k}
      BY <2>1, <2>3
    <3> QED
      BY <3>1, FS_Singleton
  <2> QED
    BY <2>2, <2>3
<1> QED
  BY <1>1, FactorInvHolds, PTL

\* Under one enrolment a code opens one thing once (auth_mfa_use_step and
\* auth_mfa_use_recovery against requests that read the row before).
THEOREM EachCodeWorksOnce == FactorSpec => []NoCodeTwice
<1>1. FactorInv => NoCodeTwice
  BY DEF FactorInv, CodeInv, NoCodeTwice
<1> QED
  BY <1>1, FactorInvHolds, PTL

\* With the second factor on, a session that the password alone opened is
\* honoured only on an account that is back at a version it has left before
\* (login, session_identity and auth_mfa_enable() against update_user's stale
\* write).
THEOREM OnlyARepeatedVersionRevivesASession == FactorSpec => []OnlyARepeatedVersionRevives
<1>1. FactorInv => OnlyARepeatedVersionRevives
  <2> SUFFICES ASSUME FactorInv, NEW t \in tokens, t.kind = "access", t.how = "password",
                      Honoured(t), factor[t.user].state = "on"
               PROVE  t.version \in accounts[t.user].again
    BY DEF OnlyARepeatedVersionRevives
  <2>1. t.user \in Users
    BY DEF FactorInv, AccountsTypes, Token
  <2>2. TokenInv(t, accounts[t.user], factor[t.user])
    BY <2>1 DEF FactorInv, VersionInv
  <2>3. t.version = accounts[t.user].version
    BY DEF Honoured
  <2> QED
    BY <2>2, <2>3 DEF TokenInv
<1> QED
  BY <1>1, FactorInvHolds, PTL
-----------------------------------------------------------------------------
(***************************************************************************)
(* The order of the advisory locks.                                        *)
(***************************************************************************)

\* What a transaction counts, in this order: one key, or, of a sign-in, the
\* address and then the account.
Orders == {<<k>> : k \in Keys} \cup {<<AddressKey(a), LoginKey(u)>> : a \in Addresses, u \in Users}

\* A transaction that has still to count keys holds none but the next, and the
\* address when the account is next.
AddressFirst(c) ==
    \/ c.todo = <<>>
    \/ \E k \in Keys : c.todo = <<k>> /\ c.held \subseteq {k}
    \/ \E a \in Addresses, u \in Users :
         \/ c.todo = <<AddressKey(a), LoginKey(u)>> /\ c.held \subseteq {AddressKey(a)}
         \/ c.todo = <<LoginKey(u)>> /\ c.held \subseteq {AddressKey(a), LoginKey(u)}

LocksInOrder == \A r \in Requests : AddressFirst(counting[r])

LEMMA AddressesAreNoAccounts ==
    ASSUME NEW a \in Addresses, NEW u \in Users
    PROVE  AddressKey(a) # LoginKey(u)
BY DEF AddressKey, LoginKey

\* What a step of a request may do to its count.
CountStep(r) ==
    \/ UNCHANGED counting
    \/ counting' = [counting EXCEPT ![r] = NotCounting]
    \/ TakeLock(r)
    \/ Hit(r)
    \/ \E keys \in Orders : CountFirst(r, keys)

LEMMA CallsCount == ASSUME NEW r \in Requests, AccountCalls(r) \/ FactorCalls(r) PROVE CountStep(r)
<1>1. ASSUME NEW u \in Users PROVE {<<LoginKey(u)>>, <<MailKey(u)>>, <<CodeKey(u)>>} \subseteq Orders
  BY KeysAssumption DEF Orders
<1>2. ASSUME NEW a \in Addresses
      PROVE  <<PublicKey(a)>> \in Orders /\ \A u \in Users : <<AddressKey(a), LoginKey(u)>> \in Orders
  BY KeysAssumption DEF Orders
<1>3. CASE AccountCalls(r)
  <2>1. PICK u \in Users :
          \/ \E a \in Addresses : PublicRequest(r, u, a)
          \/ \E a \in Addresses, p \in Passwords : Login(r, u, a, p)
          \/ \E p, q \in Passwords : ChangeMyPassword(r, u, p, q)
          \/ ForgotPassword(r, u)
          \/ \E k \in Links, p \in Passwords : ActivateAccount(r, k, p) \/ ResetPassword(r, k, p)
          \/ \E by \in Users, role \in Roles : CreateUser(r, by, u, role)
          \/ \E by \in Users : ResendActivation(r, by, u)
          \/ \E by \in Users, role \in Roles, active \in BOOLEAN : UpdateUser(r, by, u, role, active)
    BY <1>3 DEF AccountCalls
  <2>2. CASE (\E a \in Addresses : PublicRequest(r, u, a)) \/ ForgotPassword(r, u)
    BY <1>1, <1>2, <2>2 DEF PublicRequest, ForgotPassword, CountStep
  <2>3. CASE (\E a \in Addresses, p \in Passwords : Login(r, u, a, p))
             \/ \E p, q \in Passwords : ChangeMyPassword(r, u, p, q)
    BY <1>1, <1>2, <2>3 DEF Login, ChangeMyPassword, CountStep
  <2>4. CASE \E k \in Links, p \in Passwords : ActivateAccount(r, k, p) \/ ResetPassword(r, k, p)
    BY <2>4 DEF ActivateAccount, ResetPassword, SpendLink, CountStep, throttleVars
  <2>5. CASE \/ \E by \in Users, role \in Roles : CreateUser(r, by, u, role)
             \/ \E by \in Users : ResendActivation(r, by, u)
             \/ \E by \in Users, role \in Roles, active \in BOOLEAN : UpdateUser(r, by, u, role, active)
    BY <2>5 DEF CreateUser, ResendActivation, UpdateUser, CountStep, throttleVars
  <2> QED
    BY <2>1, <2>2, <2>3, <2>4, <2>5
<1>4. CASE FactorCalls(r)
  <2>1. PICK u \in Users :
          \/ Setup(r, u)
          \/ \E code \in Typed : Confirm(r, u, code)
          \/ \E code \in Typed : Verify(r, u, code)
          \/ \E code \in Typed : RenewRecoveryCodes(r, u, code)
          \/ \E p \in Passwords : Disable(r, u, p)
          \/ \E by \in Users : ResetFactor(r, by, u)
    BY <1>4 DEF FactorCalls
  <2> QED
    BY <1>1, <2>1 DEF Setup, Confirm, Verify, RenewRecoveryCodes, Disable, ResetFactor, CountStep, throttleVars
<1> QED
  BY <1>3, <1>4

LEMMA StepsCount ==
    ASSUME NEW r \in Requests, AccountSteps(r) \/ FactorSteps(r) \/ Crash(r)
    PROVE  CountStep(r)
<1>1. CASE Wait(r) \/ CountAttempt(r)
  BY <1>1 DEF Wait, CountAttempt, CountStep
<1>2. CASE Refused(r) \/ Allowed(r) \/ DeadlockVictim(r) \/ Crash(r)
  BY <1>2 DEF Refused, Allowed, DeadlockVictim, Crash, CountCommits, CountRollsBack, CountStep
<1>3. CASE CheckPassword(r) \/ Admit(r) \/ SignIn(r) \/ FreshSession(r) \/ CheckCurrent(r) \/ SetOwnPassword(r)
  BY <1>3 DEF CheckPassword, Admit, SignIn, FreshSession, CheckCurrent, SetOwnPassword, CountStep, throttleVars
<1>4. CASE FindOldLinks(r) \/ MarkOldLinks(r) \/ MailLink(r) \/ Unlock(r) \/ WriteUser(r)
  BY <1>4 DEF FindOldLinks, MarkOldLinks, MailLink, Unlock, WriteUser, CountCommits, CountStep, throttleVars
<1>5. CASE FactorSteps(r)
  BY <1>5 DEF FactorSteps, ReplaceSecret, Prove, ReadFactor, UseCode, RemoveFactor, CountStep, throttleVars
<1> QED
  BY <1>1, <1>2, <1>3, <1>4, <1>5 DEF AccountSteps

LEMMA OrderIsKept ==
    ASSUME FactorInv, LocksInOrder, NEW r \in Requests, CountStep(r)
    PROVE  LocksInOrder'
<1> DEFINE c == counting[r]
<1>1. counting \in [Requests -> Counting] /\ AddressFirst(c) /\ c \in Counting
  BY DEF FactorInv, ThrottleInv, ThrottleTypeOK, LocksInOrder
<1>2. ASSUME NEW d, counting' = [counting EXCEPT ![r] = d], AddressFirst(d) PROVE LocksInOrder'
  BY <1>1, <1>2 DEF LocksInOrder
<1>3. CASE UNCHANGED counting
  BY <1>3 DEF LocksInOrder
<1>4. CASE counting' = [counting EXCEPT ![r] = NotCounting]
  <2>1. AddressFirst(NotCounting)
    BY DEF AddressFirst, NotCounting
  <2> QED
    BY <1>2, <1>4, <2>1
<1>5. CASE TakeLock(r)
  <2> DEFINE d == [c EXCEPT !.held = c.held \cup {Head(c.todo)}]
  <2>1. counting' = [counting EXCEPT ![r] = d] /\ c.todo # <<>>
    BY <1>1, <1>5 DEF TakeLock, NeedsLock
  <2>2. d.todo = c.todo /\ d.held = c.held \cup {Head(c.todo)}
    BY <1>1 DEF Counting
  <2> HIDE DEF d
  <2>3. ASSUME NEW k \in Keys, c.todo = <<k>>, c.held \subseteq {k} PROVE AddressFirst(d)
    <3>1. d.todo = <<k>> /\ d.held \subseteq {k}
      BY <2>2, <2>3
    <3> QED
      BY <3>1 DEF AddressFirst
  <2>4. ASSUME NEW a \in Addresses, NEW u \in Users,
               c.todo = <<AddressKey(a), LoginKey(u)>>, c.held \subseteq {AddressKey(a)}
        PROVE  AddressFirst(d)
    <3>1. Head(c.todo) = AddressKey(a)
      BY <2>4
    <3> QED
      BY <2>2, <2>4, <3>1 DEF AddressFirst
  <2>5. ASSUME NEW a \in Addresses, NEW u \in Users,
               c.todo = <<LoginKey(u)>>, c.held \subseteq {AddressKey(a), LoginKey(u)}
        PROVE  AddressFirst(d)
    <3>1. Head(c.todo) = LoginKey(u)
      BY <2>5
    <3> QED
      BY <2>2, <2>5, <3>1 DEF AddressFirst
  <2> QED
    BY <1>1, <1>2, <2>1, <2>3, <2>4, <2>5 DEF AddressFirst
<1>6. CASE Hit(r)
  <2>1. PICK d : /\ counting' = [counting EXCEPT ![r] = d]
                 /\ d.held = c.held
                 /\ d.todo = <<>> \/ d.todo = Tail(c.todo)
                 /\ c.todo # <<>>
    <3>1. CASE counting' = [counting EXCEPT ![r] =
                 [c EXCEPT !.todo = <<>>, !.purged = @ \cup OldRows(r), !.refused = TRUE]]
      <4> DEFINE d == [c EXCEPT !.todo = <<>>, !.purged = c.purged \cup OldRows(r), !.refused = TRUE]
      <4>1. d.held = c.held /\ d.todo = <<>>
        BY <1>1 DEF Counting
      <4>2. counting' = [counting EXCEPT ![r] = d] /\ c.todo # <<>>
        BY <1>6, <3>1 DEF Hit
      <4> QED
        BY <4>1, <4>2
    <3>2. CASE \E id \in AttemptIds : counting' = [counting EXCEPT ![r] =
                 [c EXCEPT !.todo = Tail(@), !.purged = @ \cup OldRows(r),
                           !.rows = @ \cup {[key |-> Head(c.todo), at |-> c.since, id |-> id]}]]
      <4>1. PICK id : counting' = [counting EXCEPT ![r] =
                 [c EXCEPT !.todo = Tail(@), !.purged = @ \cup OldRows(r),
                           !.rows = @ \cup {[key |-> Head(c.todo), at |-> c.since, id |-> id]}]]
        BY <3>2
      <4> DEFINE d == [c EXCEPT !.todo = Tail(c.todo), !.purged = c.purged \cup OldRows(r),
                           !.rows = c.rows \cup {[key |-> Head(c.todo), at |-> c.since, id |-> id]}]
      <4>2. d.held = c.held /\ d.todo = Tail(c.todo)
        BY <1>1 DEF Counting
      <4>3. counting' = [counting EXCEPT ![r] = d] /\ c.todo # <<>>
        BY <1>6, <4>1 DEF Hit
      <4> QED
        BY <4>2, <4>3
    <3> QED
      BY <1>6, <3>1, <3>2 DEF Hit
  <2>2. CASE d.todo = <<>>
    BY <1>2, <2>1, <2>2 DEF AddressFirst
  <2>3. CASE d.todo = Tail(c.todo)
    <3>1. ASSUME NEW k, c.todo = <<k>> PROVE d.todo = <<>>
      BY <2>3, <3>1
    <3>2. ASSUME NEW a \in Addresses, NEW u \in Users,
                 c.todo = <<AddressKey(a), LoginKey(u)>>, c.held \subseteq {AddressKey(a)}
          PROVE  AddressFirst(d)
      <4>1. d.todo = <<LoginKey(u)>>
        BY <2>3, <3>2
      <4> QED
        BY <2>1, <3>2, <4>1 DEF AddressFirst
    <3> QED
      BY <1>1, <1>2, <2>1, <2>2, <3>1, <3>2 DEF AddressFirst
  <2> QED
    BY <2>1, <2>2, <2>3
<1>7. ASSUME NEW keys \in Orders, CountFirst(r, keys) PROVE LocksInOrder'
  <2> DEFINE d == [NotCounting EXCEPT !.todo = keys, !.since = now]
  <2>1. counting' = [counting EXCEPT ![r] = d] /\ d.todo = keys /\ d.held = {}
    BY <1>7 DEF CountFirst, NotCounting
  <2> HIDE DEF d
  <2>2. AddressFirst(d)
    BY <2>1 DEF Orders, AddressFirst
  <2> QED
    BY <1>2, <2>1, <2>2
<1> QED
  BY <1>3, <1>4, <1>5, <1>6, <1>7 DEF CountStep

\* Whoever waits for a lock and has one is a sign-in: it has its address and
\* waits for the account.
LEMMA WaitingWithALock ==
    ASSUME LocksInOrder, NEW r \in Requests, NeedsLock(r), counting[r].held # {}
    PROVE  \E a \in Addresses, u \in Users :
              counting[r].held = {AddressKey(a)} /\ Head(counting[r].todo) = LoginKey(u)
<1> DEFINE c == counting[r]
<1>1. c.todo # <<>> /\ Head(c.todo) \notin c.held /\ AddressFirst(c)
  BY DEF NeedsLock, LocksInOrder
<1>2. ASSUME NEW k, c.todo = <<k>>, c.held \subseteq {k} PROVE FALSE
  BY <1>1, <1>2
<1>3. ASSUME NEW a, NEW u, c.todo = <<AddressKey(a), LoginKey(u)>>, c.held \subseteq {AddressKey(a)}
      PROVE  FALSE
  <2>1. Head(c.todo) = AddressKey(a)
    BY <1>3
  <2> QED
    BY <1>1, <1>3, <2>1
<1>4. PICK a \in Addresses, u \in Users :
         c.todo = <<LoginKey(u)>> /\ c.held \subseteq {AddressKey(a), LoginKey(u)}
  BY <1>1, <1>2, <1>3 DEF AddressFirst
<1>5. Head(c.todo) = LoginKey(u)
  BY <1>4
<1> QED
  BY <1>1, <1>4, <1>5

LEMMA NoCircleOfLocks == ASSUME LocksInOrder PROVE LocksMakeNoCircle
<1> SUFFICES ASSUME NEW group \in SUBSET Requests, group # {},
                    \A r \in group : \E q \in group : WaitsForLock(r, q)
             PROVE  FALSE
  BY DEF LocksMakeNoCircle
<1>1. PICK r \in group : TRUE
  OBVIOUS
<1>2. PICK q \in group : WaitsForLock(r, q)
  BY <1>1
<1>3. PICK s \in group : WaitsForLock(q, s)
  BY <1>2
<1>4. PICK t \in group : WaitsForLock(s, t)
  BY <1>3
<1>5. PICK a \in Addresses, u \in Users :
         counting[q].held = {AddressKey(a)} /\ Head(counting[q].todo) = LoginKey(u)
  BY <1>2, <1>3, WaitingWithALock DEF WaitsForLock
<1>6. PICK b \in Addresses : counting[s].held = {AddressKey(b)}
  BY <1>3, <1>4, WaitingWithALock DEF WaitsForLock
<1> QED
  BY <1>3, <1>5, <1>6, AddressesAreNoAccounts DEF WaitsForLock

\* The advisory locks of the limits make no circle, for any number of requests:
\* a circle needs rows that one of them has purged (auth_throttle_hit; login
\* hits its address before the account).
THEOREM AdvisoryLocksMakeNoCircle == FactorSpec => []LocksMakeNoCircle
<1>1. AccountsInit => LocksInOrder
  BY DEF AccountsInit, ThrottleInit, LocksInOrder, AddressFirst, NotCounting
<1>2. FactorInv /\ LocksInOrder /\ [FactorNext]_vars => LocksInOrder'
  <2> SUFFICES ASSUME FactorInv, LocksInOrder, [FactorNext]_vars PROVE LocksInOrder'
    OBVIOUS
  <2>1. ASSUME NEW r \in Requests,
               AccountCalls(r) \/ AccountSteps(r) \/ Crash(r) \/ FactorCalls(r) \/ FactorSteps(r)
        PROVE  LocksInOrder'
    BY <2>1, CallsCount, StepsCount, OrderIsKept
  <2>2. ASSUME UNCHANGED counting PROVE LocksInOrder'
    BY <2>2 DEF LocksInOrder
  <2>3. CASE \/ \E k \in Links : LinkExpires(k)
             \/ TimePasses
             \/ \E u \in Users : RemoveOnServer(u)
             \/ UNCHANGED vars
    BY <2>2, <2>3 DEF LinkExpires, TimePasses, Tick, RemoveOnServer, vars, throttleVars
  <2> QED
    BY <2>1, <2>3 DEF FactorNext, AccountsNext
<1>3. LocksInOrder => LocksMakeNoCircle
  BY NoCircleOfLocks
<1> QED
  BY <1>1, <1>2, <1>3, FactorInvHolds, PTL DEF FactorSpec

=============================================================================
