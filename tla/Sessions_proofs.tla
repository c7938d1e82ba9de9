--------------------------- MODULE Sessions_proofs ---------------------------
(***************************************************************************)
(* Theorems about Sessions, for any number of requests, accounts and       *)
(* connections: a request reads as its own caller, its audit events are in *)
(* its own name, and it acts on a row that its account really had.         *)
(***************************************************************************)
EXTENDS Sessions, FiniteSetTheorems, TLAPS

-----------------------------------------------------------------------------
(***************************************************************************)
(* The inductive invariant.                                                *)
(***************************************************************************)

\* The types, but for what follows from the rest.
SessionsTypes ==
    /\ accounts \in [Users -> Account]
    /\ had \in [Users -> SUBSET Account]
    /\ updates \subseteq Update
    /\ pool \in [Pool -> Connection]
    /\ req \in [Requests -> Request]
    /\ events \subseteq [as : Identity, by : Users \cup {Nobody}, kind : {"route", "purpose", "link"}]
    /\ called \in 0 .. MaxCalls
    /\ loads \in 0 .. MaxUpdates

\* A connection in the pool carries nobody's settings.
PoolIsClean == \A c \in Pool : pool[c].by = Nobody => pool[c] = Free

\* A request holds one connection at most.
OneConnection ==
    \A c, d \in Pool : pool[c].by # Nobody /\ pool[c].by = pool[d].by => c = d

\* The settings of a connection are its borrower's identity once the handler
\* is at work, and nobody's before that.
SettingsAreTheBorrowers ==
    \A c \in Pool : pool[c].by # Nobody =>
        LET t == req[pool[c].by]
        IN  \/ t.pc = "work" /\ pool[c].as = t.as
            \/ t.pc \in {"purpose", "switch", "spend", "refused"} /\ pool[c].as = NoIdentity

\* What each kind of request is, at each of its steps.
Unidentified(t) == t.as = NoIdentity /\ ~ t.asked /\ t.writing = {}
ActsAsUser(t) == t.as.id = t.user /\ t.as.role \in Roles

KindInv(t) ==
    /\ t.pc = "idle" => t = Resting
    /\ t.pc # "idle" => t.kind # "none"
    /\ t.kind \in {"route", "purpose", "link"} => t.user \in Users
    /\ t.kind = "public" => t.pc = "work" /\ t.as = NoIdentity /\ t.writing = {}
    /\ t.kind = "job" => t.pc = "work" /\ t.as = [id |-> Nobody, role |-> "reminders"] /\ t.writing = {}
    /\ t.kind = "route" =>
          \/ t.pc = "identify" /\ Unidentified(t)
          \/ t.pc = "work" /\ ActsAsUser(t)
    /\ t.kind = "purpose" =>
          \/ t.pc \in {"purpose", "refused"} /\ Unidentified(t)
          \/ t.pc = "switch" /\ ActsAsUser(t) /\ ~ t.asked /\ t.writing = {}
          \/ t.pc = "work" /\ ActsAsUser(t)
    /\ t.kind = "link" =>
          \/ t.pc \in {"spend", "refused"} /\ Unidentified(t)
          \/ t.pc = "work" /\ t.as = [id |-> t.user, role |-> "none"] /\ t.writing = {}
    /\ t.asked => t.got = {row \in Rows : Visible(row, t.as)}
    /\ t.writing \subseteq {t.as}

\* A request whose caller is not known yet will be judged on a row its account
\* has had since it arrived, and a session acts on such a row.
TokenGood(t, row) ==
    /\ t.pc \in Unknown /\ t.user \in Users => row \in t.since
    /\ t.kind \in {"route", "purpose"} /\ t.as # NoIdentity =>
          [role |-> t.as.role, active |-> TRUE, version |-> t.version] \in t.since

TokenInv(t) == TokenGood(t, accounts[t.user])

EventInv(e) == e.as.id = IF e.kind = "link" THEN Nobody ELSE e.by

SessionsInv ==
    /\ SessionsTypes
    /\ PoolIsClean
    /\ OneConnection
    /\ SettingsAreTheBorrowers
    /\ \A r \in Requests : KindInv(req[r]) /\ TokenInv(req[r])
    /\ \A e \in events : EventInv(e)
    /\ \A u \in Users : accounts[u] \in had[u]

-----------------------------------------------------------------------------
(***************************************************************************)
(* Facts about the values and the pool.                                    *)
(***************************************************************************)

\* The values that the actions write have their types.
LEMMA ValueFacts ==
    /\ NoIdentity \in Identity
    /\ [id |-> Nobody, role |-> "reminders"] \in Identity
    /\ Free \in Connection
    /\ Resting \in Request
    /\ 0 \in 0 .. MaxVersion
<1>1. NoIdentity \in Identity /\ [id |-> Nobody, role |-> "reminders"] \in Identity
  BY DEF NoIdentity, Identity
<1>2. 0 \in 0 .. MaxVersion
  BY BoundsAssumption
<1> QED
  BY <1>1, <1>2 DEF Free, Connection, Resting, Request

\* The connection of a request is the one it has borrowed.
LEMMA SettingsOf ==
    ASSUME OneConnection, NEW r \in Requests, NEW c \in Pool, pool[c].by = r
    PROVE  Borrowed(r) = {c} /\ InTransaction(r) /\ Settings(r) = pool[c].as
<1>1. r # Nobody
  BY NobodyAssumption
<1>2. Borrowed(r) = {c}
  BY <1>1 DEF OneConnection, Borrowed
<1> QED
  BY <1>2 DEF InTransaction, Settings

\* What is left of the type invariant follows from the rest.
LEMMA TypesSuffice ==
    ASSUME SessionsTypes, OneConnection, SettingsAreTheBorrowers
    PROVE  SessionsTypeOK
<1> SUFFICES ASSUME NEW r \in Requests
             PROVE  Cardinality(Borrowed(r)) <= 1 /\ (InTransaction(r) => req[r].pc # "idle")
  BY DEF SessionsTypes, SessionsTypeOK
<1>1. CASE Borrowed(r) = {}
  BY <1>1, FS_EmptySet DEF InTransaction
<1>2. CASE Borrowed(r) # {}
  <2>1. PICK c \in Pool : pool[c].by = r
    BY <1>2 DEF Borrowed
  <2>2. Cardinality(Borrowed(r)) = 1
    BY <2>1, SettingsOf, FS_Singleton
  <2>3. req[r].pc # "idle"
    BY <2>1, NobodyAssumption DEF SettingsAreTheBorrowers
  <2> QED
    BY <2>2, <2>3
<1> QED
  BY <1>1, <1>2

\* A transaction that ends gives back a clean connection.
LEMMA ReturnedPool ==
    ASSUME SessionsInv, NEW r \in Requests, pool' = Returned(r),
           \A q \in Requests \ {r} : req'[q].pc = req[q].pc /\ req'[q].as = req[q].as
    PROVE  /\ pool' \in [Pool -> Connection]
           /\ PoolIsClean' /\ OneConnection' /\ SettingsAreTheBorrowers'
<1>1. /\ PoolIsClean /\ OneConnection /\ SettingsAreTheBorrowers
      /\ pool \in [Pool -> Connection]
  BY DEF SessionsInv, SessionsTypes
<1>2. \A c \in Pool : pool'[c] = IF pool[c].by = r THEN Free ELSE pool[c]
  BY DEF Returned
<1>3. pool' \in [Pool -> Connection]
  BY <1>1, ValueFacts DEF Returned
<1>4. Free.by = Nobody
  BY DEF Free
<1>5. \A c \in Pool : pool'[c].by # Nobody => pool'[c] = pool[c] /\ pool[c].by # r
  BY <1>2, <1>4
<1>6. PoolIsClean'
  BY <1>1, <1>2 DEF PoolIsClean
<1>7. OneConnection'
  BY <1>1, <1>5 DEF OneConnection
<1>8. SettingsAreTheBorrowers'
  <2> SUFFICES ASSUME NEW c \in Pool, pool'[c].by # Nobody
               PROVE  LET t == req'[pool'[c].by]
                      IN  \/ t.pc = "work" /\ pool'[c].as = t.as
                          \/ /\ t.pc \in {"purpose", "switch", "spend", "refused"}
                             /\ pool'[c].as = NoIdentity
    BY DEF SettingsAreTheBorrowers
  <2>1. pool'[c] = pool[c] /\ pool[c].by \in Requests \ {r}
    BY <1>1, <1>5 DEF Connection
  <2> QED
    BY <1>1, <2>1 DEF SettingsAreTheBorrowers
<1> QED
  BY <1>3, <1>6, <1>7, <1>8

\* A request that keeps its connection goes on under its settings.
LEMMA KeptPool ==
    ASSUME SessionsInv, NEW r \in Requests, pool' = pool,
           \A q \in Requests \ {r} : req'[q].pc = req[q].pc /\ req'[q].as = req[q].as,
           \A c \in Pool : pool[c].by = r =>
              \/ req'[r].pc = "work" /\ pool[c].as = req'[r].as
              \/ req'[r].pc \in {"purpose", "switch", "spend", "refused"} /\ pool[c].as = NoIdentity
    PROVE  PoolIsClean' /\ OneConnection' /\ SettingsAreTheBorrowers'
<1>1. /\ PoolIsClean /\ OneConnection /\ SettingsAreTheBorrowers
      /\ pool \in [Pool -> Connection]
  BY DEF SessionsInv, SessionsTypes
<1>2. PoolIsClean' /\ OneConnection'
  BY <1>1 DEF PoolIsClean, OneConnection
<1>3. ASSUME NEW c \in Pool, pool[c].by # Nobody
      PROVE  LET t == req'[pool[c].by]
             IN  \/ t.pc = "work" /\ pool[c].as = t.as
                 \/ t.pc \in {"purpose", "switch", "spend", "refused"} /\ pool[c].as = NoIdentity
  <2>1. pool[c].by \in Requests
    BY <1>1, <1>3 DEF Connection
  <2>2. CASE pool[c].by = r
    BY <2>2
  <2>3. CASE pool[c].by # r
    <3>1. /\ req'[pool[c].by].pc = req[pool[c].by].pc
          /\ req'[pool[c].by].as = req[pool[c].by].as
      BY <2>1, <2>3
    <3> QED
      BY <1>1, <1>3, <3>1 DEF SettingsAreTheBorrowers
  <2> QED
    BY <2>2, <2>3
<1>4. SettingsAreTheBorrowers'
  BY <1>3 DEF SettingsAreTheBorrowers
<1> QED
  BY <1>2, <1>4

\* A request is as good after a step that leaves it and its account alone.
LEMMA OtherRequests ==
    ASSUME SessionsInv, NEW q \in Requests, req'[q] = req[q], UNCHANGED accounts
    PROVE  KindInv(req[q])' /\ TokenInv(req[q])'
<1>1. KindInv(req[q]) /\ TokenInv(req[q])
  BY DEF SessionsInv
<1> QED
  BY <1>1 DEF KindInv, TokenInv, TokenGood, Unidentified, ActsAsUser, Unknown, Visible, ReadersOf, EventsReadBy

\* The row of an account is rewritten: the requests that have still to know
\* their caller may be judged on it, the others go on as they were.
LEMMA RewriteFacts ==
    ASSUME SessionsInv, NEW u \in Users, NEW row \in Account, Rewrite(u, row)
    PROVE  /\ accounts' \in [Users -> Account] /\ had' \in [Users -> SUBSET Account]
           /\ \A w \in Users : accounts'[w] \in had'[w]
           /\ \A w \in Users : accounts'[w] = IF w = u THEN row ELSE accounts[w]
<1>1. /\ accounts \in [Users -> Account] /\ had \in [Users -> SUBSET Account]
      /\ \A w \in Users : accounts[w] \in had[w]
  BY DEF SessionsInv, SessionsTypes
<1>2. accounts' = [accounts EXCEPT ![u] = row] /\ had' = [had EXCEPT ![u] = had[u] \cup {row}]
  BY <1>1 DEF Rewrite
<1>3. /\ accounts' \in [Users -> Account]
      /\ \A w \in Users : accounts'[w] = IF w = u THEN row ELSE accounts[w]
  BY <1>1, <1>2
<1>4. had[u] \cup {row} \in SUBSET Account
  BY <1>1
<1>5. /\ had' \in [Users -> SUBSET Account]
      /\ \A w \in Users : had'[w] = IF w = u THEN had[u] \cup {row} ELSE had[w]
  BY <1>1, <1>2, <1>4
<1> QED
  BY <1>1, <1>3, <1>5

LEMMA JudgedFacts ==
    ASSUME SessionsInv, NEW u \in Users, NEW row \in Account, Rewrite(u, row),
           NEW q \in Requests, NEW t, t = Judged(u, row)[q]
    PROVE  /\ t \in Request /\ t.pc = req[q].pc /\ t.as = req[q].as
           /\ KindInv(t) /\ TokenGood(t, accounts'[t.user])
<1>1. req[q] \in Request /\ KindInv(req[q]) /\ TokenInv(req[q])
  BY DEF SessionsInv, SessionsTypes
<1>2. \A w \in Users : accounts'[w] = IF w = u THEN row ELSE accounts[w]
  BY RewriteFacts
<1>3. CASE req[q].user = u /\ req[q].pc \in Unknown
  <2>1. t = [req[q] EXCEPT !.since = req[q].since \cup {row}]
    BY <1>3 DEF Judged
  <2>2. req[q].since \cup {row} \in SUBSET Account
    BY <1>1 DEF Request
  <2>3. /\ t \in Request /\ t.pc = req[q].pc /\ t.kind = req[q].kind /\ t.user = u
        /\ t.version = req[q].version /\ t.since = req[q].since \cup {row} /\ t.as = req[q].as
        /\ t.got = req[q].got /\ t.asked = req[q].asked /\ t.writing = req[q].writing
    BY <1>1, <1>3, <2>1, <2>2 DEF Request
  <2>4. t.pc # "idle"
    BY <1>3, <2>3 DEF Unknown
  <2>5. KindInv(t)
    BY <1>1, <1>3, <2>3, <2>4 DEF KindInv, Unidentified, ActsAsUser
  <2>6. TokenGood(t, accounts'[t.user])
    BY <1>1, <1>2, <1>3, <2>3 DEF TokenInv, TokenGood
  <2> QED
    BY <2>3, <2>5, <2>6
<1>4. CASE ~ (req[q].user = u /\ req[q].pc \in Unknown)
  <2>1. t = req[q]
    BY <1>4 DEF Judged
  <2>2. TokenGood(t, accounts'[t.user])
    BY <1>1, <1>2, <1>4, <2>1 DEF TokenInv, TokenGood
  <2> QED
    BY <1>1, <2>1, <2>2
<1> QED
  BY <1>3, <1>4

\* The invariant of a request that does not mention the accounts
LEMMA KindInvAfter ==
    ASSUME NEW q \in Requests, NEW t, req'[q] = t, KindInv(t)
    PROVE  KindInv(req[q])'
BY DEF KindInv, Unidentified, ActsAsUser, Visible, ReadersOf, EventsReadBy

\* What a step of request r has to show, when it changes no account.
LEMMA RequestStep ==
    ASSUME SessionsInv, NEW r \in Requests, NEW t \in Request,
           req' = [req EXCEPT ![r] = t],
           UNCHANGED rows,
           called' \in 0 .. MaxCalls,
           pool' \in [Pool -> Connection],
           PoolIsClean' /\ OneConnection' /\ SettingsAreTheBorrowers',
           KindInv(t), TokenInv(t),
           \/ events' = events
           \/ /\ req[r].kind \in {"route", "purpose"} \/ req[r].writing = {}
              /\ events' = events \cup
                    {[as |-> e, by |-> req[r].user, kind |-> req[r].kind] : e \in req[r].writing}
    PROVE  SessionsInv'
<1>1. /\ SessionsTypes /\ KindInv(req[r]) /\ req[r] \in Request
      /\ \A e \in events : EventInv(e)
      /\ \A u \in Users : accounts[u] \in had[u]
  BY DEF SessionsInv, SessionsTypes
<1>2. req' \in [Requests -> Request] /\ req'[r] = t /\ \A q \in Requests \ {r} : req'[q] = req[q]
  BY <1>1 DEF SessionsTypes
<1>3. UNCHANGED <<accounts, had, updates, loads>>
  BY DEF rows
<1>4. ASSUME NEW e \in events' PROVE /\ e \in [as : Identity, by : Users \cup {Nobody}, kind : {"route", "purpose", "link"}]
                                   /\ EventInv(e)
  <2>1. CASE e \in events
    BY <1>1, <2>1 DEF SessionsTypes
  <2>2. CASE e \notin events
    <3>1. PICK a \in req[r].writing : e = [as |-> a, by |-> req[r].user, kind |-> req[r].kind]
      BY <2>2
    <3>2. req[r].kind \in {"route", "purpose"} /\ a = req[r].as /\ a \in Identity
      BY <1>1, <2>2, <3>1 DEF KindInv, Request
    <3>3. a.id = req[r].user /\ req[r].user \in Users
      BY <1>1, <3>1, <3>2 DEF KindInv, Unidentified, ActsAsUser
    <3> QED
      BY <3>1, <3>2, <3>3 DEF EventInv
  <2> QED
    BY <2>1, <2>2
<1>5. SessionsTypes'
  BY <1>1, <1>2, <1>3, <1>4 DEF SessionsTypes
<1>6. ASSUME NEW q \in Requests \ {r} PROVE KindInv(req[q])' /\ TokenInv(req[q])'
  BY <1>2, <1>3, OtherRequests
<1>7. KindInv(req[r])' /\ TokenInv(req[r])'
  BY <1>2, <1>3 DEF KindInv, TokenInv, TokenGood, Unidentified, ActsAsUser, Unknown, Visible, ReadersOf, EventsReadBy
<1> QED
  BY <1>1, <1>3, <1>4, <1>5, <1>6, <1>7 DEF SessionsInv, EventInv

-----------------------------------------------------------------------------
(***************************************************************************)
(* The steps of a request.                                                 *)
(***************************************************************************)

\* A transaction that begins copies the identity of the context, which is
\* nobody's unless the handler is at work.
LEMMA BeginSession ==
    ASSUME SessionsInv, NEW r \in Requests, Begin(r)
    PROVE  SessionsInv'
<1> DEFINE t == req[r]
<1>1. /\ SessionsTypes /\ PoolIsClean /\ OneConnection /\ SettingsAreTheBorrowers
      /\ KindInv(t) /\ t \in Request /\ r # Nobody
  BY NobodyAssumption DEF SessionsInv, SessionsTypes
<1>2. PICK c \in Pool :
        /\ pool[c].by = Nobody
        /\ pool' = [pool EXCEPT ![c] = [by |-> r, as |-> IF t.as = NoIdentity THEN @.as ELSE t.as]]
  BY DEF Begin
<1>3. /\ t.pc \in {"purpose", "spend", "work"} /\ UNCHANGED <<rows, req, events, called>>
      /\ \A d \in Pool : pool[d].by # r
  BY DEF Begin, InTransaction, Borrowed
<1>4. pool[c] = Free
  BY <1>1, <1>2 DEF PoolIsClean
<1>5. t.pc # "work" => t.as = NoIdentity
  <2>1. t.kind \in {"none", "route", "public", "purpose", "link", "job"}
    BY <1>1 DEF Request
  <2> QED
    BY <1>1, <1>3, <2>1 DEF KindInv, Unidentified
<1>6. pool' = [pool EXCEPT ![c] = [by |-> r, as |-> t.as]]
  <2>1. pool[c].as = NoIdentity
    BY <1>4 DEF Free
  <2>2. (IF t.as = NoIdentity THEN pool[c].as ELSE t.as) = t.as
    BY <2>1
  <2> QED
    BY <1>2, <2>2
<1>7. pool'[c] = [by |-> r, as |-> t.as] /\ \A d \in Pool \ {c} : pool'[d] = pool[d]
  BY <1>1, <1>6 DEF SessionsTypes
<1>8. pool' \in [Pool -> Connection]
  <2>1. [by |-> r, as |-> t.as] \in Connection
    BY <1>1 DEF Connection, Request
  <2> QED
    BY <1>1, <1>6, <2>1 DEF SessionsTypes
<1>9. PoolIsClean'
  BY <1>1, <1>7 DEF PoolIsClean
<1>10. OneConnection'
  BY <1>1, <1>3, <1>7 DEF OneConnection
<1>11. SettingsAreTheBorrowers'
  BY <1>1, <1>3, <1>5, <1>7 DEF SettingsAreTheBorrowers
<1>12. req' = [req EXCEPT ![r] = t]
  BY <1>1, <1>3 DEF SessionsTypes
<1>13. TokenInv(t) /\ called' \in 0 .. MaxCalls
  BY <1>1, <1>3 DEF SessionsInv, SessionsTypes
<1> QED
  BY <1>1, <1>3, <1>8, <1>9, <1>10, <1>11, <1>12, <1>13, RequestStep

\* Within a handler: a commit writes the events in the caller's name.
LEMMA CommitSession ==
    ASSUME SessionsInv, NEW r \in Requests, Commit(r)
    PROVE  SessionsInv'
<1> DEFINE t == [req[r] EXCEPT !.writing = {}]
<1>1. /\ SessionsTypes /\ KindInv(req[r]) /\ TokenInv(req[r]) /\ req[r] \in Request
  BY DEF SessionsInv, SessionsTypes
<1>2. /\ req[r].pc = "work" /\ UNCHANGED <<rows, called>>
      /\ req' = [req EXCEPT ![r] = t]
      /\ pool' = Returned(r)
      /\ events' = events \cup
            {[as |-> e, by |-> req[r].user, kind |-> req[r].kind] : e \in req[r].writing}
  BY <1>1 DEF Commit, Commits, SessionsTypes
<1>3. /\ t \in Request /\ t.pc = req[r].pc /\ t.kind = req[r].kind /\ t.user = req[r].user
      /\ t.version = req[r].version /\ t.since = req[r].since /\ t.as = req[r].as
      /\ t.got = req[r].got /\ t.asked = req[r].asked /\ t.writing = {}
  BY <1>1 DEF Request
<1> HIDE DEF t
<1>4. KindInv(t) /\ TokenInv(t)
  BY <1>1, <1>2, <1>3 DEF KindInv, TokenInv, TokenGood, Unidentified, ActsAsUser, Unknown
<1>5. req[r].kind \in {"route", "purpose"} \/ req[r].writing = {}
  BY <1>1, <1>2 DEF KindInv, Request
<1>6. \A q \in Requests \ {r} : req'[q] = req[q]
  BY <1>1, <1>2 DEF SessionsTypes
<1>7. called' \in 0 .. MaxCalls
  BY <1>1, <1>2 DEF SessionsTypes
<1> QED
  BY <1>2, <1>3, <1>4, <1>5, <1>6, <1>7, ReturnedPool, RequestStep

\* A request that ends is at rest.
LEMMA RestInv == KindInv(Resting) /\ TokenInv(Resting)
BY NobodyAssumption DEF KindInv, TokenInv, TokenGood, Resting, NoIdentity, Unknown

\* The end of a request.
LEMMA CloseSession ==
    ASSUME SessionsInv, NEW r \in Requests, Close(r)
    PROVE  SessionsInv'
<1>1. /\ SessionsTypes /\ pool' = Returned(r) /\ req' = [req EXCEPT ![r] = Resting]
      /\ UNCHANGED <<rows, events, called>>
  BY DEF SessionsInv, Close
<1>2. \A q \in Requests \ {r} : req'[q] = req[q]
  BY <1>1 DEF SessionsTypes
<1>3. called' \in 0 .. MaxCalls
  BY <1>1 DEF SessionsTypes
<1> QED
  BY <1>1, <1>2, <1>3, ValueFacts, RestInv, ReturnedPool, RequestStep

\* A step of request r that keeps its connection, writes no event and ends
\* with the request as t.
LEMMA KeepStep ==
    ASSUME SessionsInv, NEW r \in Requests, NEW t \in Request,
           req' = [req EXCEPT ![r] = t],
           UNCHANGED <<rows, pool, events>>,
           called' \in 0 .. MaxCalls,
           KindInv(t), TokenInv(t),
           \A c \in Pool : pool[c].by = r =>
              \/ t.pc = "work" /\ pool[c].as = t.as
              \/ t.pc \in {"purpose", "switch", "spend", "refused"} /\ pool[c].as = NoIdentity
    PROVE  SessionsInv'
<1>1. req'[r] = t /\ \A q \in Requests \ {r} : req'[q] = req[q]
  BY DEF SessionsInv, SessionsTypes
<1>2. pool' \in [Pool -> Connection]
  BY DEF SessionsInv, SessionsTypes
<1>3. PoolIsClean' /\ OneConnection' /\ SettingsAreTheBorrowers'
  BY <1>1, KeptPool
<1> QED
  BY <1>2, <1>3, RequestStep

\* A connection that r holds carries r's settings.
LEMMA HeldSettings ==
    ASSUME SessionsInv, NEW r \in Requests, NEW c \in Pool, pool[c].by = r
    PROVE  \/ req[r].pc = "work" /\ pool[c].as = req[r].as
           \/ req[r].pc \in {"purpose", "switch", "spend", "refused"} /\ pool[c].as = NoIdentity
BY NobodyAssumption DEF SessionsInv, SettingsAreTheBorrowers

\* A new request has nothing yet.
LEMMA ArriveSession ==
    ASSUME SessionsInv, NEW r \in Requests, NEW kind \in Kinds, NEW u \in Users \cup {Nobody},
           NEW v \in 0 .. MaxVersion, Arrive(r, kind, u, v)
    PROVE  SessionsInv'
<1> DEFINE since == IF u = Nobody THEN {} ELSE {accounts[u]}
           as == IF kind = "job" THEN [NoIdentity EXCEPT !.role = "reminders"] ELSE NoIdentity
           t == [Resting EXCEPT !.pc = FirstStep(kind), !.kind = kind, !.user = u, !.version = v,
                                !.since = since, !.as = as]
<1>1. /\ SessionsTypes /\ req' = [req EXCEPT ![r] = t]
      /\ UNCHANGED <<rows, pool, events>>
      /\ called < MaxCalls /\ called' = called + 1
      /\ req[r].pc = "idle" /\ (u = Nobody <=> kind \in {"public", "job"})
  BY DEF SessionsInv, Arrive
<1>2. /\ kind = "route" => FirstStep(kind) = "identify"
      /\ kind = "purpose" => FirstStep(kind) = "purpose"
      /\ kind = "link" => FirstStep(kind) = "spend"
      /\ kind \in {"public", "job"} => FirstStep(kind) = "work"
  BY DEF FirstStep
<1>3. as = IF kind = "job" THEN [id |-> Nobody, role |-> "reminders"] ELSE NoIdentity
  BY DEF NoIdentity
<1>4. since \subseteq Account /\ (u \in Users => since = {accounts[u]})
  BY <1>1, NobodyAssumption DEF SessionsTypes
<1>5. FirstStep(kind) \in {"identify", "purpose", "spend", "work"} /\ as \in Identity
  BY <1>2, <1>3, ValueFacts DEF Kinds
<1> HIDE DEF as, since
<1>6. /\ t \in Request
      /\ t.pc = FirstStep(kind) /\ t.kind = kind /\ t.user = u /\ t.version = v
      /\ t.since = since /\ t.as = as /\ t.got = {} /\ t.asked = FALSE /\ t.writing = {}
  <2>1. Resting \in Request /\ Resting.got = {} /\ Resting.asked = FALSE /\ Resting.writing = {}
    BY ValueFacts DEF Resting
  <2> QED
    BY <1>4, <1>5, <2>1 DEF Request, Kinds
<1> HIDE DEF t
<1>7. KindInv(t)
  BY <1>1, <1>2, <1>3, <1>6, NobodyAssumption DEF KindInv, Unidentified, Kinds
<1>8. TokenInv(t)
  BY <1>3, <1>4, <1>6 DEF TokenInv, TokenGood
<1>9. called' \in 0 .. MaxCalls
  BY <1>1, BoundsAssumption DEF SessionsTypes
<1>10. \A c \in Pool : pool[c].by # r
  BY <1>1, HeldSettings
<1> QED
  BY <1>1, <1>6, <1>7, <1>8, <1>9, <1>10, KeepStep

\* A token that holds is that of an active account, of its present version.
LEMMA TokenFacts ==
    ASSUME SessionsInv, NEW r \in Requests, req[r].user \in Users, req[r].pc \in Unknown, TokenHolds(r)
    PROVE  LET t == req[r]
               as == IdentityOf(r)
           IN  /\ as \in Identity /\ as.id = t.user /\ as.role \in Roles
               /\ [role |-> as.role, active |-> TRUE, version |-> t.version] \in t.since
<1> DEFINE u == req[r].user
<1>1. accounts[u] \in Account /\ TokenInv(req[r])
  BY DEF SessionsInv, SessionsTypes
<1>2. accounts[u] = [role |-> accounts[u].role, active |-> TRUE, version |-> req[r].version]
  BY <1>1 DEF TokenHolds, Account
<1>3. accounts[u] \in req[r].since
  BY <1>1 DEF TokenInv, TokenGood
<1>4. accounts[u].role \in Roles
  BY <1>1 DEF Account
<1> QED
  BY <1>1, <1>2, <1>3, <1>4 DEF IdentityOf, Identity

\* A route identifies its caller before its transaction begins.
LEMMA IdentifySession ==
    ASSUME SessionsInv, NEW r \in Requests, Identify(r)
    PROVE  SessionsInv'
<1> DEFINE new == [req[r] EXCEPT !.pc = "work", !.as = IdentityOf(r)]
<1>1. /\ SessionsTypes /\ KindInv(req[r]) /\ TokenInv(req[r]) /\ req[r] \in Request
  BY DEF SessionsInv, SessionsTypes
<1>2. /\ req[r].pc = "identify" /\ UNCHANGED <<rows, pool, events, called>>
      /\ req' = [req EXCEPT ![r] = IF TokenHolds(r) THEN new ELSE Resting]
  BY <1>1 DEF Identify, SessionsTypes
<1>3. req[r].kind = "route" /\ req[r].user \in Users /\ Unidentified(req[r]) /\ req[r].pc \in Unknown
  BY <1>1, <1>2 DEF KindInv, Request, Unknown
<1>4. \A c \in Pool : pool[c].by # r
  BY <1>2, HeldSettings
<1>5. called' \in 0 .. MaxCalls
  BY <1>1, <1>2 DEF SessionsTypes
<1>6. CASE ~ TokenHolds(r)
  BY <1>2, <1>4, <1>5, <1>6, ValueFacts, RestInv, KeepStep
<1>7. CASE TokenHolds(r)
  <2>1. /\ new.pc = "work" /\ new.as = IdentityOf(r) /\ new.kind = "route"
        /\ new.user = req[r].user /\ new.version = req[r].version /\ new.since = req[r].since
        /\ new.asked = req[r].asked /\ new.writing = req[r].writing
    BY <1>1, <1>3 DEF Request
  <2>2. new \in Request
    BY <1>1, <1>3, <1>7, TokenFacts DEF Request
  <2> HIDE DEF new
  <2>3. KindInv(new)
    BY <1>3, <1>7, <2>1, TokenFacts DEF KindInv, Unidentified, ActsAsUser
  <2>4. TokenInv(new)
    BY <1>1, <1>3, <1>7, <2>1, TokenFacts DEF TokenInv, TokenGood, Unknown
  <2> QED
    BY <1>2, <1>4, <1>5, <1>7, <2>2, <2>3, <2>4, KeepStep
<1> QED
  BY <1>6, <1>7

\* The same test in the request's own transaction, which goes on as nobody.
LEMMA CheckPurposeSession ==
    ASSUME SessionsInv, NEW r \in Requests, CheckPurpose(r)
    PROVE  SessionsInv'
<1> DEFINE good == [req[r] EXCEPT !.pc = "switch", !.as = IdentityOf(r)]
           bad == [req[r] EXCEPT !.pc = "refused"]
<1>1. /\ SessionsTypes /\ KindInv(req[r]) /\ TokenInv(req[r]) /\ req[r] \in Request
  BY DEF SessionsInv, SessionsTypes
<1>2. /\ req[r].pc = "purpose" /\ UNCHANGED <<rows, pool, events, called>>
      /\ req' = [req EXCEPT ![r] = IF TokenHolds(r) THEN good ELSE bad]
  BY <1>1 DEF CheckPurpose, SessionsTypes
<1>3. req[r].kind = "purpose" /\ req[r].user \in Users /\ Unidentified(req[r]) /\ req[r].pc \in Unknown
  BY <1>1, <1>2 DEF KindInv, Request, Unknown
<1>4. \A c \in Pool : pool[c].by = r => pool[c].as = NoIdentity
  BY <1>2, HeldSettings
<1>5. called' \in 0 .. MaxCalls
  BY <1>1, <1>2 DEF SessionsTypes
<1>6. CASE ~ TokenHolds(r)
  <2>1. /\ bad \in Request /\ bad.pc = "refused" /\ bad.as = NoIdentity /\ bad.kind = "purpose"
        /\ bad.user = req[r].user /\ bad.version = req[r].version /\ bad.since = req[r].since
        /\ bad.asked = req[r].asked /\ bad.writing = req[r].writing
    BY <1>1, <1>3 DEF Request, Unidentified
  <2> HIDE DEF bad
  <2>2. KindInv(bad) /\ TokenInv(bad)
    BY <1>1, <1>3, <2>1 DEF KindInv, TokenInv, TokenGood, Unidentified, Unknown
  <2> QED
    BY <1>2, <1>4, <1>5, <1>6, <2>1, <2>2, KeepStep
<1>7. CASE TokenHolds(r)
  <2>1. /\ good.pc = "switch" /\ good.as = IdentityOf(r) /\ good.kind = "purpose"
        /\ good.user = req[r].user /\ good.version = req[r].version /\ good.since = req[r].since
        /\ good.asked = req[r].asked /\ good.writing = req[r].writing
    BY <1>1, <1>3 DEF Request
  <2>2. good \in Request
    BY <1>1, <1>3, <1>7, TokenFacts DEF Request
  <2> HIDE DEF good
  <2>3. KindInv(good)
    BY <1>3, <1>7, <2>1, TokenFacts DEF KindInv, Unidentified, ActsAsUser
  <2>4. TokenInv(good)
    BY <1>1, <1>3, <1>7, <2>1, TokenFacts DEF TokenInv, TokenGood, Unknown
  <2> QED
    BY <1>2, <1>4, <1>5, <1>7, <2>1, <2>2, <2>3, <2>4, KeepStep
<1> QED
  BY <1>6, <1>7

\* The commit that ends the transaction begun as nobody.
LEMMA SwitchSession ==
    ASSUME SessionsInv, NEW r \in Requests, Switch(r)
    PROVE  SessionsInv'
<1> DEFINE t == [req[r] EXCEPT !.pc = "work"]
<1>1. /\ SessionsTypes /\ KindInv(req[r]) /\ TokenInv(req[r]) /\ req[r] \in Request
  BY DEF SessionsInv, SessionsTypes
<1>2. /\ req[r].pc = "switch" /\ UNCHANGED <<rows, called>>
      /\ req' = [req EXCEPT ![r] = t]
      /\ pool' = Returned(r)
      /\ events' = events \cup
            {[as |-> e, by |-> req[r].user, kind |-> req[r].kind] : e \in req[r].writing}
  BY <1>1 DEF Switch, Commits, Goto, SessionsTypes
<1>3. req[r].kind = "purpose" /\ ActsAsUser(req[r]) /\ ~ req[r].asked /\ req[r].writing = {}
      /\ req[r].user \in Users
  BY <1>1, <1>2 DEF KindInv, Request, Unidentified
<1>4. /\ t \in Request /\ t.pc = "work" /\ t.kind = "purpose" /\ t.user = req[r].user
      /\ t.version = req[r].version /\ t.since = req[r].since /\ t.as = req[r].as
      /\ t.asked = req[r].asked /\ t.writing = {}
  BY <1>1, <1>3 DEF Request
<1> HIDE DEF t
<1>5. KindInv(t) /\ TokenInv(t)
  BY <1>1, <1>3, <1>4 DEF KindInv, TokenInv, TokenGood, ActsAsUser, Unknown
<1>6. \A q \in Requests \ {r} : req'[q] = req[q]
  BY <1>1, <1>2 DEF SessionsTypes
<1>7. called' \in 0 .. MaxCalls
  BY <1>1, <1>2 DEF SessionsTypes
<1> QED
  BY <1>2, <1>3, <1>4, <1>5, <1>6, <1>7, ReturnedPool, RequestStep

\* A query returns what the policies show to the request's own identity.
LEMMA QuerySession ==
    ASSUME SessionsInv, NEW r \in Requests, Query(r)
    PROVE  SessionsInv'
<1> DEFINE found == {row \in Rows : Visible(row, req[r].as)}
           t == [req[r] EXCEPT !.got = found, !.asked = TRUE]
<1>1. /\ SessionsTypes /\ KindInv(req[r]) /\ TokenInv(req[r]) /\ req[r] \in Request
      /\ OneConnection
  BY DEF SessionsInv, SessionsTypes
<1>2. /\ req[r].pc = "work" /\ UNCHANGED <<rows, pool, events, called>>
      /\ InTransaction(r)
      /\ req' = [req EXCEPT ![r].got = {row \in Rows : Visible(row, Settings(r))}, ![r].asked = TRUE]
  BY DEF Query
<1>3. \A c \in Pool : pool[c].by = r => pool[c].as = req[r].as
  BY <1>2, HeldSettings
<1>4. Settings(r) = req[r].as
  BY <1>1, <1>2, <1>3, SettingsOf DEF InTransaction, Borrowed
<1>5. req' = [req EXCEPT ![r] = t]
  BY <1>1, <1>2, <1>4 DEF SessionsTypes
<1>6. found \subseteq Rows
  OBVIOUS
<1>7. t.got = found
  BY <1>1 DEF Request
<1> HIDE DEF found
<1>8. /\ t \in Request /\ t.pc = "work" /\ t.kind = req[r].kind /\ t.user = req[r].user
      /\ t.version = req[r].version /\ t.since = req[r].since /\ t.as = req[r].as
      /\ t.asked = TRUE /\ t.writing = req[r].writing
  BY <1>1, <1>2, <1>6 DEF Request
<1> HIDE DEF t
<1>9. t.got = {row \in Rows : Visible(row, t.as)}
  BY <1>7, <1>8 DEF found
<1>10. KindInv(t) /\ TokenInv(t)
  BY <1>1, <1>2, <1>8, <1>9 DEF KindInv, TokenInv, TokenGood, Unidentified, ActsAsUser, Unknown
<1>11. called' \in 0 .. MaxCalls
  BY <1>1, <1>2 DEF SessionsTypes
<1> QED
  BY <1>2, <1>3, <1>5, <1>8, <1>10, <1>11, KeepStep

\* The policy on audit events finds the identity that the event names.
LEMMA RecordEventSession ==
    ASSUME SessionsInv, NEW r \in Requests, RecordEvent(r)
    PROVE  SessionsInv'
<1> DEFINE t == [req[r] EXCEPT !.writing = req[r].writing \cup {req[r].as}]
<1>1. /\ SessionsTypes /\ KindInv(req[r]) /\ TokenInv(req[r]) /\ req[r] \in Request
      /\ OneConnection
  BY DEF SessionsInv, SessionsTypes
<1>2. /\ req[r].pc = "work" /\ UNCHANGED <<rows, pool, events, called>>
      /\ InTransaction(r) /\ req[r].kind \in {"route", "purpose"}
  BY DEF RecordEvent
<1>3. \A c \in Pool : pool[c].by = r => pool[c].as = req[r].as
  BY <1>2, HeldSettings
<1>4. Settings(r) = req[r].as
  BY <1>1, <1>2, <1>3, SettingsOf DEF InTransaction, Borrowed
<1>5. req' = [req EXCEPT ![r] = t]
  <2>1. InOwnName(req[r].as, Settings(r))
    BY <1>4 DEF InOwnName
  <2>2. req' = [req EXCEPT ![r] = IF InOwnName(req[r].as, Settings(r)) THEN t ELSE [req[r] EXCEPT !.pc = "denied"]]
    BY <1>1 DEF SessionsTypes, RecordEvent
  <2> QED
    BY <2>1, <2>2
<1>6. /\ t \in Request /\ t.pc = "work" /\ t.kind = req[r].kind /\ t.user = req[r].user
      /\ t.version = req[r].version /\ t.since = req[r].since /\ t.as = req[r].as
      /\ t.asked = req[r].asked /\ t.got = req[r].got /\ t.writing = req[r].writing \cup {req[r].as}
  BY <1>1, <1>2 DEF Request
<1> HIDE DEF t
<1>7. KindInv(t) /\ TokenInv(t)
  BY <1>1, <1>2, <1>6 DEF KindInv, TokenInv, TokenGood, Unidentified, ActsAsUser, Unknown
<1>8. called' \in 0 .. MaxCalls
  BY <1>1, <1>2 DEF SessionsTypes
<1> QED
  BY <1>2, <1>3, <1>5, <1>6, <1>7, <1>8, KeepStep

\* The step that spends a link: the account moves on, the event is nobody's.
LEMMA SpendLinkSession ==
    ASSUME SessionsInv, NEW r \in Requests, SpendLink(r)
    PROVE  SessionsInv'
<1> DEFINE u == req[r].user
           row == [accounts[u] EXCEPT !.version = @ + 1]
           bad == [req[r] EXCEPT !.pc = "refused"]
           good == [req[r] EXCEPT !.pc = "work", !.as = [id |-> u, role |-> "none"]]
           event == [as |-> req[r].as, by |-> u, kind |-> "link"]
<1>1. /\ SessionsTypes /\ KindInv(req[r]) /\ TokenInv(req[r]) /\ req[r] \in Request
  BY DEF SessionsInv, SessionsTypes
<1>2. req[r].pc = "spend" /\ UNCHANGED <<updates, loads, called>>
  BY DEF SpendLink
<1>3. req[r].kind = "link" /\ u \in Users /\ Unidentified(req[r])
  BY <1>1, <1>2 DEF KindInv, Request
<1>4. called' \in 0 .. MaxCalls
  BY <1>1, <1>2 DEF SessionsTypes
<1>5. CASE Goto(r, "refused") /\ UNCHANGED <<accounts, had, pool, events>>
  <2>1. req' = [req EXCEPT ![r] = bad]
    BY <1>1, <1>5 DEF Goto, SessionsTypes
  <2>2. /\ bad \in Request /\ bad.pc = "refused" /\ bad.as = NoIdentity /\ bad.kind = "link"
        /\ bad.user = u /\ bad.version = req[r].version /\ bad.since = req[r].since
        /\ bad.asked = req[r].asked /\ bad.writing = req[r].writing
    BY <1>1, <1>3 DEF Request, Unidentified
  <2>3. \A c \in Pool : pool[c].by = r => pool[c].as = NoIdentity
    BY <1>2, HeldSettings
  <2> HIDE DEF bad
  <2>4. KindInv(bad) /\ TokenInv(bad)
    BY <1>1, <1>3, <2>2 DEF KindInv, TokenInv, TokenGood, Unidentified, Unknown
  <2>5. UNCHANGED <<rows, pool, events>>
    BY <1>2, <1>5 DEF rows
  <2> QED
    BY <1>4, <2>1, <2>2, <2>3, <2>4, <2>5, KeepStep
<1>6. CASE /\ row.version <= MaxVersion
           /\ Rewrite(u, row)
           /\ events' = events \cup {event}
           /\ pool' = Returned(r)
           /\ req' = [Judged(u, row) EXCEPT ![r] = good]
  <2>1. row \in Account
    BY <1>1, <1>3, <1>6, BoundsAssumption DEF SessionsTypes, Account
  <2> HIDE DEF row
  <2>2. /\ accounts' \in [Users -> Account] /\ had' \in [Users -> SUBSET Account]
        /\ \A w \in Users : accounts'[w] \in had'[w]
    BY <1>3, <1>6, <2>1, RewriteFacts
  <2>3. event.as = NoIdentity /\ event.kind = "link"
        /\ event \in [as : Identity, by : Users \cup {Nobody}, kind : {"route", "purpose", "link"}]
    BY <1>3, ValueFacts DEF Unidentified
  <2>4. EventInv(event)
    BY <2>3 DEF EventInv, NoIdentity
  <2> HIDE DEF event
  <2>5. /\ good \in Request /\ good.pc = "work" /\ good.as = [id |-> u, role |-> "none"]
        /\ good.kind = "link" /\ good.user = u /\ good.since = req[r].since
        /\ good.asked = req[r].asked /\ good.writing = req[r].writing
    BY <1>1, <1>3 DEF Request, Identity
  <2> HIDE DEF good
  <2>6. req'[r] = good /\ \A q \in Requests \ {r} : req'[q] = Judged(u, row)[q]
    BY <1>6 DEF Judged
  <2>7. ASSUME NEW q \in Requests \ {r}
        PROVE  /\ req'[q] \in Request /\ req'[q].pc = req[q].pc /\ req'[q].as = req[q].as
               /\ KindInv(req[q])' /\ TokenInv(req[q])'
    <3> DEFINE t == Judged(u, row)[q]
    <3>1. req'[q] = t
      BY <2>6
    <3>2. /\ t \in Request /\ t.pc = req[q].pc /\ t.as = req[q].as
          /\ KindInv(t) /\ TokenGood(t, accounts'[t.user])
      BY <1>3, <1>6, <2>1, JudgedFacts
    <3> HIDE DEF t
    <3>3. KindInv(req[q])'
      BY <3>1, <3>2, KindInvAfter
    <3>4. TokenInv(req[q])'
      BY <3>1, <3>2 DEF TokenInv
    <3> QED
      BY <3>1, <3>2, <3>3, <3>4
  <2>8. /\ pool' \in [Pool -> Connection]
        /\ PoolIsClean' /\ OneConnection' /\ SettingsAreTheBorrowers'
    BY <1>6, <2>7, ReturnedPool
  <2>9. KindInv(req[r])'
    <3>1. KindInv(good)
      BY <1>3, <2>5 DEF KindInv, Unidentified
    <3> QED
      BY <2>6, <3>1, KindInvAfter
  <2>10. TokenInv(req[r])'
    BY <2>5, <2>6 DEF TokenInv, TokenGood, Unknown
  <2>11. SessionsTypes'
    <3>1. req' \in [Requests -> Request]
      <4>1. req' = [q \in Requests |-> req'[q]]
        BY <1>6 DEF Judged
      <4>2. \A q \in Requests : req'[q] \in Request
        BY <2>5, <2>6, <2>7
      <4> HIDE DEF good
      <4> QED
        BY <4>1, <4>2
    <3>2. events' \subseteq [as : Identity, by : Users \cup {Nobody}, kind : {"route", "purpose", "link"}]
      BY <1>1, <1>6, <2>3 DEF SessionsTypes
    <3> QED
      BY <1>1, <1>2, <2>2, <2>8, <3>1, <3>2 DEF SessionsTypes
  <2>12. \A e \in events' : EventInv(e)
    BY <1>6, <2>4 DEF SessionsInv
  <2> QED
    BY <2>2, <2>7, <2>8, <2>9, <2>10, <2>11, <2>12 DEF SessionsInv, EventInv
<1> QED
  BY <1>5, <1>6, <1>2 DEF SpendLink

\* An administrator reads the row that the update is to change.
LEMMA LoadAccountSession ==
    ASSUME SessionsInv, NEW by \in Users, NEW u \in Users, NEW role \in Roles, NEW active \in BOOLEAN,
           LoadAccount(by, u, role, active)
    PROVE  SessionsInv'
<1> DEFINE old == accounts[u]
           revokes == role # old.role \/ (old.active /\ ~ active)
           new == [role |-> role, active |-> active,
                   version |-> IF revokes THEN old.version + 1 ELSE old.version]
<1>1. SessionsTypes /\ old \in Account
  BY DEF SessionsInv, SessionsTypes
<1>2. /\ new.version <= MaxVersion /\ loads < MaxUpdates /\ loads' = loads + 1
      /\ updates' = updates \cup {[user |-> u, read |-> old, new |-> new]}
      /\ UNCHANGED <<accounts, had, pool, req, events, called>>
  BY DEF LoadAccount
<1>3. new \in Account
  <2>1. old.version \in Nat
    BY <1>1 DEF Account
  <2>2. new.version \in 0 .. MaxVersion
    BY <1>2, <2>1, BoundsAssumption
  <2> QED
    BY <2>2 DEF Account
<1> HIDE DEF new, old
<1>4. SessionsTypes'
  <2>1. loads' \in 0 .. MaxUpdates
    BY <1>1, <1>2, BoundsAssumption DEF SessionsTypes
  <2>2. updates' \subseteq Update
    BY <1>1, <1>2, <1>3 DEF SessionsTypes, Update
  <2> QED
    BY <1>1, <1>2, <2>1, <2>2 DEF SessionsTypes
<1>5. \A q \in Requests : KindInv(req[q])' /\ TokenInv(req[q])'
  BY <1>2, OtherRequests
<1> QED
  BY <1>2, <1>4, <1>5 DEF SessionsInv, PoolIsClean, OneConnection, SettingsAreTheBorrowers, EventInv

\* The update writes the row: what it read may be stale by then.
LEMMA WriteAccountSession ==
    ASSUME SessionsInv, NEW t \in updates, WriteAccount(t)
    PROVE  SessionsInv'
<1> DEFINE u == t.user
           row == Flushed(t, accounts[u])
<1>1. SessionsTypes /\ t \in Update
  BY DEF SessionsInv, SessionsTypes
<1>2. u \in Users /\ t.new \in Account /\ accounts[u] \in Account
  BY <1>1 DEF SessionsTypes, Update
<1>3. row \in Account
  BY <1>2 DEF Flushed, Account
<1>4. /\ updates' = updates \ {t} /\ Rewrite(u, row) /\ req' = Judged(u, row)
      /\ UNCHANGED <<pool, events, called, loads>>
  BY DEF WriteAccount
<1> HIDE DEF u, row
<1>5. /\ accounts' \in [Users -> Account] /\ had' \in [Users -> SUBSET Account]
      /\ \A w \in Users : accounts'[w] \in had'[w]
  BY <1>2, <1>3, <1>4, RewriteFacts
<1>6. ASSUME NEW q \in Requests
      PROVE  /\ req'[q] \in Request /\ req'[q].pc = req[q].pc /\ req'[q].as = req[q].as
             /\ KindInv(req[q])' /\ TokenInv(req[q])'
  <2> DEFINE s == Judged(u, row)[q]
  <2>1. req'[q] = s
    BY <1>4
  <2>2. /\ s \in Request /\ s.pc = req[q].pc /\ s.as = req[q].as
        /\ KindInv(s) /\ TokenGood(s, accounts'[s.user])
    BY <1>2, <1>3, <1>4, JudgedFacts
  <2> HIDE DEF s
  <2>3. KindInv(req[q])'
    BY <2>1, <2>2, KindInvAfter
  <2>4. TokenInv(req[q])'
    BY <2>1, <2>2 DEF TokenInv
  <2> QED
    BY <2>1, <2>2, <2>3, <2>4
<1>7. PoolIsClean' /\ OneConnection'
  BY <1>4 DEF SessionsInv, PoolIsClean, OneConnection
<1>8. SettingsAreTheBorrowers'
  <2>1. \A c \in Pool : pool[c].by # Nobody => pool[c].by \in Requests
    BY <1>1 DEF SessionsTypes, Connection
  <2> QED
    BY <1>4, <1>6, <2>1 DEF SessionsInv, SettingsAreTheBorrowers
<1>9. SessionsTypes'
  <2>1. req' \in [Requests -> Request]
    <3>1. req' = [q \in Requests |-> req'[q]]
      BY <1>4 DEF Judged
    <3> QED
      BY <1>6, <3>1
  <2> QED
    BY <1>1, <1>4, <1>5, <2>1 DEF SessionsTypes
<1>10. \A e \in events' : EventInv(e)
  BY <1>4 DEF SessionsInv
<1> QED
  BY <1>5, <1>6, <1>7, <1>8, <1>9, <1>10 DEF SessionsInv, EventInv

-----------------------------------------------------------------------------
(***************************************************************************)
(* The theorems.                                                           *)
(***************************************************************************)

\* The invariant holds at the start and every step keeps it.
THEOREM SessionsInvInductive ==
    /\ Init => SessionsInv
    /\ SessionsInv /\ [Next]_vars => SessionsInv'
<1>1. ASSUME Init PROVE SessionsInv
  <2>1. /\ accounts = [u \in Users |-> [role |-> FirstRoles[u], active |-> TRUE, version |-> 0]]
        /\ had = [u \in Users |-> {accounts[u]}] /\ updates = {} /\ loads = 0
        /\ pool = [c \in Pool |-> Free] /\ req = [r \in Requests |-> Resting]
        /\ events = {} /\ called = 0
    BY <1>1 DEF Init
  <2>2. accounts \in [Users -> Account]
    BY <2>1, ValueFacts, FirstRolesAssumption DEF Account
  <2>3. SessionsTypes
    BY <2>1, <2>2, ValueFacts, BoundsAssumption DEF SessionsTypes
  <2>4. PoolIsClean /\ OneConnection /\ SettingsAreTheBorrowers
    BY <2>1 DEF PoolIsClean, OneConnection, SettingsAreTheBorrowers, Free
  <2>5. \A r \in Requests : KindInv(req[r]) /\ TokenInv(req[r])
    BY <2>1, RestInv
  <2> QED
    BY <2>1, <2>3, <2>4, <2>5 DEF SessionsInv
<1>2. ASSUME SessionsInv, Next PROVE SessionsInv'
  <2>1. CASE \E r \in Requests : Steps(r)
    <3>1. PICK r \in Requests : Steps(r)
      BY <2>1
    <3> QED
      BY <1>2, <3>1, BeginSession, CommitSession, CloseSession, IdentifySession, CheckPurposeSession,
         SwitchSession, SpendLinkSession, QuerySession, RecordEventSession DEF Steps
  <2>2. CASE \E r \in Requests, kind \in Kinds, u \in Users \cup {Nobody}, v \in 0 .. MaxVersion :
                Arrive(r, kind, u, v)
    BY <1>2, <2>2, ArriveSession
  <2>3. CASE \E by, u \in Users, role \in Roles, active \in BOOLEAN : LoadAccount(by, u, role, active)
    BY <1>2, <2>3, LoadAccountSession
  <2>4. CASE \E t \in updates : WriteAccount(t)
    BY <1>2, <2>4, WriteAccountSession
  <2> QED
    BY <1>2, <2>1, <2>2, <2>3, <2>4 DEF Next
<1>3. ASSUME SessionsInv, UNCHANGED vars PROVE SessionsInv'
  <2>1. UNCHANGED <<accounts, had, updates, pool, req, events, called, loads>>
    BY <1>3 DEF vars
  <2>2. \A q \in Requests : KindInv(req[q])' /\ TokenInv(req[q])'
    BY <1>3, <2>1, OtherRequests
  <2> QED
    BY <1>3, <2>1, <2>2 DEF SessionsInv, SessionsTypes, PoolIsClean, OneConnection,
       SettingsAreTheBorrowers, EventInv
<1> QED
  BY <1>1, <1>2, <1>3

THEOREM SessionsInvHolds == Spec => []SessionsInv
BY SessionsInvInductive, PTL DEF Spec

\* Every state the system reaches is well formed, and a request never holds
\* two connections, nor one while it rests (get_db, _identity_for).
THEOREM SessionsWellFormed == Spec => []SessionsTypeOK
<1>1. SessionsInv => SessionsTypeOK
  BY TypesSuffice DEF SessionsInv
<1> QED
  BY <1>1, SessionsInvHolds, PTL

\* Who may read each table.
LEMMA Readers ==
    /\ ReadersOf("users") = {"admin", "accountant", "reminders"}
    /\ ReadersOf("employees") = {"admin", "accountant"}
    /\ ReadersOf("payslips") = {"admin", "accountant"}
    /\ ReadersOf("leave_requests") = {"admin"}
    /\ ReadersOf("notifications") = {"reminders"}
    /\ ReadersOf("flow") = {"admin", "accountant", "reminders"}
    /\ ReadersOf("billing") = {"admin", "accountant"}
    /\ ReadersOf("periods") = {"admin", "accountant", "employee", "reminders"}
    /\ ReadersOf("contact_requests") = {"admin"}
    /\ ReadersOf("user_mfa") = {}
    /\ ReadersOf("invoice_events") = {"admin", "accountant"}
    /\ ReadersOf("other_events") = {"admin"}
BY DEF ReadersOf, EventsReadBy, ReadByRole, Roles

LEMMA ReadersBounds ==
    ASSUME NEW table \in Owned \cup Shared, NEW role \in ReadersOf(table)
    PROVE  /\ role = "admin" => table \notin {"notifications", "user_mfa"}
           /\ role = "accountant" =>
                 table \in {"users", "employees", "payslips", "flow", "billing", "periods", "invoice_events"}
           /\ role = "employee" => table = "periods"
           /\ role # "none"
           /\ role = "reminders" => table \in {"users", "notifications", "flow", "periods"}
BY Readers DEF Owned, Shared

\* What the policies show to an identity is what its caller is entitled to.
LEMMA VisibleIsEntitled ==
    ASSUME NEW r \in Requests, NEW row \in Rows, Visible(row, req[r].as), req[r] \in Request,
           KindInv(req[r]), req[r].pc = "work", req[r].kind # "public"
    PROVE  Entitled(r, row)
<1> DEFINE t == req[r]
<1>1. t.kind \in {"route", "purpose", "link", "job"}
  BY DEF KindInv, Request
<1>2. row.table \in Owned \cup Shared
  BY DEF Rows
<1>3. ASSUME NEW role, role \in ReadersOf(row.table)
      PROVE  /\ role = "admin" => row.table \notin {"notifications", "user_mfa"}
             /\ role = "accountant" =>
                   row.table \in {"users", "employees", "payslips", "flow", "billing", "periods", "invoice_events"}
             /\ role = "employee" => row.table = "periods"
             /\ role # "none"
             /\ role = "reminders" => row.table \in {"users", "notifications", "flow", "periods"}
  BY <1>2, <1>3, ReadersBounds
<1>4. CASE t.kind \in {"route", "purpose"}
  <2>1. t.as.id = t.user /\ t.as.role \in Roles
    BY <1>4 DEF KindInv, ActsAsUser
  <2>2. CASE t.as.role \in ReadersOf(row.table)
    <3>1. CASE t.as.role = "admin"
      BY <1>3, <1>4, <2>2, <3>1 DEF Entitled
    <3>2. CASE t.as.role = "accountant"
      BY <1>3, <1>4, <2>2, <3>2 DEF Entitled
    <3>3. CASE t.as.role = "employee"
      BY <1>3, <1>4, <2>2, <3>3 DEF Entitled
    <3> QED
      BY <2>1, <3>1, <3>2, <3>3 DEF Roles
  <2>3. CASE row.owner = t.as.id
    <3>1. CASE t.as.role = "admin"
      BY <1>4, <2>1, <2>3, <3>1 DEF Entitled
    <3>2. CASE t.as.role = "accountant"
      BY <1>4, <2>1, <2>3, <3>2 DEF Entitled
    <3>3. CASE t.as.role = "employee"
      BY <1>4, <2>1, <2>3, <3>3 DEF Entitled
    <3> QED
      BY <2>1, <3>1, <3>2, <3>3 DEF Roles
  <2> QED
    BY <2>2, <2>3 DEF Visible
<1>5. CASE t.kind = "link"
  <2>1. t.as.id = t.user /\ t.as.role = "none"
    BY <1>5 DEF KindInv
  <2> QED
    BY <1>3, <1>5, <2>1 DEF Visible, Entitled
<1>6. CASE t.kind = "job"
  <2>1. t.as.id = Nobody /\ t.as.role = "reminders"
    BY <1>6 DEF KindInv
  <2> QED
    BY <1>3, <1>6, <2>1 DEF Visible, Entitled
<1> QED
  BY <1>1, <1>4, <1>5, <1>6

\* A query returns rows its own caller is entitled to, whoever had the
\* connection before; to nobody it returns nothing (_apply_request_identity).
THEOREM ReadsAreTheCallersAlways == Spec => []ReadsAreTheCallers
<1>1. SessionsInv => ReadsAreTheCallers
  <2> SUFFICES ASSUME SessionsInv, NEW r \in Requests, req[r].asked
               PROVE  IF req[r].kind = "public" THEN req[r].got = {}
                      ELSE /\ \A row \in req[r].got : Entitled(r, row)
                           /\ req[r].kind # "job" => [table |-> "users", owner |-> req[r].user] \in req[r].got
    BY DEF ReadsAreTheCallers
  <2> DEFINE t == req[r]
  <2>1. /\ KindInv(t) /\ t \in Request /\ t.got = {row \in Rows : Visible(row, t.as)}
    BY DEF SessionsInv, SessionsTypes, KindInv
  <2>2. t.pc = "work" /\ t.kind \in {"public", "route", "purpose", "link", "job"}
    BY <2>1 DEF KindInv, Request, Resting, Unidentified
  <2>3. CASE t.kind = "public"
    <3>1. t.as = NoIdentity
      BY <2>1, <2>3 DEF KindInv
    <3>2. ASSUME NEW row \in Rows PROVE ~ Visible(row, NoIdentity)
      <4>1. row.table \in Owned \cup Shared
        BY DEF Rows
      <4>2. "none" \notin ReadersOf(row.table)
        BY <4>1, ReadersBounds
      <4> QED
        BY <4>2 DEF Visible, NoIdentity
    <3> QED
      BY <2>1, <2>3, <3>1, <3>2
  <2>4. CASE t.kind # "public"
    <3>1. \A row \in t.got : Entitled(r, row)
      BY <2>1, <2>2, <2>4, VisibleIsEntitled
    <3>2. ASSUME t.kind # "job" PROVE [table |-> "users", owner |-> t.user] \in t.got
      <4>1. t.as.id = t.user /\ t.user \in Users
        BY <2>1, <2>2, <2>4, <3>2 DEF KindInv, ActsAsUser
      <4>2. [table |-> "users", owner |-> t.user] \in Rows
        BY <4>1 DEF Rows, Owned
      <4>3. Visible([table |-> "users", owner |-> t.user], t.as)
        BY <4>1, NobodyAssumption DEF Visible
      <4> QED
        BY <2>1, <4>2, <4>3
    <3> QED
      BY <2>4, <3>1, <3>2
  <2> QED
    BY <2>3, <2>4
<1> QED
  BY <1>1, SessionsInvHolds, PTL

\* No request is refused its own audit event, and an event names who acted
\* (audit_events_written_in_own_name).
THEOREM EventsInOwnNameAlways == Spec => []EventsInOwnName
<1>1. SessionsInv => EventsInOwnName
  <2> SUFFICES ASSUME SessionsInv PROVE EventsInOwnName
    OBVIOUS
  <2>1. \A r \in Requests : KindInv(req[r]) /\ req[r] \in Request
    BY DEF SessionsInv, SessionsTypes
  <2>2. \A r \in Requests : req[r].pc # "denied"
    BY <2>1 DEF KindInv, Request
  <2> QED
    BY <2>2 DEF SessionsInv, EventInv, EventsInOwnName
<1> QED
  BY <1>1, SessionsInvHolds, PTL

\* A request acts under the role of a row that its account really had, active
\* and of the token's version, since the request arrived (session_identity).
THEOREM CallersAreCurrentAlways == Spec => []CallersAreCurrent
<1>1. SessionsInv => CallersAreCurrent
  BY DEF SessionsInv, TokenInv, TokenGood, CallersAreCurrent
<1> QED
  BY <1>1, SessionsInvHolds, PTL
=============================================================================
