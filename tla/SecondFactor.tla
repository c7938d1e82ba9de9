---------------------------- MODULE SecondFactor ----------------------------
(***************************************************************************)
(* Two-factor authentication: the endpoints of app/routers/mfa.py over the *)
(* auth_mfa_*() functions, composed with the accounts and the limits.      *)
(*                                                                         *)
(* A code is a secret and a 30-second step, which is a tick of the clock.  *)
(* enrol_setup and enrol_confirm are setup and confirm with an enrolment   *)
(* token in the place of a session.                                        *)
(***************************************************************************)
EXTENDS Accounts

\* The step the server's clock is in; 0 stands for NULL in last_step.
CurrentStep == now + 1

\* matching_step: the code of this secret, one step of drift allowed
Matches(code, secret) ==
    /\ code.kind = "app"
    /\ code.of = secret
    /\ code.step \in CurrentStep - 1 .. CurrentStep + 1

\* What a person may type: nonsense, what their app shows for a secret, a
\* recovery code from paper.
Typed ==
    {NoCode}
        \cup [kind : {"app"}, of : 1 .. minted, step : (CurrentStep - 1 .. CurrentStep + 1) \ {0}]
        \cup [kind : {"paper"}, of : 1 .. minted, step : {0}]

\* The code opened something, for the secret that is stored at that moment.
Accept(u, code) ==
    LET before == {a \in accepted : a.code = code /\ a.under = factor[u].secret}
    IN  accepted' = accepted \cup
            {[code |-> code, under |-> factor[u].secret, times |-> 1 + Cardinality(before)]}

\* The account a setup or a confirmation acts for, signed in or enrolling
Enrolling(u) == SignedIn(u) \/ Holds("enrol", u)

-----------------------------------------------------------------------------
(***************************************************************************)
(* Enrolment.                                                              *)
(***************************************************************************)

\* POST /api/mfa/setup and /api/mfa/enrol/setup, up to the test of
\* auth_mfa_begin(): no second factor is on
Setup(r, u) ==
    /\ Enrolling(u)
    /\ factor[u].state # "on"
    /\ Start(r, "setup", u, u, [Resting EXCEPT !.pc = "replace"])
    /\ UNCHANGED <<throttleVars, stored, tokens>>

\* The upsert of auth_mfa_begin() and the commit: a row that exists keeps
\* its `enabled`.
ReplaceSecret(r) ==
    LET u == req[r].user
    IN  /\ req[r].pc = "replace"
        /\ minted + 1 \in Secrets
        /\ minted' = minted + 1
        /\ factor' = [factor EXCEPT ![u] =
             [state |-> IF @.state = "on" THEN "on" ELSE "pending", secret |-> minted + 1, last |-> 0]]
        /\ Finish(r)
        /\ UNCHANGED <<throttleVars, accounts, links, recovery, tokens, calls, accepted>>

\* POST /api/mfa/confirm and /api/mfa/enrol/confirm
Confirm(r, u, code) ==
    /\ Enrolling(u)
    /\ factor[u].state = "pending"
    /\ code \in Typed
    /\ Start(r, "confirm", u, u, [Resting EXCEPT !.pc = "count", !.code = code, !.mfa = factor[u]])
    /\ CountFirst(r, <<CodeKey(u)>>)
    /\ UNCHANGED <<now, attempts, stored, tokens>>

\* Mutant: enabling leaves the sessions opened before as they are.
EnableQuietly(u, step) ==
    /\ factor' = [factor EXCEPT ![u].state = "on", ![u].last = step]
    /\ recovery' = [recovery EXCEPT ![u] = {req[CHOOSE r \in Requests : req[r].user = u].mfa.secret}]
    /\ UNCHANGED accounts

\* auth_mfa_enable(): on, with recovery codes, and every session signed out
Enable(u, step) ==
    /\ factor' = [factor EXCEPT ![u].state = "on", ![u].last = step]
    /\ recovery' = [recovery EXCEPT ![u] = {factor[u].secret}]
    /\ accounts' = [accounts EXCEPT ![u] = NextVersion(accounts[u])]

\* _confirm: the code is checked against the secret read before the count.
Prove(r) ==
    LET t == req[r]
        u == t.user
    IN  /\ t.pc = "prove"
        /\ IF Matches(t.code, t.mfa.secret) /\ factor[u].state = "pending" /\ factor[u].last < t.code.step
           THEN /\ Enable(u, t.code.step)
                /\ Accept(u, t.code)
                /\ Pardon({}, {CodeKey(u)})
                /\ Goto(r, "fresh")
           ELSE /\ Finish(r)
                /\ UNCHANGED <<factor, recovery, accounts, accepted, attempts>>
        /\ UNCHANGED <<now, counting, links, tokens, calls, minted>>

-----------------------------------------------------------------------------
(***************************************************************************)
(* Codes.                                                                  *)
(***************************************************************************)

\* POST /api/mfa/verify
Verify(r, u, code) ==
    /\ Holds("challenge", u)
    /\ code \in Typed
    /\ Start(r, "verify", u, u, [Resting EXCEPT !.pc = "count", !.code = code])
    /\ CountFirst(r, <<CodeKey(u)>>)
    /\ UNCHANGED <<now, attempts, stored, tokens>>

\* The second factor is read after the attempt is counted.
ReadFactor(r) ==
    LET u == req[r].user
    IN  /\ req[r].pc = "read"
        /\ IF factor[u].state = "on"
           THEN req' = [req EXCEPT ![r] = [req[r] EXCEPT !.pc = "use", !.mfa = factor[u]]]
           ELSE Finish(r)
        /\ UNCHANGED <<throttleVars, stored, tokens, calls>>

\* POST /api/mfa/recovery-codes
RenewRecoveryCodes(r, u, code) ==
    /\ SignedIn(u)
    /\ factor[u].state = "on"
    /\ code \in Typed
    /\ Start(r, "renew", u, u, [Resting EXCEPT !.pc = "count", !.code = code, !.mfa = factor[u]])
    /\ CountFirst(r, <<CodeKey(u)>>)
    /\ UNCHANGED <<now, attempts, stored, tokens>>

\* Mutant: the step is compared with the last one as it was read.
StepWasUnused(t) == t.mfa.last < t.code.step

\* auth_mfa_use_step(), on the row as it is
StepIsUnused(t) ==
    factor[t.user].state = "on" /\ factor[t.user].last < t.code.step

\* The code opens what the request asks for; only verify takes recovery codes.
AppCodeWorks(t) == Matches(t.code, t.mfa.secret) /\ StepIsUnused(t)

\* auth_mfa_use_recovery()
PaperCodeWorks(t) ==
    /\ t.op = "verify"
    /\ t.code.kind = "paper"
    /\ factor[t.user].state = "on"
    /\ t.code.of \in recovery[t.user]

UseCode(r) ==
    LET t == req[r]
        u == t.user
    IN  /\ t.pc = "use"
        /\ IF AppCodeWorks(t) \/ PaperCodeWorks(t)
           THEN /\ Accept(u, t.code)
                /\ Pardon({}, {CodeKey(u)})
                /\ factor' = IF AppCodeWorks(t) THEN [factor EXCEPT ![u].last = t.code.step] ELSE factor
                /\ IF t.op = "renew"
                   THEN /\ minted + 1 \in Secrets
                        /\ minted' = minted + 1
                        /\ recovery' = [recovery EXCEPT ![u] = {minted + 1}]
                        /\ Finish(r)
                   ELSE /\ recovery' = [recovery EXCEPT
                             ![u] = IF PaperCodeWorks(t) THEN @ \ {t.code.of} ELSE @]
                        /\ Goto(r, "fresh")
                        /\ UNCHANGED minted
           ELSE /\ Finish(r)
                /\ UNCHANGED <<factor, recovery, accepted, attempts, minted>>
        /\ UNCHANGED <<now, counting, accounts, links, tokens, calls>>

-----------------------------------------------------------------------------
(***************************************************************************)
(* Removal.                                                                *)
(***************************************************************************)

\* POST /api/mfa/disable, after the password
Disable(r, u, p) ==
    /\ SignedIn(u)
    /\ accounts[u].role \notin RequiredRoles
    /\ accounts[u].password = p
    /\ Start(r, "disable", u, u, [Resting EXCEPT !.pc = "remove"])
    /\ UNCHANGED <<throttleVars, stored, tokens>>

\* POST /api/users/{id}/mfa/reset
ResetFactor(r, by, u) ==
    /\ AdminSignedIn(by)
    /\ u # by
    /\ Start(r, "reset", by, u, [Resting EXCEPT !.pc = "remove"])
    /\ UNCHANGED <<throttleVars, stored, tokens>>

\* auth_mfa_remove(), and what reset_mfa.py does
FactorRemoved(u) ==
    /\ factor[u].state # "none"
    /\ factor' = [factor EXCEPT ![u] = NoFactor]
    /\ recovery' = [recovery EXCEPT ![u] = {}]
    /\ accounts' = [accounts EXCEPT ![u] = NextVersion(accounts[u])]

RemoveFactor(r) ==
    LET u == req[r].user
    IN  /\ req[r].pc = "remove"
        /\ \/ /\ FactorRemoved(u)
              /\ IF req[r].op = "disable" THEN Goto(r, "fresh") ELSE Finish(r)
           \/ /\ factor[u].state = "none"
              /\ Finish(r)
              /\ UNCHANGED <<factor, recovery, accounts>>
        /\ UNCHANGED <<throttleVars, links, tokens, calls, minted, accepted>>

\* reset_mfa.py, run on the server
RemoveOnServer(u) ==
    /\ Call("reset", NoUser, u)
    /\ FactorRemoved(u)
    /\ UNCHANGED <<throttleVars, links, tokens, req, minted, accepted>>

-----------------------------------------------------------------------------
FactorSteps(r) == ReplaceSecret(r) \/ Prove(r) \/ ReadFactor(r) \/ UseCode(r) \/ RemoveFactor(r)

FactorCalls(r) ==
    \E u \in Users :
      \/ Setup(r, u)
      \/ \E code \in Typed : Confirm(r, u, code)
      \/ \E code \in Typed : Verify(r, u, code)
      \/ \E code \in Typed : RenewRecoveryCodes(r, u, code)
      \/ \E p \in Passwords : Disable(r, u, p)
      \/ \E by \in Users : ResetFactor(r, by, u)

FactorNext ==
    \/ AccountsNext
    \/ \E r \in Requests : FactorCalls(r) \/ FactorSteps(r)
    \/ \E u \in Users : RemoveOnServer(u)

FactorSpec == AccountsInit /\ [][FactorNext]_vars

-----------------------------------------------------------------------------
(***************************************************************************)
(* Properties.                                                             *)
(***************************************************************************)

\* The advisory locks make no circle: requests that all wait for one another
\* include one that waits for rows another has purged.  A sign-in locks its
\* address and then the account, and every other transaction one key (login,
\* change_my_password, _count_attempt).  Keys are their own locks here: two
\* keys of one hashtext() would share theirs.
LocksMakeNoCircle ==
    \A group \in SUBSET Requests :
        group # {} => \E r \in group : \A q \in group : ~ WaitsForLock(r, q)

\* Only the latest reset link works, however many are asked for at once: the
\* lock that counts the e-mails is kept until the link is committed
\* (issue_token: "only the latest link works").
OneResetLink == \A u \in Users : Cardinality(LiveLinks(u, "reset")) <= 1

\* For one enrolment a code opens one thing once: an app's code whose step was
\* accepted, and a recovery code that was spent, are refused even to a request
\* that read the second factor before (services/mfa.py: "the same code cannot
\* be used twice").
NoCodeTwice == \A a \in accepted : a.times = 1

\* Turning a second factor on closes every session the password alone opened,
\* in whatever order the password, the secret and the code are handled, until
\* the account comes back to a version it has had before: only an update that
\* was overtaken, and writes the version it read plus one, reopens one
\* (auth_mfa_enable(); update_user, main.py).
OnlyARepeatedVersionRevives ==
    \A t \in tokens :
        t.kind = "access" /\ t.how = "password" /\ Honoured(t) /\ factor[t.user].state = "on" =>
            t.version \in accounts[t.user].again

\* No session that still works was opened by the password alone once the
\* account's second factor is on (app/routers/mfa.py: "Enabling, disabling and
\* resetting sign the account out everywhere else (token_version)").
PasswordAloneIsNotEnough ==
    \A t \in tokens :
        t.kind = "access" /\ t.how = "password" /\ Honoured(t) => factor[t.user].state # "on"
=============================================================================
