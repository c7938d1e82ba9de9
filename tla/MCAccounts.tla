----------------------------- MODULE MCAccounts -----------------------------
(***************************************************************************)
(* Small instances of SecondFactor for TLC.                                *)
(***************************************************************************)
EXTENDS SecondFactor, TLC

CONSTANTS ann, bob, right, wrong, home

MCKeys == {LoginKey(u) : u \in Users} \cup {MailKey(u) : u \in Users} \cup {CodeKey(u) : u \in Users}
            \cup {AddressKey(home), PublicKey(home)}
MCLimitOf == [k \in Keys |-> 2]
MCSecrets == 1 .. 3
MCLinks == 1 .. 3
MCAttemptIds == 1 .. 6

Row(role, version) ==
    [role |-> role, active |-> TRUE, verified |-> TRUE, password |-> right, version |-> version,
     had |-> 0 .. version, again |-> {}]

On(secret) == [state |-> "on", secret |-> secret, last |-> 1]
Session(u, version) == [kind |-> "access", user |-> u, version |-> version, how |-> "code"]

Opened(u, version) == [kind |-> "access", user |-> u, version |-> version, how |-> "password"]
Challenge(u, version) == [kind |-> "challenge", user |-> u, version |-> version, how |-> "password"]

\* A scenario's calls: n calls of an operation, by anyone or by the owner.
Anyone(op, u, n) == <<op, NoUser, u>> :> n
Own(op, u, n) == <<op, u, u>> :> n
Admins(op, by, u, n) == <<op, by, u>> :> n

\* Two people guess bob's password, or bob changes it.
Guessing ==
    [calls |-> Anyone("login", bob, 3) @@ Own("change", bob, 1),
     accounts |-> [u \in Users |-> IF u = bob THEN Row("employee", 0) ELSE NoAccount],
     factor |-> [u \in Users |-> NoFactor],
     tokens |-> {}]

\* bob forgets his password.
Forgetting ==
    [calls |-> Anyone("forgot", bob, 3) @@ Anyone("spend", bob, 1) @@ Anyone("public", bob, 1),
     accounts |-> [u \in Users |-> IF u = bob THEN Row("employee", 0) ELSE NoAccount],
     factor |-> [u \in Users |-> NoFactor],
     tokens |-> {}]

\* ann, signed in with her second factor, creates bob's account.
Joining ==
    [calls |-> Admins("create", ann, bob, 1) @@ Admins("resend", ann, bob, 2) @@ Admins("update", ann, bob, 1)
                 @@ Anyone("spend", bob, 1) @@ Admins("reset", ann, bob, 1),
     accounts |-> [u \in Users |-> IF u = ann THEN Row("admin", 1) ELSE NoAccount],
     factor |-> [u \in Users |-> IF u = ann THEN On(1) ELSE NoFactor],
     tokens |-> {Session(ann, 1)}]

\* bob sets up his second factor and signs in with it.
Enrollment ==
    [calls |-> Anyone("login", bob, 1) @@ Own("setup", bob, 2) @@ Own("confirm", bob, 1)
                 @@ Own("verify", bob, 1) @@ Own("disable", bob, 1),
     accounts |-> [u \in Users |-> IF u = bob THEN Row("employee", 0) ELSE NoAccount],
     factor |-> [u \in Users |-> NoFactor],
     tokens |-> {Opened(bob, 0)}]

\* bob, whose second factor is on, uses its codes.
UsingCodes ==
    [calls |-> Own("verify", bob, 2) @@ Own("renew", bob, 1) @@ Anyone("reset", bob, 1),
     accounts |-> [u \in Users |-> IF u = bob THEN Row("employee", 1) ELSE NoAccount],
     factor |-> [u \in Users |-> IF u = bob THEN On(1) ELSE NoFactor],
     tokens |-> {Challenge(bob, 1)}]

\* ann changes bob's role twice at once, while bob signs in and turns his
\* second factor on.
Overtaking ==
    [calls |-> Admins("update", ann, bob, 2) @@ Anyone("login", bob, 1)
                 @@ Own("setup", bob, 1) @@ Own("confirm", bob, 1),
     accounts |-> [u \in Users |-> IF u = ann THEN Row("admin", 1) ELSE Row("accountant", 0)],
     factor |-> [u \in Users |-> IF u = ann THEN On(1) ELSE NoFactor],
     tokens |-> {Session(ann, 1)}]

AllScenarios == {Guessing, Forgetting, Joining, Enrollment, UsingCodes, Overtaking}

OnlyOvertaking == {Overtaking}

Symmetry == Permutations(Requests)
=============================================================================
