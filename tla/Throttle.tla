------------------------------ MODULE Throttle ------------------------------
(***************************************************************************)
(* The limits on attempts: the table `auth_attempts` and the SECURITY      *)
(* DEFINER functions auth_throttle_hit(), _forget() and _clear() that      *)
(* services/throttle.py calls.                                             *)
(*                                                                         *)
(* A hit runs inside the caller's transaction.  It takes an advisory lock  *)
(* on the bucket and key, kept until that transaction ends, then purges    *)
(* the rows older than a day, counts those in the window and inserts one.  *)
(* Rows inserted and purged are seen by others after the commit.  now() in *)
(* PostgreSQL is the start of the transaction, however long it has waited. *)
(***************************************************************************)
EXTENDS Integers, Sequences, FiniteSets, FiniteSetsExt

CONSTANTS
    Requests,   \* requests the server may be serving at a time
    Keys,       \* what is limited: a bucket and whose attempts it counts
    LimitOf,    \* attempts allowed in a window, for each key
    Window,     \* length of the window of every limit, in ticks
    Day,        \* age, in ticks, past which no row is needed
    AttemptIds, \* tells a key's attempts apart
    MaxTime     \* bound: last tick explored

Times == 0 .. MaxTime

ASSUME LimitsAssumption == LimitOf \in [Keys -> Nat \ {0}]
ASSUME WindowAssumption == Window \in Nat \ {0} /\ Day \in Nat /\ Window <= Day
ASSUME TimeAssumption == MaxTime \in Nat /\ AttemptIds \subseteq Nat \ {0}

VARIABLES
    now,      \* the database's clock
    attempts, \* committed rows of auth_attempts
    counting  \* what each request's open transaction has done to them

throttleVars == <<now, attempts, counting>>

Attempt == [key : Keys, at : Times, id : AttemptIds]

\* A transaction that counts nothing.
NotCounting ==
    [todo |-> <<>>, held |-> {}, rows |-> {}, purged |-> {}, since |-> 0, refused |-> FALSE]

Counting ==
    [todo : Seq(Keys),            \* hits the handler has still to make
     held : SUBSET Keys,          \* advisory locks
     rows : SUBSET Attempt,       \* inserted, not committed
     purged : SUBSET Attempt,     \* deleted, not committed
     since : Times,               \* now() in this transaction
     refused : BOOLEAN]           \* a hit found its key at the limit

ThrottleTypeOK ==
    /\ now \in Times
    /\ attempts \subseteq Attempt
    /\ counting \in [Requests -> Counting]

ThrottleInit ==
    /\ now = 0
    /\ attempts = {}
    /\ counting = [r \in Requests |-> NotCounting]

-----------------------------------------------------------------------------
\* The handler of r opens a transaction that hits these keys, in this order.
CountFirst(r, keys) ==
    counting' = [counting EXCEPT ![r] = [NotCounting EXCEPT !.todo = keys, !.since = now]]

NeedsLock(r) ==
    counting[r].todo # <<>> /\ Head(counting[r].todo) \notin counting[r].held

LockIsFree(k) == \A q \in Requests : k \notin counting[q].held

\* Mutant: the lock is not taken.
TakeNoLock(r) ==
    /\ NeedsLock(r)
    /\ counting' = [counting EXCEPT ![r].held = @ \cup {Head(counting[r].todo)}]
    /\ UNCHANGED <<now, attempts>>

\* pg_advisory_xact_lock
TakeLock(r) ==
    /\ NeedsLock(r)
    /\ LockIsFree(Head(counting[r].todo))
    /\ counting' = [counting EXCEPT ![r].held = @ \cup {Head(counting[r].todo)}]
    /\ UNCHANGED <<now, attempts>>

\* The rows this transaction would purge.
OldRows(r) == {a \in attempts : a.at < counting[r].since - Day}

\* The rows that count against key k, as r sees them.
Recent(r, k) ==
    {a \in attempts \cup counting[r].rows : a.key = k /\ a.at > counting[r].since - Window}

IsFreshAttempt(k, id) ==
    LET rows == attempts \cup UNION {counting[q].rows : q \in Requests}
        taken == {a.id : a \in {b \in rows : b.key = k}}
    IN  id \notin taken /\ \A j \in AttemptIds : j < id => j \in taken

\* The part of auth_throttle_hit() after the lock.  A row another transaction
\* has purged, and not committed, is locked.
Hit(r) ==
    LET c == counting[r]
        k == Head(c.todo)
    IN  /\ c.todo # <<>>
        /\ k \in c.held
        /\ \A q \in Requests \ {r} : OldRows(r) \cap counting[q].purged = {}
        /\ IF Cardinality(Recent(r, k)) >= LimitOf[k]
           THEN counting' = [counting EXCEPT ![r] =
                    [c EXCEPT !.todo = <<>>, !.purged = @ \cup OldRows(r), !.refused = TRUE]]
           ELSE \E id \in AttemptIds :
                  /\ IsFreshAttempt(k, id)
                  /\ counting' = [counting EXCEPT ![r] =
                       [c EXCEPT !.todo = Tail(@), !.purged = @ \cup OldRows(r),
                                 !.rows = @ \cup {[key |-> k, at |-> c.since, id |-> id]}]]
        /\ UNCHANGED <<now, attempts>>

\* The transaction of r commits: its rows are seen and its locks are free.
CountCommits(r) ==
    /\ attempts' = (attempts \ counting[r].purged) \cup counting[r].rows
    /\ counting' = [counting EXCEPT ![r] = NotCounting]

CountRollsBack(r) ==
    /\ counting' = [counting EXCEPT ![r] = NotCounting]
    /\ UNCHANGED attempts

\* auth_throttle_forget() of one row and auth_throttle_clear() of one key
Pardon(rows, keys) ==
    attempts' = {a \in attempts \ rows : a.key \notin keys}

WaitsForLock(r, q) == NeedsLock(r) /\ Head(counting[r].todo) \in counting[q].held

WaitsForRows(r, q) ==
    /\ counting[r].todo # <<>> /\ ~ NeedsLock(r)
    /\ OldRows(r) \cap counting[q].purged # {}

WaitsFor(r, q) == WaitsForLock(r, q) \/ WaitsForRows(r, q)

\* A sign-in that has purged old rows waits for the lock of an account whose
\* password change holds that lock and waits for the rows.
Deadlocked(r) == \E q \in Requests \ {r} : WaitsFor(r, q) /\ WaitsFor(q, r)

Tick ==
    /\ now < MaxTime
    /\ now' = now + 1
    /\ UNCHANGED <<attempts, counting>>

-----------------------------------------------------------------------------
InWindow(k, t) == {a \in attempts : a.key = k /\ t - Window < a.at /\ a.at <= t}

\* In no window are more attempts recorded than the limit allows, however
\* many requests hit the key at once and however long they waited for its lock
\* (login: "parallel guesses cannot all slip under a limit").
AttemptsWithinLimit ==
    \A k \in Keys, t \in Times : Cardinality(InWindow(k, t)) <= LimitOf[k]
=============================================================================
