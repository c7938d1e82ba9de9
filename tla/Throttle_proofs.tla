--------------------------- MODULE Throttle_proofs ---------------------------
(***************************************************************************)
(* The limits on attempts hold whatever the callers do: every operation of *)
(* Throttle keeps ThrottleInv, for any limits, windows and number of       *)
(* requests.  SecondFactor_proofs composes these lemmas.                   *)
(***************************************************************************)
EXTENDS Throttle, FiniteSetTheorems, TLAPS

-----------------------------------------------------------------------------
(***************************************************************************)
(* The inductive invariant.  A transaction that holds the lock of a key    *)
(* would keep every window of that key within the limit if it committed    *)
(* now: nobody else can add to the key meanwhile.                          *)
(***************************************************************************)

\* The rows of a window, as InWindow has them
Win(rows, k, t) == {a \in rows : a.key = k /\ t - Window < a.at /\ a.at <= t}

CountsAreFinite == IsFiniteSet(attempts) /\ \A r \in Requests : IsFiniteSet(counting[r].rows)

LocksAreExclusive ==
    \A q, r \in Requests : q # r => counting[q].held \cap counting[r].held = {}

RowsAreLocked == \A r \in Requests : \A a \in counting[r].rows : a.key \in counting[r].held

CommitWouldKeepLimits ==
    \A r \in Requests : \A k \in counting[r].held, t \in Times :
        Cardinality(Win(attempts \cup counting[r].rows, k, t)) <= LimitOf[k]

ThrottleInv ==
    /\ ThrottleTypeOK
    /\ CountsAreFinite
    /\ LocksAreExclusive
    /\ RowsAreLocked
    /\ AttemptsWithinLimit
    /\ CommitWouldKeepLimits

-----------------------------------------------------------------------------
\* Fewer rows, fewer in a window.
LEMMA SmallerWindow ==
    ASSUME NEW S, NEW T, IsFiniteSet(T), NEW k, NEW t, S \subseteq T,
           NEW n \in Nat, Cardinality(Win(T, k, t)) <= n
    PROVE  Cardinality(Win(S, k, t)) <= n
<1>1. IsFiniteSet(Win(T, k, t))
  BY FS_Subset DEF Win
<1>2. Win(S, k, t) \subseteq Win(T, k, t)
  BY DEF Win
<1>3. /\ IsFiniteSet(Win(S, k, t))
      /\ Cardinality(Win(S, k, t)) <= Cardinality(Win(T, k, t))
  BY <1>1, <1>2, FS_Subset
<1>4. Cardinality(Win(S, k, t)) \in Nat /\ Cardinality(Win(T, k, t)) \in Nat
  BY <1>1, <1>3, FS_CardinalityType
<1> QED
  BY <1>3, <1>4

LEMMA LimitIsNatural == \A k \in Keys : LimitOf[k] \in Nat /\ LimitOf[k] > 0
BY LimitsAssumption

\* What a request that hits no key yet has.
LEMMA NotCountingFacts ==
    /\ NotCounting \in Counting
    /\ NotCounting.held = {} /\ NotCounting.rows = {} /\ NotCounting.todo = <<>>
    /\ NotCounting.purged = {} /\ NotCounting.refused = FALSE
BY TimeAssumption DEF NotCounting, Counting, Times

\* Request r goes on to count c, which keeps its keys within their limits.
LEMMA CountingStep ==
    ASSUME ThrottleInv, NEW r \in Requests, NEW c \in Counting,
           counting' = [counting EXCEPT ![r] = c], attempts' = attempts, now' \in Times,
           IsFiniteSet(c.rows),
           \A a \in c.rows : a.key \in c.held,
           \A q \in Requests \ {r} : c.held \cap counting[q].held = {},
           \A k \in c.held, t \in Times : Cardinality(Win(attempts \cup c.rows, k, t)) <= LimitOf[k]
    PROVE  ThrottleInv'
<1>1. /\ attempts \subseteq Attempt /\ counting \in [Requests -> Counting]
  BY DEF ThrottleInv, ThrottleTypeOK
<1>2. counting'[r] = c /\ \A q \in Requests \ {r} : counting'[q] = counting[q]
  BY <1>1
<1>3. ThrottleTypeOK'
  BY <1>1 DEF ThrottleTypeOK
<1>4. CountsAreFinite'
  BY <1>2 DEF ThrottleInv, CountsAreFinite
<1>5. LocksAreExclusive'
  BY <1>2 DEF ThrottleInv, LocksAreExclusive
<1>6. RowsAreLocked'
  BY <1>2 DEF ThrottleInv, RowsAreLocked
<1>7. AttemptsWithinLimit'
  BY DEF ThrottleInv, AttemptsWithinLimit, InWindow
<1>8. CommitWouldKeepLimits'
  BY <1>2 DEF ThrottleInv, CommitWouldKeepLimits
<1> QED
  BY <1>3, <1>4, <1>5, <1>6, <1>7, <1>8 DEF ThrottleInv

\* A request that holds nothing and has inserted nothing endangers no limit.
LEMMA EmptyCount ==
    ASSUME ThrottleInv, NEW r \in Requests, NEW c \in Counting, c.held = {}, c.rows = {},
           counting' = [counting EXCEPT ![r] = c], attempts' = attempts, now' \in Times
    PROVE  ThrottleInv'
<1>1. IsFiniteSet(c.rows)
  BY FS_EmptySet
<1> QED
  BY <1>1, CountingStep

\* A handler opens a transaction that hits these keys.
LEMMA CountFirstKeeps ==
    ASSUME ThrottleInv, NEW r \in Requests, NEW keys \in Seq(Keys), CountFirst(r, keys),
           UNCHANGED <<now, attempts>>
    PROVE  ThrottleInv'
<1> DEFINE c == [NotCounting EXCEPT !.todo = keys, !.since = now]
<1>1. now \in Times
  BY DEF ThrottleInv, ThrottleTypeOK
<1>2. c \in Counting /\ c.held = {} /\ c.rows = {}
  BY <1>1 DEF Counting, NotCounting
<1>3. counting' = [counting EXCEPT ![r] = c]
  BY DEF CountFirst
<1> HIDE DEF c
<1> QED
  BY <1>1, <1>2, <1>3, EmptyCount

\* The transaction of r is rolled back.
LEMMA RollBackKeeps ==
    ASSUME ThrottleInv, NEW r \in Requests, CountRollsBack(r), now' = now
    PROVE  ThrottleInv'
<1>1. now' \in Times
  BY DEF ThrottleInv, ThrottleTypeOK
<1> QED
  BY <1>1, NotCountingFacts, EmptyCount DEF CountRollsBack

\* A lock is taken when nobody has it: the rows of its key are the committed
\* ones, which are within the limit.
LEMMA TakeLockKeeps ==
    ASSUME ThrottleInv, NEW r \in Requests, TakeLock(r)
    PROVE  ThrottleInv'
<1> DEFINE k == Head(counting[r].todo)
           c == [counting[r] EXCEPT !.held = counting[r].held \cup {k}]
<1>1. /\ counting[r] \in Counting /\ counting \in [Requests -> Counting] /\ now \in Times
      /\ attempts \subseteq Attempt
  BY DEF ThrottleInv, ThrottleTypeOK
<1>2. /\ counting[r].todo # <<>> /\ LockIsFree(k) /\ UNCHANGED <<now, attempts>>
      /\ counting' = [counting EXCEPT ![r] = c]
  BY <1>1 DEF TakeLock, NeedsLock
<1>3. k \in Keys
  BY <1>1, <1>2 DEF Counting
<1>4. c \in Counting /\ c.held = counting[r].held \cup {k} /\ c.rows = counting[r].rows
  BY <1>1, <1>3 DEF Counting
<1> HIDE DEF c, k
<1>5. IsFiniteSet(c.rows) /\ IsFiniteSet(attempts)
  BY <1>4 DEF ThrottleInv, CountsAreFinite
<1>6. \A a \in c.rows : a.key \in counting[r].held
  BY <1>4 DEF ThrottleInv, RowsAreLocked
<1>7. \A q \in Requests : k \notin counting[q].held
  BY <1>2 DEF LockIsFree
<1>8. \A q \in Requests \ {r} : c.held \cap counting[q].held = {}
  BY <1>4, <1>7 DEF ThrottleInv, LocksAreExclusive
<1>9. ASSUME NEW j \in c.held, NEW t \in Times
      PROVE  Cardinality(Win(attempts \cup c.rows, j, t)) <= LimitOf[j]
  <2>1. CASE j \in counting[r].held
    BY <1>4, <2>1 DEF ThrottleInv, CommitWouldKeepLimits
  <2>2. CASE j = k
    <3>1. Win(attempts \cup c.rows, k, t) = InWindow(k, t)
      BY <1>6, <1>7 DEF Win, InWindow
    <3> QED
      BY <1>3, <2>2, <3>1 DEF ThrottleInv, AttemptsWithinLimit
  <2> QED
    BY <1>4, <2>1, <2>2
<1> QED
  BY <1>1, <1>2, <1>4, <1>5, <1>6, <1>8, <1>9, CountingStep

\* A hit that is allowed: what it counted is all that its own window holds.
LEMMA NewRowWithinLimit ==
    ASSUME ThrottleInv, NEW r \in Requests, NEW k \in counting[r].held, NEW row \in Attempt,
           row.key = k, row.at = counting[r].since,
           Cardinality(Recent(r, k)) < LimitOf[k],
           NEW t \in Times
    PROVE  Cardinality(Win(attempts \cup (counting[r].rows \cup {row}), k, t)) <= LimitOf[k]
<1> DEFINE since == counting[r].since
           seen == attempts \cup counting[r].rows
           all == attempts \cup (counting[r].rows \cup {row})
<1>1. /\ counting[r] \in Counting /\ attempts \subseteq Attempt /\ k \in Keys /\ since \in Int
      /\ Window \in Nat /\ t \in Int
  BY WindowAssumption DEF ThrottleInv, ThrottleTypeOK, Counting, Times
<1>2. IsFiniteSet(seen)
  BY FS_Union DEF ThrottleInv, CountsAreFinite
<1>3. LimitOf[k] \in Nat
  BY <1>1, LimitIsNatural
<1>4. IsFiniteSet(Recent(r, k)) /\ Cardinality(Recent(r, k)) \in Nat
  <2>1. Recent(r, k) \subseteq seen
    BY DEF Recent
  <2> QED
    BY <1>2, <2>1, FS_Subset, FS_CardinalityType
<1>5. CASE since <= t /\ t - Window < since
  <2>1. Win(all, k, t) \subseteq Recent(r, k) \cup {row}
    <3> SUFFICES ASSUME NEW a \in Win(all, k, t), a # row
                 PROVE  a \in Recent(r, k)
      OBVIOUS
    <3>1. a \in seen /\ a.key = k /\ t - Window < a.at
      BY DEF Win
    <3>2. a.at \in Int
      BY <1>1, <3>1 DEF Attempt, Counting, Times
    <3>3. since - Window < a.at
      BY <1>1, <1>5, <3>1, <3>2
    <3> QED
      BY <1>1, <3>1, <3>2, <3>3 DEF Recent
  <2>2. /\ IsFiniteSet(Recent(r, k) \cup {row})
        /\ Cardinality(Recent(r, k) \cup {row}) <= Cardinality(Recent(r, k)) + 1
    <3>1. /\ IsFiniteSet(Recent(r, k) \cup {row})
          /\ row \in Recent(r, k) => Recent(r, k) \cup {row} = Recent(r, k)
          /\ row \notin Recent(r, k) => Cardinality(Recent(r, k) \cup {row}) = Cardinality(Recent(r, k)) + 1
      BY <1>4, FS_AddElement
    <3> QED
      BY <1>4, <3>1
  <2>3. /\ IsFiniteSet(Win(all, k, t))
        /\ Cardinality(Win(all, k, t)) <= Cardinality(Recent(r, k) \cup {row})
    BY <2>1, <2>2, FS_Subset
  <2>4. Cardinality(Win(all, k, t)) \in Nat /\ Cardinality(Recent(r, k) \cup {row}) \in Nat
    BY <2>2, <2>3, FS_CardinalityType
  <2> QED
    BY <1>3, <1>4, <2>2, <2>3, <2>4
<1>6. CASE ~ (since <= t /\ t - Window < since)
  <2>1. Win(all, k, t) = Win(seen, k, t)
    BY <1>6 DEF Win
  <2> QED
    BY <2>1 DEF ThrottleInv, CommitWouldKeepLimits
<1> QED
  BY <1>5, <1>6

\* auth_throttle_hit() keeps every limit.
LEMMA HitKeeps ==
    ASSUME ThrottleInv, NEW r \in Requests, Hit(r)
    PROVE  ThrottleInv'
<1> DEFINE c == counting[r]
           k == Head(c.todo)
<1>1. /\ c \in Counting /\ counting \in [Requests -> Counting] /\ now \in Times
      /\ attempts \subseteq Attempt
  BY DEF ThrottleInv, ThrottleTypeOK
<1>2. c.todo # <<>> /\ k \in c.held /\ UNCHANGED <<now, attempts>>
  BY DEF Hit
<1>3. k \in Keys /\ Tail(c.todo) \in Seq(Keys) /\ OldRows(r) \subseteq Attempt
  BY <1>1, <1>2 DEF Counting, OldRows
<1>4. /\ IsFiniteSet(c.rows) /\ \A a \in c.rows : a.key \in c.held
      /\ \A q \in Requests \ {r} : c.held \cap counting[q].held = {}
      /\ \A j \in c.held, t \in Times : Cardinality(Win(attempts \cup c.rows, j, t)) <= LimitOf[j]
  BY DEF ThrottleInv, CountsAreFinite, RowsAreLocked, LocksAreExclusive, CommitWouldKeepLimits
<1>5. CASE Cardinality(Recent(r, k)) >= LimitOf[k]
  <2> DEFINE d == [c EXCEPT !.todo = <<>>, !.purged = c.purged \cup OldRows(r), !.refused = TRUE]
  <2>1. counting' = [counting EXCEPT ![r] = d]
    BY <1>1, <1>5 DEF Hit
  <2>2. d \in Counting /\ d.held = c.held /\ d.rows = c.rows
    <3>1. <<>> \in Seq(Keys) /\ c.purged \cup OldRows(r) \subseteq Attempt
      BY <1>1, <1>3 DEF Counting
    <3> QED
      BY <1>1, <3>1 DEF Counting
  <2> HIDE DEF d
  <2> QED
    BY <1>1, <1>2, <1>4, <2>1, <2>2, CountingStep
<1>6. CASE ~ (Cardinality(Recent(r, k)) >= LimitOf[k])
  <2>1. PICK id \in AttemptIds :
          counting' = [counting EXCEPT ![r] =
             [c EXCEPT !.todo = Tail(c.todo), !.purged = c.purged \cup OldRows(r),
                       !.rows = c.rows \cup {[key |-> k, at |-> c.since, id |-> id]}]]
    BY <1>1, <1>6 DEF Hit
  <2> DEFINE row == [key |-> k, at |-> c.since, id |-> id]
             d == [c EXCEPT !.todo = Tail(c.todo), !.purged = c.purged \cup OldRows(r),
                            !.rows = c.rows \cup {row}]
  <2>2. row \in Attempt /\ row.key = k /\ row.at = c.since
    BY <1>1, <1>3 DEF Attempt, Counting
  <2>3. d \in Counting /\ d.held = c.held /\ d.rows = c.rows \cup {row}
    BY <1>1, <1>3, <2>2 DEF Counting
  <2>4. counting' = [counting EXCEPT ![r] = d]
    BY <2>1
  <2> HIDE DEF d, row
  <2>5. IsFiniteSet(d.rows)
    BY <1>4, <2>3, FS_AddElement
  <2>6. \A a \in d.rows : a.key \in d.held
    BY <1>2, <1>4, <2>2, <2>3
  <2>7. Cardinality(Recent(r, k)) < LimitOf[k]
    <3>1. IsFiniteSet(Recent(r, k))
      <4>1. Recent(r, k) \subseteq attempts \cup c.rows /\ IsFiniteSet(attempts \cup c.rows)
        BY <1>4, FS_Union DEF Recent, ThrottleInv, CountsAreFinite
      <4> QED
        BY <4>1, FS_Subset
    <3>2. Cardinality(Recent(r, k)) \in Nat /\ LimitOf[k] \in Nat
      BY <1>3, <3>1, FS_CardinalityType, LimitIsNatural
    <3> QED
      BY <1>6, <3>2
  <2>8. ASSUME NEW j \in d.held, NEW t \in Times
        PROVE  Cardinality(Win(attempts \cup d.rows, j, t)) <= LimitOf[j]
    <3>1. CASE j = k
      BY <1>2, <2>2, <2>3, <2>7, <3>1, NewRowWithinLimit
    <3>2. CASE j # k
      <4>1. Win(attempts \cup d.rows, j, t) = Win(attempts \cup c.rows, j, t)
        BY <2>2, <2>3, <3>2 DEF Win
      <4> QED
        BY <1>4, <2>3, <4>1
    <3> QED
      BY <3>1, <3>2
  <2> QED
    BY <1>1, <1>2, <1>4, <2>3, <2>4, <2>5, <2>6, <2>8, CountingStep
<1> QED
  BY <1>5, <1>6

\* The commit of r adds rows of keys that only r holds.
LEMMA CommitKeeps ==
    ASSUME ThrottleInv, NEW r \in Requests, CountCommits(r), now' = now
    PROVE  ThrottleInv'
<1> DEFINE c == counting[r]
<1>1. /\ c \in Counting /\ counting \in [Requests -> Counting] /\ now \in Times
      /\ attempts \subseteq Attempt
  BY DEF ThrottleInv, ThrottleTypeOK
<1>2. /\ attempts' = (attempts \ c.purged) \cup c.rows
      /\ counting' = [counting EXCEPT ![r] = NotCounting]
  BY DEF CountCommits
<1>3. counting'[r] = NotCounting /\ \A q \in Requests \ {r} : counting'[q] = counting[q]
  BY <1>1, <1>2
<1>4. IsFiniteSet(attempts) /\ IsFiniteSet(attempts \cup c.rows)
  BY FS_Union DEF ThrottleInv, CountsAreFinite
<1>5. attempts' \subseteq attempts \cup c.rows /\ IsFiniteSet(attempts')
  BY <1>2, <1>4, FS_Subset
<1>6. ThrottleTypeOK'
  BY <1>1, <1>2, NotCountingFacts DEF ThrottleTypeOK, Counting
<1>7. CountsAreFinite'
  BY <1>3, <1>5, NotCountingFacts, FS_EmptySet DEF ThrottleInv, CountsAreFinite
<1>8. LocksAreExclusive' /\ RowsAreLocked'
  BY <1>3, NotCountingFacts DEF ThrottleInv, LocksAreExclusive, RowsAreLocked
<1>9. \A k \in Keys \ c.held : {a \in c.rows : a.key = k} = {}
  BY DEF ThrottleInv, RowsAreLocked
<1>10. ASSUME NEW k \in Keys, NEW t \in Times PROVE Cardinality(Win(attempts', k, t)) <= LimitOf[k]
  <2>1. LimitOf[k] \in Nat
    BY LimitIsNatural
  <2>2. CASE k \in c.held
    <3>1. Cardinality(Win(attempts \cup c.rows, k, t)) <= LimitOf[k]
      BY <2>2 DEF ThrottleInv, CommitWouldKeepLimits
    <3> QED
      BY <1>4, <1>5, <2>1, <3>1, SmallerWindow
  <2>3. CASE k \notin c.held
    <3>1. Cardinality(Win(attempts, k, t)) <= LimitOf[k]
      BY DEF ThrottleInv, AttemptsWithinLimit, InWindow, Win
    <3>2. Win(attempts \cup c.rows, k, t) = Win(attempts, k, t)
      BY <1>9, <2>3 DEF Win
    <3> QED
      BY <1>4, <1>5, <2>1, <3>1, <3>2, SmallerWindow
  <2> QED
    BY <2>2, <2>3
<1>11. AttemptsWithinLimit'
  BY <1>10 DEF AttemptsWithinLimit, InWindow, Win
<1>12. CommitWouldKeepLimits'
  <2> SUFFICES ASSUME NEW q \in Requests, NEW k \in counting'[q].held, NEW t \in Times
               PROVE  Cardinality(Win(attempts' \cup counting'[q].rows, k, t)) <= LimitOf[k]
    BY DEF CommitWouldKeepLimits, Win
  <2>1. q # r /\ counting'[q] = counting[q] /\ k \in counting[q].held
    BY <1>3, NotCountingFacts
  <2>2. k \in Keys \ c.held
    BY <1>1, <2>1 DEF ThrottleInv, LocksAreExclusive, Counting
  <2>3. Cardinality(Win(attempts \cup counting[q].rows, k, t)) <= LimitOf[k]
    BY <2>1 DEF ThrottleInv, CommitWouldKeepLimits
  <2>4. Win(attempts' \cup counting[q].rows, k, t) \subseteq Win(attempts \cup counting[q].rows, k, t)
    BY <1>2, <1>9, <2>2 DEF Win
  <2>5. IsFiniteSet(Win(attempts \cup counting[q].rows, k, t))
    <3>1. IsFiniteSet(attempts \cup counting[q].rows)
      BY <1>4, FS_Union DEF ThrottleInv, CountsAreFinite
    <3> QED
      BY <3>1, FS_Subset DEF Win
  <2>6. /\ IsFiniteSet(Win(attempts' \cup counting[q].rows, k, t))
        /\ Cardinality(Win(attempts' \cup counting[q].rows, k, t))
              <= Cardinality(Win(attempts \cup counting[q].rows, k, t))
    BY <2>4, <2>5, FS_Subset
  <2>7. /\ Cardinality(Win(attempts' \cup counting[q].rows, k, t)) \in Nat
        /\ Cardinality(Win(attempts \cup counting[q].rows, k, t)) \in Nat
        /\ LimitOf[k] \in Nat
    BY <2>2, <2>5, <2>6, FS_CardinalityType, LimitIsNatural
  <2> QED
    BY <2>1, <2>3, <2>6, <2>7
<1> QED
  BY <1>6, <1>7, <1>8, <1>11, <1>12 DEF ThrottleInv

\* What a success gives back, or a clearing takes away, endangers no limit.
LEMMA PardonKeeps ==
    ASSUME ThrottleInv, NEW rows, NEW keys, Pardon(rows, keys), UNCHANGED <<now, counting>>
    PROVE  ThrottleInv'
<1>1. attempts' \subseteq attempts
  BY DEF Pardon
<1>2. IsFiniteSet(attempts) /\ IsFiniteSet(attempts')
  BY <1>1, FS_Subset DEF ThrottleInv, CountsAreFinite
<1>3. ThrottleTypeOK' /\ CountsAreFinite' /\ LocksAreExclusive' /\ RowsAreLocked'
  BY <1>1, <1>2 DEF ThrottleInv, ThrottleTypeOK, CountsAreFinite, LocksAreExclusive, RowsAreLocked
<1>4. AttemptsWithinLimit'
  <2> SUFFICES ASSUME NEW k \in Keys, NEW t \in Times PROVE Cardinality(Win(attempts', k, t)) <= LimitOf[k]
    BY DEF AttemptsWithinLimit, InWindow, Win
  <2>1. Cardinality(Win(attempts, k, t)) <= LimitOf[k]
    BY DEF ThrottleInv, AttemptsWithinLimit, InWindow, Win
  <2> QED
    BY <1>1, <1>2, <2>1, SmallerWindow, LimitIsNatural
<1>5. CommitWouldKeepLimits'
  <2> SUFFICES ASSUME NEW r \in Requests, NEW k \in counting[r].held, NEW t \in Times
               PROVE  Cardinality(Win(attempts' \cup counting[r].rows, k, t)) <= LimitOf[k]
    BY DEF CommitWouldKeepLimits, Win
  <2>1. Cardinality(Win(attempts \cup counting[r].rows, k, t)) <= LimitOf[k] /\ k \in Keys
    BY DEF ThrottleInv, ThrottleTypeOK, Counting, CommitWouldKeepLimits
  <2>2. IsFiniteSet(attempts \cup counting[r].rows)
    BY <1>2, FS_Union DEF ThrottleInv, CountsAreFinite
  <2>3. attempts' \cup counting[r].rows \subseteq attempts \cup counting[r].rows
    BY <1>1
  <2> QED
    BY <2>1, <2>2, <2>3, SmallerWindow, LimitIsNatural
<1> QED
  BY <1>3, <1>4, <1>5 DEF ThrottleInv

\* The clock, and steps that count nothing
LEMMA ClockKeeps ==
    ASSUME ThrottleInv, now' \in Times, UNCHANGED <<attempts, counting>>
    PROVE  ThrottleInv'
BY DEF ThrottleInv, ThrottleTypeOK, CountsAreFinite, LocksAreExclusive, RowsAreLocked,
       AttemptsWithinLimit, InWindow, CommitWouldKeepLimits, Win

LEMMA ThrottleStarts == ThrottleInit => ThrottleInv
<1> SUFFICES ASSUME ThrottleInit PROVE ThrottleInv
  OBVIOUS
<1>1. attempts = {} /\ counting = [r \in Requests |-> NotCounting] /\ now = 0
  BY DEF ThrottleInit
<1>2. ThrottleTypeOK
  BY <1>1, NotCountingFacts, TimeAssumption DEF ThrottleTypeOK, Times
<1>3. CountsAreFinite /\ LocksAreExclusive /\ RowsAreLocked /\ CommitWouldKeepLimits
  BY <1>1, NotCountingFacts, FS_EmptySet
     DEF CountsAreFinite, LocksAreExclusive, RowsAreLocked, CommitWouldKeepLimits
<1>4. AttemptsWithinLimit
  <2> SUFFICES ASSUME NEW k \in Keys, NEW t \in Times PROVE Cardinality(InWindow(k, t)) <= LimitOf[k]
    BY DEF AttemptsWithinLimit
  <2>1. InWindow(k, t) = {}
    BY <1>1 DEF InWindow
  <2> QED
    BY <2>1, FS_EmptySet, LimitIsNatural
<1> QED
  BY <1>2, <1>3, <1>4 DEF ThrottleInv
=============================================================================
