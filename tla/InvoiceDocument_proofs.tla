------------------------ MODULE InvoiceDocument_proofs ------------------------
(***************************************************************************)
(* Theorems about InvoiceDocument: an amount in words, read back by        *)
(* someone who knows numbers, is the amount, in each language and          *)
(* currency; and the figures of a document add up, whatever its lines.     *)
(***************************************************************************)
EXTENDS InvoiceDocument, SequenceTheorems, FiniteSetTheorems, WellFoundedInduction, TLAPS

-----------------------------------------------------------------------------
(***************************************************************************)
(* What a listener has understood after some words.                        *)
(***************************************************************************)

\* Every set of numbers has a smallest one.
LEMMA Smallest ==
    ASSUME NEW T, T \subseteq Nat, T # {}
    PROVE  \E m \in T : \A x \in T : m <= x
<1>1. IsWellFoundedOn({p \in Nat \X Nat : p[1] < p[2]}, Nat)
  BY NatLessThanWellFounded DEF OpToRel
<1>2. \E m \in T : \A x \in T : ~ (<<x, m>> \in {p \in Nat \X Nat : p[1] < p[2]})
  BY <1>1, WFMin
<1>3. PICK m \in T : \A x \in T : ~ (<<x, m>> \in {p \in Nat \X Nat : p[1] < p[2]})
  BY <1>2
<1>4. ASSUME NEW x \in T PROVE m <= x
  <2>1. <<x, m>> \in Nat \X Nat
    OBVIOUS
  <2>2. ~ (x < m)
    BY <1>3, <2>1
  <2> QED
    BY <2>2
<1> QED
  BY <1>4

\* What holds of 0, and of each number's successor up to n, holds up to n.
LEMMA Climb ==
    ASSUME NEW n \in Nat, NEW T, 0 \in T, \A k \in 0 .. n - 1 : k \in T => k + 1 \in T
    PROVE  \A k \in 0 .. n : k \in T
<1> DEFINE Missing == {k \in 0 .. n : k \notin T}
<1>1. Missing \subseteq Nat /\ 0 \notin Missing
  OBVIOUS
<1>2. SUFFICES ASSUME Missing # {} PROVE FALSE
  OBVIOUS
<1>3. PICK m \in Missing : \A x \in Missing : m <= x
  BY <1>1, <1>2, Smallest
<1>4. m \in 1 .. n
  BY <1>1
<1>5. m - 1 \in 0 .. n - 1 /\ m - 1 \notin Missing
  BY <1>3, <1>4
<1>6. (m - 1) + 1 = m
  BY <1>4
<1> QED
  BY <1>5, <1>6

\* A set of positions has a last one.
LEMMA LastPosition ==
    ASSUME NEW n \in Nat, NEW T \in SUBSET (1 .. n), T # {}
    PROVE  Max(T) \in T /\ \A x \in T : x <= Max(T)
<1> DEFINE Left == {n - x : x \in T}
<1>1. Left \subseteq Nat /\ Left # {}
  <2>1. \A x \in T : n - x \in Nat
    OBVIOUS
  <2> QED
    BY <2>1
<1>2. PICK m \in Left : \A y \in Left : m <= y
  BY <1>1, Smallest
<1>3. PICK x \in T : m = n - x
  BY <1>2
<1>4. ASSUME NEW y \in T PROVE x >= y
  <2>1. n - x <= n - y
    BY <1>2, <1>3
  <2> QED
    BY <2>1
<1>5. \E z \in T : \A y \in T : z >= y
  BY <1>4
<1>6. Max(T) \in T /\ \A y \in T : Max(T) >= y
  BY <1>5 DEF Max
<1> QED
  BY <1>6

\* The table of what is understood after the words at each set of positions.
Heard(start, words, table, s) ==
    IF s = {} THEN start ELSE Hear(table[s \ {Max(s)}], words[Max(s)])

IsTable(table, start, words) ==
    table = [s \in SUBSET DOMAIN words |-> Heard(start, words, table, s)]

\* There is one: if it is right on the sets of the first k positions, one more
\* turn of the definition makes it right on those of the first k + 1.
LEMMA TableExists ==
    ASSUME NEW W, NEW words \in Seq(W), NEW start
    PROVE  \E table : IsTable(table, start, words)
<1> DEFINE n == Len(words)
           Good(table, k) ==
               /\ table = [s \in SUBSET (1 .. n) |-> table[s]]
               /\ \A s \in SUBSET (1 .. k) : table[s] = Heard(start, words, table, s)
           T == {k \in 0 .. n : \E table : Good(table, k)}
<1>1. n \in Nat /\ DOMAIN words = 1 .. n
  OBVIOUS
<1>2. 0 \in T
  <2> DEFINE table == [s \in SUBSET (1 .. n) |-> start]
  <2>1. Good(table, 0)
    BY DEF Heard
  <2>2. \E t : Good(t, 0)
    BY <2>1
  <2>3. 0 \in 0 .. n
    BY <1>1
  <2> HIDE DEF Good
  <2> QED
    BY <2>2, <2>3
<1>3. ASSUME NEW k \in 0 .. n - 1, NEW table, Good(table, k) PROVE \E next : Good(next, k + 1)
  <2> DEFINE next == [s \in SUBSET (1 .. n) |-> Heard(start, words, table, s)]
  <2>1. ASSUME NEW s \in SUBSET (1 .. k + 1) PROVE next[s] = Heard(start, words, next, s)
    <3>1. CASE s = {}
      BY <3>1 DEF Heard
    <3>2. CASE s # {}
      <4> DEFINE rest == s \ {Max(s)}
      <4>1. rest \in SUBSET (1 .. k)
        <5>1. Max(s) \in s /\ \A x \in s : x <= Max(s)
          BY <1>1, <1>3, <3>2, LastPosition
        <5> QED
          BY <1>1, <1>3, <5>1
      <4>2. rest \in SUBSET (1 .. n) /\ s \in SUBSET (1 .. n)
        BY <1>1, <1>3
      <4>3. next[rest] = table[rest]
        BY <1>3, <4>1, <4>2
      <4>4. next[s] = Hear(table[rest], words[Max(s)])
        BY <3>2, <4>2 DEF Heard
      <4> QED
        BY <3>2, <4>3, <4>4 DEF Heard
    <3> QED
      BY <3>1, <3>2
  <2>2. next = [s \in SUBSET (1 .. n) |-> next[s]]
    OBVIOUS
  <2> QED
    BY <2>1, <2>2
<1>4. n \in T
  <2>1. ASSUME NEW k \in 0 .. n - 1, k \in T PROVE k + 1 \in T
    <3>1. \E table : Good(table, k)
      BY <2>1
    <3>2. \E next : Good(next, k + 1)
      BY <1>3, <3>1
    <3>3. k + 1 \in 0 .. n
      BY <1>1
    <3> HIDE DEF Good
    <3> QED
      BY <3>2, <3>3
  <2>2. n \in 0 .. n
    BY <1>1
  <2> HIDE DEF T, n
  <2>3. \A k \in 0 .. n : k \in T
    BY <1>1, <1>2, <2>1, Climb
  <2> QED
    BY <2>2, <2>3
<1>5. PICK table : Good(table, n)
  BY <1>4
<1>6. IsTable(table, start, words)
  BY <1>1, <1>5 DEF IsTable
<1> QED
  BY <1>6


\* The states of a listener, word by word.
Follows(state, start, words) ==
    /\ state[0] = start
    /\ \A k \in 1 .. Len(words) : state[k] = Hear(state[k - 1], words[k])

Understood(start, words) == FoldLeft(Hear, start, words)

LEMMA SomeStatesFollow ==
    ASSUME NEW W, NEW words \in Seq(W), NEW start
    PROVE  \E state : Follows(state, start, words) /\ Understood(start, words) = state[Len(words)]
<1>0. PICK found : IsTable(found, start, words)
  BY TableExists
<1> DEFINE n == Len(words)
           table == CHOOSE t : t = [s \in SUBSET DOMAIN words |->
                        IF s = {} THEN start ELSE Hear(t[s \ {Max(s)}], words[Max(s)])]
           state == [k \in 0 .. n |-> table[1 .. k]]
<1>1. n \in Nat /\ DOMAIN words = 1 .. n
  OBVIOUS
<1>2. Understood(start, words) = table[DOMAIN words]
  BY DEF Understood, FoldLeft, MapThenFoldSet
<1>3. \E t : t = [s \in SUBSET DOMAIN words |->
                     IF s = {} THEN start ELSE Hear(t[s \ {Max(s)}], words[Max(s)])]
  <2> HIDE DEF table
  <2> QED
    BY <1>0 DEF IsTable, Heard
<1>4. table = [s \in SUBSET DOMAIN words |->
                 IF s = {} THEN start ELSE Hear(table[s \ {Max(s)}], words[Max(s)])]
  BY <1>3
<1> HIDE DEF table
<1>5. state[0] = start
  <2>1. 1 .. 0 = {} /\ {} \in SUBSET DOMAIN words /\ 0 \in 0 .. n
    BY <1>1
  <2> QED
    BY <1>4, <2>1
<1>6. ASSUME NEW k \in 1 .. n PROVE state[k] = Hear(state[k - 1], words[k])
  <2>1. k \in Nat /\ k \in 1 .. k /\ k \in 1 .. n
    BY <1>1
  <2>5. 1 .. k \in SUBSET (1 .. n) /\ 1 .. k # {}
    <3>1. \A x \in 1 .. k : x \in 1 .. n
      BY <1>1, <2>1
    <3> QED
      BY <2>1, <3>1
  <2>2. Max(1 .. k) = k
    <3>1. Max(1 .. k) \in 1 .. k /\ k <= Max(1 .. k)
      BY <2>1, <2>5, LastPosition
    <3> QED
      BY <3>1
  <2>3. (1 .. k) \ {k} = 1 .. k - 1
    OBVIOUS
  <2>4. k \in 0 .. n /\ k - 1 \in 0 .. n
    BY <1>1
  <2> QED
    BY <1>1, <1>4, <2>1, <2>2, <2>3, <2>4, <2>5
<1>7. Understood(start, words) = state[n]
  BY <1>1, <1>2
<1> QED
  BY <1>5, <1>6, <1>7 DEF Follows

\* And only one way to follow.
LEMMA StatesFollow ==
    ASSUME NEW W, NEW words \in Seq(W), NEW start, NEW state, Follows(state, start, words)
    PROVE  Understood(start, words) = state[Len(words)]
<1> DEFINE n == Len(words)
<1>1. n \in Nat
  OBVIOUS
<1>2. PICK other : Follows(other, start, words) /\ Understood(start, words) = other[n]
  BY SomeStatesFollow
<1> DEFINE T == {k \in 0 .. n : state[k] = other[k]}
<1>3. 0 \in T
  BY <1>1, <1>2 DEF Follows
<1>4. ASSUME NEW k \in 0 .. n - 1, k \in T PROVE k + 1 \in T
  <2>1. k + 1 \in 1 .. n /\ (k + 1) - 1 = k
    BY <1>1
  <2>2. state[k + 1] = Hear(state[k], words[k + 1]) /\ other[k + 1] = Hear(other[k], words[k + 1])
    BY <1>2, <2>1 DEF Follows
  <2> QED
    BY <1>1, <1>4, <2>1, <2>2
<1> HIDE DEF T
<1>5. \A k \in 0 .. n : k \in T
  BY <1>1, <1>3, <1>4, Climb
<1>6. n \in T
  BY <1>1, <1>5
<1> QED
  BY <1>2, <1>6 DEF T

\* Hearing nothing, one word, and one phrase after another.
LEMMA NothingHeard == ASSUME NEW start PROVE Understood(start, <<>>) = start
<1> DEFINE state == [k \in 0 .. 0 |-> start]
<1>1. Follows(state, start, <<>>)
  BY DEF Follows
<1>2. <<>> \in Seq({})
  OBVIOUS
<1> QED
  BY <1>1, <1>2, StatesFollow

LEMMA OneWordHeard ==
    ASSUME NEW start, NEW word
    PROVE  Understood(start, <<word>>) = Hear(start, word)
<1> DEFINE state == [k \in 0 .. 1 |-> IF k = 0 THEN start ELSE Hear(start, word)]
<1>1. Follows(state, start, <<word>>)
  BY DEF Follows
<1>2. <<word>> \in Seq({word}) /\ Len(<<word>>) = 1
  OBVIOUS
<1>3. Understood(start, <<word>>) = state[1]
  BY <1>1, <1>2, StatesFollow
<1> QED
  BY <1>3

LEMMA PhrasesHeard ==
    ASSUME NEW W, NEW first \in Seq(W), NEW second \in Seq(W), NEW start
    PROVE  Understood(start, first \o second) = Understood(Understood(start, first), second)
<1> DEFINE both == first \o second
           m == Len(first)
           n == Len(second)
<1>1. /\ m \in Nat /\ n \in Nat /\ both \in Seq(W) /\ Len(both) = m + n
      /\ \A k \in 1 .. m : both[k] = first[k]
      /\ \A k \in 1 .. n : both[m + k] = second[k]
  OBVIOUS
<1>2. PICK state : Follows(state, start, both) /\ Understood(start, both) = state[m + n]
  BY <1>1, SomeStatesFollow
<1> HIDE DEF both
<1>3. Follows(state, start, first)
  BY <1>1, <1>2 DEF Follows
<1>4. Understood(start, first) = state[m]
  BY <1>3, StatesFollow
<1> DEFINE later == [k \in 0 .. n |-> state[m + k]]
<1>5. Follows(later, state[m], second)
  <2>1. later[0] = state[m]
    BY <1>1
  <2>2. ASSUME NEW k \in 1 .. n PROVE later[k] = Hear(later[k - 1], second[k])
    <3>1. m + k \in 1 .. m + n /\ (m + k) - 1 = m + (k - 1) /\ k \in 0 .. n /\ k - 1 \in 0 .. n
      BY <1>1
    <3>2. state[m + k] = Hear(state[(m + k) - 1], both[m + k])
      BY <1>1, <1>2, <3>1 DEF Follows
    <3> QED
      BY <1>1, <3>1, <3>2
  <2> QED
    BY <2>1, <2>2 DEF Follows
<1>6. Understood(state[m], second) = later[n]
  BY <1>5, StatesFollow
<1>7. later[n] = state[m + n]
  BY <1>1
<1> QED
  BY <1>2, <1>4, <1>6, <1>7 DEF both


-----------------------------------------------------------------------------
(***************************************************************************)
(* What each word means.                                                   *)
(***************************************************************************)

Place(words, word) == SelectInSeq(words, LAMBDA w : w = word)

LEMMA PlaceOfWord ==
    ASSUME NEW W, NEW words \in Seq(W), NEW k \in 1 .. Len(words),
           \A i \in 1 .. Len(words) : words[i] = words[k] => i = k
    PROVE  Place(words, words[k]) = k
<1> DEFINE I == {i \in 1 .. Len(words) : words[i] = words[k]}
<1>1. I = {k}
  OBVIOUS
<1>2. Min({k}) = k
  BY DEF Min
<1> QED
  BY <1>1, <1>2 DEF Place, SelectInSeq

LEMMA PlaceOfOther ==
    ASSUME NEW words, NEW word, \A i \in 1 .. Len(words) : words[i] # word
    PROVE  Place(words, word) = 0
BY DEF Place, SelectInSeq

LEMMA MeaningByPlace ==
    ASSUME NEW word
    PROVE  Meaning(word) =
             CASE Place(FrUnits, word) > 0 -> Place(FrUnits, word)
               [] Place(EnUnits, word) > 0 -> Place(EnUnits, word)
               [] Place(FrTens, word) > 0 -> 10 * Place(FrTens, word)
               [] Place(EnTens, word) > 0 -> 10 * Place(EnTens, word)
               [] word \in {"quatre-vingt", "quatre-vingts"} -> 80
               [] OTHER -> 0
BY DEF Meaning, Place

LEMMA Lengths == Len(FrUnits) = 16 /\ Len(EnUnits) = 19 /\ Len(FrTens) = 6 /\ Len(EnTens) = 9
BY DEF FrUnits, EnUnits, FrTens, EnTens

LEMMA UnitsDistinct ==
    /\ \A i, j \in 1 .. 16 : FrUnits[i] = FrUnits[j] => i = j
    /\ \A i, j \in 1 .. 19 : EnUnits[i] = EnUnits[j] => i = j
    /\ \A i \in 1 .. 16, j \in 1 .. 19 : FrUnits[i] = EnUnits[j] => i = 6 /\ j = 6
    /\ \A i \in 1 .. 16, j \in 1 .. 6 : FrUnits[i] = FrTens[j] => i = 10 /\ j = 1
BY DEF FrUnits, EnUnits, FrTens


\* "six", "dix" and "ten" are in two tables, no other word is, and the words for
\* eighty and for powers of ten are in none.
LEMMA TablesDistinct ==
    /\ \A i, j \in 1 .. 6 : FrTens[i] = FrTens[j] => i = j
    /\ \A i, j \in 1 .. 9 : EnTens[i] = EnTens[j] => i = j
    /\ \A i \in 1 .. 9, j \in 1 .. 16 : EnTens[i] # FrUnits[j]
    /\ \A i \in 1 .. 9, j \in 1 .. 19 : EnTens[i] = EnUnits[j] => i = 1 /\ j = 10
    /\ \A i \in 1 .. 9, j \in 1 .. 6 : EnTens[i] # FrTens[j]
    /\ \A i \in 1 .. 6, j \in 1 .. 19 : FrTens[i] # EnUnits[j]
<1>1. /\ \A i, j \in 1 .. 6 : FrTens[i] = FrTens[j] => i = j
      /\ \A i, j \in 1 .. 9 : EnTens[i] = EnTens[j] => i = j
  BY DEF FrTens, EnTens
<1>2. \A i \in 1 .. 9, j \in 1 .. 16 : EnTens[i] # FrUnits[j]
  BY DEF FrUnits, EnTens
<1>3. \A i \in 1 .. 9, j \in 1 .. 19 : EnTens[i] = EnUnits[j] => i = 1 /\ j = 10
  BY SMTT(60) DEF EnUnits, EnTens
<1>4. \A i \in 1 .. 9, j \in 1 .. 6 : EnTens[i] # FrTens[j]
  BY DEF FrTens, EnTens
<1>5. \A i \in 1 .. 6, j \in 1 .. 19 : FrTens[i] # EnUnits[j]
  BY DEF FrTens, EnUnits
<1> QED
  BY <1>1, <1>2, <1>3, <1>4, <1>5

Eighty == {"quatre-vingt", "quatre-vingts"}

\* Words that mean no number below a hundred.
Others == {"zero", "et", "and", "de"}

\* Words for powers of ten, from a hundred on.
Hundreds == {"cent", "cents", "hundred"}
Powers == {"mille", "thousand", "million", "millions", "milliard", "milliards", "billion"}

LEMMA NotInTables ==
    ASSUME NEW word \in Eighty \cup Others \cup Hundreds \cup Powers
    PROVE  /\ \A i \in 1 .. 16 : FrUnits[i] # word
           /\ \A i \in 1 .. 19 : EnUnits[i] # word
           /\ \A i \in 1 .. 6 : FrTens[i] # word
           /\ \A i \in 1 .. 9 : EnTens[i] # word
BY DEF FrUnits, EnUnits, FrTens, EnTens, Eighty, Others, Hundreds, Powers

LEMMA TablesAreSequences ==
    /\ FrUnits \in Seq({FrUnits[i] : i \in 1 .. 16})
    /\ EnUnits \in Seq({EnUnits[i] : i \in 1 .. 19})
    /\ FrTens \in Seq({FrTens[i] : i \in 1 .. 6})
    /\ EnTens \in Seq({EnTens[i] : i \in 1 .. 9})
BY DEF FrUnits, EnUnits, FrTens, EnTens

LEMMA PlacesInTables ==
    /\ \A k \in 1 .. 16 : Place(FrUnits, FrUnits[k]) = k
    /\ \A k \in 1 .. 19 : Place(EnUnits, EnUnits[k]) = k
    /\ \A k \in 1 .. 6 : Place(FrTens, FrTens[k]) = k
    /\ \A k \in 1 .. 9 : Place(EnTens, EnTens[k]) = k
<1>1. ASSUME NEW k \in 1 .. 16 PROVE Place(FrUnits, FrUnits[k]) = k
  <2>1. k \in 1 .. Len(FrUnits) /\ \A i \in 1 .. Len(FrUnits) : FrUnits[i] = FrUnits[k] => i = k
    BY UnitsDistinct, Lengths
  <2> QED
    BY <2>1, TablesAreSequences, PlaceOfWord
<1>2. ASSUME NEW k \in 1 .. 19 PROVE Place(EnUnits, EnUnits[k]) = k
  <2>1. k \in 1 .. Len(EnUnits) /\ \A i \in 1 .. Len(EnUnits) : EnUnits[i] = EnUnits[k] => i = k
    BY UnitsDistinct, Lengths
  <2> QED
    BY <2>1, TablesAreSequences, PlaceOfWord
<1>3. ASSUME NEW k \in 1 .. 6 PROVE Place(FrTens, FrTens[k]) = k
  <2>1. k \in 1 .. Len(FrTens) /\ \A i \in 1 .. Len(FrTens) : FrTens[i] = FrTens[k] => i = k
    BY TablesDistinct, Lengths
  <2> QED
    BY <2>1, TablesAreSequences, PlaceOfWord
<1>4. ASSUME NEW k \in 1 .. 9 PROVE Place(EnTens, EnTens[k]) = k
  <2>1. k \in 1 .. Len(EnTens) /\ \A i \in 1 .. Len(EnTens) : EnTens[i] = EnTens[k] => i = k
    BY TablesDistinct, Lengths
  <2> QED
    BY <2>1, TablesAreSequences, PlaceOfWord
<1> QED
  BY <1>1, <1>2, <1>3, <1>4

LEMMA PlacesElsewhere ==
    /\ \A k \in 1 .. 16 \ {6} : Place(EnUnits, FrUnits[k]) = 0
    /\ \A k \in 1 .. 16 \ {10} : Place(FrTens, FrUnits[k]) = 0
    /\ \A k \in 1 .. 16 : Place(EnTens, FrUnits[k]) = 0
    /\ \A k \in 1 .. 19 \ {6} : Place(FrUnits, EnUnits[k]) = 0
    /\ \A k \in 1 .. 19 : Place(FrTens, EnUnits[k]) = 0
    /\ \A k \in 1 .. 19 \ {10} : Place(EnTens, EnUnits[k]) = 0
    /\ \A k \in 2 .. 6 : Place(FrUnits, FrTens[k]) = 0
    /\ \A k \in 1 .. 6 : Place(EnUnits, FrTens[k]) = 0 /\ Place(EnTens, FrTens[k]) = 0
    /\ \A k \in 1 .. 9 : Place(FrUnits, EnTens[k]) = 0 /\ Place(FrTens, EnTens[k]) = 0
    /\ \A k \in 2 .. 9 : Place(EnUnits, EnTens[k]) = 0
<1>1. ASSUME NEW k \in 1 .. 16
      PROVE  /\ k # 6 => Place(EnUnits, FrUnits[k]) = 0
             /\ k # 10 => Place(FrTens, FrUnits[k]) = 0
             /\ Place(EnTens, FrUnits[k]) = 0
  <2>1. \A i \in 1 .. 9 : EnTens[i] # FrUnits[k]
    BY TablesDistinct
  <2>2. k # 6 => \A i \in 1 .. 19 : EnUnits[i] # FrUnits[k]
    BY UnitsDistinct
  <2>3. k # 10 => \A i \in 1 .. 6 : FrTens[i] # FrUnits[k]
    BY UnitsDistinct
  <2> QED
    BY <2>1, <2>2, <2>3, Lengths, PlaceOfOther
<1>2. ASSUME NEW k \in 1 .. 19
      PROVE  /\ k # 6 => Place(FrUnits, EnUnits[k]) = 0
             /\ Place(FrTens, EnUnits[k]) = 0
             /\ k # 10 => Place(EnTens, EnUnits[k]) = 0
  <2>1. k # 10 => \A i \in 1 .. 9 : EnTens[i] # EnUnits[k]
    BY TablesDistinct
  <2>2. k # 6 => \A i \in 1 .. 16 : FrUnits[i] # EnUnits[k]
    BY UnitsDistinct
  <2>3. \A i \in 1 .. 6 : FrTens[i] # EnUnits[k]
    BY TablesDistinct
  <2> QED
    BY <2>1, <2>2, <2>3, Lengths, PlaceOfOther
<1>3. ASSUME NEW k \in 1 .. 6
      PROVE  /\ k # 1 => Place(FrUnits, FrTens[k]) = 0
             /\ Place(EnUnits, FrTens[k]) = 0 /\ Place(EnTens, FrTens[k]) = 0
  <2>1. \A i \in 1 .. 9 : EnTens[i] # FrTens[k]
    BY TablesDistinct
  <2>2. k # 1 => \A i \in 1 .. 16 : FrUnits[i] # FrTens[k]
    BY UnitsDistinct
  <2>3. \A i \in 1 .. 19 : EnUnits[i] # FrTens[k]
    BY TablesDistinct
  <2> QED
    BY <2>1, <2>2, <2>3, Lengths, PlaceOfOther
<1>4. ASSUME NEW k \in 1 .. 9
      PROVE  /\ Place(FrUnits, EnTens[k]) = 0
             /\ k # 1 => Place(EnUnits, EnTens[k]) = 0
             /\ Place(FrTens, EnTens[k]) = 0
  <2>1. \A i \in 1 .. 16 : FrUnits[i] # EnTens[k]
    BY TablesDistinct
  <2>2. k # 1 => \A i \in 1 .. 19 : EnUnits[i] # EnTens[k]
    BY TablesDistinct
  <2>3. \A i \in 1 .. 6 : FrTens[i] # EnTens[k]
    BY TablesDistinct
  <2> QED
    BY <2>1, <2>2, <2>3, Lengths, PlaceOfOther
<1> QED
  BY <1>1, <1>2, <1>3, <1>4

LEMMA SharedWords == FrUnits[6] = EnUnits[6] /\ FrUnits[10] = FrTens[1] /\ EnUnits[10] = EnTens[1]
BY DEF FrUnits, EnUnits, FrTens, EnTens

LEMMA UnitsMean ==
    /\ \A k \in 1 .. 16 : Meaning(FrUnits[k]) = k
    /\ \A k \in 1 .. 19 : Meaning(EnUnits[k]) = k
<1>1. \A k \in 1 .. 16 : FrUnits[k] \notin Eighty
  BY NotInTables
<1>2. \A k \in 1 .. 19 : EnUnits[k] \notin Eighty
  BY NotInTables
<1>3. ASSUME NEW k \in 1 .. 16 PROVE Meaning(FrUnits[k]) = k
  BY <1>1, PlacesInTables, PlacesElsewhere, SharedWords, MeaningByPlace DEF Eighty
<1>4. ASSUME NEW k \in 1 .. 19 PROVE Meaning(EnUnits[k]) = k
  BY <1>2, PlacesInTables, PlacesElsewhere, SharedWords, MeaningByPlace DEF Eighty
<1> QED
  BY <1>3, <1>4

LEMMA TensMean ==
    /\ \A k \in 1 .. 6 : Meaning(FrTens[k]) = 10 * k
    /\ \A k \in 1 .. 9 : Meaning(EnTens[k]) = 10 * k
<1>1. \A k \in 1 .. 6 : FrTens[k] \notin Eighty
  BY NotInTables
<1>2. \A k \in 1 .. 9 : EnTens[k] \notin Eighty
  BY NotInTables
<1>3. ASSUME NEW k \in 1 .. 6 PROVE Meaning(FrTens[k]) = 10 * k
  BY <1>1, PlacesInTables, PlacesElsewhere, SharedWords, MeaningByPlace DEF Eighty
<1>4. ASSUME NEW k \in 1 .. 9 PROVE Meaning(EnTens[k]) = 10 * k
  BY <1>2, PlacesInTables, PlacesElsewhere, SharedWords, MeaningByPlace DEF Eighty
<1> QED
  BY <1>3, <1>4

LEMMA OthersMean ==
    /\ \A word \in Eighty : Meaning(word) = 80
    /\ \A word \in Others : Meaning(word) = 0
<1>1. ASSUME NEW word \in Eighty \cup Others
      PROVE  /\ Place(FrUnits, word) = 0 /\ Place(EnUnits, word) = 0
             /\ Place(FrTens, word) = 0 /\ Place(EnTens, word) = 0
  <2>1. word \in Eighty \cup Others \cup Hundreds \cup Powers
    OBVIOUS
  <2>2. /\ \A i \in 1 .. Len(FrUnits) : FrUnits[i] # word
        /\ \A i \in 1 .. Len(EnUnits) : EnUnits[i] # word
        /\ \A i \in 1 .. Len(FrTens) : FrTens[i] # word
        /\ \A i \in 1 .. Len(EnTens) : EnTens[i] # word
    BY <2>1, NotInTables, Lengths
  <2> QED
    BY <2>2, PlaceOfOther
<1>2. \A word \in Others : word \notin Eighty
  BY DEF Others, Eighty
<1> QED
  BY <1>1, <1>2, MeaningByPlace DEF Eighty

-----------------------------------------------------------------------------
(***************************************************************************)
(* How each word changes what is understood: At(sum, group) is a listener  *)
(* who has understood sum, and group since the last power of ten.          *)
(***************************************************************************)

At(sum, group) == [sum |-> sum, group |-> group]

LEMMA NumeralHeard ==
    ASSUME NEW sum \in Nat, NEW group \in Nat, NEW word, word \notin Hundreds \cup Powers
    PROVE  Hear(At(sum, group), word) = At(sum, group + Meaning(word))
<1>1. Power(word) = 0
  BY DEF Power, Powers
<1>2. word \notin {"cent", "cents", "hundred"}
  BY DEF Hundreds
<1> QED
  BY <1>1, <1>2 DEF Hear, At

LEMMA HundredHeard ==
    ASSUME NEW sum \in Nat, NEW group \in Nat, NEW word \in Hundreds
    PROVE  Hear(At(sum, group), word) = At(sum, 100 * (IF group = 0 THEN 1 ELSE group))
<1>1. Power(word) = 0
  BY DEF Power, Hundreds
<1>2. word \in {"cent", "cents", "hundred"}
  BY DEF Hundreds
<1> QED
  BY <1>1, <1>2 DEF Hear, At

LEMMA PowersArePositive ==
    \A word \in Powers : Power(word) \in {1000, 1000000, 1000000000}
BY DEF Power, Powers

LEMMA PowerHeard ==
    ASSUME NEW sum \in Nat, NEW group \in Nat, NEW word \in Powers
    PROVE  Hear(At(sum, group), word) =
             At(sum + Power(word) * (IF group = 0 THEN 1 ELSE group), 0)
<1>1. Power(word) > 0
  BY PowersArePositive
<1>2. word \notin {"cent", "cents", "hundred"}
  BY DEF Powers
<1> QED
  BY <1>1, <1>2 DEF Hear, At

\* Every word a number is made of.
Numerals ==
    {FrUnits[i] : i \in 1 .. 16} \cup {EnUnits[i] : i \in 1 .. 19}
    \cup {FrTens[i] : i \in 1 .. 6} \cup {EnTens[i] : i \in 1 .. 9} \cup Eighty \cup Others

NumberWords == Numerals \cup Hundreds \cup Powers

LEMMA NumeralsAreNoPowers == Numerals \cap (Hundreds \cup Powers) = {}
<1>1. ASSUME NEW word \in Hundreds \cup Powers PROVE word \notin Eighty \cup Others
  BY DEF Hundreds, Powers, Eighty, Others
<1> QED
  BY <1>1, NotInTables DEF Numerals

\* Words that add n to the group.
Adds(words, n) ==
    /\ words \in Seq(NumberWords)
    /\ \A sum, group \in Nat : Understood(At(sum, group), words) = At(sum, group + n)

\* Words that say n to somebody who has not heard a group.
Says(words, n) ==
    /\ words \in Seq(NumberWords)
    /\ \A sum \in Nat : Understood(At(sum, 0), words) = At(sum, n)

\* Words that add n to the sum, and end a group.
Counts(words, n) ==
    /\ words \in Seq(NumberWords)
    /\ \A sum \in Nat : Understood(At(sum, 0), words) = At(sum + n, 0)

LEMMA NothingAdds == Adds(<<>>, 0)
BY NothingHeard DEF Adds

LEMMA WordAdds ==
    ASSUME NEW word \in Numerals, NEW n \in Nat, Meaning(word) = n
    PROVE  Adds(<<word>>, n)
<1>1. word \notin Hundreds \cup Powers /\ <<word>> \in Seq(NumberWords)
  BY NumeralsAreNoPowers DEF NumberWords
<1> QED
  BY <1>1, OneWordHeard, NumeralHeard DEF Adds

LEMMA PhrasesAdd ==
    ASSUME NEW first, NEW second, NEW m \in Nat, NEW n \in Nat, Adds(first, m), Adds(second, n)
    PROVE  Adds(first \o second, m + n)
<1>1. first \o second \in Seq(NumberWords)
  BY DEF Adds
<1>2. ASSUME NEW sum \in Nat, NEW group \in Nat
      PROVE  Understood(At(sum, group), first \o second) = At(sum, group + (m + n))
  <2>1. Understood(At(sum, group), first) = At(sum, group + m)
    BY DEF Adds
  <2>2. group + m \in Nat /\ (group + m) + n = group + (m + n)
    OBVIOUS
  <2>3. Understood(At(sum, group + m), second) = At(sum, (group + m) + n)
    BY <2>2 DEF Adds
  <2> QED
    BY <2>1, <2>2, <2>3, PhrasesHeard DEF Adds
<1> QED
  BY <1>1, <1>2 DEF Adds

LEMMA PhraseAddsToSaid ==
    ASSUME NEW first, NEW second, NEW m \in Nat, NEW n \in Nat, Says(first, m), Adds(second, n)
    PROVE  Says(first \o second, m + n)
<1>1. first \o second \in Seq(NumberWords)
  BY DEF Adds, Says
<1>2. ASSUME NEW sum \in Nat
      PROVE  Understood(At(sum, 0), first \o second) = At(sum, m + n)
  <2>1. Understood(At(sum, 0), first) = At(sum, m)
    BY DEF Says
  <2>2. Understood(At(sum, m), second) = At(sum, m + n)
    BY DEF Adds
  <2> QED
    BY <2>1, <2>2, PhrasesHeard DEF Adds, Says
<1> QED
  BY <1>1, <1>2 DEF Says

LEMMA WhatAddsSays ==
    ASSUME NEW words, NEW n \in Nat, Adds(words, n)
    PROVE  Says(words, n)
BY DEF Adds, Says

LEMMA PhrasesCount ==
    ASSUME NEW first, NEW second, NEW m \in Nat, NEW n \in Nat, Counts(first, m), Counts(second, n)
    PROVE  Counts(first \o second, m + n)
<1>1. first \o second \in Seq(NumberWords)
  BY DEF Counts
<1>2. ASSUME NEW sum \in Nat
      PROVE  Understood(At(sum, 0), first \o second) = At(sum + (m + n), 0)
  <2>1. Understood(At(sum, 0), first) = At(sum + m, 0)
    BY DEF Counts
  <2>2. sum + m \in Nat /\ (sum + m) + n = sum + (m + n)
    OBVIOUS
  <2>3. Understood(At(sum + m, 0), second) = At((sum + m) + n, 0)
    BY <2>2 DEF Counts
  <2> QED
    BY <2>1, <2>2, <2>3, PhrasesHeard DEF Counts
<1> QED
  BY <1>1, <1>2 DEF Counts

-----------------------------------------------------------------------------
(***************************************************************************)
(* Numbers below a hundred.                                                *)
(***************************************************************************)

LEMMA TheTablesAdd ==
    /\ \A k \in 1 .. 16 : Adds(<<FrUnits[k]>>, k)
    /\ \A k \in 1 .. 19 : Adds(<<EnUnits[k]>>, k)
    /\ \A k \in 1 .. 6 : Adds(<<FrTens[k]>>, 10 * k)
    /\ \A k \in 1 .. 9 : Adds(<<EnTens[k]>>, 10 * k)
    /\ \A word \in Eighty : Adds(<<word>>, 80)
    /\ \A word \in Others : Adds(<<word>>, 0)
<1>1. ASSUME NEW k \in 1 .. 16 PROVE Adds(<<FrUnits[k]>>, k)
  BY WordAdds, UnitsMean DEF Numerals
<1>2. ASSUME NEW k \in 1 .. 19 PROVE Adds(<<EnUnits[k]>>, k)
  BY WordAdds, UnitsMean DEF Numerals
<1>3. ASSUME NEW k \in 1 .. 6 PROVE Adds(<<FrTens[k]>>, 10 * k)
  BY WordAdds, TensMean DEF Numerals
<1>4. ASSUME NEW k \in 1 .. 9 PROVE Adds(<<EnTens[k]>>, 10 * k)
  BY WordAdds, TensMean DEF Numerals
<1>5. ASSUME NEW word \in Eighty PROVE Adds(<<word>>, 80)
  BY WordAdds, OthersMean DEF Numerals
<1>6. ASSUME NEW word \in Others PROVE Adds(<<word>>, 0)
  BY WordAdds, OthersMean DEF Numerals
<1> QED
  BY <1>1, <1>2, <1>3, <1>4, <1>5, <1>6

LEMMA FrUnitAdds == ASSUME NEW n \in 0 .. 16 PROVE Adds(FrUnit(n), n)
<1>1. CASE n = 0
  <2>1. FrUnit(n) = <<>>
    BY <1>1 DEF FrUnit
  <2> QED
    BY <1>1, <2>1, NothingAdds
<1>2. CASE n # 0
  <2>1. FrUnit(n) = <<FrUnits[n]>> /\ n \in 1 .. 16
    BY <1>2 DEF FrUnit
  <2> QED
    BY <2>1, TheTablesAdd
<1> QED
  BY <1>1, <1>2

\* A pair of words is a word and another.
LEMMA Pairs == ASSUME NEW a, NEW b PROVE <<a, b>> = <<a>> \o <<b>>
<1>1. <<a>> \in Seq({a, b}) /\ <<b>> \in Seq({a, b}) /\ <<a, b>> \in Seq({a, b})
  OBVIOUS
<1>2. Len(<<a>>) = 1 /\ Len(<<b>>) = 1 /\ Len(<<a, b>>) = 2
  OBVIOUS
<1> DEFINE both == <<a>> \o <<b>>
<1>3. both \in Seq({a, b}) /\ Len(both) = 2
  BY <1>1, <1>2, ConcatProperties
<1>4. both[1] = a /\ both[2] = b
  BY <1>1, <1>2
<1>5. \A i \in 1 .. 2 : i = 1 \/ i = 2
  OBVIOUS
<1>6. \A i \in 1 .. Len(both) : both[i] = <<a, b>>[i]
  BY <1>3, <1>4, <1>5
<1> HIDE DEF both
<1>7. both = <<a, b>>
  BY <1>1, <1>2, <1>3, <1>6, SeqEqual
<1> QED
  BY <1>7 DEF both

LEMMA FrBelow20Adds == ASSUME NEW n \in 0 .. 19 PROVE Adds(FrBelow20(n), n)
<1>1. CASE n <= 16
  <2>1. n \in 0 .. 16
    BY <1>1
  <2> QED
    BY <1>1, <2>1, FrUnitAdds DEF FrBelow20
<1>2. CASE ~ (n <= 16)
  <2>1. n - 10 \in 1 .. 16 /\ n - 10 \in Nat
    BY <1>2
  <2>2. Adds(<<FrUnits[n - 10]>>, n - 10)
    BY <2>1, TheTablesAdd
  <2>3. FrTens[1] = "dix"
    BY DEF FrTens
  <2>4. Adds(<<"dix">>, 10)
    BY <2>3, TheTablesAdd
  <2>5. Adds(<<"dix">> \o <<FrUnits[n - 10]>>, 10 + (n - 10))
    BY <2>1, <2>2, <2>4, PhrasesAdd
  <2>6. 10 + (n - 10) = n
    OBVIOUS
  <2>7. FrBelow20(n) = <<"dix">> \o <<FrUnits[n - 10]>>
    BY <1>2 DEF FrBelow20
  <2> QED
    BY <2>5, <2>6, <2>7
<1> QED
  BY <1>1, <1>2

LEMMA Triples == ASSUME NEW a, NEW b, NEW c PROVE <<a, b, c>> = <<a>> \o (<<b>> \o <<c>>)
<1>1. <<a>> \in Seq({a, b, c}) /\ <<b, c>> \in Seq({a, b, c}) /\ <<a, b, c>> \in Seq({a, b, c})
  OBVIOUS
<1>2. Len(<<a>>) = 1 /\ Len(<<b, c>>) = 2 /\ Len(<<a, b, c>>) = 3
  OBVIOUS
<1> DEFINE all == <<a>> \o <<b, c>>
<1>3. all \in Seq({a, b, c}) /\ Len(all) = 3
  BY <1>1, <1>2, ConcatProperties
<1>4. all[1] = a /\ all[2] = b /\ all[3] = c
  BY <1>1, <1>2
<1>5. \A i \in 1 .. 3 : i = 1 \/ i = 2 \/ i = 3
  OBVIOUS
<1>6. \A i \in 1 .. Len(all) : all[i] = <<a, b, c>>[i]
  BY <1>3, <1>4, <1>5
<1> HIDE DEF all
<1>7. all = <<a, b, c>>
  BY <1>1, <1>2, <1>3, <1>6, SeqEqual
<1> QED
  BY <1>7, Pairs DEF all

\* What follows the tens of 20 to 69.
LEMMA FrAfterTensAdds ==
    ASSUME NEW d \in 0 .. 9
    PROVE  Adds(IF d = 1 THEN <<"et", "un">> ELSE FrUnit(d), d)
<1>1. CASE d = 1
  <2>1. FrUnits[1] = "un" /\ "et" \in Others
    BY DEF FrUnits, Others
  <2>2. Adds(<<"et">>, 0) /\ Adds(<<"un">>, 1)
    BY <2>1, TheTablesAdd
  <2>3. Adds(<<"et">> \o <<"un">>, 0 + 1)
    BY <2>2, PhrasesAdd
  <2>4. Adds(<<"et", "un">>, 1)
    BY <2>3, Pairs
  <2> QED
    BY <1>1, <2>4
<1>2. CASE d # 1
  BY <1>2, FrUnitAdds
<1> QED
  BY <1>1, <1>2

LEMMA FrBelow100Adds ==
    ASSUME NEW n \in 0 .. 99, NEW final \in BOOLEAN
    PROVE  Adds(FrBelow100(n, final), n)
<1> DEFINE words == FrBelow100(n, final)
<1>1. CASE n < 20
  BY <1>1, FrBelow20Adds DEF FrBelow100
<1>2. CASE n \in 20 .. 69
  <2> DEFINE t == n \div 10
             d == n % 10
             rest == IF d = 1 THEN <<"et", "un">> ELSE FrUnit(d)
  <2>1. t \in 2 .. 6 /\ d \in 0 .. 9 /\ 10 * t + d = n
    BY <1>2
  <2>2. words = <<FrTens[t]>> \o rest
    <3>1. ~ (n < 20) /\ n # 71 /\ n \notin (70 .. 79) \ {71} /\ n # 80
      BY <1>2
    <3> QED
      BY <1>2, <3>1, Zenon DEF FrBelow100
  <2> HIDE DEF t, d, words
  <2>3. Adds(<<FrTens[t]>>, 10 * t) /\ Adds(rest, d)
    BY <2>1, TheTablesAdd, FrAfterTensAdds
  <2> HIDE DEF rest
  <2>4. Adds(<<FrTens[t]>> \o rest, 10 * t + d)
    <3>1. 10 * t \in Nat /\ d \in Nat
      BY <2>1
    <3> QED
      BY <2>3, <3>1, PhrasesAdd
  <2> QED
    BY <2>1, <2>2, <2>4 DEF words
<1>3. CASE n \in 70 .. 79
  <2>1. Adds(<<"soixante">>, 60)
    <3>1. FrTens[6] = "soixante"
      BY DEF FrTens
    <3> QED
      BY <3>1, TheTablesAdd
  <2>2. CASE n = 71
    <3>1. FrUnits[11] = "onze" /\ "et" \in Others
      BY DEF FrUnits, Others
    <3>2. Adds(<<"et">>, 0) /\ Adds(<<"onze">>, 11)
      BY <3>1, TheTablesAdd
    <3>3. Adds(<<"et">> \o <<"onze">>, 0 + 11)
      BY <3>2, PhrasesAdd
    <3>4. Adds(<<"soixante">> \o (<<"et">> \o <<"onze">>), 60 + 11)
      BY <2>1, <3>3, PhrasesAdd
    <3>5. words = <<"soixante", "et", "onze">>
      BY <2>2 DEF FrBelow100
    <3>6. <<"soixante", "et", "onze">> = <<"soixante">> \o (<<"et">> \o <<"onze">>)
      BY Triples
    <3>7. Adds(words, 60 + 11)
      BY <3>4, <3>5, <3>6, Zenon
    <3> HIDE DEF words
    <3>8. Adds(words, n)
      BY <2>2, <3>7
    <3> QED
      BY <3>8 DEF words
  <2>3. CASE n # 71
    <3>1. n - 60 \in 0 .. 19 /\ n - 60 \in Nat /\ 60 + (n - 60) = n
      BY <1>3
    <3>2. Adds(<<"soixante">> \o FrBelow20(n - 60), 60 + (n - 60))
      BY <2>1, <3>1, FrBelow20Adds, PhrasesAdd
    <3>3. words = <<"soixante">> \o FrBelow20(n - 60)
      BY <1>3, <2>3 DEF FrBelow100
    <3> QED
      BY <3>1, <3>2, <3>3
  <2> QED
    BY <2>2, <2>3
<1>4. CASE n = 80
  <2>1. words \in {<<"quatre-vingt">>, <<"quatre-vingts">>}
    BY <1>4 DEF FrBelow100
  <2> QED
    BY <1>4, <2>1, TheTablesAdd DEF Eighty
<1>5. CASE n \in 81 .. 99
  <2>1. n - 80 \in 0 .. 19 /\ n - 80 \in Nat /\ 80 + (n - 80) = n
    BY <1>5
  <2>2. Adds(<<"quatre-vingt">>, 80)
    BY TheTablesAdd DEF Eighty
  <2>3. Adds(<<"quatre-vingt">> \o FrBelow20(n - 80), 80 + (n - 80))
    BY <2>1, <2>2, FrBelow20Adds, PhrasesAdd
  <2>4. words = <<"quatre-vingt">> \o FrBelow20(n - 80)
    <3>1. ~ (n < 20) /\ n \notin 20 .. 69 /\ n # 71 /\ n \notin (70 .. 79) \ {71} /\ n # 80
      BY <1>5
    <3> QED
      BY <3>1, Zenon DEF FrBelow100
  <2> QED
    BY <2>1, <2>3, <2>4
<1> QED
  BY <1>1, <1>2, <1>3, <1>4, <1>5

-----------------------------------------------------------------------------
(***************************************************************************)
(* Numbers below a thousand: somebody who has heard no group yet hears the *)
(* hundreds and then the rest.                                             *)
(***************************************************************************)

LEMMA HundredSays == ASSUME NEW word \in Hundreds PROVE Says(<<word>>, 100)
<1>1. <<word>> \in Seq(NumberWords)
  BY DEF NumberWords
<1>2. ASSUME NEW sum \in Nat PROVE Understood(At(sum, 0), <<word>>) = At(sum, 100)
  BY OneWordHeard, HundredHeard
<1> QED
  BY <1>1, <1>2 DEF Says

\* A unit and a word for a hundred.
LEMMA HundredsSay ==
    ASSUME NEW unit, NEW h \in 0 .. 9, Adds(unit, h), NEW word \in Hundreds
    PROVE  Says(unit \o <<word>>, 100 * (IF h = 0 THEN 1 ELSE h))
<1> DEFINE count == IF h = 0 THEN 1 ELSE h
           hundred == <<word>>
<1>1. unit \in Seq(NumberWords) /\ hundred \in Seq(NumberWords)
  BY DEF Adds, NumberWords
<1>2. unit \o hundred \in Seq(NumberWords)
  BY <1>1
<1>3. ASSUME NEW sum \in Nat
      PROVE  Understood(At(sum, 0), unit \o hundred) = At(sum, 100 * count)
  <2>1. Understood(At(sum, 0), unit) = At(sum, 0 + h)
    BY DEF Adds
  <2>2. h \in Nat /\ 0 + h = h
    OBVIOUS
  <2>3. Understood(At(sum, h), hundred) = At(sum, 100 * count)
    BY <2>2, OneWordHeard, HundredHeard
  <2> HIDE DEF hundred, count
  <2> QED
    BY <1>1, <2>1, <2>2, <2>3, PhrasesHeard
<1> QED
  BY <1>2, <1>3 DEF Says

LEMMA FrBelow1000Says ==
    ASSUME NEW n \in 0 .. 999, NEW final \in BOOLEAN
    PROVE  Says(FrBelow1000(n, final), n)
<1> DEFINE h == n \div 100
           below == n % 100
<1>1. h \in 0 .. 9 /\ below \in 0 .. 99 /\ 100 * h + below = n
  OBVIOUS
<1> DEFINE rest == FrBelow100(below, final)
           cent == CASE h = 0 -> <<>>
                     [] h = 1 -> <<"cent">>
                     [] h > 1 /\ below = 0 /\ final -> FrUnit(h) \o <<"cents">>
                     [] OTHER -> FrUnit(h) \o <<"cent">>
<1>2. FrBelow1000(n, final) = cent \o rest
  BY Zenon DEF FrBelow1000
<1>3. Adds(rest, below)
  BY <1>1, FrBelow100Adds
<1>4. "cent" \in Hundreds /\ "cents" \in Hundreds
  BY DEF Hundreds
<1> HIDE DEF h, below, rest
<1>5. Says(cent, 100 * h)
  <2>1. CASE h = 0
    <3>1. cent = <<>>
      BY <2>1
    <3> QED
      BY <2>1, <3>1, NothingAdds, WhatAddsSays
  <2>2. CASE h = 1
    <3>1. cent = <<"cent">>
      BY <2>2
    <3>2. Says(<<"cent">>, 100)
      BY <1>4, HundredSays
    <3>3. Says(cent, 100)
      BY <3>1, <3>2, Zenon
    <3> QED
      BY <2>2, <3>3
  <2>3. CASE h > 1
    <3>1. PICK word \in Hundreds : cent = FrUnit(h) \o <<word>>
      <4>1. h # 0 /\ h # 1
        BY <1>1, <2>3
      <4>2. cent = FrUnit(h) \o <<"cents">> \/ cent = FrUnit(h) \o <<"cent">>
        <5>1. CASE below = 0 /\ final
          <6>1. cent = FrUnit(h) \o <<"cents">>
            BY <2>3, <4>1, <5>1, Zenon
          <6> QED
            BY <6>1
        <5>2. CASE ~ (below = 0 /\ final)
          <6>1. cent = FrUnit(h) \o <<"cent">>
            BY <2>3, <4>1, <5>2, Zenon
          <6> QED
            BY <6>1
        <5> QED
          BY <5>1, <5>2
      <4> HIDE DEF cent
      <4> QED
        BY <1>4, <4>2
    <3>2. h \in 0 .. 16
      BY <1>1
    <3>3. Adds(FrUnit(h), h)
      BY <3>2, FrUnitAdds
    <3>4. Says(FrUnit(h) \o <<word>>, 100 * (IF h = 0 THEN 1 ELSE h))
      BY <1>1, <3>3, HundredsSay
    <3> HIDE DEF cent
    <3> QED
      BY <2>3, <3>1, <3>4
  <2> HIDE DEF cent
  <2> QED
    BY <1>1, <2>1, <2>2, <2>3
<1> HIDE DEF cent
<1>6. Says(cent \o rest, 100 * h + below)
  <2>1. 100 * h \in Nat /\ below \in Nat
    BY <1>1
  <2> QED
    BY <1>3, <1>5, <2>1, PhraseAddsToSaid
<1> QED
  BY <1>1, <1>2, <1>6

LEMMA EnBelow1000Says ==
    ASSUME NEW n \in 0 .. 999
    PROVE  Says(EnBelow1000(n), n)
<1> DEFINE h == n \div 100
           rest == n % 100
           hundreds == IF n < 100 THEN <<>> ELSE <<EnUnits[h], "hundred">>
           below100 == CASE rest = 0 -> <<>>
                         [] rest \in 1 .. 19 -> <<EnUnits[rest]>>
                         [] rest > 19 /\ rest % 10 = 0 -> <<EnTens[rest \div 10]>>
                         [] OTHER -> <<EnTens[rest \div 10], EnUnits[rest % 10]>>
<1>1. h \in 0 .. 9 /\ rest \in 0 .. 99 /\ 100 * h + rest = n /\ (n < 100 <=> h = 0)
  OBVIOUS
<1>2. EnBelow1000(n) = hundreds \o below100
  BY Zenon DEF EnBelow1000
<1> HIDE DEF h, rest
<1>3. Adds(below100, rest)
  <2> DEFINE t == rest \div 10
             d == rest % 10
  <2>1. CASE rest = 0
    <3>1. below100 = <<>>
      BY <2>1
    <3> QED
      BY <2>1, <3>1, NothingAdds
  <2>2. CASE rest \in 1 .. 19
    <3>1. below100 = <<EnUnits[rest]>>
      BY <2>2
    <3> QED
      BY <2>2, <3>1, TheTablesAdd
  <2>3. CASE rest \in 20 .. 99
    <3>1. t \in 2 .. 9 /\ d \in 0 .. 9 /\ 10 * t + d = rest
      BY <2>3
    <3>2. rest # 0 /\ rest \notin 1 .. 19 /\ rest > 19
      BY <2>3
    <3>3. Adds(<<EnTens[t]>>, 10 * t)
      BY <3>1, TheTablesAdd
    <3>4. CASE d = 0
      <4>1. below100 = <<EnTens[t]>>
        BY <3>2, <3>4, Zenon
      <4> HIDE DEF below100, t, d
      <4> QED
        BY <3>1, <3>3, <3>4, <4>1
    <3>5. CASE d # 0
      <4>1. below100 = <<EnTens[t], EnUnits[d]>>
        BY <3>2, <3>5, Zenon
      <4> HIDE DEF below100, t, d
      <4>2. below100 = <<EnTens[t]>> \o <<EnUnits[d]>>
        BY <4>1, Pairs, Zenon
      <4>3. Adds(<<EnUnits[d]>>, d)
        BY <3>1, <3>5, TheTablesAdd
      <4>4. Adds(<<EnTens[t]>> \o <<EnUnits[d]>>, 10 * t + d)
        <5>1. 10 * t \in Nat /\ d \in Nat
          BY <3>1
        <5> QED
          BY <3>3, <4>3, <5>1, PhrasesAdd
      <4> QED
        BY <3>1, <4>2, <4>4
    <3> QED
      BY <3>4, <3>5
  <2> HIDE DEF below100
  <2> QED
    BY <1>1, <2>1, <2>2, <2>3
<1>4. Says(hundreds, 100 * h)
  <2>1. CASE h = 0
    <3>1. hundreds = <<>>
      BY <1>1, <2>1
    <3> QED
      BY <2>1, <3>1, NothingAdds, WhatAddsSays
  <2>2. CASE h # 0
    <3>1. hundreds = <<EnUnits[h], "hundred">>
      BY <1>1, <2>2
    <3>2. Adds(<<EnUnits[h]>>, h)
      BY <1>1, <2>2, TheTablesAdd
    <3>3. Says(<<EnUnits[h]>> \o <<"hundred">>, 100 * (IF h = 0 THEN 1 ELSE h))
      BY <1>1, <3>2, HundredsSay DEF Hundreds
    <3>4. hundreds = <<EnUnits[h]>> \o <<"hundred">>
      BY <3>1, Pairs, Zenon
    <3> HIDE DEF hundreds
    <3> QED
      BY <2>2, <3>3, <3>4
  <2> QED
    BY <2>1, <2>2
<1> HIDE DEF hundreds, below100
<1>5. Says(hundreds \o below100, 100 * h + rest)
  BY <1>1, <1>3, <1>4, PhraseAddsToSaid
<1> QED
  BY <1>1, <1>2, <1>5

-----------------------------------------------------------------------------
(***************************************************************************)
(* Numbers: groups of three digits, each with the name of its power of     *)
(* ten, and a last group without one.                                      *)
(***************************************************************************)

\* Words that, heard first, say n.
Tells(words, n) ==
    /\ words \in Seq(NumberWords)
    /\ \E sum, group \in Nat :
           sum + group = n /\ Understood(At(0, 0), words) = At(sum, group)

LEMMA ToldIsRead ==
    ASSUME NEW words, NEW n \in Nat, Tells(words, n)
    PROVE  ReadNumber(words) = n
<1>1. PICK sum \in Nat, group \in Nat :
          sum + group = n /\ Understood(At(0, 0), words) = At(sum, group)
  BY DEF Tells
<1>2. FoldLeft(Hear, [sum |-> 0, group |-> 0], words) = At(sum, group)
  BY <1>1 DEF Understood, At
<1>3. ReadNumber(words) = At(sum, group).sum + At(sum, group).group
  BY <1>2 DEF ReadNumber
<1> QED
  BY <1>1, <1>3 DEF At

LEMMA NothingCounts == Counts(<<>>, 0)
BY NothingHeard DEF Counts

LEMMA GroupCounts ==
    ASSUME NEW count \in 0 .. 999, NEW words, count # 0 => Says(words, count),
           NEW one \in Powers, NEW many \in Powers,
           NEW size \in Nat, Power(one) = size, Power(many) = size
    PROVE  Counts(Group(count, words, one, many), count * size)
<1>1. CASE count = 0
  <2>1. Group(count, words, one, many) = <<>> /\ count * size = 0
    BY <1>1 DEF Group
  <2> QED
    BY <2>1, NothingCounts
<1>2. CASE count # 0
  <2> DEFINE word == IF count = 1 THEN one ELSE many
             name == <<word>>
  <2>1. word \in Powers /\ Power(word) = size
    OBVIOUS
  <2>2. Group(count, words, one, many) = Append(words, word)
    BY <1>2 DEF Group
  <2> HIDE DEF word
  <2>3. words \in Seq(NumberWords) /\ word \in NumberWords /\ name \in Seq(NumberWords)
    BY <1>2, <2>1 DEF Says, NumberWords
  <2>4. Append(words, word) = words \o name
    BY <2>3, AppendIsConcat
  <2>5. ASSUME NEW sum \in Nat
        PROVE  Understood(At(sum, 0), words \o name) = At(sum + count * size, 0)
    <3>1. Understood(At(sum, 0), words) = At(sum, count)
      BY <1>2 DEF Says
    <3>2. Understood(At(sum, count), name) = Hear(At(sum, count), word)
      BY OneWordHeard
    <3>3. Hear(At(sum, count), word) = At(sum + size * count, 0)
      BY <1>2, <2>1, PowerHeard
    <3>4. size * count = count * size
      OBVIOUS
    <3> HIDE DEF name
    <3> QED
      BY <2>3, <3>1, <3>2, <3>3, <3>4, PhrasesHeard
  <2> HIDE DEF name
  <2>6. words \o name \in Seq(NumberWords)
    BY <2>3
  <2> QED
    BY <2>2, <2>4, <2>5, <2>6 DEF Counts
<1> QED
  BY <1>1, <1>2

LEMMA GroupsAndRestTell ==
    ASSUME NEW groups, NEW rest, NEW m \in Nat, NEW n \in Nat, Counts(groups, m), Says(rest, n)
    PROVE  Tells(groups \o rest, m + n)
<1>1. groups \in Seq(NumberWords) /\ rest \in Seq(NumberWords)
  BY DEF Counts, Says
<1>2. Understood(At(0, 0), groups) = At(0 + m, 0)
  BY DEF Counts
<1>3. 0 + m = m
  OBVIOUS
<1>4. Understood(At(m, 0), rest) = At(m, n)
  BY DEF Says
<1>5. Understood(At(0, 0), groups \o rest) = At(m, n)
  BY <1>1, <1>2, <1>3, <1>4, PhrasesHeard
<1>6. groups \o rest \in Seq(NumberWords)
  BY <1>1
<1> QED
  BY <1>5, <1>6 DEF Tells

LEMMA ZeroTells == Tells(<<"zero">>, 0)
<1>1. Adds(<<"zero">>, 0)
  BY TheTablesAdd DEF Others
<1>2. Understood(At(0, 0), <<"zero">>) = At(0, 0 + 0)
  BY <1>1 DEF Adds
<1>3. <<"zero">> \in Seq(NumberWords)
  BY <1>1 DEF Adds
<1> QED
  BY <1>2, <1>3 DEF Tells

LEMMA Thousands ==
    ASSUME NEW n \in Nat
    PROVE  n \div 1000 \in Nat /\ n = 1000 * (n \div 1000) + (n % 1000) /\ n % 1000 \in 0 .. 999
BY SMT

Digits == 0 .. 999

FromGroups(a, b, c, d) == a * 1000000000 + b * 1000000 + c * 1000 + d

\* Numbers below a million millions, and their groups of three digits.
Sayable(n) == n \in Nat /\ n \div 1000000000 < 1000

LEMMA ThreeDigits ==
    ASSUME NEW n, Sayable(n)
    PROVE  /\ n \div 1000000000 \in Digits
           /\ (n \div 1000000000) % 1000 = n \div 1000000000
           /\ (n \div 1000000) % 1000 \in Digits
           /\ (n \div 1000) % 1000 \in Digits
           /\ n % 1000 \in Digits
           /\ FromGroups(n \div 1000000000, (n \div 1000000) % 1000, (n \div 1000) % 1000, n % 1000) = n
<1> DEFINE a == n \div 1000
           b == a \div 1000
           c == b \div 1000
<1>1. a \in Nat /\ n = 1000 * a + (n % 1000) /\ n % 1000 \in Digits
  BY SMT, Thousands DEF Sayable, Digits
<1>2. b \in Nat /\ a = 1000 * b + (a % 1000) /\ a % 1000 \in Digits
  BY <1>1, Thousands DEF Digits
<1>3. c \in Nat /\ b = 1000 * c + (b % 1000) /\ b % 1000 \in Digits
  BY <1>2, Thousands DEF Digits
<1>4. n \div 1000000 = b
  BY SMT DEF Sayable
<1>5. n \div 1000000000 = c
  BY SMT DEF Sayable
<1> HIDE DEF a, b, c
<1>6. c \in Digits /\ c % 1000 = c
  BY SMT, <1>3, <1>5 DEF Sayable, Digits
<1>7. FromGroups(c, b % 1000, a % 1000, n % 1000) = n
  BY SMT, <1>1, <1>2, <1>3 DEF FromGroups, Digits
<1>8. a = n \div 1000
  BY DEF a
<1> QED
  BY SMT, <1>1, <1>2, <1>3, <1>4, <1>5, <1>6, <1>7, <1>8

LEMMA NamesArePowers ==
    /\ "mille" \in Powers /\ "million" \in Powers /\ "millions" \in Powers
    /\ "milliard" \in Powers /\ "milliards" \in Powers
    /\ "thousand" \in Powers /\ "billion" \in Powers
    /\ Power("million") = Power("millions") /\ Power("milliard") = Power("milliards")
<1>1. \A word \in {"milliard", "milliards"} : Power(word) = 1000000000
  BY SMT DEF Power
<1>2. \A word \in {"million", "millions"} : Power(word) = 1000000
  BY SMT DEF Power
<1> QED
  BY SMT, <1>1, <1>2 DEF Powers

LEMMA PowersOfNames ==
    /\ Power("milliard") = 1000000000 /\ Power("billion") = 1000000000
    /\ Power("million") = 1000000
    /\ Power("mille") = 1000 /\ Power("thousand") = 1000
<1>1. \A word \in {"milliard", "billion"} : Power(word) = 1000000000
  BY SMT DEF Power
<1>2. \A word \in {"million"} : Power(word) = 1000000
  BY SMT DEF Power
<1>3. \A word \in {"mille", "thousand"} : Power(word) = 1000
  BY SMT DEF Power
<1> QED
  BY SMT, <1>1, <1>2, <1>3

\* Three groups and the rest, from the largest.
LEMMA NumberTells ==
    ASSUME NEW g1, NEW m1 \in Nat, Counts(g1, m1), NEW g2, NEW m2 \in Nat, Counts(g2, m2),
           NEW g3, NEW m3 \in Nat, Counts(g3, m3), NEW rest, NEW d \in Nat, Says(rest, d)
    PROVE  Tells(g1 \o g2 \o g3 \o rest, m1 + m2 + m3 + d)
<1>1. Counts(g1 \o g2, m1 + m2)
  BY PhrasesCount
<1>2. m1 + m2 \in Nat /\ (m1 + m2) + m3 \in Nat
  OBVIOUS
<1>3. Counts((g1 \o g2) \o g3, (m1 + m2) + m3)
  BY <1>1, <1>2, PhrasesCount
<1> QED
  BY <1>2, <1>3, GroupsAndRestTell

LEMMA FrGroupCounts ==
    ASSUME NEW count \in Digits, NEW final \in BOOLEAN, NEW one \in Powers, NEW many \in Powers,
           Power(one) = Power(many)
    PROVE  Counts(Group(count, FrBelow1000(count, final), one, many), count * Power(one))
<1>1. Power(one) \in Nat
  BY SMT, PowersArePositive
<1>2. Says(FrBelow1000(count, final), count)
  BY FrBelow1000Says DEF Digits
<1> QED
  BY <1>1, <1>2, GroupCounts DEF Digits

LEMMA MilleCounts == Counts(<<"mille">>, 1000)
<1>1. "mille" \in Powers /\ Power("mille") = 1000
  BY SMT, NamesArePowers, PowersOfNames
<1>2. <<"mille">> \in Seq(NumberWords)
  BY <1>1 DEF NumberWords
<1>3. ASSUME NEW sum \in Nat
      PROVE  Understood(At(sum, 0), <<"mille">>) = At(sum + 1000, 0)
  <2>1. Hear(At(sum, 0), "mille") = At(sum + 1000 * (IF 0 = 0 THEN 1 ELSE 0), 0)
    BY <1>1, PowerHeard
  <2> QED
    BY <2>1, OneWordHeard
<1> QED
  BY <1>2, <1>3 DEF Counts

LEMMA FrenchGroupsTell ==
    ASSUME NEW a \in Digits, NEW b \in Digits, NEW c \in Digits, NEW d \in Digits
    PROVE  Tells(FrenchGroups(a, b, c, d), FromGroups(a, b, c, d))
<1> DEFINE g1 == Group(a, FrBelow1000(a, TRUE), "milliard", "milliards")
           g2 == Group(b, FrBelow1000(b, TRUE), "million", "millions")
           thousands == Group(c, FrBelow1000(c, FALSE), "mille", "mille")
           g3 == IF c = 1 THEN <<"mille">> ELSE thousands
           rest == FrBelow1000(d, TRUE)
<1>1. FrenchGroups(a, b, c, d) = g1 \o g2 \o g3 \o rest
  BY Zenon DEF FrenchGroups
<1>2. Counts(g1, a * 1000000000)
  <2>1. Counts(g1, a * Power("milliard"))
    BY NamesArePowers, FrGroupCounts, Zenon
  <2> HIDE DEF g1
  <2> QED
    BY SMT, <2>1, PowersOfNames
<1>3. Counts(g2, b * 1000000)
  <2>1. Counts(g2, b * Power("million"))
    BY NamesArePowers, FrGroupCounts, Zenon
  <2> HIDE DEF g2
  <2> QED
    BY SMT, <2>1, PowersOfNames
<1>4. Counts(thousands, c * 1000)
  <2>1. Counts(thousands, c * Power("mille"))
    BY NamesArePowers, FrGroupCounts, Zenon
  <2> HIDE DEF thousands
  <2> QED
    BY SMT, <2>1, PowersOfNames
<1> HIDE DEF g1, g2, thousands
<1>5. Counts(g3, c * 1000)
  <2>1. CASE c = 1
    <3>1. g3 = <<"mille">> /\ c * 1000 = 1000
      BY SMT, <2>1
    <3> HIDE DEF g3
    <3> QED
      BY SMT, <3>1, MilleCounts
  <2>2. CASE c # 1
    BY SMT, <1>4, <2>2
  <2> QED
    BY SMT, <2>1, <2>2
<1>6. Says(rest, d)
  BY FrBelow1000Says, ZenonT(60) DEF Digits
<1> HIDE DEF g3, rest
<1>7. a * 1000000000 \in Nat /\ b * 1000000 \in Nat /\ c * 1000 \in Nat /\ d \in Nat
  BY SMT DEF Digits
<1>8. Tells(g1 \o g2 \o g3 \o rest, a * 1000000000 + b * 1000000 + c * 1000 + d)
  BY SMT, <1>2, <1>3, <1>5, <1>6, <1>7, NumberTells
<1> QED
  BY SMT, <1>1, <1>8 DEF FromGroups

LEMMA FrenchTells ==
    ASSUME NEW n, Sayable(n)
    PROVE  Tells(French(n), n)
<1>1. CASE n = 0
  <2>1. French(n) = <<"zero">>
    BY SMT, <1>1 DEF French
  <2> QED
    BY SMT, <1>1, <2>1, ZeroTells
<1>2. CASE n # 0
  <2> DEFINE a == n \div 1000000000
             b == (n \div 1000000) % 1000
             c == (n \div 1000) % 1000
             d == n % 1000
  <2>1. French(n) = FrenchGroups(a, b, c, d)
    BY SMT, <1>2 DEF French
  <2>2. a \in Digits /\ b \in Digits /\ c \in Digits /\ d \in Digits
    BY SMT, ThreeDigits
  <2>3. FromGroups(a, b, c, d) = n
    BY SMT, ThreeDigits
  <2> HIDE DEF a, b, c, d
  <2>4. Tells(FrenchGroups(a, b, c, d), FromGroups(a, b, c, d))
    BY SMT, <2>2, FrenchGroupsTell
  <2> QED
    BY SMT, <2>1, <2>3, <2>4
<1> QED
  BY SMT, <1>1, <1>2

LEMMA EnGroupCounts ==
    ASSUME NEW count \in Digits, NEW name \in Powers
    PROVE  Counts(Group(count, EnBelow1000(count), name, name), count * Power(name))
<1>1. Power(name) \in Nat
  BY SMT, PowersArePositive
<1>2. Says(EnBelow1000(count), count)
  BY EnBelow1000Says DEF Digits
<1> QED
  BY <1>1, <1>2, GroupCounts, SMTT(30) DEF Digits

LEMMA EnglishGroupsTell ==
    ASSUME NEW a \in Digits, NEW b \in Digits, NEW c \in Digits, NEW d \in Digits
    PROVE  Tells(EnglishGroups(a, b, c, d), FromGroups(a, b, c, d))
<1> DEFINE g1 == Group(a, EnBelow1000(a), "billion", "billion")
           g2 == Group(b, EnBelow1000(b), "million", "million")
           g3 == Group(c, EnBelow1000(c), "thousand", "thousand")
           rest == EnBelow1000(d)
<1>1. EnglishGroups(a, b, c, d) = g1 \o g2 \o g3 \o rest
  BY Zenon DEF EnglishGroups
<1>2. Counts(g1, a * 1000000000)
  <2>1. Counts(g1, a * Power("billion"))
    BY NamesArePowers, EnGroupCounts, Zenon
  <2> HIDE DEF g1
  <2> QED
    BY SMT, <2>1, PowersOfNames
<1>3. Counts(g2, b * 1000000)
  <2>1. Counts(g2, b * Power("million"))
    BY NamesArePowers, EnGroupCounts, Zenon
  <2> HIDE DEF g2
  <2> QED
    BY SMT, <2>1, PowersOfNames
<1>4. Counts(g3, c * 1000)
  <2>1. Counts(g3, c * Power("thousand"))
    BY NamesArePowers, EnGroupCounts, ZenonT(60)
  <2> HIDE DEF g3
  <2> QED
    BY SMT, <2>1, PowersOfNames
<1>5. Says(rest, d)
  BY EnBelow1000Says, ZenonT(60) DEF Digits
<1> HIDE DEF g1, g2, g3, rest
<1>6. a * 1000000000 \in Nat /\ b * 1000000 \in Nat /\ c * 1000 \in Nat /\ d \in Nat
  BY SMT DEF Digits
<1>7. Tells(g1 \o g2 \o g3 \o rest, a * 1000000000 + b * 1000000 + c * 1000 + d)
  BY SMT, <1>2, <1>3, <1>4, <1>5, <1>6, NumberTells
<1> QED
  BY SMT, <1>1, <1>7 DEF FromGroups

LEMMA EnglishTells ==
    ASSUME NEW n, Sayable(n)
    PROVE  Tells(English(n), n)
<1>1. CASE n = 0
  <2>1. English(n) = <<"zero">>
    BY SMT, <1>1 DEF English
  <2> QED
    BY SMT, <1>1, <2>1, ZeroTells
<1>2. CASE n # 0
  <2> DEFINE a == n \div 1000000000
             b == (n \div 1000000) % 1000
             c == (n \div 1000) % 1000
             d == n % 1000
  <2>1. English(n) = EnglishGroups(a, b, c, d)
    BY SMT, <1>2 DEF English
  <2>2. a \in Digits /\ b \in Digits /\ c \in Digits /\ d \in Digits
    BY SMT, ThreeDigits
  <2>3. FromGroups(a, b, c, d) = n
    BY SMT, ThreeDigits
  <2> HIDE DEF a, b, c, d
  <2>4. Tells(EnglishGroups(a, b, c, d), FromGroups(a, b, c, d))
    BY SMT, <2>2, EnglishGroupsTell
  <2> QED
    BY SMT, <2>1, <2>3, <2>4
<1> QED
  BY SMT, <1>1, <1>2

LEMMA NumberInWordsTells ==
    ASSUME NEW n, Sayable(n), NEW locale
    PROVE  Tells(NumberInWords(n, locale), n)
BY SMT, FrenchTells, EnglishTells DEF NumberInWords

\* A number in words, read back, is the number.
THEOREM NumbersReadBack ==
    ASSUME NEW n, Sayable(n), NEW locale
    PROVE  ReadNumber(NumberInWords(n, locale)) = n
<1>1. n \in Nat
  BY SMT DEF Sayable
<1>2. Tells(NumberInWords(n, locale), n)
  BY NumberInWordsTells
<1> QED
  BY <1>1, <1>2, ToldIsRead

-----------------------------------------------------------------------------
(***************************************************************************)
(* Amounts: what stands before the last word for the currency's unit is    *)
(* the number of units, and what follows it, up to the last word, the      *)
(* number of fractions.                                                    *)
(***************************************************************************)

UnitNouns ==
    {"dinar", "dinars", "euro", "euros", "dollar", "dollars",
     "livre-sterling", "livres-sterling", "pound", "pounds"}

FractionNouns ==
    {"millime", "millimes", "centime", "centimes", "cent", "cents", "penny", "pence"}

AmountWords == NumberWords \cup UnitNouns \cup FractionNouns

LEMMA NounsAreNouns ==
    ASSUME NEW currency \in Currencies, NEW locale \in Locales
    PROVE  /\ Nouns(currency, locale)[1] \in UnitNouns /\ Nouns(currency, locale)[2] \in UnitNouns
           /\ Nouns(currency, locale)[3] \in FractionNouns
           /\ Nouns(currency, locale)[4] \in FractionNouns
<1>1. CASE currency = "TND"
  BY <1>1 DEF Nouns, UnitNouns, FractionNouns
<1>2. CASE currency = "EUR" /\ locale = "fr"
  BY <1>2 DEF Nouns, UnitNouns, FractionNouns
<1>3. CASE currency = "EUR" /\ locale = "en"
  BY <1>3 DEF Nouns, UnitNouns, FractionNouns
<1>4. CASE currency = "USD"
  BY <1>4 DEF Nouns, UnitNouns, FractionNouns
<1>5. CASE currency = "GBP" /\ locale = "fr"
  BY <1>5 DEF Nouns, UnitNouns, FractionNouns
<1>6. CASE currency = "GBP" /\ locale = "en"
  BY <1>6 DEF Nouns, UnitNouns, FractionNouns
<1> QED
  BY <1>1, <1>2, <1>3, <1>4, <1>5, <1>6 DEF Currencies, Locales

LEMMA UnitNounsStandOut == UnitNouns \cap (NumberWords \cup FractionNouns) = {}
<1>1. ASSUME NEW word \in UnitNouns
      PROVE  /\ \A i \in 1 .. 16 : FrUnits[i] # word
             /\ \A i \in 1 .. 19 : EnUnits[i] # word
             /\ \A i \in 1 .. 6 : FrTens[i] # word
             /\ \A i \in 1 .. 9 : EnTens[i] # word
  <2>1. \A i \in 1 .. 16 : FrUnits[i] # word
    BY DEF FrUnits, UnitNouns
  <2>2. \A i \in 1 .. 19 : EnUnits[i] # word
    BY DEF EnUnits, UnitNouns
  <2>3. \A i \in 1 .. 6 : FrTens[i] # word
    BY DEF FrTens, UnitNouns
  <2>4. \A i \in 1 .. 9 : EnTens[i] # word
    BY DEF EnTens, UnitNouns
  <2> QED
    BY <2>1, <2>2, <2>3, <2>4
<1>2. UnitNouns \cap (Eighty \cup Others \cup Hundreds \cup Powers \cup FractionNouns) = {}
  BY DEF UnitNouns, Eighty, Others, Hundreds, Powers, FractionNouns
<1> QED
  BY <1>1, <1>2 DEF NumberWords, Numerals

\* A word that means nothing may come before a number or after it.
LEMMA FillersTellNothing ==
    ASSUME NEW words, NEW n \in Nat, Tells(words, n), NEW word \in Others
    PROVE  Tells(<<word>> \o words, n) /\ Tells(words \o <<word>>, n)
<1> DEFINE filler == <<word>>
<1>1. Adds(filler, 0)
  BY TheTablesAdd
<1>2. filler \in Seq(NumberWords) /\ words \in Seq(NumberWords)
  BY <1>1 DEF Adds, Tells
<1> HIDE DEF filler
<1>3. PICK sum \in Nat, group \in Nat :
          sum + group = n /\ Understood(At(0, 0), words) = At(sum, group)
  BY DEF Tells
<1>4. Understood(At(0, 0), filler \o words) = At(sum, group)
  <2>1. Understood(At(0, 0), filler) = At(0, 0 + 0)
    BY <1>1 DEF Adds
  <2> QED
    BY <1>2, <1>3, <2>1, PhrasesHeard
<1>5. Understood(At(0, 0), words \o filler) = At(sum, group)
  <2>1. Understood(At(sum, group), filler) = At(sum, group + 0)
    BY <1>1 DEF Adds
  <2>2. group + 0 = group
    OBVIOUS
  <2> QED
    BY <1>2, <1>3, <2>1, <2>2, PhrasesHeard
<1>6. filler \o words \in Seq(NumberWords) /\ words \o filler \in Seq(NumberWords)
  BY <1>2
<1>7. Tells(filler \o words, n) /\ Tells(words \o filler, n)
  BY <1>3, <1>4, <1>5, <1>6 DEF Tells
<1> QED
  BY <1>7, Zenon DEF filler

\* The last word of a kind, when those after it are of another.
LEMMA LastOfAKind ==
    ASSUME NEW words, NEW kind, NEW k \in 1 .. Len(words), Len(words) \in Nat, words[k] \in kind,
           \A i \in k + 1 .. Len(words) : words[i] \notin kind
    PROVE  SelectLastInSeq(words, LAMBDA word : word \in kind) = k
<1> DEFINE I == {i \in 1 .. Len(words) : words[i] \in kind}
<1>1. k \in I /\ \A i \in I : i <= k
  OBVIOUS
<1>2. Max(I) \in I /\ k <= Max(I)
  <2>1. I \in SUBSET (1 .. Len(words)) /\ I # {}
    BY <1>1
  <2> HIDE DEF I
  <2> QED
    BY <1>1, <2>1, LastPosition
<1>3. Max(I) = k
  BY <1>1, <1>2
<1>4. I # {}
  BY <1>1
<1> QED
  BY <1>3, <1>4 DEF SelectLastInSeq

\* What stands before the second part of two.
LEMMA HeadOfConcat ==
    ASSUME NEW W, NEW first \in Seq(W), NEW second \in Seq(W)
    PROVE  SubSeq(first \o second, 1, Len(first)) = first
<1>1. Len(first) \in Nat
  OBVIOUS
<1>2. CASE Len(first) = 0
  <2>1. first = <<>>
    BY <1>2
  <2>2. SubSeq(first \o second, 1, 0) = <<>>
    BY SubSeqEmpty
  <2> QED
    BY <1>2, <2>1, <2>2
<1>3. CASE Len(first) # 0
  <2>1. Len(first) \in 1 .. Len(first) /\ 1 \in 1 .. Len(first)
    BY <1>1, <1>3
  <2> QED
    BY <2>1, SubSeqOfConcat1, SubSeqFull
<1> QED
  BY <1>2, <1>3

\* What follows the first part, up to the last word.
LEMMA TailOfConcat ==
    ASSUME NEW W, NEW first \in Seq(W), NEW second \in Seq(W), second # <<>>
    PROVE  SubSeq(first \o second, Len(first) + 1, (Len(first) + Len(second)) - 1)
             = SubSeq(second, 1, Len(second) - 1)
<1> DEFINE k == Len(first)
           l == Len(second)
           both == first \o second
           left == SubSeq(both, k + 1, (k + l) - 1)
           right == SubSeq(second, 1, l - 1)
<1>1. k \in Nat /\ l \in Nat \ {0} /\ Len(both) = k + l /\ both \in Seq(W)
  OBVIOUS
<1>2. \A i \in 1 .. l : both[k + i] = second[i] /\ second[i] \in W
  OBVIOUS
<1> HIDE DEF k, l, both
<1>3. \A i \in k + 1 .. (k + l) - 1 : both[i] \in W
  BY <1>1
<1>4. /\ left \in Seq(W) /\ Len(left) = l - 1
      /\ \A i \in 1 .. l - 1 : left[i] = both[k + i]
  <2>1. k + 1 \in Int /\ (k + l) - 1 \in Int /\ ((k + l) - 1) - (k + 1) + 1 = l - 1
    BY <1>1
  <2>2. /\ left \in Seq(W)
        /\ Len(left) = IF k + 1 <= (k + l) - 1 THEN ((k + l) - 1) - (k + 1) + 1 ELSE 0
        /\ \A i \in 1 .. ((k + l) - 1) - (k + 1) + 1 : left[i] = both[(k + 1) + i - 1]
    BY <1>3, <2>1, SubSeqProperties
  <2>3. \A i \in 1 .. l - 1 : (k + 1) + i - 1 = k + i
    BY <1>1
  <2> HIDE DEF left
  <2> QED
    BY <1>1, <2>1, <2>2, <2>3
<1>5. /\ right \in Seq(W) /\ Len(right) = l - 1
      /\ \A i \in 1 .. l - 1 : right[i] = second[i]
  <2>1. \A i \in 1 .. l - 1 : second[i] \in W
    BY <1>1, <1>2
  <2>2. /\ right \in Seq(W)
        /\ Len(right) = IF 1 <= l - 1 THEN (l - 1) - 1 + 1 ELSE 0
        /\ \A i \in 1 .. (l - 1) - 1 + 1 : right[i] = second[1 + i - 1]
    BY <1>1, <2>1, SubSeqProperties
  <2>3. (l - 1) - 1 + 1 = l - 1 /\ \A i \in 1 .. l - 1 : 1 + i - 1 = i
    BY <1>1
  <2> HIDE DEF right
  <2> QED
    BY <1>1, <2>2, <2>3
<1>6. \A i \in 1 .. Len(left) : left[i] = right[i]
  <2> HIDE DEF left, right
  <2>1. ASSUME NEW i \in 1 .. l - 1 PROVE left[i] = right[i]
    <3>1. i \in 1 .. l
      BY <1>1
    <3>2. left[i] = both[k + i] /\ right[i] = second[i]
      BY <1>4, <1>5
    <3> QED
      BY <1>2, <3>1, <3>2
  <2> QED
    BY <1>4, <2>1
<1>7. left = right
  <2> HIDE DEF left, right
  <2> QED
    BY <1>4, <1>5, <1>6, SeqEqual
<1> QED
  BY <1>7 DEF both, k, l

UnitsOf(currency, locale) == {Nouns(currency, locale)[1], Nouns(currency, locale)[2]}

LEMMA Regroup ==
    ASSUME NEW a \in Seq(AmountWords), NEW b \in Seq(AmountWords),
           NEW c \in Seq(AmountWords), NEW d \in Seq(AmountWords)
    PROVE  (a \o b) \o (c \o d) = a \o ((b \o c) \o d)
<1>1. c \o d \in Seq(AmountWords)
  OBVIOUS
<1>2. (a \o b) \o (c \o d) = a \o (b \o (c \o d))
  BY <1>1, ConcatAssociative
<1>3. (b \o c) \o d = b \o (c \o d)
  BY ConcatAssociative
<1> QED
  BY <1>2, <1>3, Zenon

LEMMA UnitsRead ==
    ASSUME NEW currency \in Currencies, NEW locale \in Locales, NEW n \in Nat,
           NEW number, Tells(number, n),
           NEW noun \in UnitsOf(currency, locale)
    PROVE  ReadAmount(number \o <<noun>>, currency, locale) = 100 * n
<1> DEFINE words == number \o <<noun>>
           kind == UnitsOf(currency, locale)
           unit == SelectLastInSeq(words, LAMBDA word : word \in kind)
<1>1. number \in Seq(AmountWords) /\ <<noun>> \in Seq(AmountWords) /\ Len(number) \in Nat
  <2>1. noun \in AmountWords
    BY NounsAreNouns DEF AmountWords, UnitsOf
  <2>2. number \in Seq(NumberWords) /\ NumberWords \subseteq AmountWords
    BY DEF Tells, AmountWords
  <2> QED
    BY <2>1, <2>2, SeqMonotonic
<1>2. Len(words) = Len(number) + 1 /\ words[Len(number) + 1] = noun
  BY <1>1
<1>3. unit = Len(words)
  <2> HIDE DEF words, kind
  <2>1. Len(words) \in 1 .. Len(words) /\ Len(words) \in Nat
    BY <1>1, <1>2
  <2>2. words[Len(words)] \in kind
    BY <1>2 DEF kind
  <2>3. \A i \in Len(words) + 1 .. Len(words) : words[i] \notin kind
    BY <2>1
  <2> QED
    BY <2>1, <2>2, <2>3, LastOfAKind
<1>4. SubSeq(words, 1, unit - 1) = number
  <2>1. unit - 1 = Len(number)
    BY <1>1, <1>2, <1>3
  <2> QED
    BY <1>1, <2>1, HeadOfConcat
<1>5. ReadNumber(number) = n
  BY ToldIsRead
<1>6. PerHundredth(currency) \in {1, 10}
  BY DEF PerHundredth
<1>7. ReadAmount(words, currency, locale) = 100 * n + 0 \div PerHundredth(currency)
  <2>1. unit # 0
    BY <1>1, <1>2, <1>3
  <2> QED
    BY <1>3, <1>4, <1>5, <2>1, Zenon DEF ReadAmount, UnitsOf
<1> QED
  BY <1>6, <1>7

LEMMA FractionsRead ==
    ASSUME NEW currency \in Currencies, NEW locale \in Locales, NEW n \in Nat,
           NEW number, Tells(number, n), NEW coin \in FractionNouns
    PROVE  ReadAmount(number \o <<coin>>, currency, locale) = 100 * 0 + n \div PerHundredth(currency)
<1> DEFINE words == number \o <<coin>>
           kind == UnitsOf(currency, locale)
           unit == SelectLastInSeq(words, LAMBDA word : word \in kind)
<1>1. number \in Seq(NumberWords \cup FractionNouns) /\ <<coin>> \in Seq(NumberWords \cup FractionNouns)
  <2>1. number \in Seq(NumberWords)
    BY DEF Tells
  <2> QED
    BY <2>1, SeqMonotonic
<1>2. /\ words \in Seq(NumberWords \cup FractionNouns) /\ Len(number) \in Nat
      /\ Len(words) = Len(number) + 1
  BY <1>1
<1>3. unit = 0
  <2>1. \A word \in NumberWords \cup FractionNouns : word \notin kind
    BY NounsAreNouns, UnitNounsStandOut DEF UnitsOf
  <2> HIDE DEF words, kind
  <2>2. \A i \in 1 .. Len(words) : words[i] \notin kind
    BY <1>2, <2>1
  <2> QED
    BY <2>2 DEF SelectLastInSeq
<1>4. SubSeq(words, unit + 1, Len(words) - 1) = number
  <2>1. unit + 1 = 1 /\ Len(words) - 1 = Len(number)
    BY <1>2, <1>3
  <2> HIDE DEF unit
  <2> QED
    BY <1>1, <2>1, HeadOfConcat
<1>5. ReadNumber(number) = n
  BY ToldIsRead
<1>6. unit # Len(words)
  BY <1>2, <1>3
<1> QED
  BY <1>3, <1>4, <1>5, <1>6, Zenon DEF ReadAmount, UnitsOf

LEMMA BothRead ==
    ASSUME NEW currency \in Currencies, NEW locale \in Locales,
           NEW m \in Nat, NEW number, Tells(number, m),
           NEW noun \in UnitsOf(currency, locale),
           NEW n \in Nat, NEW count, Tells(count, n), NEW coin \in FractionNouns
    PROVE  ReadAmount((number \o <<noun>>) \o (count \o <<coin>>), currency, locale)
             = 100 * m + n \div PerHundredth(currency)
<1> DEFINE first == number \o <<noun>>
           second == count \o <<coin>>
           words == first \o second
           kind == UnitsOf(currency, locale)
           unit == SelectLastInSeq(words, LAMBDA word : word \in kind)
           k == Len(number) + 1
           l == Len(count) + 1
<1>1. /\ number \in Seq(AmountWords) /\ count \in Seq(AmountWords)
      /\ <<noun>> \in Seq(AmountWords) /\ <<coin>> \in Seq(AmountWords)
  <2>1. noun \in AmountWords /\ coin \in AmountWords
    BY NounsAreNouns DEF AmountWords, UnitsOf
  <2>2. /\ number \in Seq(NumberWords) /\ count \in Seq(NumberWords)
        /\ NumberWords \subseteq AmountWords
    BY DEF Tells, AmountWords
  <2> QED
    BY <2>1, <2>2, SeqMonotonic
<1>2. /\ first \in Seq(AmountWords) /\ Len(first) = k /\ k \in Nat \ {0} /\ first[k] = noun
      /\ second \in Seq(AmountWords) /\ Len(second) = l /\ l \in Nat \ {0}
  BY <1>1
<1>3. \A i \in 1 .. l : second[i] \notin kind
  <2>1. \A word \in NumberWords \cup FractionNouns : word \notin kind
    BY NounsAreNouns, UnitNounsStandOut DEF UnitsOf
  <2>2. count \in Seq(NumberWords \cup FractionNouns) /\ <<coin>> \in Seq(NumberWords \cup FractionNouns)
    <3>1. count \in Seq(NumberWords)
      BY DEF Tells
    <3> QED
      BY <3>1, SeqMonotonic
  <2>3. second \in Seq(NumberWords \cup FractionNouns)
    BY <2>2
  <2> HIDE DEF second, kind
  <2> QED
    BY <1>2, <2>1, <2>3
<1> HIDE DEF first, second, k, l
<1>4. Len(words) = k + l /\ words[k] = noun /\ \A i \in k + 1 .. k + l : words[i] \notin kind
  <2>1. Len(words) = k + l /\ words[k] = noun
    BY <1>2
  <2>2. ASSUME NEW i \in k + 1 .. k + l PROVE words[i] = second[i - k] /\ i - k \in 1 .. l
    BY <1>2
  <2> HIDE DEF words, kind
  <2> QED
    BY <1>3, <2>1, <2>2
<1>5. unit = k
  <2> HIDE DEF words, kind
  <2>1. k \in 1 .. Len(words) /\ Len(words) \in Nat
    BY <1>2, <1>4
  <2>2. words[k] \in kind
    BY <1>4 DEF kind
  <2> QED
    BY <1>4, <2>1, <2>2, LastOfAKind
<1>6. SubSeq(words, 1, unit - 1) = number
  <2>1. SubSeq(words, 1, k) = first
    BY <1>2, HeadOfConcat
  <2>2. SubSeq(first, 1, k - 1) = number
    BY <1>1, HeadOfConcat DEF first, k
  <2>3. SubSeq(words, 1, k - 1) = SubSeq(first, 1, k - 1)
    <3>1. CASE k = 1
      BY <1>2, <3>1, SubSeqEmpty
    <3>2. CASE k # 1
      <4>1. k - 1 \in 1 .. Len(first) /\ 1 \in 1 .. Len(first)
        BY <1>2, <3>2
      <4> QED
        BY <1>2, <4>1, SubSeqOfConcat1
    <3> QED
      BY <3>1, <3>2
  <2> QED
    BY <1>5, <2>2, <2>3
<1>7. SubSeq(words, unit + 1, Len(words) - 1) = count
  <2>1. SubSeq(second, 1, l - 1) = count
    BY <1>1, HeadOfConcat DEF second, l
  <2>2. SubSeq(words, k + 1, (k + l) - 1) = SubSeq(second, 1, l - 1)
    BY <1>2, TailOfConcat
  <2> HIDE DEF unit, words
  <2> QED
    BY <1>4, <1>5, <2>1, <2>2
<1>8. ReadNumber(number) = m /\ ReadNumber(count) = n
  BY ToldIsRead
<1>9. unit # 0 /\ unit # Len(words)
  BY <1>2, <1>4, <1>5
<1>10. ReadAmount(words, currency, locale) = 100 * m + n \div PerHundredth(currency)
  BY <1>6, <1>7, <1>8, <1>9, Zenon DEF ReadAmount, UnitsOf
<1> QED
  BY <1>10, Zenon DEF first, second

\* An amount in words, read back, is the amount: an amount is of at most a
\* million millions of units, less one.
THEOREM AmountReadsBack ==
    ASSUME NEW amount \in Nat, Sayable(amount \div 100),
           NEW currency \in Currencies, NEW locale \in Locales
    PROVE  ReadAmount(AmountInWords(amount, currency, locale), currency, locale) = amount
<1> DEFINE whole == amount \div 100
           cents == amount % 100
           per == PerHundredth(currency)
           fraction == cents * per
           nouns == Nouns(currency, locale)
           number == NumberInWords(whole, locale)
           ofMillions == /\ locale = "fr"
                         /\ Last(number) \in {"million", "millions", "milliard", "milliards"}
           units == IF ofMillions THEN number \o <<"de", nouns[2]>>
                    ELSE Append(number, IF whole <= 1 THEN nouns[1] ELSE nouns[2])
           coin == IF fraction = 1 THEN nouns[3] ELSE nouns[4]
           count == NumberInWords(fraction, locale)
           fractions == Append(count, coin)
           and == IF locale = "fr" THEN "et" ELSE "and"
<1>1. /\ whole \in Nat /\ Sayable(whole) /\ cents \in 0 .. 99 /\ per \in {1, 10}
      /\ amount = 100 * whole + cents
  BY DEF PerHundredth
<1>2. fraction \in 0 .. 990 /\ fraction \div per = cents
  BY SMT, <1>1
<1>3. Sayable(fraction)
  <2>1. fraction \div 1000000000 = 0
    BY SMT, <1>2
  <2> QED
    BY SMT, <1>2, <2>1 DEF Sayable
<1>4. AmountInWords(amount, currency, locale) =
        CASE fraction = 0 -> units
          [] whole = 0 /\ fraction > 0 -> fractions
          [] OTHER -> units \o <<and>> \o fractions
  BY Zenon DEF AmountInWords
<1>5. Tells(number, whole) /\ Tells(count, fraction)
  BY <1>1, <1>3, NumberInWordsTells
<1> HIDE DEF whole, cents, per, fraction, number, count
<1>6. nouns[1] \in UnitNouns /\ nouns[2] \in UnitNouns /\ coin \in FractionNouns
  BY NounsAreNouns
<1>7. \E head, noun : noun \in {nouns[1], nouns[2]} /\ Tells(head, whole) /\ units = head \o <<noun>>
  <2>1. number \in Seq(AmountWords)
    <3>1. number \in Seq(NumberWords) /\ NumberWords \subseteq AmountWords
      BY <1>5 DEF Tells, AmountWords
    <3> QED
      BY <3>1, SeqMonotonic
  <2>2. CASE ofMillions
    <3> DEFINE de == <<"de">>
               last == <<nouns[2]>>
    <3>1. "de" \in Others
      BY DEF Others
    <3>2. Tells(number \o de, whole)
      BY <1>1, <1>5, <3>1, FillersTellNothing
    <3>3. units = number \o (de \o last)
      <4>1. units = number \o <<"de", nouns[2]>>
        BY <2>2
      <4>2. <<"de", nouns[2]>> = de \o last
        BY Pairs
      <4> QED
        BY <4>1, <4>2, Zenon
    <3>4. de \in Seq(AmountWords) /\ last \in Seq(AmountWords)
      BY <1>6, <3>1 DEF AmountWords, NumberWords, Numerals
    <3> HIDE DEF de, last, units
    <3>5. units = (number \o de) \o last
      BY <2>1, <3>3, <3>4, ConcatAssociative, SMTT(30)
    <3>6. nouns[2] \in {nouns[1], nouns[2]}
      OBVIOUS
    <3> QED
      BY <3>2, <3>5, <3>6, Zenon DEF last
  <2>3. CASE ~ ofMillions
    <3> DEFINE noun == IF whole <= 1 THEN nouns[1] ELSE nouns[2]
    <3>1. units = Append(number, noun)
      BY <2>3
    <3>2. noun \in {nouns[1], nouns[2]}
      OBVIOUS
    <3>3. noun \in AmountWords
      BY <1>6, <3>2 DEF AmountWords
    <3> HIDE DEF noun, units
    <3>4. Append(number, noun) = number \o <<noun>>
      BY <2>1, <3>3, AppendIsConcat
    <3>5. units = number \o <<noun>>
      BY <3>1, <3>4, Zenon
    <3> QED
      BY <1>5, <3>2, <3>5, Zenon
  <2> QED
    BY <2>2, <2>3
<1>8. fractions = count \o <<coin>>
  <2>1. count \in Seq(NumberWords \cup FractionNouns)
    <3>1. count \in Seq(NumberWords)
      BY <1>5 DEF Tells
    <3> QED
      BY <3>1, SeqMonotonic
  <2>2. coin \in NumberWords \cup FractionNouns
    BY <1>6
  <2> QED
    BY <2>1, <2>2, AppendIsConcat
<1> HIDE DEF units, coin, fractions
<1>9. PICK head, noun : noun \in {nouns[1], nouns[2]} /\ Tells(head, whole) /\ units = head \o <<noun>>
  BY <1>7
<1>10. CASE fraction = 0
  <2>1. AmountInWords(amount, currency, locale) = head \o <<noun>>
    <3>1. ~ (fraction > 0)
      BY <1>10
    <3> QED
      BY <1>4, <1>9, <1>10, <3>1, Zenon
  <2>2. ReadAmount(head \o <<noun>>, currency, locale) = 100 * whole
    BY <1>1, <1>9, UnitsRead, ZenonT(60) DEF UnitsOf
  <2>3. cents = 0
    BY SMT, <1>1, <1>2, <1>10 DEF fraction
  <2>4. ReadAmount(AmountInWords(amount, currency, locale), currency, locale) = 100 * whole
    BY <2>1, <2>2, Zenon
  <2> QED
    BY <1>1, <2>3, <2>4
<1>11. CASE whole = 0 /\ fraction # 0
  <2>1. AmountInWords(amount, currency, locale) = count \o <<coin>>
    <3>1. fraction > 0
      BY <1>2, <1>11
    <3> QED
      BY <1>4, <1>8, <1>11, <3>1, Zenon
  <2>2. ReadAmount(count \o <<coin>>, currency, locale) = 100 * 0 + fraction \div per
    <3>1. fraction \in Nat
      BY <1>2
    <3> QED
      BY <1>5, <1>6, <3>1, FractionsRead DEF per
  <2>3. ReadAmount(AmountInWords(amount, currency, locale), currency, locale)
          = 100 * 0 + fraction \div per
    BY <2>1, <2>2, Zenon
  <2> QED
    BY <1>1, <1>2, <1>11, <2>3
<1>12. CASE whole # 0 /\ fraction # 0
  <2> DEFINE conjunction == <<and>>
             last == <<coin>>
             tail == conjunction \o count
  <2>1. AmountInWords(amount, currency, locale) = units \o conjunction \o fractions
    BY <1>4, <1>12, Zenon
  <2>2. and \in Others
    BY DEF Others
  <2>3. fraction \in Nat
    BY <1>2
  <2>4. Tells(tail, fraction)
    BY <1>5, <2>2, <2>3, FillersTellNothing
  <2>5. units \o conjunction \o fractions = units \o (tail \o last)
    <3>1. /\ units \in Seq(AmountWords) /\ conjunction \in Seq(AmountWords)
          /\ count \in Seq(AmountWords) /\ last \in Seq(AmountWords)
      <4>1. head \in Seq(NumberWords) /\ count \in Seq(NumberWords) /\ NumberWords \subseteq AmountWords
        BY <1>5, <1>9 DEF Tells, AmountWords
      <4>2. head \in Seq(AmountWords) /\ count \in Seq(AmountWords)
        BY <4>1, SeqMonotonic
      <4>3. noun \in AmountWords /\ and \in AmountWords /\ coin \in AmountWords
        BY <1>6, <1>9, <2>2 DEF AmountWords, NumberWords, Numerals
      <4>4. /\ <<noun>> \in Seq(AmountWords) /\ conjunction \in Seq(AmountWords)
            /\ last \in Seq(AmountWords)
        BY <4>3
      <4> HIDE DEF conjunction, last
      <4> QED
        BY <1>9, <4>2, <4>4
    <3>2. fractions = count \o last
      BY <1>8
    <3> HIDE DEF conjunction, last, tail
    <3>3. (units \o conjunction) \o (count \o last) = units \o ((conjunction \o count) \o last)
      BY <3>1, Regroup, SMTT(60)
    <3> QED
      BY <3>2, <3>3, Zenon DEF tail
  <2> HIDE DEF conjunction, tail
  <2>6. ReadAmount((head \o <<noun>>) \o (tail \o <<coin>>), currency, locale)
          = 100 * whole + fraction \div per
    <3>1. noun \in UnitsOf(currency, locale)
      BY <1>9 DEF UnitsOf
    <3> QED
      BY <1>1, <1>6, <1>9, <2>3, <2>4, <3>1, BothRead DEF per
  <2>7. ReadAmount(AmountInWords(amount, currency, locale), currency, locale)
          = 100 * whole + fraction \div per
    BY <1>9, <2>1, <2>5, <2>6, Zenon
  <2> QED
    BY <1>1, <1>2, <2>7
<1> QED
  BY <1>10, <1>11, <1>12

-----------------------------------------------------------------------------
(***************************************************************************)
(* Sums, term by term.                                                     *)
(***************************************************************************)

\* sums[k] is the sum of the first k values.
Runs(sums, n, values) ==
    /\ sums[0] = 0
    /\ \A k \in 1 .. n : sums[k] = sums[k - 1] + values[k]

\* The table of sums over each set of positions.
Added(values, table, s) ==
    IF s = {} THEN 0 ELSE table[s \ {Max(s)}] + values[Max(s)]

SumTable(table, n, values) ==
    table = [s \in SUBSET (1 .. n) |-> Added(values, table, s)]

LEMMA SumTableExists ==
    ASSUME NEW n \in Nat, NEW values
    PROVE  \E table : SumTable(table, n, values)
<1> DEFINE Good(table, k) ==
               /\ table = [s \in SUBSET (1 .. n) |-> table[s]]
               /\ \A s \in SUBSET (1 .. k) : table[s] = Added(values, table, s)
           T == {k \in 0 .. n : \E table : Good(table, k)}
<1>1. 0 \in T
  <2> DEFINE table == [s \in SUBSET (1 .. n) |-> 0]
  <2>1. Good(table, 0)
    BY DEF Added
  <2>2. \E t : Good(t, 0)
    BY <2>1
  <2>3. 0 \in 0 .. n
    OBVIOUS
  <2> HIDE DEF Good
  <2> QED
    BY <2>2, <2>3
<1>2. ASSUME NEW k \in 0 .. n - 1, NEW table, Good(table, k) PROVE \E next : Good(next, k + 1)
  <2> DEFINE next == [s \in SUBSET (1 .. n) |-> Added(values, table, s)]
  <2>1. ASSUME NEW s \in SUBSET (1 .. k + 1) PROVE next[s] = Added(values, next, s)
    <3>1. s \in SUBSET (1 .. n)
      BY <1>2
    <3>2. CASE s = {}
      BY <3>1, <3>2 DEF Added
    <3>3. CASE s # {}
      <4> DEFINE rest == s \ {Max(s)}
      <4>1. rest \in SUBSET (1 .. k)
        <5>1. Max(s) \in s /\ \A x \in s : x <= Max(s)
          BY <1>2, <3>3, LastPosition
        <5> QED
          BY <1>2, <5>1
      <4>2. rest \in SUBSET (1 .. n)
        BY <3>1
      <4>3. next[rest] = table[rest]
        BY <1>2, <4>1, <4>2
      <4> QED
        BY <3>1, <3>3, <4>3 DEF Added
    <3> QED
      BY <3>2, <3>3
  <2>2. next = [s \in SUBSET (1 .. n) |-> next[s]]
    OBVIOUS
  <2> QED
    BY <2>1, <2>2
<1>3. n \in T
  <2>1. ASSUME NEW k \in 0 .. n - 1, k \in T PROVE k + 1 \in T
    <3>1. \E table : Good(table, k)
      BY <2>1
    <3>2. \E next : Good(next, k + 1)
      BY <1>2, <3>1
    <3>3. k + 1 \in 0 .. n
      OBVIOUS
    <3> HIDE DEF Good
    <3> QED
      BY <3>2, <3>3
  <2>2. n \in 0 .. n
    OBVIOUS
  <2> HIDE DEF T
  <2>3. \A k \in 0 .. n : k \in T
    BY <1>1, <2>1, Climb
  <2> QED
    BY <2>2, <2>3
<1>4. PICK table : Good(table, n)
  BY <1>3
<1> QED
  BY <1>4 DEF SumTable

LEMMA TableRuns ==
    ASSUME NEW n \in Nat, NEW values, NEW table, SumTable(table, n, values)
    PROVE  \E sums : Runs(sums, n, values) /\ sums[n] = table[1 .. n]
<1> DEFINE sums == [k \in 0 .. n |-> table[1 .. k]]
<1>1. sums[0] = 0
  <2>1. 1 .. 0 = {} /\ {} \in SUBSET (1 .. n) /\ 0 \in 0 .. n
    OBVIOUS
  <2> QED
    BY <2>1 DEF SumTable, Added
<1>2. ASSUME NEW k \in 1 .. n PROVE sums[k] = sums[k - 1] + values[k]
  <2>1. k \in Nat /\ k \in 1 .. k /\ k \in 0 .. n /\ k - 1 \in 0 .. n
    OBVIOUS
  <2>2. 1 .. k \in SUBSET (1 .. n) /\ 1 .. k # {}
    <3>1. \A x \in 1 .. k : x \in 1 .. n
      BY <2>1
    <3> QED
      BY <2>1, <3>1
  <2>3. Max(1 .. k) = k
    <3>1. Max(1 .. k) \in 1 .. k /\ k <= Max(1 .. k)
      BY <2>1, <2>2, LastPosition
    <3> QED
      BY <3>1
  <2>4. (1 .. k) \ {k} = 1 .. k - 1
    OBVIOUS
  <2>5. table[1 .. k] = Added(values, table, 1 .. k)
    BY <2>2 DEF SumTable
  <2>6. table[1 .. k] = table[1 .. k - 1] + values[k]
    BY <2>2, <2>3, <2>4, <2>5 DEF Added
  <2> QED
    BY <2>1, <2>6
<1>3. n \in 0 .. n
  OBVIOUS
<1> QED
  BY <1>1, <1>2, <1>3 DEF Runs

LEMMA SomeSumsRun ==
    ASSUME NEW n \in Nat, NEW values
    PROVE  \E sums : Runs(sums, n, values)
BY SumTableExists, TableRuns

\* The sums of integers are integers, those of natural numbers natural numbers.
LEMMA SumsAreNumbers ==
    ASSUME NEW n \in Nat, NEW values, NEW sums, Runs(sums, n, values),
           \A k \in 1 .. n : values[k] \in Int
    PROVE  /\ \A k \in 0 .. n : sums[k] \in Int
           /\ (\A k \in 1 .. n : values[k] >= 0) => \A k \in 0 .. n : sums[k] >= 0
<1> DEFINE T == {k \in 0 .. n : sums[k] \in Int}
           P == {k \in 0 .. n : sums[k] >= 0}
<1>0. \A k \in 0 .. n - 1 : k + 1 \in 1 .. n /\ k + 1 \in 0 .. n /\ (k + 1) - 1 = k
  OBVIOUS
<1>1. 0 \in T /\ 0 \in P
  BY DEF Runs
<1>2. \A k \in 0 .. n - 1 : sums[k + 1] = sums[k] + values[k + 1]
  BY <1>0 DEF Runs
<1>3. ASSUME NEW k \in 0 .. n - 1, k \in T PROVE k + 1 \in T
  BY <1>0, <1>2, <1>3
<1>4. \A k \in 0 .. n : k \in T
  <2> HIDE DEF T
  <2> QED
    BY <1>1, <1>3, Climb
<1>5. ASSUME \A k \in 1 .. n : values[k] >= 0 PROVE \A k \in 0 .. n : sums[k] >= 0
  <2>1. ASSUME NEW k \in 0 .. n - 1, k \in P PROVE k + 1 \in P
    <3>1. sums[k] \in Int /\ values[k + 1] \in Int /\ values[k + 1] >= 0 /\ sums[k] >= 0
      BY <1>0, <1>4, <1>5, <2>1
    <3> QED
      BY <1>0, <1>2, <3>1
  <2>2. \A k \in 0 .. n : k \in P
    <3> HIDE DEF P
    <3> QED
      BY <1>1, <2>1, Climb
  <2> QED
    BY <2>2
<1> QED
  BY <1>4, <1>5

\* Equal values have equal sums.
LEMMA SumsAgree ==
    ASSUME NEW n \in Nat, NEW u, NEW v, NEW a, NEW b, Runs(a, n, u), Runs(b, n, v),
           \A k \in 1 .. n : u[k] = v[k]
    PROVE  \A k \in 0 .. n : a[k] = b[k]
<1> DEFINE T == {k \in 0 .. n : a[k] = b[k]}
<1>1. 0 \in T
  BY DEF Runs
<1>2. ASSUME NEW k \in 0 .. n - 1, k \in T PROVE k + 1 \in T
  <2>1. k + 1 \in 1 .. n /\ k + 1 \in 0 .. n /\ (k + 1) - 1 = k
    OBVIOUS
  <2>2. a[k + 1] = a[k] + u[k + 1] /\ b[k + 1] = b[k] + v[k + 1] /\ u[k + 1] = v[k + 1]
    BY <2>1 DEF Runs
  <2> QED
    BY <1>2, <2>1, <2>2
<1> HIDE DEF T
<1>3. \A k \in 0 .. n : k \in T
  BY <1>1, <1>2, Climb
<1> QED
  BY <1>3 DEF T

\* A value that grows by d makes the sum grow by d.
GrowsAt(at, d, n, u, v) ==
    \A k \in 1 .. n : u[k] \in Int /\ v[k] = IF k = at THEN u[k] + d ELSE u[k]

LEMMA SumsDifferByOne ==
    ASSUME NEW n \in Nat, NEW u, NEW v, NEW a, NEW b, Runs(a, n, u), Runs(b, n, v),
           NEW d \in Int, NEW at \in 1 .. n, GrowsAt(at, d, n, u, v)
    PROVE  b[n] = a[n] + d
<1> DEFINE T == {k \in 0 .. n : b[k] = IF k < at THEN a[k] ELSE a[k] + d}
<1>0. \A k \in 0 .. n : a[k] \in Int
  BY SumsAreNumbers DEF GrowsAt
<1>1. 0 \in T
  BY DEF Runs
<1>2. ASSUME NEW k \in 0 .. n - 1, k \in T PROVE k + 1 \in T
  <2>1. k + 1 \in 1 .. n /\ k + 1 \in 0 .. n /\ (k + 1) - 1 = k /\ k \in 0 .. n
    OBVIOUS
  <2>2. a[k + 1] = a[k] + u[k + 1] /\ b[k + 1] = b[k] + v[k + 1]
    BY <2>1 DEF Runs
  <2>3. a[k] \in Int /\ u[k + 1] \in Int
    BY <1>0, <2>1 DEF GrowsAt
  <2>4. CASE k + 1 = at
    <3>1. b[k] = a[k] /\ v[k + 1] = u[k + 1] + d
      BY <1>2, <2>1, <2>4 DEF GrowsAt
    <3>2. b[k + 1] = a[k + 1] + d
      BY <2>2, <2>3, <3>1
    <3> QED
      BY <2>1, <2>4, <3>2
  <2>5. CASE k + 1 # at
    <3>1. v[k + 1] = u[k + 1] /\ (k < at <=> k + 1 < at)
      BY <2>1, <2>5 DEF GrowsAt
    <3>2. b[k + 1] = IF k + 1 < at THEN a[k + 1] ELSE a[k + 1] + d
      BY <1>2, <2>2, <2>3, <3>1
    <3> QED
      BY <2>1, <3>2
  <2> QED
    BY <2>4, <2>5
<1>3. \A k \in 0 .. n : k \in T
  <2> HIDE DEF T
  <2> QED
    BY <1>1, <1>2, Climb
<1>4. n \in 0 .. n /\ ~ (n < at)
  OBVIOUS
<1> QED
  BY <1>3, <1>4

\* x times one sum, and another.
Combined(x, n, u, v, w) == \A k \in 1 .. n : w[k] = x * u[k] + v[k]

LEMMA SumsCombine ==
    ASSUME NEW n \in Nat, NEW u, NEW v, NEW w, NEW a, NEW b, NEW c, NEW x \in Int,
           Runs(a, n, u), Runs(b, n, v), Runs(c, n, w),
           \A k \in 1 .. n : u[k] \in Int /\ v[k] \in Int, Combined(x, n, u, v, w)
    PROVE  \A k \in 0 .. n : c[k] = x * a[k] + b[k]
<1> DEFINE T == {k \in 0 .. n : c[k] = x * a[k] + b[k]}
<1>0. \A k \in 0 .. n : a[k] \in Int /\ b[k] \in Int
  BY SumsAreNumbers
<1>1. 0 \in T
  BY DEF Runs
<1>2. ASSUME NEW k \in 0 .. n - 1, k \in T PROVE k + 1 \in T
  <2>1. k + 1 \in 1 .. n /\ k + 1 \in 0 .. n /\ (k + 1) - 1 = k /\ k \in 0 .. n
    OBVIOUS
  <2>2. /\ a[k + 1] = a[k] + u[k + 1] /\ b[k + 1] = b[k] + v[k + 1]
        /\ c[k + 1] = c[k] + w[k + 1]
    BY <2>1 DEF Runs
  <2>3. /\ a[k] \in Int /\ u[k + 1] \in Int /\ b[k] \in Int /\ v[k + 1] \in Int
        /\ w[k + 1] = x * u[k + 1] + v[k + 1] /\ c[k] = x * a[k] + b[k]
    BY <1>0, <1>2, <2>1 DEF Combined
  <2>4. \A p, q, r, s \in Int : (x * p + q) + (x * r + s) = x * (p + r) + (q + s)
    BY SMT
  <2> QED
    BY <2>1, <2>2, <2>3, <2>4
<1> HIDE DEF T
<1>3. \A k \in 0 .. n : k \in T
  BY <1>1, <1>2, Climb
<1> QED
  BY <1>3 DEF T

\* x times one sum.
LEMMA SumsScale ==
    ASSUME NEW n \in Nat, NEW u, NEW w, NEW a, NEW c, NEW x \in Int, Runs(a, n, u), Runs(c, n, w),
           \A k \in 1 .. n : u[k] \in Int /\ w[k] = x * u[k]
    PROVE  c[n] = x * a[n] /\ a[n] \in Int
<1> DEFINE none == [k \in 0 .. n |-> 0]
           nothing == [k \in 1 .. n |-> 0]
<1>1. Runs(none, n, nothing)
  BY DEF Runs
<1>2. \A k \in 1 .. n : nothing[k] \in Int /\ x * u[k] \in Int /\ nothing[k] = 0
  BY SMT
<1>3. Combined(x, n, u, nothing, w)
  <2> HIDE DEF nothing
  <2> QED
    BY <1>2 DEF Combined
<1>4. \A k \in 0 .. n : c[k] = x * a[k] + none[k]
  <2> HIDE DEF none, nothing
  <2> QED
    BY <1>1, <1>2, <1>3, SumsCombine
<1>5. a[n] \in Int
  BY SumsAreNumbers
<1>6. n \in 0 .. n /\ x * a[n] \in Int
  BY <1>5, SMT
<1> QED
  BY <1>4, <1>5, <1>6

\* Values that are near each other, but for the first, have sums that are near
\* each other, but for the first.
LEMMA SumsStayNear ==
    ASSUME NEW m \in Nat, m >= 1, NEW u, NEW v, NEW a, NEW b, NEW c \in Nat,
           Runs(a, m, u), Runs(b, m, v),
           \A k \in 1 .. m : u[k] \in Int /\ v[k] \in Int,
           \A k \in 2 .. m : u[k] - v[k] <= c /\ v[k] - u[k] <= c
    PROVE  /\ (a[m] - b[m]) - (u[1] - v[1]) <= (m - 1) * c
           /\ (u[1] - v[1]) - (a[m] - b[m]) <= (m - 1) * c
<1> DEFINE Apart(k) == (a[k + 1] - b[k + 1]) - (u[1] - v[1])
           T == {k \in 0 .. m - 1 : Apart(k) <= k * c /\ 0 - Apart(k) <= k * c}
<1>0. \A k \in 0 .. m : a[k] \in Int /\ b[k] \in Int
  BY SumsAreNumbers
<1>1. 0 \in T
  <2>1. 1 \in 1 .. m /\ 1 - 1 = 0 /\ 0 + 1 = 1 /\ 0 \in 0 .. m - 1
    OBVIOUS
  <2>2. a[1] = a[0] + u[1] /\ b[1] = b[0] + v[1] /\ a[0] = 0 /\ b[0] = 0
    BY <2>1 DEF Runs
  <2>3. Apart(0) = 0
    BY <2>1, <2>2
  <2> QED
    BY <2>1, <2>3
<1>2. ASSUME NEW k \in 0 .. (m - 1) - 1, k \in T PROVE k + 1 \in T
  <2>1. /\ k + 2 \in 1 .. m /\ k + 2 \in 2 .. m /\ (k + 2) - 1 = k + 1 /\ (k + 1) + 1 = k + 2
        /\ k + 1 \in 0 .. m - 1 /\ k + 1 \in 0 .. m /\ 1 \in 1 .. m
    OBVIOUS
  <2>2. a[k + 2] = a[k + 1] + u[k + 2] /\ b[k + 2] = b[k + 1] + v[k + 2]
    BY <2>1 DEF Runs
  <2>3. /\ a[k + 1] \in Int /\ b[k + 1] \in Int /\ u[k + 2] \in Int /\ v[k + 2] \in Int
        /\ u[1] \in Int /\ v[1] \in Int
        /\ u[k + 2] - v[k + 2] <= c /\ v[k + 2] - u[k + 2] <= c
    BY <1>0, <2>1
  <2>4. Apart(k + 1) = Apart(k) + (u[k + 2] - v[k + 2])
    BY <2>1, <2>2, <2>3
  <2>5. Apart(k) \in Int /\ Apart(k) <= k * c /\ 0 - Apart(k) <= k * c
    BY <1>2, <2>3
  <2>6. (k + 1) * c = k * c + c /\ k * c \in Int
    BY SMT
  <2> HIDE DEF Apart
  <2>7. Apart(k + 1) <= (k + 1) * c /\ 0 - Apart(k + 1) <= (k + 1) * c
    BY <2>3, <2>4, <2>5, <2>6
  <2> QED
    BY <2>1, <2>7
<1>3. \A k \in 0 .. m - 1 : k \in T
  <2>1. m - 1 \in Nat
    OBVIOUS
  <2> HIDE DEF T
  <2> QED
    BY <1>1, <1>2, <2>1, Climb
<1>4. m - 1 \in 0 .. m - 1 /\ (m - 1) + 1 = m
  OBVIOUS
<1>5. a[m] \in Int /\ b[m] \in Int /\ u[1] \in Int /\ v[1] \in Int
  BY <1>0
<1>6. (a[m] - b[m]) - (u[1] - v[1]) <= (m - 1) * c
      /\ 0 - ((a[m] - b[m]) - (u[1] - v[1])) <= (m - 1) * c
  BY <1>3, <1>4
<1> QED
  BY <1>5, <1>6

-----------------------------------------------------------------------------
(***************************************************************************)
(* The folds of the model as sums, term by term.                           *)
(***************************************************************************)

\* A line's total is a term of the subtotal.
LEMMA LineTotalsRun ==
    ASSUME NEW W, NEW items \in Seq(W)
    PROVE  \E sums : /\ Runs(sums, Len(items), [k \in 1 .. Len(items) |-> LineTotal(items[k])])
                    /\ SumOf(LineTotal, items) = sums[Len(items)]
<1> DEFINE n == Len(items)
           values == [k \in 1 .. n |-> LineTotal(items[k])]
           table == CHOOSE t : t = [s \in SUBSET DOMAIN items |->
                        IF s = {} THEN 0 ELSE t[s \ {Max(s)}] + LineTotal(items[Max(s)])]
<1>1. n \in Nat /\ DOMAIN items = 1 .. n
  OBVIOUS
<1>2. SumOf(LineTotal, items) = table[DOMAIN items]
  BY DEF SumOf, FoldLeft, MapThenFoldSet
<1>3. \A s \in SUBSET (1 .. n) : s # {} => values[Max(s)] = LineTotal(items[Max(s)])
  BY <1>1, LastPosition
<1>4. \E t : t = [s \in SUBSET DOMAIN items |->
                     IF s = {} THEN 0 ELSE t[s \ {Max(s)}] + LineTotal(items[Max(s)])]
  <2>1. PICK t : SumTable(t, n, values)
    BY <1>1, SumTableExists
  <2> HIDE DEF values, n, table
  <2> QED
    BY <1>1, <1>3, <2>1 DEF SumTable, Added
<1>5. table = [s \in SUBSET DOMAIN items |->
                 IF s = {} THEN 0 ELSE table[s \ {Max(s)}] + LineTotal(items[Max(s)])]
  BY <1>4
<1> HIDE DEF table, values, n
<1>6. SumTable(table, n, values)
  BY <1>1, <1>3, <1>5 DEF SumTable, Added
<1>7. \E sums : Runs(sums, n, values) /\ sums[n] = table[1 .. n]
  BY <1>1, <1>6, TableRuns
<1> QED
  BY <1>1, <1>2, <1>7 DEF values, n


\* ... with its VAT, of the amount due.
LEMMA TaxedTotalsRun ==
    ASSUME NEW W, NEW items \in Seq(W)
    PROVE  \E sums : /\ Runs(sums, Len(items), [k \in 1 .. Len(items) |-> TaxedTotal(items[k])])
                    /\ SumOf(TaxedTotal, items) = sums[Len(items)]
<1> DEFINE n == Len(items)
           values == [k \in 1 .. n |-> TaxedTotal(items[k])]
           table == CHOOSE t : t = [s \in SUBSET DOMAIN items |->
                        IF s = {} THEN 0 ELSE t[s \ {Max(s)}] + TaxedTotal(items[Max(s)])]
<1>1. n \in Nat /\ DOMAIN items = 1 .. n
  OBVIOUS
<1>2. SumOf(TaxedTotal, items) = table[DOMAIN items]
  BY DEF SumOf, FoldLeft, MapThenFoldSet
<1>3. \A s \in SUBSET (1 .. n) : s # {} => values[Max(s)] = TaxedTotal(items[Max(s)])
  BY <1>1, LastPosition
<1>4. \E t : t = [s \in SUBSET DOMAIN items |->
                     IF s = {} THEN 0 ELSE t[s \ {Max(s)}] + TaxedTotal(items[Max(s)])]
  <2>1. PICK t : SumTable(t, n, values)
    BY <1>1, SumTableExists
  <2> HIDE DEF values, n, table
  <2> QED
    BY <1>1, <1>3, <2>1 DEF SumTable, Added
<1>5. table = [s \in SUBSET DOMAIN items |->
                 IF s = {} THEN 0 ELSE table[s \ {Max(s)}] + TaxedTotal(items[Max(s)])]
  BY <1>4
<1> HIDE DEF table, values, n
<1>6. SumTable(table, n, values)
  BY <1>1, <1>3, <1>5 DEF SumTable, Added
<1>7. \E sums : Runs(sums, n, values) /\ sums[n] = table[1 .. n]
  BY <1>1, <1>6, TableRuns
<1> QED
  BY <1>1, <1>2, <1>7 DEF values, n

\* What a line adds to the base of a rate.
ShareOf(line, rate) == IF line.rate = rate THEN LineTotal(line) ELSE 0

\* ... of its rate's base.
LEMMA BasesRun ==
    ASSUME NEW W, NEW items \in Seq(W), NEW rate
    PROVE  \E sums : /\ Runs(sums, Len(items), [k \in 1 .. Len(items) |-> ShareOf(items[k], rate)])
                    /\ BaseOf(items, rate) = sums[Len(items)]
<1> DEFINE n == Len(items)
           values == [k \in 1 .. n |-> ShareOf(items[k], rate)]
           table == CHOOSE t : t = [s \in SUBSET DOMAIN items |->
                        IF s = {} THEN 0 ELSE t[s \ {Max(s)}] + ShareOf(items[Max(s)], rate)]
<1>1. n \in Nat /\ DOMAIN items = 1 .. n
  OBVIOUS
<1>2. BaseOf(items, rate) = table[DOMAIN items]
  BY DEF ShareOf, BaseOf, SumOf, FoldLeft, MapThenFoldSet
<1>3. \A s \in SUBSET (1 .. n) : s # {} => values[Max(s)] = ShareOf(items[Max(s)], rate)
  BY <1>1, LastPosition
<1>4. \E t : t = [s \in SUBSET DOMAIN items |->
                     IF s = {} THEN 0 ELSE t[s \ {Max(s)}] + ShareOf(items[Max(s)], rate)]
  <2>1. PICK t : SumTable(t, n, values)
    BY <1>1, SumTableExists
  <2> HIDE DEF values, n, table
  <2> QED
    BY <1>1, <1>3, <2>1 DEF SumTable, Added
<1>5. table = [s \in SUBSET DOMAIN items |->
                 IF s = {} THEN 0 ELSE table[s \ {Max(s)}] + ShareOf(items[Max(s)], rate)]
  BY <1>4
<1> HIDE DEF table, values, n
<1>6. SumTable(table, n, values)
  BY <1>1, <1>3, <1>5 DEF SumTable, Added
<1>7. \E sums : Runs(sums, n, values) /\ sums[n] = table[1 .. n]
  BY <1>1, <1>6, TableRuns
<1> QED
  BY <1>1, <1>2, <1>7 DEF values, n

\* The rounded VAT of each rate
LEMMA RoundedRun ==
    ASSUME NEW W, NEW rounded \in Seq(W)
    PROVE  \E sums : /\ Runs(sums, Len(rounded), [k \in 1 .. Len(rounded) |-> rounded[k]])
                    /\ FoldLeft(+, 0, rounded) = sums[Len(rounded)]
<1> DEFINE n == Len(rounded)
           values == [k \in 1 .. n |-> rounded[k]]
           table == CHOOSE t : t = [s \in SUBSET DOMAIN rounded |->
                        IF s = {} THEN 0 ELSE t[s \ {Max(s)}] + rounded[Max(s)]]
<1>1. n \in Nat /\ DOMAIN rounded = 1 .. n
  OBVIOUS
<1>2. FoldLeft(+, 0, rounded) = table[DOMAIN rounded]
  BY DEF FoldLeft, MapThenFoldSet
<1>3. \A s \in SUBSET (1 .. n) : s # {} => values[Max(s)] = rounded[Max(s)]
  BY <1>1, LastPosition
<1>4. \E t : t = [s \in SUBSET DOMAIN rounded |->
                     IF s = {} THEN 0 ELSE t[s \ {Max(s)}] + rounded[Max(s)]]
  <2>1. PICK t : SumTable(t, n, values)
    BY <1>1, SumTableExists
  <2> HIDE DEF values, n, table
  <2> QED
    BY <1>1, <1>3, <2>1 DEF SumTable, Added
<1>5. table = [s \in SUBSET DOMAIN rounded |->
                 IF s = {} THEN 0 ELSE table[s \ {Max(s)}] + rounded[Max(s)]]
  BY <1>4
<1> HIDE DEF table, values, n
<1>6. SumTable(table, n, values)
  BY <1>1, <1>3, <1>5 DEF SumTable, Added
<1>7. \E sums : Runs(sums, n, values) /\ sums[n] = table[1 .. n]
  BY <1>1, <1>6, TableRuns
<1> QED
  BY <1>1, <1>2, <1>7 DEF values, n

\* The printed VAT of each row
LEMMA PrintedVatRuns ==
    ASSUME NEW W, NEW rows \in Seq(W)
    PROVE  \E sums : /\ Runs(sums, Len(rows), [k \in 1 .. Len(rows) |-> rows[k].vat])
                    /\ VatSum(rows) = sums[Len(rows)]
<1> DEFINE n == Len(rows)
           values == [k \in 1 .. n |-> rows[k].vat]
           table == CHOOSE t : t = [s \in SUBSET DOMAIN rows |->
                        IF s = {} THEN 0 ELSE t[s \ {Max(s)}] + rows[Max(s)].vat]
<1>1. n \in Nat /\ DOMAIN rows = 1 .. n
  OBVIOUS
<1>2. VatSum(rows) = table[DOMAIN rows]
  BY DEF VatSum, FoldLeft, MapThenFoldSet
<1>3. \A s \in SUBSET (1 .. n) : s # {} => values[Max(s)] = rows[Max(s)].vat
  BY <1>1, LastPosition
<1>4. \E t : t = [s \in SUBSET DOMAIN rows |->
                     IF s = {} THEN 0 ELSE t[s \ {Max(s)}] + rows[Max(s)].vat]
  <2>1. PICK t : SumTable(t, n, values)
    BY <1>1, SumTableExists
  <2> HIDE DEF values, n, table
  <2> QED
    BY <1>1, <1>3, <2>1 DEF SumTable, Added
<1>5. table = [s \in SUBSET DOMAIN rows |->
                 IF s = {} THEN 0 ELSE table[s \ {Max(s)}] + rows[Max(s)].vat]
  BY <1>4
<1> HIDE DEF table, values, n
<1>6. SumTable(table, n, values)
  BY <1>1, <1>3, <1>5 DEF SumTable, Added
<1>7. \E sums : Runs(sums, n, values) /\ sums[n] = table[1 .. n]
  BY <1>1, <1>6, TableRuns
<1> QED
  BY <1>1, <1>2, <1>7 DEF values, n

-----------------------------------------------------------------------------
(***************************************************************************)
(* The rates, highest first.                                               *)
(***************************************************************************)

Falls(rates) == \A m, n \in DOMAIN rates : m < n => rates[m] > rates[n]

\* A finite set of numbers can be put in order: the smallest comes last.
LEMMA SetsCanBeOrdered ==
    ASSUME NEW S, S \subseteq Nat, IsFiniteSet(S)
    PROVE  \E rates \in [1 .. Cardinality(S) -> S] : Falls(rates)
<1> DEFINE Orders(k, R) == \E rates \in [1 .. k -> R] : Falls(rates)
           size == Cardinality(S)
           T == {k \in 0 .. size : \A R \in SUBSET S : Cardinality(R) = k => Orders(k, R)}
<1>1. size \in Nat
  BY FS_CardinalityType
<1>2. 0 \in T
  <2>1. ASSUME NEW R PROVE Orders(0, R)
    <3>1. <<>> \in [1 .. 0 -> R] /\ Falls(<<>>)
      BY DEF Falls
    <3> QED
      BY <3>1
  <2>2. 0 \in 0 .. size
    BY <1>1
  <2> HIDE DEF Orders, size
  <2> QED
    BY <2>1, <2>2
<1>3. ASSUME NEW k \in 0 .. size - 1, k \in T PROVE k + 1 \in T
  <2>1. ASSUME NEW R \in SUBSET S, Cardinality(R) = k + 1 PROVE Orders(k + 1, R)
    <3>1. IsFiniteSet(R)
      BY FS_Subset
    <3>2. R # {}
      BY <1>1, <2>1, FS_EmptySet
    <3>3. PICK low \in R : \A x \in R : low <= x
      BY <3>2, Smallest
    <3> DEFINE rest == R \ {low}
    <3>4. Cardinality(rest) = k
      <4>1. Cardinality(rest) = Cardinality(R) - 1
        BY <3>1, FS_RemoveElement
      <4> QED
        BY <1>1, <2>1, <4>1
    <3>5. PICK rates \in [1 .. k -> rest] : Falls(rates)
      BY <1>3, <3>4
    <3> DEFINE longer == [n \in 1 .. k + 1 |-> IF n = k + 1 THEN low ELSE rates[n]]
    <3>6. \A n \in 1 .. k : longer[n] = rates[n] /\ longer[n] \in R /\ longer[n] > low
      <4>1. ASSUME NEW n \in 1 .. k PROVE longer[n] = rates[n] /\ longer[n] \in R /\ longer[n] > low
        <5>1. n \in 1 .. k + 1 /\ n # k + 1
          BY <1>1
        <5>2. rates[n] \in R /\ rates[n] # low /\ low <= rates[n] /\ rates[n] \in Nat /\ low \in Nat
          BY <3>3, <3>5
        <5> QED
          BY <5>1, <5>2
      <4> QED
        BY <4>1
    <3>7. longer[k + 1] = low /\ DOMAIN longer = 1 .. k + 1 /\ DOMAIN rates = 1 .. k
      BY <1>1, <3>5
    <3>8. longer \in [1 .. k + 1 -> R]
      BY <1>1, <3>3, <3>6, <3>7
    <3>9. Falls(longer)
      <4>1. ASSUME NEW m \in 1 .. k + 1, NEW n \in 1 .. k + 1, m < n PROVE longer[m] > longer[n]
        <5>1. m \in 1 .. k
          BY <1>1, <4>1
        <5>2. CASE n = k + 1
          BY <3>6, <3>7, <5>1, <5>2
        <5>3. CASE n # k + 1
          <6>1. n \in 1 .. k
            BY <1>1, <5>3
          <6>2. rates[m] > rates[n]
            BY <3>5, <3>7, <4>1, <5>1, <6>1 DEF Falls
          <6> QED
            BY <3>6, <5>1, <6>1, <6>2
        <5> QED
          BY <5>2, <5>3
      <4> QED
        BY <3>7, <4>1 DEF Falls
    <3> QED
      BY <3>8, <3>9
  <2>2. k + 1 \in 0 .. size
    BY <1>1
  <2> HIDE DEF Orders, size
  <2> QED
    BY <2>1, <2>2
<1>4. \A k \in 0 .. size : k \in T
  <2> HIDE DEF T, size
  <2> QED
    BY <1>1, <1>2, <1>3, Climb
<1>5. size \in 0 .. size /\ S \in SUBSET S
  BY <1>1
<1>6. Orders(size, S)
  <2> HIDE DEF Orders
  <2> QED
    BY <1>4, <1>5
<1> QED
  BY <1>6

UsedIn(items) == {items[n].rate : n \in DOMAIN items}

\* Rates lists every rate used, once.
LEMMA RatesAreListed ==
    ASSUME NEW items \in Seq(Line)
    PROVE  LET rates == Rates(items)
               m == Cardinality(UsedIn(items))
           IN  /\ m \in Nat /\ (m = 0 <=> items = <<>>)
               /\ rates \in [1 .. m -> UsedIn(items)]
               /\ UsedIn(items) \subseteq Nat
               /\ \A r \in UsedIn(items) : \E j \in 1 .. m : rates[j] = r
               /\ \A i, j \in 1 .. m : rates[i] = rates[j] => i = j
<1> DEFINE used == UsedIn(items)
           rates == Rates(items)
           m == Cardinality(used)
           top == 9999
<1>0. top \in Nat /\ DOMAIN items = 1 .. Len(items) /\ Len(items) \in Nat
  OBVIOUS
<1>1. used \subseteq 0 .. top
  <2>1. \A n \in DOMAIN items : items[n] \in Line
    OBVIOUS
  <2>2. \A line \in Line : line.rate \in 0 .. top
    BY DEF Line
  <2> HIDE DEF top
  <2> QED
    BY <2>1, <2>2 DEF UsedIn
<1> HIDE DEF top
<1>2. used \subseteq Nat
  <2> HIDE DEF used
  <2> QED
    BY <1>0, <1>1
<1>3. IsFiniteSet(used)
  <2>1. IsFiniteSet(0 .. top)
    BY <1>0, FS_Interval
  <2> HIDE DEF used
  <2> QED
    BY <1>1, <2>1, FS_Subset
<1>4. m \in Nat
  BY <1>3, FS_CardinalityType
<1>5. m = 0 <=> items = <<>>
  <2>1. m = 0 <=> used = {}
    BY <1>3, FS_EmptySet
  <2>2. used = {} <=> items = <<>>
    <3>1. \A n \in DOMAIN items : items[n].rate \in used
      BY DEF UsedIn
    <3>2. (\E n : n \in DOMAIN items) <=> used # {}
      BY <3>1 DEF UsedIn
    <3>3. (\E n : n \in DOMAIN items) <=> Len(items) # 0
      <4>1. Len(items) # 0 => 1 \in DOMAIN items
        BY <1>0
      <4> QED
        BY <1>0, <4>1
    <3>4. Len(items) = 0 <=> items = <<>>
      OBVIOUS
    <3> HIDE DEF used
    <3> QED
      BY <3>2, <3>3, <3>4
  <2> QED
    BY <2>1, <2>2
<1>6. rates \in [1 .. m -> used] /\ Falls(rates)
  <2>1. \E r \in [1 .. m -> used] : Falls(r)
    BY <1>2, <1>3, SetsCanBeOrdered
  <2>2. rates = CHOOSE r \in [1 .. m -> used] : Falls(r)
    BY DEF Rates, UsedIn, Falls
  <2> HIDE DEF rates, m, used
  <2> QED
    BY <2>1, <2>2
<1>7. ASSUME NEW i \in 1 .. m, NEW j \in 1 .. m, rates[i] = rates[j] PROVE i = j
  <2> HIDE DEF rates, m, used
  <2>1. rates[i] \in Nat /\ rates[j] \in Nat /\ DOMAIN rates = 1 .. m
    BY <1>2, <1>6
  <2>2. ~ (i < j) /\ ~ (j < i)
    BY <1>6, <1>7, <2>1 DEF Falls
  <2> QED
    BY <1>4, <2>2
<1>8. ASSUME NEW r \in used PROVE \E j \in 1 .. m : rates[j] = r
  <2> HIDE DEF rates, m, used
  <2>1. rates \in Injection(1 .. m, used)
    BY <1>6, <1>7 DEF Injection, IsInjective
  <2>2. Cardinality(1 .. m) = m
    BY <1>4, FS_Interval
  <2>3. rates \in Surjection(1 .. m, used)
    BY <1>3, <2>1, <2>2, FS_Injection DEF m
  <2> QED
    BY <2>3 DEF Surjection
<1> QED
  BY <1>2, <1>4, <1>5, <1>6, <1>7, <1>8

-----------------------------------------------------------------------------
(***************************************************************************)
(* VAT, counted by rate and counted by line.                               *)
(***************************************************************************)

\* The VAT of a line, exactly.
LineVat(line) == LineTotal(line) * line.rate

LEMMA LinesHaveAmounts ==
    ASSUME NEW line \in Line
    PROVE  /\ LineTotal(line) \in Nat /\ line.rate \in Nat /\ LineVat(line) \in Nat
           /\ TaxedTotal(line) = 10000 * LineTotal(line) + LineVat(line)
<1>1. line.qty \in Nat /\ line.price \in Nat /\ line.rate \in Nat
  <2> DEFINE top == 9999
  <2>1. line.qty \in Nat /\ line.price \in Nat /\ line.rate \in 0 .. top
    BY DEF Line
  <2>2. top \in Nat
    OBVIOUS
  <2> HIDE DEF top
  <2> QED
    BY <2>1, <2>2
<1>2. \A x, y \in Nat : x * y \in Nat
  BY SMT
<1>3. \A x, y \in Nat : x * (10000 + y) = 10000 * x + x * y
  BY SMT
<1>4. LineTotal(line) \in Nat
  BY <1>1, <1>2 DEF LineTotal
<1> QED
  BY <1>1, <1>2, <1>3, <1>4, SMT DEF LineVat, TaxedTotal

VatByLine(items) == [k \in 1 .. Len(items) |-> LineVat(items[k])]
VatByRate(items, m, rates) == [j \in 1 .. m |-> BaseOf(items, rates[j]) * rates[j]]

\* rates has the rate of every line, once.
ListsOnce(rates, m, items) ==
    /\ \A j \in 1 .. m : rates[j] \in Nat
    /\ \A k \in 1 .. Len(items) : \E j \in 1 .. m : rates[j] = items[k].rate
    /\ \A i, j \in 1 .. m : rates[i] = rates[j] => i = j

\* A rate's base times the rate, over all the rates: each line counts once.
LEMMA BasesTimesRates ==
    ASSUME NEW items \in Seq(Line), NEW m \in Nat, NEW rates,
           ListsOnce(rates, m, items),
           NEW byLine, Runs(byLine, Len(items), VatByLine(items)),
           NEW byRate, Runs(byRate, m, VatByRate(items, m, rates))
    PROVE  byRate[m] = byLine[Len(items)]
<1> DEFINE n == Len(items)
           Share(j) == [k \in 1 .. n |-> ShareOf(items[k], rates[j])]
           IsPart(sums, j) == Runs(sums, n, Share(j)) /\ BaseOf(items, rates[j]) = sums[n]
           Part(j) == CHOOSE sums : IsPart(sums, j)
           Across(k) == [j \in 1 .. m |-> Part(j)[k] * rates[j]]
           Total(k) == CHOOSE sums : Runs(sums, m, Across(k))
           T == {k \in 0 .. n : Total(k)[m] = byLine[k]}
<1>1. n \in Nat /\ \A k \in 1 .. n : items[k] \in Line
  OBVIOUS
<1>2. ASSUME NEW j \in 1 .. m PROVE IsPart(Part(j), j)
  <2>1. \E sums : IsPart(sums, j)
    BY BasesRun
  <2> HIDE DEF IsPart
  <2> QED
    BY <2>1
<1>3. ASSUME NEW k PROVE Runs(Total(k), m, Across(k))
  <2>1. \E sums : Runs(sums, m, Across(k))
    BY SomeSumsRun
  <2> HIDE DEF Across
  <2> QED
    BY <2>1
<1>4. \A k \in 1 .. n : /\ LineTotal(items[k]) \in Nat /\ items[k].rate \in Nat
                        /\ LineVat(items[k]) \in Nat
  BY <1>1, LinesHaveAmounts
<1> HIDE DEF Part, Total
<1>5. ASSUME NEW j \in 1 .. m PROVE \A k \in 0 .. n : Part(j)[k] \in Int
  <2>1. \A k \in 1 .. n : Share(j)[k] \in Int
    BY <1>4 DEF ShareOf
  <2>2. Runs(Part(j), n, Share(j))
    BY <1>2
  <2> HIDE DEF Share, n
  <2> QED
    BY <1>1, <2>1, <2>2, SumsAreNumbers
<1>6. 0 \in T
  <2> DEFINE none == [j \in 0 .. m |-> 0]
             nothing == [j \in 1 .. m |-> 0]
  <2>1. Runs(none, m, nothing)
    BY DEF Runs
  <2>2. \A j \in 1 .. m : Across(0)[j] = nothing[j]
    <3>1. ASSUME NEW j \in 1 .. m PROVE Across(0)[j] = nothing[j]
      <4>1. Part(j)[0] = 0
        BY <1>2 DEF Runs
      <4>2. rates[j] \in Nat
        BY DEF ListsOnce
      <4> QED
        BY <4>1, <4>2
    <3> QED
      BY <3>1
  <2>3. Runs(Total(0), m, Across(0))
    BY <1>3
  <2>4. \A j \in 0 .. m : Total(0)[j] = none[j]
    <3> HIDE DEF none, nothing, Across
    <3> QED
      BY <2>1, <2>2, <2>3, SumsAgree
  <2>5. Total(0)[m] = 0 /\ byLine[0] = 0 /\ 0 \in 0 .. n
    BY <1>1, <2>4 DEF Runs
  <2> QED
    BY <2>5
<1>7. ASSUME NEW k \in 0 .. n - 1, k \in T PROVE k + 1 \in T
  <2>1. k + 1 \in 1 .. n /\ k + 1 \in 0 .. n /\ k \in 0 .. n /\ (k + 1) - 1 = k
    BY <1>1
  <2> DEFINE line == items[k + 1]
  <2>2. PICK at \in 1 .. m : rates[at] = line.rate
    BY <2>1 DEF ListsOnce
  <2>3. ASSUME NEW j \in 1 .. m
        PROVE  /\ Across(k)[j] \in Int
               /\ Across(k + 1)[j] = IF j = at THEN Across(k)[j] + LineVat(line) ELSE Across(k)[j]
    <3>1. Part(j)[k + 1] = Part(j)[k] + (IF line.rate = rates[j] THEN LineTotal(line) ELSE 0)
      <4>1. Runs(Part(j), n, Share(j))
        BY <1>2
      <4>2. Share(j)[k + 1] = IF line.rate = rates[j] THEN LineTotal(line) ELSE 0
        BY <2>1 DEF ShareOf
      <4> HIDE DEF Share, line, n
      <4>3. Part(j)[k + 1] = Part(j)[(k + 1) - 1] + Share(j)[k + 1]
        BY <2>1, <4>1 DEF Runs
      <4> QED
        BY <2>1, <4>2, <4>3
    <3>2. Part(j)[k] \in Int /\ rates[j] \in Nat /\ LineTotal(line) \in Nat
      BY <1>4, <1>5, <2>1 DEF ListsOnce
    <3>3. line.rate = rates[j] <=> j = at
      BY <2>2 DEF ListsOnce
    <3>4. \A x \in Int, y, z \in Nat : (x + y) * z = x * z + y * z /\ x * z \in Int /\ x + 0 = x
      BY SMT
    <3>5. CASE j = at
      <4>1. Part(j)[k + 1] = Part(j)[k] + LineTotal(line) /\ rates[j] = line.rate
        BY <3>1, <3>3, <3>5
      <4>2. Across(k + 1)[j] = Part(j)[k] * rates[j] + LineTotal(line) * rates[j]
        BY <3>2, <3>4, <4>1
      <4> QED
        BY <3>2, <3>4, <3>5, <4>1, <4>2 DEF LineVat
    <3>6. CASE j # at
      <4>1. Part(j)[k + 1] = Part(j)[k]
        BY <3>1, <3>2, <3>3, <3>4, <3>6
      <4> QED
        BY <3>2, <3>4, <3>6, <4>1
    <3> QED
      BY <3>5, <3>6
  <2>4. LineVat(line) \in Int
    BY <1>4, <2>1
  <2>5. Total(k + 1)[m] = Total(k)[m] + LineVat(line)
    <3> DEFINE d == LineVat(line)
               u == Across(k)
               v == Across(k + 1)
               a == Total(k)
               b == Total(k + 1)
    <3>1. Runs(a, m, u) /\ Runs(b, m, v)
      BY <1>3
    <3>3. GrowsAt(at, d, m, u, v)
      BY <2>3 DEF GrowsAt
    <3> HIDE DEF Across, line, d, u, v, a, b
    <3>4. d \in Int
      BY <2>4 DEF d
    <3>5. b[m] = a[m] + d
      BY <3>1, <3>3, <3>4, SumsDifferByOne
    <3> QED
      BY <3>5 DEF a, b, d
  <2>6. byLine[k + 1] = byLine[k] + LineVat(line)
    BY <2>1 DEF Runs, VatByLine
  <2> QED
    BY <1>7, <2>1, <2>5, <2>6
<1>8. n \in T
  <2>1. \A k \in 0 .. n : k \in T
    <3> HIDE DEF T, n
    <3> QED
      BY <1>1, <1>6, <1>7, Climb
  <2>2. n \in 0 .. n
    BY <1>1
  <2> QED
    BY <2>1, <2>2
<1>9. byRate[m] = Total(n)[m]
  <2> DEFINE values == VatByRate(items, m, rates)
  <2>1. \A j \in 1 .. m : values[j] = Across(n)[j]
    BY <1>2 DEF VatByRate
  <2>2. Runs(Total(n), m, Across(n)) /\ Runs(byRate, m, values) /\ m \in 0 .. m
    BY <1>3
  <2> HIDE DEF values, Across, n
  <2>3. \A j \in 0 .. m : byRate[j] = Total(n)[j]
    BY <2>1, <2>2, SumsAgree
  <2> QED
    BY <2>2, <2>3
<1> QED
  BY <1>8, <1>9

-----------------------------------------------------------------------------
(***************************************************************************)
(* Rounding, and the rows of a document.                                   *)
(***************************************************************************)

RoundsWell(x) ==
    /\ HalfUp(x, 100) \in Nat /\ Near(100 * HalfUp(x, 100), x, 50)
    /\ HalfUp(x, 100000) \in Nat /\ Near(100000 * HalfUp(x, 100000), x, 50000)
    /\ HalfUp(x, 1000000) \in Nat /\ Near(1000000 * HalfUp(x, 1000000), x, 500000)
    /\ HalfUp(10000 * x, 1000000) = HalfUp(x, 100)
    /\ HalfUp(x, 1000) \in Nat /\ HalfUp(x, 10000000) \in Nat
    /\ HalfUp(10 * x, 1000) = HalfUp(x, 100) /\ HalfUp(10 * x, 10000000) = HalfUp(x, 1000000)
    /\ HalfUp(10000 * x, 10000000) = HalfUp(x, 1000)

LEMMA HalfUpIsNear == ASSUME NEW x \in Nat PROVE RoundsWell(x)
<1>1. HalfUp(x, 100) \in Nat /\ Near(100 * HalfUp(x, 100), x, 50)
  BY SMT DEF HalfUp, Near
<1>2. HalfUp(x, 100000) \in Nat /\ Near(100000 * HalfUp(x, 100000), x, 50000)
  BY SMT DEF HalfUp, Near
<1>3. HalfUp(x, 1000000) \in Nat /\ Near(1000000 * HalfUp(x, 1000000), x, 500000)
  BY SMT DEF HalfUp, Near
<1>4. HalfUp(10000 * x, 1000000) = HalfUp(x, 100)
  BY SMT DEF HalfUp
<1>5. HalfUp(x, 1000) \in Nat /\ HalfUp(x, 10000000) \in Nat
  BY SMT DEF HalfUp
<1>6. HalfUp(10 * x, 1000) = HalfUp(x, 100) /\ HalfUp(10 * x, 10000000) = HalfUp(x, 1000000)
  BY SMT DEF HalfUp
<1>7. HalfUp(10000 * x, 10000000) = HalfUp(x, 1000)
  BY SMT DEF HalfUp
<1> QED
  BY SMT, <1>1, <1>2, <1>3, <1>4, <1>5, <1>6, <1>7 DEF RoundsWell

LEMMA FunctionsAreSequences ==
    ASSUME NEW m \in Nat, NEW W, NEW f \in [1 .. m -> W]
    PROVE  f \in Seq(W) /\ Len(f) = m
<1>1. f \in Seq(W)
  BY SeqDef
<1>2. DOMAIN f = 1 .. Len(f) /\ Len(f) \in Nat
  BY <1>1, LenProperties
<1> QED
  BY <1>1, <1>2

\* The totals of lines: without VAT, and with the VAT of each line.
SplitTotals(byLine, items) ==
    /\ Runs(byLine, Len(items), VatByLine(items))
    /\ byLine[Len(items)] \in Nat
    /\ SumOf(LineTotal, items) \in Nat
    /\ SumOf(TaxedTotal, items) = 10000 * SumOf(LineTotal, items) + byLine[Len(items)]

LEMMA TotalsOfLines ==
    ASSUME NEW items \in Seq(Line)
    PROVE  \E byLine : SplitTotals(byLine, items)
<1> DEFINE n == Len(items)
           u == [k \in 1 .. n |-> LineTotal(items[k])]
           v == VatByLine(items)
           w == [k \in 1 .. n |-> TaxedTotal(items[k])]
<1>1. n \in Nat /\ n \in 0 .. n /\ \A k \in 1 .. n : items[k] \in Line
  OBVIOUS
<1>2. PICK a : Runs(a, n, u) /\ SumOf(LineTotal, items) = a[n]
  BY LineTotalsRun
<1>3. PICK b : Runs(b, n, v)
  BY <1>1, SomeSumsRun
<1>4. PICK c : Runs(c, n, w) /\ SumOf(TaxedTotal, items) = c[n]
  BY TaxedTotalsRun
<1> DEFINE x == 10000
<1>5. (\A k \in 1 .. n : u[k] \in Nat /\ v[k] \in Nat) /\ Combined(x, n, u, v, w)
  BY <1>1, LinesHaveAmounts, SMTT(30) DEF Combined, VatByLine
<1>6. x \in Int
  OBVIOUS
<1> HIDE DEF u, v, w, n, x
<1>7. \A k \in 1 .. n : u[k] \in Int /\ v[k] \in Int /\ u[k] >= 0 /\ v[k] >= 0
  BY <1>5
<1>8. a[n] \in Int /\ a[n] >= 0
  BY <1>1, <1>2, <1>7, SumsAreNumbers
<1>9. b[n] \in Int /\ b[n] >= 0
  BY <1>1, <1>3, <1>7, SumsAreNumbers
<1>10. c[n] = x * a[n] + b[n]
  BY <1>1, <1>2, <1>3, <1>4, <1>5, <1>6, <1>7, SumsCombine
<1>11. Runs(b, n, v) /\ b[n] \in Nat /\ a[n] \in Nat
  BY <1>3, <1>8, <1>9
<1>12. SplitTotals(b, items)
  BY <1>2, <1>4, <1>10, <1>11, SMT DEF SplitTotals, n, v, x
<1> QED
  BY <1>12

\* The totals that lines give as their columns hold them.
StoredTotals(lines) ==
    [ht |-> HalfUp(SumOf(LineTotal, lines), 100), ttc |-> HalfUp(SumOf(TaxedTotal, lines), 1000000)]

\* Totals of typed lines are amounts, before they are rounded and after.
LEMMA TotalsAreAmounts ==
    ASSUME NEW items \in Seq(Line)
    PROVE  /\ ComputeTotals(items) \in [ht : Nat, ttc : Nat]
           /\ InColumns(ComputeTotals(items)) \in [ht : Nat, ttc : Nat]
<1> DEFINE exact == ComputeTotals(items)
<1>1. exact.ht \in Nat /\ exact.ttc \in Nat
  <2>1. PICK byLine : SplitTotals(byLine, items)
    BY TotalsOfLines
  <2> QED
    BY SMT, <2>1 DEF SplitTotals, ComputeTotals
<1>2. exact \in [ht : Nat, ttc : Nat]
  BY <1>1 DEF ComputeTotals
<1> HIDE DEF exact
<1>3. RoundsWell(exact.ht) /\ RoundsWell(exact.ttc)
  BY <1>1, HalfUpIsNear
<1>4. HalfUp(exact.ht, 1000) \in Nat /\ HalfUp(exact.ttc, 10000000) \in Nat
  BY SMT, <1>3 DEF RoundsWell
<1>5. InColumns(exact) \in [ht : Nat, ttc : Nat]
  BY <1>4, SMT DEF InColumns
<1> QED
  BY <1>2, <1>5 DEF exact

LEMMA BasesAreAmounts ==
    ASSUME NEW items \in Seq(Line), NEW rate
    PROVE  BaseOf(items, rate) \in Nat
<1> DEFINE n == Len(items)
           v == [k \in 1 .. n |-> ShareOf(items[k], rate)]
<1>1. n \in Nat /\ n \in 0 .. n /\ \A k \in 1 .. n : items[k] \in Line
  OBVIOUS
<1>2. PICK a : Runs(a, n, v) /\ BaseOf(items, rate) = a[n]
  BY BasesRun
<1>3. \A k \in 1 .. n : v[k] \in Int /\ v[k] >= 0
  BY <1>1, LinesHaveAmounts DEF ShareOf
<1> HIDE DEF v, n
<1>4. a[n] \in Int /\ a[n] >= 0
  BY <1>1, <1>2, <1>3, SumsAreNumbers
<1> QED
  BY <1>2, <1>4

\* Rounded VAT is near the exact one, whatever the currency's digits.
IsNear(vat, q, quantum) == vat \in Nat /\ Near(100000 * vat, q, 50000 * quantum)

LEMMA RoundedIsNear ==
    ASSUME NEW q \in Nat, NEW currency \in Currencies
    PROVE  IsNear(Rounded(q, Quantum(currency)), q, Quantum(currency))
<1>0. RoundsWell(q)
  BY HalfUpIsNear
<1>1. CASE Quantum(currency) = 1
  <2>1. Rounded(q, 1) = HalfUp(q, 100000)
    <3>1. HalfUp(q, 100000) \in Nat
      BY <1>0, SMT DEF RoundsWell
    <3> QED
      BY <3>1, SMT DEF Rounded
  <2> QED
    BY <1>0, <1>1, <2>1, SMT DEF RoundsWell, IsNear
<1>2. CASE Quantum(currency) = 10
  <2>1. Rounded(q, 10) = HalfUp(q, 1000000) * 10
    BY SMT DEF Rounded
  <2>2. 100000 * Rounded(q, 10) = 1000000 * HalfUp(q, 1000000)
    BY <1>0, <2>1, SMT DEF RoundsWell
  <2> QED
    BY <1>2, <2>1, <2>2, <1>0, SMT DEF RoundsWell, Near, IsNear
<1> QED
  BY <1>1, <1>2, SMT DEF Quantum

\* The stored totals differ by the exact VAT, up to a hundredth.
LEMMA TotalsAreNear ==
    ASSUME NEW items \in Seq(Line), NEW byLine, SplitTotals(byLine, items)
    PROVE  LET totals == StoredTotals(items)
               vat == byLine[Len(items)]
           IN  /\ totals.ht \in Nat /\ totals.ttc \in Nat /\ vat \in Nat
               /\ Near(1000000 * (totals.ttc - totals.ht), vat, 1000000)
               /\ vat = 0 => totals.ttc = totals.ht
<1> DEFINE base == SumOf(LineTotal, items)
           taxed == SumOf(TaxedTotal, items)
           vat == byLine[Len(items)]
           totals == StoredTotals(items)
<1>1. base \in Nat /\ vat \in Nat /\ taxed = 10000 * base + vat
  BY SMT DEF SplitTotals
<1>2. totals.ht = HalfUp(base, 100) /\ totals.ttc = HalfUp(taxed, 1000000)
  BY DEF StoredTotals
<1> HIDE DEF base, taxed, vat, totals
<1>3. taxed \in Nat
  BY <1>1, SMT
<1>8. RoundsWell(base) /\ RoundsWell(taxed)
  BY <1>1, <1>3, HalfUpIsNear
<1>4. totals.ht \in Nat /\ Near(100 * totals.ht, base, 50)
  BY <1>2, <1>8, SMT DEF RoundsWell
<1>5. totals.ttc \in Nat /\ Near(1000000 * totals.ttc, taxed, 500000)
  BY <1>2, <1>8, SMT DEF RoundsWell
<1>6. Near(1000000 * (totals.ttc - totals.ht), vat, 1000000)
  <2> DEFINE t == totals.ttc
             h == totals.ht
  <2>1. /\ t \in Int /\ h \in Int /\ base \in Int /\ vat \in Int /\ taxed = 10000 * base + vat
        /\ 100 * h - base <= 50 /\ base - 100 * h <= 50
        /\ 1000000 * t - taxed <= 500000 /\ taxed - 1000000 * t <= 500000
    BY <1>1, <1>4, <1>5, SMT DEF Near
  <2> HIDE DEF t, h
  <2>2. 1000000 * (t - h) - vat <= 1000000 /\ vat - 1000000 * (t - h) <= 1000000
    BY <2>1, SMT
  <2> QED
    BY <2>2, SMT DEF Near, t, h
<1>7. ASSUME vat = 0 PROVE totals.ttc = totals.ht
  <2>1. taxed = 10000 * base
    BY <1>1, <1>7, SMT
  <2> QED
    BY <1>2, <1>8, <2>1, SMT DEF RoundsWell
<1> QED
  BY <1>1, <1>4, <1>5, <1>6, <1>7 DEF vat, totals

\* What _vat_rows gives for any totals: m rows whose bases at their rates
\* share out the VAT of the lines; all but the first near them.
RowsFit(rows, m, items, totals, currency) ==
    /\ m \in Nat /\ DOMAIN rows = 1 .. m /\ Len(rows) = m
    /\ ListsOnce(Rates(items), m, items)
    /\ \A j \in 1 .. m :
         /\ rows[j].vat \in Int /\ VatByRate(items, m, Rates(items))[j] \in Nat
         /\ rows[j].base * rows[j].rate = VatByRate(items, m, Rates(items))[j]
    /\ \A j \in 2 .. m :
         Near(100000 * rows[j].vat, VatByRate(items, m, Rates(items))[j], 50000 * Quantum(currency))
    /\ m >= 1 \/ totals.ttc = totals.ht => 10 * totals.ht + VatSum(rows) = 10 * totals.ttc

LEMMA RowsOfRates ==
    ASSUME NEW items \in Seq(Line), NEW currency \in Currencies,
           NEW totals, totals.ht \in Nat, totals.ttc \in Nat
    PROVE  RowsFit(VatRows(items, totals, currency), Cardinality(UsedIn(items)), items, totals, currency)
<1> DEFINE quantum == Quantum(currency)
           step == 50000 * quantum
           scale == 100000
           rates == Rates(items)
           m == Cardinality(UsedIn(items))
           ht == totals.ht
           ttc == totals.ttc
           q == VatByRate(items, m, rates)
           rounded == [n \in DOMAIN rates |-> Rounded(BaseOf(items, rates[n]) * rates[n], quantum)]
           whole == FoldLeft(+, 0, rounded)
           diff == 10 * (ttc - ht)
           over == diff - whole
           rows == [n \in DOMAIN rates |->
                      [rate |-> rates[n], base |-> BaseOf(items, rates[n]),
                       vat |-> IF n = 1 THEN rounded[n] + over ELSE rounded[n]]]
           all == VatSum(rows)
<1>1. /\ m \in Nat /\ DOMAIN rates = 1 .. m
      /\ \A j \in 1 .. m : rates[j] \in Nat
      /\ \A r \in UsedIn(items) : \E j \in 1 .. m : rates[j] = r
      /\ \A i, j \in 1 .. m : rates[i] = rates[j] => i = j
  BY RatesAreListed
<1>2. ListsOnce(rates, m, items)
  <2>1. \A k \in 1 .. Len(items) : items[k].rate \in UsedIn(items)
    BY DEF UsedIn
  <2> QED
    BY <1>1, <2>1 DEF ListsOnce
<1>3. VatRows(items, totals, currency) = rows
  BY DEF VatRows
<1>4. ht \in Nat /\ ttc \in Nat
  OBVIOUS
<1> HIDE DEF rates, m, ht, ttc
<1>5. \A j \in 1 .. m : q[j] \in Nat
  <2>1. \A x, y \in Nat : x * y \in Nat
    BY SMT
  <2> QED
    BY <1>1, <2>1, BasesAreAmounts DEF VatByRate
<1>6. \A j \in 1 .. m : rounded[j] \in Nat /\ Near(scale * rounded[j], q[j], step)
  <2>1. ASSUME NEW j \in 1 .. m PROVE IsNear(rounded[j], q[j], quantum)
    <3>1. rounded[j] = Rounded(q[j], quantum)
      BY <1>1 DEF VatByRate
    <3> HIDE DEF q, rounded
    <3> QED
      BY <1>5, <3>1, RoundedIsNear
  <2> HIDE DEF q, rounded, quantum
  <2> QED
    BY <2>1 DEF IsNear
<1>7. PICK sums : Runs(sums, m, rounded) /\ whole = sums[m]
  <2>1. rounded \in [1 .. m -> Nat]
    BY <1>1, <1>6
  <2> HIDE DEF rounded
  <2>2. rounded \in Seq(Nat) /\ Len(rounded) = m
    BY <1>1, <2>1, FunctionsAreSequences
  <2>3. [k \in 1 .. m |-> rounded[k]] = rounded
    BY <2>1
  <2> QED
    BY <2>2, <2>3, RoundedRun
<1> DEFINE printed == [j \in 1 .. m |-> rows[j].vat]
<1>8. PICK prints : Runs(prints, m, printed) /\ all = prints[m]
  <2> DEFINE W == {rows[j] : j \in 1 .. m}
  <2>1. rows \in [1 .. m -> W]
    BY <1>1
  <2> HIDE DEF rows, W
  <2>2. rows \in Seq(W) /\ Len(rows) = m
    BY <1>1, <2>1, FunctionsAreSequences
  <2> QED
    BY <2>2, PrintedVatRuns
<1>9. Len(rows) = m /\ DOMAIN rows = 1 .. m
  <2>1. DOMAIN rows = 1 .. m
    BY <1>1
  <2>2. rows \in [1 .. m -> {rows[j] : j \in 1 .. m}]
    BY <1>1
  <2> HIDE DEF rows
  <2> QED
    BY <1>1, <2>1, <2>2, FunctionsAreSequences
<1>10. \A j \in 1 .. m : /\ printed[j] = IF j = 1 THEN rounded[j] + over ELSE rounded[j]
                         /\ rows[j].vat = printed[j] /\ rows[j].base * rows[j].rate = q[j]
  BY <1>1 DEF VatByRate
<1>11. whole \in Int /\ diff \in Int /\ over \in Int
  <2>1. sums[m] \in Int
    <3>1. \A j \in 1 .. m : rounded[j] \in Int
      BY <1>6
    <3>2. m \in 0 .. m
      BY <1>1
    <3> HIDE DEF rounded
    <3> QED
      BY <1>1, <1>7, <3>1, <3>2, SumsAreNumbers
  <2> HIDE DEF whole, ht, ttc
  <2> QED
    BY <1>4, <1>7, <2>1, SMT
<1> HIDE DEF quantum, step, scale, q, rounded, whole, diff, rows, all, over, printed
<1>12. ASSUME m >= 1 \/ ttc = ht PROVE 10 * ht + all = 10 * ttc
  <2>1. CASE m = 0
    <3>1. all = 0
      BY <1>8, <2>1 DEF Runs
    <3> QED
      BY <1>4, <1>12, <2>1, <3>1, SMT
  <2>2. CASE m >= 1
    <3>1. 1 \in 1 .. m
      BY <1>1, <2>2
    <3>2. GrowsAt(1, over, m, rounded, printed)
      BY <1>6, <1>10 DEF GrowsAt
    <3>3. all = whole + over
      BY <1>1, <1>7, <1>8, <1>11, <3>1, <3>2, SumsDifferByOne
    <3> QED
      BY <1>4, <1>11, <3>3, SMT DEF over, diff
  <2> QED
    BY <1>1, <2>1, <2>2, SMT
<1>13. \A j \in 1 .. m : rows[j].vat \in Int /\ q[j] \in Nat /\ rows[j].base * rows[j].rate = q[j]
  <2>1. \A j \in 1 .. m : rounded[j] \in Int /\ rounded[j] + over \in Int
    BY <1>6, <1>11
  <2> QED
    BY <1>5, <1>10, <2>1
<1>14. \A j \in 2 .. m : Near(100000 * rows[j].vat, q[j], 50000 * Quantum(currency))
  <2>1. ASSUME NEW j \in 2 .. m PROVE Near(scale * rows[j].vat, q[j], step)
    <3>1. j \in 1 .. m /\ j # 1
      BY <1>1
    <3> QED
      BY <1>6, <1>10, <3>1
  <2> QED
    BY <2>1 DEF scale, step, quantum
<1>15. RowsFit(rows, m, items, totals, currency)
  <2>1. m >= 1 \/ totals.ttc = totals.ht => 10 * totals.ht + VatSum(rows) = 10 * totals.ttc
    BY <1>12 DEF all, ht, ttc
  <2> QED
    BY <1>1, <1>2, <1>9, <1>13, <1>14, <2>1 DEF RowsFit, q, rates
<1> QED
  BY <1>3, <1>15 DEF m

\* Whatever the lines, the totals and the currency, subtotal and VAT rows give
\* the amount due (_vat_rows: "the rows add up to exactly the amount due the
\* books hold"), and every row but the highest rate's is its base at its rate,
\* rounded.  Only lines are needed, or an amount due that is the subtotal.
THEOREM VatRowsGiveTheDue ==
    ASSUME NEW items \in Seq(Line), NEW currency \in Currencies,
           NEW totals, totals.ht \in Nat, totals.ttc \in Nat,
           items # <<>> \/ totals.ttc = totals.ht
    PROVE  VatAddsUp([lines |-> items, subtotal |-> totals.ht, due |-> totals.ttc,
                      currency |-> currency, vat |-> VatRows(items, totals, currency)])
<1> DEFINE rows == VatRows(items, totals, currency)
           m == Cardinality(UsedIn(items))
<1>1. RowsFit(rows, m, items, totals, currency)
  BY RowsOfRates
<1> HIDE DEF rows, m
<1>2. m >= 1 \/ totals.ttc = totals.ht
  <2>1. CASE items # <<>>
    <3>1. 1 \in 1 .. Len(items)
      BY <2>1
    <3>2. PICK j \in 1 .. m : Rates(items)[j] = items[1].rate
      BY <1>1, <3>1 DEF RowsFit, ListsOnce
    <3> QED
      BY <1>1, <3>2, SMT DEF RowsFit
  <2> QED
    BY <2>1
<1>3. 10 * totals.ht + VatSum(rows) = 10 * totals.ttc
  BY <1>1, <1>2 DEF RowsFit
<1>4. \A n \in DOMAIN rows \ {1} :
        Near(100000 * rows[n].vat, rows[n].base * rows[n].rate, 50000 * Quantum(currency))
  <2>1. ASSUME NEW n \in DOMAIN rows \ {1}
        PROVE  Near(100000 * rows[n].vat, rows[n].base * rows[n].rate, 50000 * Quantum(currency))
    <3>1. n \in 1 .. m /\ n \in 2 .. m
      BY <1>1, SMT DEF RowsFit
    <3> QED
      BY <1>1, <3>1 DEF RowsFit
  <2> QED
    BY <2>1
<1>5. VatAddsUp([lines |-> items, subtotal |-> totals.ht, due |-> totals.ttc,
                 currency |-> currency, vat |-> rows])
  BY <1>3, <1>4 DEF VatAddsUp
<1> QED
  BY <1>5 DEF rows

\* What the rows of a document hold together: with the subtotal they give the
\* amount due, and each is its base at its rate, up to a rounding step.
RowsAddUp(rows, totals, currency) ==
    /\ 10 * totals.ht + VatSum(rows) = 10 * totals.ttc
    /\ \A n \in DOMAIN rows :
         Near(100000 * rows[n].vat, rows[n].base * rows[n].rate,
              1000000 + Len(rows) * (50000 * Quantum(currency)))

\* With the totals that the lines give, the highest rate's row too is its base
\* at its rate: what rounding left over, which it takes, is no more than a
\* rounding step for each row and a hundredth for the totals.
THEOREM VatRowsAddUp ==
    ASSUME NEW items \in Seq(Line), NEW currency \in Currencies
    PROVE  RowsAddUp(VatRows(items, StoredTotals(items), currency), StoredTotals(items), currency)
<1> DEFINE totals == StoredTotals(items)
           step == 50000 * Quantum(currency)
           scale == 100000
           m == Cardinality(UsedIn(items))
           ht == totals.ht
           ttc == totals.ttc
           q == VatByRate(items, m, Rates(items))
           rows == VatRows(items, totals, currency)
           all == VatSum(rows)
<1>1. PICK byLine : SplitTotals(byLine, items)
  BY TotalsOfLines
<1> DEFINE vat == byLine[Len(items)]
<1>2. /\ ht \in Nat /\ ttc \in Nat /\ vat \in Nat
      /\ Near(1000000 * (ttc - ht), vat, 1000000)
      /\ vat = 0 => ttc = ht
  BY <1>1, TotalsAreNear
<1> HIDE DEF totals
<1>3. RowsFit(rows, m, items, totals, currency)
  BY <1>2, RowsOfRates
<1> HIDE DEF rows, m
<1>4. PICK byRate : Runs(byRate, m, q)
  BY <1>3, SomeSumsRun, SMTT(30) DEF RowsFit
<1>5. byRate[m] = vat
  BY <1>1, <1>3, <1>4, BasesTimesRates DEF SplitTotals, RowsFit
<1> DEFINE printed == [j \in 1 .. m |-> rows[j].vat]
<1>6. PICK prints : Runs(prints, m, printed) /\ all = prints[m]
  <2> DEFINE W == {rows[j] : j \in 1 .. m}
  <2>1. rows \in [1 .. m -> W]
    <3>1. rows = [j \in 1 .. m |-> rows[j]]
      <4>1. VatRows(items, totals, currency) = [j \in DOMAIN VatRows(items, totals, currency) |->
                                                  VatRows(items, totals, currency)[j]]
        BY DEF VatRows
      <4> QED
        BY <1>3, <4>1 DEF RowsFit, rows
    <3> QED
      BY <3>1
  <2> HIDE DEF W
  <2>2. rows \in Seq(W) /\ Len(rows) = m
    BY <1>3, <2>1, FunctionsAreSequences DEF RowsFit
  <2> QED
    BY <2>2, PrintedVatRuns
<1>7. \A j \in 1 .. m : q[j] \in Nat /\ printed[j] \in Int /\ printed[j] = rows[j].vat
                        /\ rows[j].base * rows[j].rate = q[j]
  BY <1>3 DEF RowsFit
<1>8. \A j \in 2 .. m : Near(scale * printed[j], q[j], step)
  <2>1. \A j \in 2 .. m : j \in 1 .. m
    OBVIOUS
  <2> QED
    BY <1>3, <2>1 DEF RowsFit
<1>9. m \in Nat /\ Len(rows) = m /\ DOMAIN rows = 1 .. m
  BY <1>3 DEF RowsFit
<1>10. step \in Nat
  BY SMT DEF Quantum
<1> HIDE DEF step, scale, q, all, printed, vat, ht, ttc
<1>11. 10 * ht + all = 10 * ttc
  <2>1. m = 0 => vat = 0
    BY <1>4, <1>5 DEF Runs
  <2>2. m >= 1 \/ ttc = ht
    BY <1>2, <1>9, <2>1, SMT
  <2> QED
    BY <1>3, <2>2 DEF RowsFit, ht, ttc, all
<1>12. all \in Int
  <2>1. m \in 0 .. m
    BY <1>9
  <2> QED
    BY <1>6, <1>7, <1>9, <2>1, SumsAreNumbers
<1>13. ASSUME NEW j \in 1 .. m
       PROVE  Near(scale * printed[j], q[j], 1000000 + m * step)
  <2>1. m >= 1 /\ 1 \in 1 .. m
    BY <1>9
  <2>2. step <= m * step /\ m * step = (m - 1) * step + step /\ (m - 1) * step \in Int
        /\ m * step \in Int
    <3>1. \A x, y \in Nat : x >= 1 => y <= x * y /\ x * y = (x - 1) * y + y
                                      /\ (x - 1) * y \in Int /\ x * y \in Int
      BY SMT
    <3> QED
      BY <1>9, <1>10, <2>1, <3>1
  <2>3. q[j] \in Nat /\ printed[j] \in Int
    BY <1>7
  <2>4. scale * printed[j] \in Int
    BY <2>3, SMT DEF scale
  <2>5. CASE j # 1
    <3>1. Near(scale * printed[j], q[j], step)
      BY <1>8, <1>9, <2>5
    <3> QED
      BY <1>10, <2>2, <2>3, <2>4, <3>1, SMT DEF Near
  <2>6. CASE j = 1
    <3> DEFINE scaled == [k \in 1 .. m |-> scale * printed[k]]
    <3>1. \A k \in 1 .. m : /\ scaled[k] = scale * printed[k] /\ printed[k] \in Int
                            /\ scaled[k] \in Int /\ q[k] \in Int
      BY <1>7, SMT DEF scale
    <3> HIDE DEF scaled
    <3>2. PICK large : Runs(large, m, scaled)
      BY <1>9, SomeSumsRun
    <3>3. scale \in Int
      BY SMT DEF scale
    <3>4. large[m] = scale * all
      <4>1. m \in Nat /\ Runs(prints, m, printed) /\ all = prints[m]
        BY <1>6, <1>9
      <4>2. \A k \in 1 .. m : printed[k] \in Int /\ scaled[k] = scale * printed[k]
        BY <3>1
      <4>3. large[m] = scale * prints[m]
        BY <3>2, <3>3, <4>1, <4>2, SumsScale
      <4> QED
        BY <4>1, <4>3
    <3>5. \A k \in 2 .. m : scaled[k] - q[k] <= step /\ q[k] - scaled[k] <= step
      <4>1. \A k \in 2 .. m : k \in 1 .. m
        BY <1>9
      <4> QED
        BY <1>8, <3>1, <4>1 DEF Near
    <3>6. /\ (large[m] - byRate[m]) - (scaled[1] - q[1]) <= (m - 1) * step
          /\ (scaled[1] - q[1]) - (large[m] - byRate[m]) <= (m - 1) * step
      BY <1>4, <1>9, <1>10, <2>1, <3>1, <3>2, <3>5, SumsStayNear
    <3>7. scale * all = 1000000 * (ttc - ht)
      BY <1>2, <1>11, <1>12, SMT DEF scale
    <3>8. scale * all - vat <= 1000000 /\ vat - scale * all <= 1000000 /\ scale * all \in Int
      BY <1>2, <3>7, SMT DEF Near
    <3> DEFINE first == scaled[1]
               exact == q[1]
               total == large[m]
    <3>9. /\ first \in Int /\ exact \in Int /\ total \in Int /\ vat \in Int
          /\ total - vat <= 1000000 /\ vat - total <= 1000000
          /\ (total - vat) - (first - exact) <= (m - 1) * step
          /\ (first - exact) - (total - vat) <= (m - 1) * step
          /\ scale * printed[1] = first
      BY <1>2, <1>5, <2>1, <3>1, <3>4, <3>6, <3>8
    <3> HIDE DEF first, total, exact
    <3>10. Near(first, exact, 1000000 + m * step)
      BY <1>10, <2>2, <3>9, SMT DEF Near
    <3> QED
      BY <2>6, <3>9, <3>10 DEF exact
  <2> QED
    BY <2>5, <2>6
<1>14. \A n \in DOMAIN rows :
         Near(scale * rows[n].vat, rows[n].base * rows[n].rate, 1000000 + Len(rows) * step)
  BY <1>7, <1>9, <1>13
<1>15. RowsAddUp(rows, totals, currency)
  <2>1. 10 * totals.ht + VatSum(rows) = 10 * totals.ttc
    BY <1>11 DEF all, ht, ttc
  <2>2. \A n \in DOMAIN rows :
         Near(100000 * rows[n].vat, rows[n].base * rows[n].rate,
              1000000 + Len(rows) * (50000 * Quantum(currency)))
    BY <1>14 DEF step, scale
  <2> QED
    BY <2>1, <2>2 DEF RowsAddUp
<1> QED
  BY <1>15 DEF rows, totals

\* Without rows there is no VAT.
LEMMA NoRowsNoVat == VatSum(<<>>) = 0
<1>1. <<>> \in Seq({}) /\ Len(<<>>) = 0
  OBVIOUS
<1>2. PICK sums : /\ Runs(sums, Len(<<>>), [k \in 1 .. Len(<<>>) |-> <<>>[k].vat])
                  /\ VatSum(<<>>) = sums[Len(<<>>)]
  BY <1>1, PrintedVatRuns
<1> QED
  BY <1>1, <1>2 DEF Runs

\* Lines without VAT are due as they are, ...
LEMMA ExportsHaveNoVat ==
    ASSUME NEW items \in Seq(Line), \A n \in DOMAIN items : items[n].rate = 0
    PROVE  /\ SumOf(LineTotal, items) \in Nat
           /\ SumOf(TaxedTotal, items) = 10000 * SumOf(LineTotal, items)
<1> DEFINE n == Len(items)
           values == VatByLine(items)
           none == [k \in 0 .. n |-> 0]
           nothing == [k \in 1 .. n |-> 0]
<1>1. n \in Nat /\ n \in 0 .. n /\ DOMAIN items = 1 .. n
  OBVIOUS
<1>2. PICK byLine : SplitTotals(byLine, items)
  BY TotalsOfLines
<1>3. \A k \in 1 .. n : values[k] = nothing[k]
  <2>1. ASSUME NEW k \in 1 .. n PROVE values[k] = 0
    <3>1. items[k] \in Line /\ items[k].rate = 0
      BY <1>1
    <3>2. LineTotal(items[k]) \in Nat
      BY <3>1, LinesHaveAmounts
    <3>3. LineVat(items[k]) = 0
      BY <3>1, <3>2, SMT DEF LineVat
    <3> QED
      BY <3>3 DEF VatByLine
  <2> QED
    BY <2>1
<1>4. Runs(none, n, nothing) /\ Runs(byLine, n, values)
  BY <1>2 DEF Runs, SplitTotals
<1>5. byLine[n] = 0
  <2>1. \A k \in 0 .. n : byLine[k] = none[k]
    <3> HIDE DEF none, nothing, values
    <3> QED
      BY <1>1, <1>3, <1>4, SumsAgree
  <2> QED
    BY <1>1, <2>1
<1> QED
  BY <1>2, <1>5, SMT DEF SplitTotals

\* ... in the columns too, whether they are written at once or over totals
\* that had none either.
LEMMA ExportTotalsHaveNoVat ==
    ASSUME NEW items \in Seq(Line), \A n \in DOMAIN items : items[n].rate = 0
    PROVE  /\ InColumns(ComputeTotals(items)).ttc = InColumns(ComputeTotals(items)).ht
           /\ \A read, totals \in [ht : Nat, ttc : Nat] :
                read.ttc = read.ht /\ totals.ttc = totals.ht =>
                    LET written == Overwritten(ComputeTotals(items), read, totals)
                    IN  written.ttc = written.ht
<1> DEFINE exact == ComputeTotals(items)
           base == SumOf(LineTotal, items)
<1>1. base \in Nat /\ exact.ht = base /\ exact.ttc = 10000 * base
  BY ExportsHaveNoVat DEF ComputeTotals
<1> HIDE DEF exact, base
<1>2. RoundsWell(base)
  BY <1>1, HalfUpIsNear
<1>3. InColumns(exact).ttc = InColumns(exact).ht
  BY <1>1, <1>2, SMT DEF RoundsWell, InColumns
<1>4. ASSUME NEW read \in [ht : Nat, ttc : Nat], NEW totals \in [ht : Nat, ttc : Nat],
             read.ttc = read.ht, totals.ttc = totals.ht
      PROVE  Overwritten(exact, read, totals).ttc = Overwritten(exact, read, totals).ht
  <2>1. exact.ht = 1000 * read.ht <=> exact.ttc = 10000000 * read.ttc
    <3>1. read.ht \in Nat /\ read.ttc = read.ht
      BY <1>4
    <3>2. \A b, h \in Nat : b = 1000 * h <=> 10000 * b = 10000000 * h
      BY SMT
    <3> QED
      BY <1>1, <3>1, <3>2, SMTT(30)
  <2> QED
    BY <1>3, <1>4, <2>1 DEF Overwritten
<1> QED
  BY <1>3, <1>4 DEF exact

\* What is written over amounts are amounts.
LEMMA OverwrittenAreAmounts ==
    ASSUME NEW items \in Seq(Line), NEW read, NEW totals \in [ht : Nat, ttc : Nat]
    PROVE  Overwritten(ComputeTotals(items), read, totals) \in [ht : Nat, ttc : Nat]
<1>1. InColumns(ComputeTotals(items)) \in [ht : Nat, ttc : Nat]
  BY TotalsAreAmounts
<1> QED
  BY <1>1 DEF Overwritten

\* A line that is typed to the precision of its columns is ten times the stored one.
LEMMA TypedLine ==
    ASSUME NEW line \in Line, line.price % 10 = 0
    PROVE  /\ line.price \in Nat /\ line.qty \in Nat /\ line.rate \in Nat
           /\ InColumn(line).qty = line.qty /\ InColumn(line).rate = line.rate
           /\ InColumn(line).price \in Nat /\ line.price = 10 * InColumn(line).price
<1>1. line.price \in Nat /\ line.qty \in Nat /\ line.rate \in 0 .. 9999
  BY DEF Line
<1>2. InColumn(line) = [qty |-> line.qty, price |-> HalfUp(line.price, 10), rate |-> line.rate]
  BY DEF Line, InColumn
<1>3. HalfUp(line.price, 10) \in Nat /\ line.price = 10 * HalfUp(line.price, 10)
  BY <1>1, SMT DEF HalfUp
<1>4. line.rate \in Nat
  BY LinesHaveAmounts
<1>5. /\ InColumn(line).qty = line.qty /\ InColumn(line).rate = line.rate
      /\ InColumn(line).price = HalfUp(line.price, 10)
  BY <1>2
<1> QED
  BY <1>1, <1>3, <1>4, <1>5

\* Lines whose prices need no rounding give the same totals typed and stored.
LEMMA TypedToTheColumns ==
    ASSUME NEW items \in Seq(Line), NEW lines \in Seq(Line), Len(lines) = Len(items),
           \A n \in 1 .. Len(items) : items[n].price % 10 = 0 /\ lines[n] = InColumn(items[n])
    PROVE  InColumns(ComputeTotals(items)) = StoredTotals(lines)
<1> DEFINE n == Len(items)
           u == [k \in 1 .. n |-> LineTotal(items[k])]
           v == [k \in 1 .. n |-> LineTotal(lines[k])]
           x == [k \in 1 .. n |-> TaxedTotal(items[k])]
           y == [k \in 1 .. n |-> TaxedTotal(lines[k])]
           ten == 10
<1>1. n \in Nat /\ Len(lines) = n /\ ten \in Int
      /\ \A k \in 1 .. n : items[k] \in Line /\ lines[k] \in Line
  OBVIOUS
<1>2. PICK a : Runs(a, n, u) /\ SumOf(LineTotal, items) = a[n]
  BY LineTotalsRun
<1>3. PICK b : Runs(b, n, v) /\ SumOf(LineTotal, lines) = b[n]
  BY <1>1, LineTotalsRun
<1>4. PICK c : Runs(c, n, x) /\ SumOf(TaxedTotal, items) = c[n]
  BY TaxedTotalsRun
<1>5. PICK d : Runs(d, n, y) /\ SumOf(TaxedTotal, lines) = d[n]
  BY <1>1, TaxedTotalsRun
<1>6. \A k \in 1 .. n : u[k] = ten * v[k] /\ v[k] \in Int /\ x[k] = ten * y[k] /\ y[k] \in Int
  <2>1. ASSUME NEW k \in 1 .. n
        PROVE  /\ LineTotal(items[k]) = 10 * LineTotal(lines[k]) /\ LineTotal(lines[k]) \in Nat
               /\ TaxedTotal(items[k]) = 10 * TaxedTotal(lines[k]) /\ TaxedTotal(lines[k]) \in Nat
    <3> DEFINE qty == items[k].qty
               price == lines[k].price
               rate == items[k].rate
    <3>1. items[k] \in Line /\ items[k].price % 10 = 0 /\ lines[k] = InColumn(items[k])
      BY <1>1
    <3>3. lines[k].qty = qty /\ lines[k].rate = rate
      BY <3>1, TypedLine
    <3>4. qty \in Nat /\ price \in Nat /\ rate \in Nat
      BY <3>1, TypedLine
    <3>6. items[k].price = 10 * price
      BY <3>1, TypedLine
    <3> HIDE DEF qty, price, rate
    <3>7. \A r, s, t \in Nat : /\ r * (10 * s) = 10 * (r * s) /\ r * s \in Nat
                               /\ (10 * (r * s)) * (10000 + t) = 10 * ((r * s) * (10000 + t))
                               /\ (r * s) * (10000 + t) \in Nat
      BY SMT
    <3>8. LineTotal(items[k]) = qty * (10 * price) /\ LineTotal(lines[k]) = qty * price
      BY <3>3, <3>6 DEF LineTotal, qty, price
    <3>9. /\ LineTotal(items[k]) = 10 * (qty * price) /\ LineTotal(lines[k]) = qty * price
          /\ qty * price \in Nat
      BY <3>4, <3>7, <3>8
    <3>10. /\ TaxedTotal(items[k]) = (10 * (qty * price)) * (10000 + rate)
           /\ TaxedTotal(lines[k]) = (qty * price) * (10000 + rate)
      BY <3>3, <3>9 DEF TaxedTotal, rate
    <3> QED
      BY <3>4, <3>7, <3>9, <3>10
  <2> QED
    BY <2>1
<1> HIDE DEF n, u, v, x, y, ten
<1>7. a[n] = ten * b[n] /\ b[n] \in Int
  <2>1. a[n] = ten * b[n]
    <3>1. n \in Nat /\ ten \in Int /\ Runs(b, n, v) /\ Runs(a, n, u)
      BY <1>1, <1>2, <1>3
    <3>2. \A k \in 1 .. n : v[k] \in Int /\ u[k] = ten * v[k]
      BY <1>6
    <3> QED
      BY <3>1, <3>2, SumsScale
  <2>2. b[n] \in Int
    <3>1. n \in 0 .. n
      BY <1>1
    <3> QED
      BY <1>1, <1>3, <1>6, <3>1, SumsAreNumbers
  <2> QED
    BY <2>1, <2>2
<1>8. c[n] = ten * d[n]
  <2>1. n \in Nat /\ ten \in Int /\ Runs(d, n, y) /\ Runs(c, n, x)
    BY <1>1, <1>4, <1>5
  <2>2. \A k \in 1 .. n : y[k] \in Int /\ x[k] = ten * y[k]
    BY <1>6
  <2> QED
    BY <2>1, <2>2, SumsScale
<1>9. b[n] \in Nat /\ d[n] \in Nat
  <2>1. PICK byLine : SplitTotals(byLine, lines)
    BY TotalsOfLines
  <2> QED
    BY <1>3, <1>5, <2>1, SMT DEF SplitTotals
<1>10. RoundsWell(b[n]) /\ RoundsWell(d[n])
  BY <1>9, HalfUpIsNear
<1>11. HalfUp(a[n], 1000) = HalfUp(b[n], 100) /\ HalfUp(c[n], 10000000) = HalfUp(d[n], 1000000)
  BY <1>7, <1>8, <1>10 DEF RoundsWell, ten
<1> QED
  BY <1>2, <1>3, <1>4, <1>5, <1>11 DEF ComputeTotals, InColumns, StoredTotals
=============================================================================
