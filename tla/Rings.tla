-------------------------------- MODULE Rings --------------------------------
(***************************************************************************)
(* Arithmetic of positions on a ring of n buffers, for the proofs about    *)
(* rings that several parties walk round separately, and induction over    *)
(* the naturals, stated for a set.                                         *)
(***************************************************************************)
EXTENDS Integers, FiniteSetTheorems, WellFoundedInduction, TLAPS

\* A non-empty set of naturals has a least element: the intervals up to its
\* elements are finite sets, and strict inclusion of those is well founded.
LEMMA Least ==
  ASSUME NEW S, S \subseteq Nat, S # {}
  PROVE  \E x \in S : \A y \in S : x <= y
<1> DEFINE T == {0 .. k : k \in S}
<1>1. T \subseteq FiniteSubsetsOf(Nat)
  <2>1. ASSUME NEW k \in S PROVE 0 .. k \subseteq Nat /\ IsFiniteSet(0 .. k)
    BY FS_Interval
  <2>2. QED
    BY <2>1 DEF FiniteSubsetsOf
<1>2. T # {}
  OBVIOUS
<1> HIDE DEF T
<1>3. \E x \in T : \A y \in T : ~(<<y, x>> \in StrictSubsetOrdering(Nat))
  BY <1>1, <1>2, FS_StrictSubsetOrderingWellFounded, WFMin
<1>4. PICK x \in S : \A y \in T : ~(<<y, 0 .. x>> \in StrictSubsetOrdering(Nat))
  BY <1>3 DEF T
<1>5. ASSUME NEW y \in S, y < x PROVE FALSE
  <2>1. 0 .. y \subseteq 0 .. x /\ x \in 0 .. x /\ x \notin 0 .. y
    BY <1>5
  <2>2. 0 .. x \subseteq Nat /\ 0 .. y \subseteq Nat /\ 0 .. y # 0 .. x
    BY <2>1
  <2>3. <<0 .. y, 0 .. x>> \in StrictSubsetOrdering(Nat)
    BY <2>1, <2>2 DEF StrictSubsetOrdering
  <2>4. QED
    BY <1>4, <2>3 DEF T
<1>6. QED
  BY <1>5

\* Induction.
LEMMA Induction ==
  ASSUME NEW S, 0 \in S, \A n \in Nat : n \in S => n + 1 \in S
  PROVE  Nat \subseteq S
<1>1. SUFFICES ASSUME Nat \ S # {} PROVE FALSE
  OBVIOUS
<1>2. PICK x \in Nat \ S : \A y \in Nat \ S : x <= y
  BY <1>1, Least
<1>3. x # 0 /\ x - 1 \in Nat
  BY <1>2
<1>4. x - 1 \in S
  BY <1>2, <1>3
<1>5. x - 1 + 1 = x
  OBVIOUS
<1>6. QED
  BY <1>2, <1>3, <1>4, <1>5

-----------------------------------------------------------------------------
(* Positions *)

\* A position is on the ring.
LEMMA OnRing ==
  ASSUME NEW n \in Nat \ {0}, NEW i \in Nat
  PROVE  /\ (i % n) \in 0 .. n - 1
         /\ \E q \in Nat : i = n * q + (i % n)
<1>1. /\ i \div n \in Nat /\ i % n \in 0 .. n - 1
      /\ i = n * (i \div n) + (i % n)
  OBVIOUS
<1>2. QED
  BY <1>1

\* Rounds and position are unique.
LEMMA RoundsUnique ==
  ASSUME NEW n \in Nat \ {0}, NEW q \in Nat, NEW s \in Nat,
         NEW r \in 0 .. n - 1, NEW t \in 0 .. n - 1, n * q + r = n * s + t
  PROVE  q = s /\ r = t
<1>1. ASSUME NEW a \in Nat, NEW b \in Nat, a < b
      PROVE  n * a + n <= n * b
  <2>1. b = a + 1 + (b - a - 1) /\ b - a - 1 \in Nat
    BY <1>1
  <2>2. n * b = n * a + n + n * (b - a - 1)
    BY <2>1
  <2>3. n * (b - a - 1) >= 0
    BY <2>1
  <2>4. QED
    BY <2>2, <2>3
<1>2. ~(q < s)
  BY <1>1
<1>3. ~(s < q)
  BY <1>1
<1>4. QED
  BY <1>2, <1>3

\* The position after q rounds and r steps.
LEMMA PositionIs ==
  ASSUME NEW n \in Nat \ {0}, NEW i \in Nat, NEW q \in Nat,
         NEW r \in 0 .. n - 1, i = n * q + r
  PROVE  i % n = r
<1> DEFINE s == i % n
<1>1. s \in 0 .. n - 1 /\ \E u \in Nat : i = n * u + s
  BY OnRing
<1>2. PICK u \in Nat : i = n * u + s
  BY <1>1
<1>3. s = r
  <2> HIDE DEF s
  <2>1. n * u + s = n * q + r
    BY <1>2
  <2>2. QED
    BY <1>1, <2>1, RoundsUnique
<1>4. QED
  BY <1>3

\* A step from a position is a step of the count.
LEMMA StepOnRing ==
  ASSUME NEW n \in Nat \ {0}, NEW i \in Nat
  PROVE  ((i % n) + 1) % n = (i + 1) % n
<1> DEFINE r == i % n
           s == r + 1
           j == i + 1
<1>1. r \in 0 .. n - 1 /\ \E q \in Nat : i = n * q + r
  BY OnRing
<1>2. PICK q \in Nat : i = n * q + r
  BY <1>1
<1> HIDE DEF r
<1>3. s \in Nat /\ j \in Nat
  BY <1>1
<1>4. CASE s < n
  <2>1. s = n * 0 + s /\ j = n * q + s /\ s \in 0 .. n - 1
    BY <1>1, <1>2, <1>4
  <2> HIDE DEF s, j
  <2>2. s % n = s /\ j % n = s
    BY <1>3, <2>1, PositionIs
  <2>3. QED
    BY <2>2 DEF s, j, r
<1>5. CASE s = n
  <2> DEFINE v == q + 1
  <2>1. s = n * 1 + 0 /\ j = n * v + 0 /\ 0 \in 0 .. n - 1 /\ v \in Nat
    BY <1>1, <1>2, <1>5
  <2> HIDE DEF s, j, v
  <2>2. s % n = 0
    BY <1>3, <2>1, PositionIs
  <2>3. j % n = 0
    BY <1>3, <2>1, PositionIs
  <2>4. QED
    BY <2>2, <2>3 DEF s, j, r
<1>6. QED
  BY <1>1, <1>4, <1>5

\* Two counts less than a round apart that are at one position are equal.
LEMMA SamePosition ==
  ASSUME NEW n \in Nat \ {0}, NEW i \in Nat, NEW j \in Nat,
         i <= j, j < i + n, i % n = j % n
  PROVE  i = j
<1> DEFINE r == i % n
<1>1. r \in 0 .. n - 1 /\ \E q \in Nat : i = n * q + r
  BY OnRing
<1>2. PICK q \in Nat : i = n * q + r
  BY <1>1
<1>3. \E s \in Nat : j = n * s + r
  BY OnRing
<1>4. PICK s \in Nat : j = n * s + r
  BY <1>3
<1> HIDE DEF r
<1>5. j - i \in 0 .. n - 1
  OBVIOUS
<1>6. s >= q
  <2> SUFFICES ASSUME s < q
               PROVE  FALSE
    OBVIOUS
  <2> DEFINE d == q - s - 1
  <2>1. d \in Nat /\ q = s + 1 + d
    OBVIOUS
  <2> HIDE DEF d
  <2>2. n * q = n * s + n + n * d
    BY <2>1
  <2>3. n * d >= 0
    BY <2>1
  <2>4. QED
    BY <1>1, <1>2, <1>4, <2>2, <2>3
<1>7. n * (s - q) + 0 = n * 0 + (j - i)
  BY <1>1, <1>2, <1>4
<1>8. 0 = j - i
  BY <1>5, <1>6, <1>7, RoundsUnique
<1>9. QED
  BY <1>8

\* A whole round leads back.
LEMMA RoundTrip ==
  ASSUME NEW n \in Nat \ {0}, NEW i \in Nat
  PROVE  (i + n) % n = i % n
<1> DEFINE r == i % n
           j == i + n
<1>1. r \in 0 .. n - 1 /\ \E q \in Nat : i = n * q + r
  BY OnRing
<1>2. PICK q \in Nat : i = n * q + r
  BY <1>1
<1> HIDE DEF r
<1> DEFINE v == q + 1
<1>3. j = n * v + r /\ j \in Nat /\ v \in Nat
  BY <1>1, <1>2
<1> HIDE DEF j, v
<1>4. j % n = r
  BY <1>1, <1>3, PositionIs
<1>5. QED
  BY <1>4 DEF j, r

\* Steps from a position are steps of the count.
LEMMA StepsOnRing ==
  ASSUME NEW n \in Nat \ {0}, NEW i \in Nat, NEW k \in Nat
  PROVE  ((i % n) + k) % n = (i + k) % n
<1> DEFINE p == i % n
<1>1. p \in 0 .. n - 1 /\ \E q \in Nat : i = n * q + p
  BY OnRing
<1>2. PICK q \in Nat : i = n * q + p
  BY <1>1
<1> HIDE DEF p
<1> DEFINE j == p + k
           r == j % n
<1>3. j \in Nat
  BY <1>1
<1>4. r \in 0 .. n - 1 /\ \E t \in Nat : j = n * t + r
  BY <1>3, OnRing
<1>5. PICK t \in Nat : j = n * t + r
  BY <1>4
<1>6. i + k = n * (q + t) + r /\ i + k \in Nat /\ q + t \in Nat
  <2> HIDE DEF r
  <2>1. n * (q + t) = n * q + n * t
    OBVIOUS
  <2>2. i + k = n * q + j
    BY <1>1, <1>2
  <2> HIDE DEF j
  <2>3. QED
    BY <1>2, <1>3, <1>4, <1>5, <2>1, <2>2
<1> HIDE DEF r
<1>7. (i + k) % n = r
  BY <1>4, <1>6, PositionIs
<1>8. QED
  BY <1>7 DEF r, p

-----------------------------------------------------------------------------
(* The positions of the counts from a up to b. *)

Arc(n, a, b) == {i % n : i \in a .. b - 1}

LEMMA ArcEmpty ==
  ASSUME NEW n \in Nat \ {0}, NEW a \in Nat
  PROVE  Arc(n, a, a) = {}
BY DEF Arc

LEMMA ArcOnRing ==
  ASSUME NEW n \in Nat \ {0}, NEW a \in Nat, NEW b \in Nat
  PROVE  Arc(n, a, b) \subseteq 0 .. n - 1
<1>1. ASSUME NEW i \in a .. b - 1 PROVE i % n \in 0 .. n - 1
  BY OnRing
<1>2. QED
  BY <1>1 DEF Arc

\* Two arcs side by side, a round at most together, share no position.
LEMMA ArcsApart ==
  ASSUME NEW n \in Nat \ {0}, NEW a \in Nat, NEW b \in Nat, NEW c \in Nat,
         a <= b, b <= c, c <= a + n
  PROVE  /\ Arc(n, a, c) = Arc(n, a, b) \cup Arc(n, b, c)
         /\ Arc(n, a, b) \cap Arc(n, b, c) = {}
<1>1. a .. c - 1 = (a .. b - 1) \cup (b .. c - 1)
  OBVIOUS
<1>2. Arc(n, a, c) = Arc(n, a, b) \cup Arc(n, b, c)
  BY <1>1 DEF Arc
<1>3. ASSUME NEW i \in a .. b - 1, NEW j \in b .. c - 1, i % n = j % n
      PROVE  FALSE
  <2>1. i \in Nat /\ j \in Nat /\ i <= j /\ j < i + n /\ i # j
    OBVIOUS
  <2>2. QED
    BY <1>3, <2>1, SamePosition
<1>4. Arc(n, a, b) \cap Arc(n, b, c) = {}
  BY <1>3 DEF Arc
<1>5. QED
  BY <1>2, <1>4

\* An arc takes up the next position, if it is less than a round.
LEMMA ArcGrows ==
  ASSUME NEW n \in Nat \ {0}, NEW a \in Nat, NEW b \in Nat, a <= b, b < a + n
  PROVE  /\ Arc(n, a, b + 1) = Arc(n, a, b) \cup {b % n}
         /\ b % n \notin Arc(n, a, b)
<1>1. b .. (b + 1) - 1 = {b}
  OBVIOUS
<1>2. Arc(n, b, b + 1) = {b % n}
  BY <1>1 DEF Arc
<1>3. b <= b + 1 /\ b + 1 <= a + n /\ b + 1 \in Nat
  OBVIOUS
<1> DEFINE c == b + 1
<1> HIDE DEF c
<1>4. /\ Arc(n, a, c) = Arc(n, a, b) \cup Arc(n, b, c)
      /\ Arc(n, a, b) \cap Arc(n, b, c) = {}
  BY <1>3, ArcsApart DEF c
<1>5. QED
  BY <1>2, <1>4 DEF c

\* An arc gives up its first position.
LEMMA ArcShrinks ==
  ASSUME NEW n \in Nat \ {0}, NEW a \in Nat, NEW b \in Nat, a < b, b <= a + n
  PROVE  /\ a % n \in Arc(n, a, b)
         /\ Arc(n, a + 1, b) = Arc(n, a, b) \ {a % n}
<1> DEFINE c == a + 1
<1>1. a .. c - 1 = {a} /\ c \in Nat /\ a <= c /\ c <= b
  OBVIOUS
<1>2. Arc(n, a, c) = {a % n}
  BY <1>1 DEF Arc
<1> HIDE DEF c
<1>3. /\ Arc(n, a, b) = Arc(n, a, c) \cup Arc(n, c, b)
      /\ Arc(n, a, c) \cap Arc(n, c, b) = {}
  BY <1>1, ArcsApart
<1>4. QED
  BY <1>2, <1>3 DEF c

\* A round takes up the whole ring.
LEMMA ArcFull ==
  ASSUME NEW n \in Nat \ {0}, NEW a \in Nat
  PROVE  Arc(n, a, a + n) = 0 .. n - 1
<1>1. Arc(n, a, a + n) \subseteq 0 .. n - 1
  BY ArcOnRing
<1>2. ASSUME NEW r \in 0 .. n - 1
      PROVE  \E i \in a .. (a + n) - 1 : i % n = r
  <2> DEFINE s == a % n
  <2>1. s \in 0 .. n - 1 /\ \E q \in Nat : a = n * q + s
    BY OnRing
  <2>2. PICK q \in Nat : a = n * q + s
    BY <2>1
  <2> HIDE DEF s
  <2>3. CASE s <= r
    <3> DEFINE i == a + (r - s)
    <3>1. i \in Nat /\ i = n * q + r /\ i \in a .. (a + n) - 1
      BY <2>1, <2>2, <2>3
    <3> HIDE DEF i
    <3>2. i % n = r
      BY <3>1, PositionIs
    <3>3. QED
      BY <3>1, <3>2
  <2>4. CASE r < s
    <3> DEFINE i == a + (n + r - s)
               t == q + 1
    <3>1. n * t = n * q + n /\ t \in Nat
      OBVIOUS
    <3>2. i \in Nat /\ i \in a .. (a + n) - 1 /\ i = n * q + n + r
      BY <2>1, <2>2, <2>4
    <3> HIDE DEF i, t
    <3>3. i = n * t + r
      BY <3>1, <3>2
    <3>4. i % n = r
      BY <3>1, <3>2, <3>3, PositionIs
    <3>5. QED
      BY <3>2, <3>4
  <2>5. QED
    BY <2>1, <2>3, <2>4
<1>3. 0 .. n - 1 \subseteq Arc(n, a, a + n)
  BY <1>2 DEF Arc
<1>4. QED
  BY <1>1, <1>3

\* What is left of the ring is the arc that follows.
LEMMA ArcRest ==
  ASSUME NEW n \in Nat \ {0}, NEW a \in Nat, NEW b \in Nat, a <= b, b <= a + n
  PROVE  (0 .. n - 1) \ Arc(n, a, b) = Arc(n, b, a + n)
<1> DEFINE c == a + n
<1>1. c \in Nat /\ b <= c /\ c <= a + n
  OBVIOUS
<1>2. Arc(n, a, c) = 0 .. n - 1
  BY ArcFull
<1> HIDE DEF c
<1>3. /\ Arc(n, a, c) = Arc(n, a, b) \cup Arc(n, b, c)
      /\ Arc(n, a, b) \cap Arc(n, b, c) = {}
  BY <1>1, ArcsApart
<1>4. QED
  BY <1>2, <1>3 DEF c

\* The arc as it is walked from a position.
LEMMA ArcFrom ==
  ASSUME NEW n \in Nat \ {0}, NEW a \in Nat, NEW m \in Nat
  PROVE  {((a % n) + k) % n : k \in 0 .. m - 1} = Arc(n, a, a + m)
<1>1. ASSUME NEW k \in 0 .. m - 1
      PROVE  ((a % n) + k) % n = (a + k) % n /\ a + k \in a .. (a + m) - 1
  <2>1. k \in Nat /\ a + k \in a .. (a + m) - 1
    OBVIOUS
  <2>2. QED
    BY <2>1, StepsOnRing
<1>2. ASSUME NEW i \in a .. (a + m) - 1
      PROVE  \E k \in 0 .. m - 1 : i = a + k
  <2>1. i - a \in 0 .. m - 1 /\ i = a + (i - a)
    OBVIOUS
  <2>2. QED
    BY <2>1
<1>3. QED
  BY <1>1, <1>2 DEF Arc
=============================================================================
