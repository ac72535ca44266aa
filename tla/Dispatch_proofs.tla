--------------------------- MODULE Dispatch_proofs ---------------------------
(***************************************************************************)
(* The lists of the container, for any number of applications and workers. *)
(*                                                                         *)
(* With one client the pointers are the lists at every step of every call, *)
(* and releaseChild finds its child.  With any number of clients that make *)
(* no call without the mutex beside other threads, ~Application locks the  *)
(* dispatch loop out.                                                      *)
(***************************************************************************)
EXTENDS Dispatch, SequenceTheorems, TLAPS

-----------------------------------------------------------------------------
(* Lists *)

\* The elements of a list are of its type, and the first is one of them.
LEMMA Elements ==
  ASSUME NEW S, NEW s \in Seq(S)
  PROVE  /\ ToSet(s) \subseteq S
         /\ s # <<>> => s[1] \in ToSet(s)
         /\ s = <<>> => ToSet(s) = {}
BY DEF ToSet

\* A new child is the first.
LEMMA Prepended ==
  ASSUME NEW S, NEW s \in Seq(S), NEW x \in S
  PROVE  /\ <<x>> \o s \in Seq(S)
         /\ ToSet(<<x>> \o s) = {x} \cup ToSet(s)
         /\ Len(<<x>> \o s) = Len(s) + 1 /\ (<<x>> \o s)[1] = x
         /\ \A i \in 1 .. Len(s) : (<<x>> \o s)[i + 1] = s[i]
<1> DEFINE t == <<x>> \o s
<1>1. /\ t \in Seq(S) /\ Len(t) = Len(s) + 1
      /\ t[1] = x /\ \A i \in 1 .. Len(s) : t[i + 1] = s[i]
  OBVIOUS
<1>2. ToSet(t) \subseteq {x} \cup ToSet(s)
  <2>1. ASSUME NEW i \in 1 .. Len(t) PROVE t[i] \in {x} \cup ToSet(s)
    <3>1. CASE i = 1
      BY <1>1, <3>1
    <3>2. CASE i # 1
      <4>1. i - 1 \in 1 .. Len(s) /\ t[(i - 1) + 1] = t[i]
        BY <1>1, <3>2
      <4>2. QED
        BY <1>1, <4>1 DEF ToSet
    <3>3. QED
      BY <3>1, <3>2
  <2>2. QED
    BY <1>1, <2>1 DEF ToSet
<1>3. {x} \cup ToSet(s) \subseteq ToSet(t)
  <2>1. x \in ToSet(t)
    BY <1>1 DEF ToSet
  <2>2. ASSUME NEW i \in 1 .. Len(s) PROVE s[i] \in ToSet(t)
    <3>1. i + 1 \in DOMAIN t /\ t[i + 1] = s[i]
      BY <1>1
    <3>2. QED
      BY <3>1 DEF ToSet
  <2>3. QED
    BY <2>1, <2>2 DEF ToSet
<1>4. QED
  BY <1>1, <1>2, <1>3

\* A child that is unlinked is the only one that can disappear.
LEMMA Removed ==
  ASSUME NEW S, NEW s \in Seq(S), NEW i \in DOMAIN s
  PROVE  /\ RemoveAt(s, i) \in Seq(S)
         /\ ToSet(s) \subseteq ToSet(RemoveAt(s, i)) \cup {s[i]}
         /\ ToSet(RemoveAt(s, i)) \subseteq ToSet(s)
         /\ Len(RemoveAt(s, i)) = Len(s) - 1
         /\ \A j \in 1 .. i - 1 : RemoveAt(s, i)[j] = s[j]
         /\ \A j \in i .. Len(s) - 1 : RemoveAt(s, i)[j] = s[j + 1]
<1> DEFINE n == Len(s)
           t == RemoveAt(s, i)
<1>1. n \in Nat /\ i \in 1 .. n /\ DOMAIN s = 1 .. n
  OBVIOUS
<1>2. /\ t \in Seq(S) /\ Len(t) = n - 1
      /\ \A j \in 1 .. i - 1 : t[j] = s[j]
      /\ \A j \in i .. n - 1 : t[j] = s[j + 1]
  <2> DEFINE a == SubSeq(s, 1, i - 1)
             b == SubSeq(s, i + 1, n)
  <2>1. /\ a \in Seq(S) /\ Len(a) = i - 1
        /\ \A j \in 1 .. i - 1 : a[j] = s[j]
    BY <1>1
  <2>2. /\ b \in Seq(S) /\ Len(b) = n - i
        /\ \A j \in 1 .. n - i : b[j] = s[i + j]
    BY <1>1
  <2>3. t = a \o b
    BY DEF RemoveAt
  <2> HIDE DEF a, b, n, t
  <2>4. t \in Seq(S) /\ Len(t) = n - 1
    <3>1. t \in Seq(S) /\ Len(t) = Len(a) + Len(b)
      <4>1. a \o b \in Seq(S) /\ Len(a \o b) = Len(a) + Len(b)
        BY <2>1, <2>2, ConcatProperties
      <4>2. QED
        BY <2>3, <4>1
    <3>2. QED
      BY <1>1, <2>1, <2>2, <3>1
  <2>5. \A j \in 1 .. i - 1 : t[j] = a[j]
    BY <1>1, <2>1, <2>2, <2>3
  <2>6. \A j \in i .. n - 1 : t[j] = b[j - (i - 1)]
    BY <1>1, <2>1, <2>2, <2>3
  <2>7. ASSUME NEW j \in i .. n - 1 PROVE t[j] = s[j + 1]
    <3>1. j - (i - 1) \in 1 .. n - i /\ i + (j - (i - 1)) = j + 1
      BY <1>1
    <3>2. QED
      BY <2>2, <2>6, <3>1
  <2>8. QED
    BY <2>1, <2>4, <2>5, <2>7
<1>3. DOMAIN t = 1 .. n - 1
  BY <1>2
<1> HIDE DEF n, t
<1>4. ASSUME NEW j \in 1 .. n, j # i PROVE s[j] \in ToSet(t)
  <2>1. CASE j < i
    <3>1. j \in 1 .. i - 1 /\ j \in 1 .. n - 1
      BY <1>1, <2>1
    <3>2. QED
      BY <1>2, <1>3, <3>1 DEF ToSet
  <2>2. CASE i < j
    <3>1. /\ j - 1 \in i .. n - 1 /\ j - 1 \in 1 .. n - 1
          /\ (j - 1) + 1 = j
      BY <1>1, <2>2
    <3>2. s[j] = t[j - 1]
      BY <1>2, <3>1
    <3>3. QED
      BY <1>3, <3>1, <3>2 DEF ToSet
  <2>3. QED
    BY <1>1, <1>4, <2>1, <2>2
<1>5. ASSUME NEW j \in 1 .. n - 1 PROVE t[j] \in ToSet(s)
  <2>1. CASE j < i
    <3>1. j \in 1 .. i - 1 /\ j \in 1 .. n
      BY <1>1, <2>1
    <3>2. QED
      BY <1>1, <1>2, <3>1 DEF ToSet
  <2>2. CASE ~(j < i)
    <3>1. j \in i .. n - 1 /\ j + 1 \in 1 .. n
      BY <1>1, <2>2
    <3>2. QED
      BY <1>1, <1>2, <3>1 DEF ToSet
  <2>3. QED
    BY <2>1, <2>2
<1>6. QED
  BY <1>1, <1>2, <1>3, <1>4, <1>5 DEF ToSet, t, n

\* Unlinking by name is unlinking at the child's place.
LEMMA WithoutAt ==
  ASSUME NEW S, NEW s \in Seq(S), IsInjective(s), NEW i \in DOMAIN s
  PROVE  Without(s, s[i]) = RemoveAt(s, i)
<1> DEFINE k == CHOOSE k \in DOMAIN s : s[k] = s[i]
<1>1. s[i] \in ToSet(s)
  BY DEF ToSet
<1>2. k \in DOMAIN s /\ s[k] = s[i]
  OBVIOUS
<1>3. k = i
  BY <1>2 DEF IsInjective
<1>4. Without(s, s[i]) = RemoveAt(s, k)
  BY <1>1 DEF Without
<1>5. QED
  BY <1>3, <1>4

\* A chain depends on the links of its own elements only.
LEMMA ChainSame ==
  ASSUME NEW S, NEW s \in Seq(S), NEW head, NEW link, NEW link2,
         IsChain(s, head, link), \A x \in ToSet(s) : link2[x] = link[x]
  PROVE  IsChain(s, head, link2)
BY DEF IsChain, ToSet

\* A child whose link is the first one and that becomes the first.
LEMMA ChainPush ==
  ASSUME NEW S, NEW s \in Seq(S), NEW x \in S, NEW head, NEW link,
         IsChain(s, head, link), x \notin ToSet(s), link[x] = head
  PROVE  IsChain(<<x>> \o s, x, link)
<1> DEFINE t == <<x>> \o s
<1>1. /\ t \in Seq(S) /\ Len(t) = Len(s) + 1 /\ t[1] = x
      /\ \A i \in 1 .. Len(s) : t[i + 1] = s[i]
  BY Prepended
<1> HIDE DEF t
<1>2. \A i \in 1 .. Len(s) : s[i] # x
  BY DEF ToSet
<1>3. DOMAIN t = 1 .. Len(s) + 1 /\ DOMAIN s = 1 .. Len(s) /\ Len(s) \in Nat
  BY <1>1
<1>4. \A i \in DOMAIN t : i = 1 \/ (i - 1 \in 1 .. Len(s) /\ t[i] = s[i - 1])
  <2>1. SUFFICES ASSUME NEW i \in DOMAIN t, i # 1
                 PROVE  i - 1 \in 1 .. Len(s) /\ t[i] = s[i - 1]
    OBVIOUS
  <2>2. i - 1 \in 1 .. Len(s) /\ (i - 1) + 1 = i
    BY <1>3, <2>1
  <2>3. QED
    BY <1>1, <2>2
<1>5. IsInjective(t)
  <2>1. SUFFICES ASSUME NEW i \in DOMAIN t, NEW j \in DOMAIN t, t[i] = t[j]
                 PROVE  i = j
    BY DEF IsInjective
  <2>2. CASE i = 1 \/ j = 1
    BY <1>1, <1>2, <1>4, <2>1, <2>2
  <2>3. CASE i # 1 /\ j # 1
    <3>1. i - 1 \in DOMAIN s /\ j - 1 \in DOMAIN s /\ s[i - 1] = s[j - 1]
      BY <1>3, <1>4, <2>1, <2>3
    <3>2. i - 1 = j - 1
      BY <3>1 DEF IsChain, IsInjective
    <3>3. QED
      BY <1>3, <3>2
  <2>4. QED
    BY <2>2, <2>3
<1>6. t # <<>>
  BY <1>1
<1>7. ASSUME NEW i \in DOMAIN t
      PROVE  link[t[i]] = IF i = Len(t) THEN None ELSE t[i + 1]
  <2>1. CASE i = 1
    <3>1. CASE s = <<>>
      BY <1>1, <2>1, <3>1 DEF IsChain
    <3>2. CASE s # <<>>
      <4>1. 1 \in 1 .. Len(s) /\ head = s[1]
        BY <3>2 DEF IsChain
      <4>2. t[1 + 1] = s[1] /\ Len(t) # 1
        BY <1>1, <1>3, <4>1
      <4>3. QED
        BY <1>1, <2>1, <4>1, <4>2
    <3>3. QED
      BY <3>1, <3>2
  <2>2. CASE i # 1
    <3>1. i - 1 \in DOMAIN s /\ t[i] = s[i - 1]
      BY <1>3, <1>4, <2>2
    <3>2. link[s[i - 1]] = IF i - 1 = Len(s) THEN None ELSE s[(i - 1) + 1]
      BY <3>1 DEF IsChain
    <3>3. i # Len(t) => i \in 1 .. Len(s) /\ (i - 1) + 1 = i /\ i - 1 # Len(s)
      BY <1>1, <1>3
    <3>4. i = Len(t) => i - 1 = Len(s)
      BY <1>1, <1>3
    <3>5. QED
      BY <1>1, <3>1, <3>2, <3>3, <3>4
  <2>3. QED
    BY <2>1, <2>2
<1>8. QED
  BY <1>1, <1>5, <1>6, <1>7 DEF IsChain, t

\* A child that is unlinked: what pointed to it has its link.
LEMMA ChainCut ==
  ASSUME NEW S, NEW s \in Seq(S), NEW i \in DOMAIN s,
         NEW head, NEW link, NEW head2, NEW link2,
         IsChain(s, head, link),
         i = 1 => /\ head2 = link[s[1]]
                  /\ \A x \in ToSet(s) : x # s[1] => link2[x] = link[x],
         i # 1 => /\ head2 = head
                  /\ link2[s[i - 1]] = link[s[i]]
                  /\ \A x \in ToSet(s) : x # s[i - 1] => link2[x] = link[x]
  PROVE  /\ Without(s, s[i]) \in Seq(S)
         /\ ToSet(Without(s, s[i])) = ToSet(s) \ {s[i]}
         /\ IsChain(Without(s, s[i]), head2, link2)
<1> DEFINE n == Len(s)
           t == RemoveAt(s, i)
<1>1. n \in Nat /\ i \in 1 .. n /\ DOMAIN s = 1 .. n
  OBVIOUS
<1>2. /\ t \in Seq(S) /\ Len(t) = n - 1
      /\ ToSet(s) \subseteq ToSet(t) \cup {s[i]} /\ ToSet(t) \subseteq ToSet(s)
      /\ \A j \in 1 .. i - 1 : t[j] = s[j]
      /\ \A j \in i .. n - 1 : t[j] = s[j + 1]
  BY Removed
<1>3. IsInjective(s)
  BY DEF IsChain
<1>4. Without(s, s[i]) = t
  BY <1>3, WithoutAt
<1> HIDE DEF n, t
<1>5. DOMAIN t = 1 .. n - 1
  BY <1>1, <1>2
<1>6. \A j \in DOMAIN t :
        \/ j < i /\ j \in DOMAIN s /\ t[j] = s[j]
        \/ i <= j /\ j + 1 \in DOMAIN s /\ t[j] = s[j + 1]
  <2>1. SUFFICES ASSUME NEW j \in DOMAIN t
                 PROVE  \/ j < i /\ j \in DOMAIN s /\ t[j] = s[j]
                        \/ i <= j /\ j + 1 \in DOMAIN s /\ t[j] = s[j + 1]
    OBVIOUS
  <2>2. CASE j < i
    <3>1. j \in 1 .. i - 1 /\ j \in 1 .. n
      BY <1>1, <1>5, <2>2
    <3>2. QED
      BY <1>1, <1>2, <2>2, <3>1
  <2>3. CASE ~(j < i)
    <3>1. j \in i .. n - 1 /\ j + 1 \in 1 .. n /\ i <= j
      BY <1>1, <1>5, <2>3
    <3>2. QED
      BY <1>1, <1>2, <3>1
  <2>4. QED
    BY <2>2, <2>3
<1>7. IsInjective(t)
  <2>1. SUFFICES ASSUME NEW j \in DOMAIN t, NEW k \in DOMAIN t, t[j] = t[k]
                 PROVE  j = k
    BY DEF IsInjective
  <2> DEFINE a == IF j < i THEN j ELSE j + 1
             b == IF k < i THEN k ELSE k + 1
  <2>2. /\ a \in DOMAIN s /\ t[j] = s[a]
        /\ b \in DOMAIN s /\ t[k] = s[b]
    BY <1>1, <1>5, <1>6
  <2> HIDE DEF a, b
  <2>3. s[a] = s[b]
    BY <2>1, <2>2
  <2>4. a = b
    BY <1>3, <2>2, <2>3 DEF IsInjective
  <2>5. QED
    BY <1>1, <1>5, <2>4 DEF a, b
<1>8. s[i] \notin ToSet(t)
  <2>1. SUFFICES ASSUME NEW j \in DOMAIN t, t[j] = s[i] PROVE FALSE
    BY DEF ToSet
  <2> DEFINE a == IF j < i THEN j ELSE j + 1
  <2>2. a \in DOMAIN s /\ t[j] = s[a] /\ a # i
    BY <1>1, <1>5, <1>6
  <2>3. QED
    BY <1>3, <2>1, <2>2 DEF IsInjective
<1>9. head2 = IF t = <<>> THEN None ELSE t[1]
  <2>1. t = <<>> <=> n = 1
    BY <1>1, <1>2
  <2>2. link[s[i]] = IF i = n THEN None ELSE s[i + 1]
    BY <1>1 DEF IsChain, n
  <2>3. CASE i = 1
    <3>1. head2 = IF 1 = n THEN None ELSE s[1 + 1]
      BY <2>2, <2>3
    <3>2. n # 1 => 1 \in i .. n - 1
      BY <1>1, <2>3
    <3>3. n # 1 => t[1] = s[1 + 1]
      BY <1>2, <3>2
    <3>4. QED
      BY <2>1, <3>1, <3>3
  <2>4. CASE i # 1
    <3>1. n # 1 /\ 1 \in 1 .. i - 1 /\ s # <<>>
      BY <1>1, <2>4 DEF n
    <3>2. head2 = s[1] /\ t[1] = s[1]
      BY <1>2, <2>4, <3>1 DEF IsChain
    <3>3. QED
      BY <2>1, <3>1, <3>2
  <2>5. QED
    BY <2>3, <2>4
<1>10. ASSUME NEW j \in DOMAIN t
       PROVE  link2[t[j]] = IF j = Len(t) THEN None ELSE t[j + 1]
  <2>1. \A k \in DOMAIN s : link[s[k]] = IF k = n THEN None ELSE s[k + 1]
    BY DEF IsChain, n
  <2>2. \A k \in DOMAIN s : s[k] \in ToSet(s)
    BY DEF ToSet
  <2>3. \A k \in DOMAIN s : k # i /\ k # i - 1 => link2[s[k]] = link[s[k]]
    <3>1. SUFFICES ASSUME NEW k \in DOMAIN s, k # i, k # i - 1
                   PROVE  link2[s[k]] = link[s[k]]
      OBVIOUS
    <3>2. s[k] # s[i]
      BY <1>3, <3>1 DEF IsInjective
    <3>3. CASE i = 1
      BY <2>2, <3>2, <3>3
    <3>4. CASE i # 1
      <4>1. i - 1 \in DOMAIN s
        BY <1>1, <3>4
      <4>2. s[k] # s[i - 1]
        BY <1>3, <3>1, <4>1 DEF IsInjective
      <4>3. QED
        BY <2>2, <3>4, <4>2
    <3>5. QED
      BY <3>3, <3>4
  <2>4. CASE j < i - 1
    <3>1. j \in 1 .. i - 1 /\ j + 1 \in 1 .. i - 1 /\ j \in DOMAIN s /\ j # n /\ j # n - 1
      BY <1>1, <1>5, <2>4
    <3>2. t[j] = s[j] /\ t[j + 1] = s[j + 1]
      BY <1>2, <3>1
    <3>3. j # i /\ j # i - 1
      BY <1>1, <1>5, <2>4
    <3>4. QED
      BY <1>2, <2>1, <2>3, <3>1, <3>2, <3>3
  <2>5. CASE j = i - 1
    <3>1. i # 1 /\ j \in 1 .. i - 1
      BY <1>1, <1>5, <2>5
    <3>2. link2[t[j]] = link[s[i]]
      BY <1>2, <2>5, <3>1
    <3>3. link[s[i]] = IF i = n THEN None ELSE s[i + 1]
      BY <1>1, <2>1
    <3>4. i # n => i \in i .. n - 1
      BY <1>1
    <3>5. i # n => t[i] = s[i + 1]
      BY <1>2, <3>4
    <3>6. (j = n - 1 <=> i = n) /\ j + 1 = i
      BY <1>1, <2>5
    <3>7. QED
      BY <1>2, <3>2, <3>3, <3>5, <3>6
  <2>6. CASE i <= j
    <3>1. /\ j \in i .. n - 1 /\ j + 1 \in DOMAIN s
          /\ j + 1 # i /\ j + 1 # i - 1
          /\ (j = n - 1 <=> j + 1 = n)
      BY <1>1, <1>5, <2>6
    <3>2. t[j] = s[j + 1]
      BY <1>2, <3>1
    <3>3. link2[t[j]] = IF j + 1 = n THEN None ELSE s[(j + 1) + 1]
      BY <2>1, <2>3, <3>1, <3>2
    <3>4. j + 1 # n => j + 1 \in i .. n - 1
      BY <1>1, <3>1
    <3>5. j + 1 # n => t[j + 1] = s[(j + 1) + 1]
      BY <1>2, <3>4
    <3>6. QED
      BY <1>2, <3>1, <3>3, <3>5
  <2>7. QED
    BY <1>1, <1>5, <2>4, <2>5, <2>6
<1>11. IsChain(t, head2, link2)
  BY <1>7, <1>9, <1>10 DEF IsChain
<1>12. QED
  BY <1>2, <1>4, <1>8, <1>11

\* x comes after y in the list, and right after it.
Before(s, y, x) == \E i, j \in DOMAIN s : i < j /\ s[i] = y /\ s[j] = x
RightBefore(s, y, x) ==
  \E i \in DOMAIN s : i + 1 \in DOMAIN s /\ s[i] = y /\ s[i + 1] = x

\* A walk to a listed child begins at it or before it ...
LEMMA WalkFirst ==
  ASSUME NEW S, NEW s \in Seq(S), NEW head, NEW link,
         IsChain(s, head, link), NEW x \in ToSet(s)
  PROVE  head = s[1] /\ 1 \in DOMAIN s /\ (head = x \/ Before(s, head, x))
<1>1. PICK j \in DOMAIN s : s[j] = x
  BY DEF ToSet
<1>2. s # <<>> /\ 1 \in DOMAIN s /\ (j = 1 \/ 1 < j)
  BY <1>1
<1>3. QED
  BY <1>1, <1>2 DEF IsChain, Before

\* ... and each step leads to it or stays before it.
LEMMA WalkNext ==
  ASSUME NEW S, NEW s \in Seq(S), NEW head, NEW link,
         IsChain(s, head, link), NEW x, NEW y, Before(s, y, x)
  PROVE  /\ y \in ToSet(s) /\ link[y] \in ToSet(s)
         /\ RightBefore(s, y, link[y])
         /\ link[y] = x \/ Before(s, link[y], x)
<1>1. PICK i, j \in DOMAIN s : i < j /\ s[i] = y /\ s[j] = x
  BY DEF Before
<1>2. i # Len(s) /\ i + 1 \in DOMAIN s /\ (i + 1 = j \/ i + 1 < j)
  BY <1>1
<1>3. link[y] = s[i + 1]
  BY <1>1, <1>2 DEF IsChain
<1>4. y \in ToSet(s) /\ link[y] \in ToSet(s)
  BY <1>1, <1>2, <1>3 DEF ToSet
<1>5. RightBefore(s, y, link[y])
  BY <1>1, <1>2, <1>3 DEF RightBefore
<1>6. link[y] = x \/ Before(s, link[y], x)
  BY <1>1, <1>2, <1>3 DEF Before
<1>7. QED
  BY <1>4, <1>5, <1>6

-----------------------------------------------------------------------------
(* Types *)

\* What the fields of a call may hold.
CallKind(k) ==
  /\ k.step = "none" => k = NoCall
  /\ k.step # "none" => k.child \in Children
  /\ k.step = "clear" => k.child \in Applications
  /\ k.step \in {"walk", "unlink"} =>
       k.cp = Parent(k.child) \/ k.cp \in Kind(Parent(k.child))
  /\ k.step = "unlink" => k.after \in Kind(Parent(k.child)) \cup {None}

\* Pointers lead to children of their kind, and the cursors exist in a pass only.
Kinds ==
  /\ \A p \in Parents : first[p] \in Kind(p) \cup {None}
  /\ \A x \in Children : next[x] \in Kind(Parent(x)) \cup {None}
  /\ \A c \in Clients : CallKind(call[c])
  /\ pc \in {"enter", "pass"} => app \in Applications
  /\ worker # None => pc = "pass"

TInv == TypeOK /\ Kinds

\* Parents and their children.
LEMMA Kinship ==
  /\ \A x \in Children : Parent(x) \in Parents /\ x \in Kind(Parent(x))
  /\ \A p \in Parents : Kind(p) \subseteq Children
  /\ \A a \in Applications :
       /\ a \in Parents /\ a \in Children /\ a # None /\ a # Container
       /\ a \notin Workers /\ Parent(a) = Container /\ Kind(a) = Workers
  /\ \A w \in Workers :
       /\ w \in Children /\ w # None /\ w # Container
       /\ Owner[w] \in Applications /\ Parent(w) = Owner[w] /\ Kind(Parent(w)) = Workers
  /\ Kind(Container) = Applications /\ Container \in Parents
  /\ Container \notin Children /\ None \notin Children
BY DispatchAssumption DEF Parents, Children, Parent, Kind

\* What a read of a pointer gives is a child of its kind.
LEMMA ReadKind ==
  ASSUME TInv
  PROVE  /\ \A p \in Parents : FirstChild(p) \subseteq Kind(p) \cup {None}
         /\ \A x \in Children : NextChild(x) \subseteq Kind(Parent(x)) \cup {None}
BY DEF TInv, Kinds, FirstChild, NextChild

LEMMA NoCallKind == NoCall \in Calls /\ CallKind(NoCall)
BY DEF NoCall, Calls, Steps, CallKind

\* A list keeps its type when a child is taken out of it.
LEMMA WithoutType ==
  ASSUME NEW S, NEW s \in Seq(S), NEW x
  PROVE  Without(s, x) \in Seq(S)
<1>1. CASE x \in ToSet(s)
  <2>1. PICK i \in DOMAIN s : Without(s, x) = RemoveAt(s, i)
    BY <1>1 DEF Without, ToSet
  <2>2. QED
    BY <2>1, Removed
<1>2. CASE x \notin ToSet(s)
  BY <1>2 DEF Without
<1>3. QED
  BY <1>1, <1>2

\* A pass visits one application at least.
LEMMA FirstRun == 0 \in 0 .. MAX_RUNS_PER_CALL - 1
BY DispatchAssumption

LEMMA TypeInit == Init => TInv
<1> SUFFICES ASSUME Init PROVE TInv
  OBVIOUS
<1>1. listed \in [Parents -> Seq(Children)]
  BY DEF Init
<1>2. TypeOK
  BY <1>1, FirstRun, NoCallKind DEF Init, TypeOK
<1>3. Kinds
  BY NoCallKind DEF Init, Kinds
<1>4. QED
  BY <1>2, <1>3 DEF TInv

\* A step that changes a call, the lists and the mutex within their kinds.
LEMMA TypeCall ==
  ASSUME TInv, NEW c \in Clients, NEW k \in Calls, CallKind(k),
         call' = [call EXCEPT ![c] = k],
         mutex' \in {"free", "loop"} \cup Clients,
         first' \in [Parents -> Children \cup {None}],
         \A p \in Parents : first'[p] \in Kind(p) \cup {None},
         next' \in [Children -> Children \cup {None}],
         \A x \in Children : next'[x] \in Kind(Parent(x)) \cup {None},
         life' \in [Children -> {"none", "bare", "live", "dying", "freed"}],
         listed' \in [Parents -> Seq(Children)],
         ready' \subseteq Workers,
         UNCHANGED <<m_start, loopVars>>
  PROVE  TInv'
<1>1. call' \in [Clients -> Calls]
  BY DEF TInv, TypeOK
<1>2. TypeOK'
  BY <1>1 DEF TInv, TypeOK, loopVars
<1>3. \A d \in Clients : CallKind(call'[d])
  BY DEF TInv, TypeOK, Kinds
<1>4. Kinds'
  BY <1>3 DEF TInv, Kinds, loopVars, CallKind
<1>5. QED
  BY <1>2, <1>4 DEF TInv

LEMMA TypeAddChild ==
  ASSUME TInv, NEW c \in Clients, NEW x \in Children, AddChild(c, x),
         mutex' \in {"free", "loop"} \cup Clients
  PROVE  TInv'
<1> DEFINE k == [NoCall EXCEPT !.step = "link", !.child = x]
<1>1. k \in Calls /\ k.step = "link" /\ k.child = x
  BY DEF NoCall, Calls, Steps
<1>2. CallKind(k)
  BY <1>1 DEF CallKind
<1>3. call' = [call EXCEPT ![c] = k]
  BY DEF AddChild
<1> HIDE DEF k
<1>4. first[Parent(x)] \in Kind(Parent(x)) \cup {None}
  BY Kinship DEF TInv, Kinds
<1>5. first[Parent(x)] \in Children \cup {None}
  BY <1>4, Kinship
<1>6. /\ next' \in [Children -> Children \cup {None}]
      /\ \A y \in Children : next'[y] \in Kind(Parent(y)) \cup {None}
  BY <1>4, <1>5 DEF AddChild, TInv, TypeOK, Kinds
<1>7. life' \in [Children -> {"none", "bare", "live", "dying", "freed"}]
  BY DEF AddChild, TInv, TypeOK
<1>8. UNCHANGED <<m_start, first, listed, ready, loopVars>>
  BY DEF AddChild
<1>9. QED
  BY <1>1, <1>2, <1>3, <1>6, <1>7, <1>8, TypeCall DEF TInv, TypeOK, Kinds

LEMMA TypeBegin ==
  ASSUME TInv, NEW c \in Clients, Begin(c)
  PROVE  TInv'
<1>1. ASSUME NEW a \in Applications, CreateApplication(c, a) PROVE TInv'
  BY <1>1, TypeAddChild, Kinship DEF CreateApplication
<1>2. ASSUME NEW w \in Workers, CreateWorker(c, w) PROVE TInv'
  BY <1>2, TypeAddChild, Kinship DEF CreateWorker
<1>3. ASSUME NEW w \in Workers, CreateWorkerOfArtifact(c, w) PROVE TInv'
  BY <1>3, TypeAddChild, Kinship DEF CreateWorkerOfArtifact, TInv, TypeOK
<1>4. ASSUME NEW a \in Applications, DeleteApplication(c, a) PROVE TInv'
  <2> DEFINE k == [NoCall EXCEPT !.step = "clear", !.child = a]
  <2>1. k \in Calls /\ k.step = "clear" /\ k.child = a
    BY Kinship DEF NoCall, Calls, Steps
  <2>2. CallKind(k)
    BY <2>1, Kinship DEF CallKind
  <2>3. call' = [call EXCEPT ![c] = k]
    BY <1>4 DEF DeleteApplication
  <2> HIDE DEF k
  <2>4. life' \in [Children -> {"none", "bare", "live", "dying", "freed"}]
    BY <1>4 DEF DeleteApplication, TInv, TypeOK
  <2>5. UNCHANGED <<m_start, first, next, listed, ready, loopVars>> /\ mutex' = c
    BY <1>4 DEF DeleteApplication
  <2>6. QED
    BY <2>1, <2>2, <2>3, <2>4, <2>5, TypeCall DEF TInv, TypeOK, Kinds
<1>5. ASSUME NEW w \in Workers, DeleteWorker(c, w) PROVE TInv'
  <2> DEFINE k == [NoCall EXCEPT !.step = "walk", !.child = w, !.cp = Owner[w]]
  <2>1. k \in Calls /\ k.step = "walk" /\ k.child = w /\ k.cp = Parent(w)
    BY Kinship DEF NoCall, Calls, Steps
  <2>2. CallKind(k)
    BY <2>1, Kinship DEF CallKind
  <2>3. call' = [call EXCEPT ![c] = k]
    BY <1>5 DEF DeleteWorker
  <2> HIDE DEF k
  <2>4. life' \in [Children -> {"none", "bare", "live", "dying", "freed"}]
    BY <1>5 DEF DeleteWorker, TInv, TypeOK
  <2>5. UNCHANGED <<m_start, mutex, first, next, listed, loopVars>> /\ ready' \subseteq ready
    BY <1>5 DEF DeleteWorker
  <2>6. QED
    BY <2>1, <2>2, <2>3, <2>4, <2>5, TypeCall DEF TInv, TypeOK, Kinds
<1>6. QED
  BY <1>1, <1>2, <1>3, <1>4, <1>5 DEF Begin

LEMMA TypeStep ==
  ASSUME TInv, NEW c \in Clients, Step(c)
  PROVE  TInv'
<1> DEFINE x == call[c].child
           p == Parent(x)
<1>1. call[c] \in Calls /\ CallKind(call[c]) /\ call \in [Clients -> Calls]
  BY DEF TInv, TypeOK, Kinds
<1>2. call[c].step # "none" => /\ x \in Children /\ p \in Parents /\ x \in Kind(p)
                               /\ Kind(p) \subseteq Children
  BY <1>1, Kinship DEF CallKind
<1>3. CASE Link(c)
  <2> DEFINE k == [call[c] EXCEPT !.step = "build"]
  <2>1. call' = [call EXCEPT ![c] = k] /\ k \in Calls /\ k.step = "build" /\ k.child = x
    BY <1>1, <1>3 DEF Link, Calls, Steps
  <2>2. x \in Children /\ p \in Parents /\ x \in Kind(p)
    BY <1>2, <1>3 DEF Link
  <2>3. CallKind(k)
    BY <2>1, <2>2 DEF CallKind
  <2> HIDE DEF k
  <2>4. /\ first' \in [Parents -> Children \cup {None}]
        /\ \A q \in Parents : first'[q] \in Kind(q) \cup {None}
    BY <1>3, <2>2 DEF Link, TInv, TypeOK, Kinds
  <2>5. listed' \in [Parents -> Seq(Children)]
    <3>1. <<x>> \o listed[p] \in Seq(Children)
      BY <2>2, Prepended DEF TInv, TypeOK
    <3>2. QED
      BY <1>3, <3>1 DEF Link, TInv, TypeOK
  <2>6. UNCHANGED <<m_start, mutex, next, life, ready, loopVars>>
    BY <1>3 DEF Link
  <2>7. QED
    BY <2>1, <2>3, <2>4, <2>5, <2>6, TypeCall DEF TInv, TypeOK, Kinds
<1>4. CASE Build(c)
  <2>1. life' \in [Children -> {"none", "bare", "live", "dying", "freed"}]
    BY <1>4 DEF Build, TInv, TypeOK
  <2>2. mutex' \in {"free", "loop"} \cup Clients
    BY <1>4 DEF Build, TInv, TypeOK
  <2>3. call' = [call EXCEPT ![c] = NoCall] /\ UNCHANGED <<m_start, first, next, listed, ready, loopVars>>
    BY <1>4 DEF Build
  <2>4. QED
    BY <2>1, <2>2, <2>3, NoCallKind, TypeCall DEF TInv, TypeOK, Kinds
<1>5. CASE ClearWorker(c)
  <2> DEFINE w == first[x]
  <2>1. x \in Applications /\ w \in Workers
    BY <1>1, <1>5, Kinship DEF ClearWorker, CallKind, TInv, Kinds
  <2>2. PICK n \in NextChild(w) : first' = [first EXCEPT ![x] = n]
    BY <1>5 DEF ClearWorker
  <2>3. n \in Workers \cup {None}
    BY <2>1, ReadKind, Kinship
  <2>4. /\ first' \in [Parents -> Children \cup {None}]
        /\ \A q \in Parents : first'[q] \in Kind(q) \cup {None}
    BY <2>1, <2>2, <2>3, Kinship DEF TInv, TypeOK, Kinds
  <2>5. listed' \in [Parents -> Seq(Children)]
    <3>1. Without(listed[x], w) \in Seq(Children)
      BY <2>1, WithoutType, Kinship DEF TInv, TypeOK
    <3>2. QED
      BY <1>5, <3>1 DEF ClearWorker, TInv, TypeOK
  <2>6. /\ life' \in [Children -> {"none", "bare", "live", "dying", "freed"}]
        /\ ready' \subseteq ready
        /\ UNCHANGED <<m_start, mutex, next, call, loopVars>>
    BY <1>5 DEF ClearWorker, TInv, TypeOK
  <2>7. call' = [call EXCEPT ![c] = call[c]]
    BY <1>1, <2>6
  <2>8. QED
    BY <1>1, <2>4, <2>5, <2>6, <2>7, TypeCall DEF TInv, TypeOK, Kinds
<1>6. CASE Unlock(c)
  <2> DEFINE k == [call[c] EXCEPT !.step = "walk", !.cp = Container]
  <2>1. call' = [call EXCEPT ![c] = k] /\ k \in Calls /\ k.step = "walk" /\ k.child = x /\ k.cp = Container
    BY <1>1, <1>6 DEF Unlock, Calls, Steps
  <2>2. x \in Applications
    BY <1>1, <1>6 DEF Unlock, CallKind
  <2>3. CallKind(k)
    BY <2>1, <2>2, Kinship DEF CallKind
  <2> HIDE DEF k
  <2>4. UNCHANGED <<m_start, listVars, ready, loopVars>> /\ mutex' = "free"
    BY <1>6 DEF Unlock
  <2>5. QED
    BY <2>1, <2>3, <2>4, TypeCall DEF TInv, TypeOK, Kinds, listVars
<1>7. CASE Walk(c)
  <2> DEFINE cp == call[c].cp
  <2>1. x \in Children /\ p \in Parents /\ Kind(p) \subseteq Children
    BY <1>2, <1>7 DEF Walk
  <2>2. cp = p \/ cp \in Kind(p)
    BY <1>1, <1>7 DEF Walk, CallKind
  <2>3. PICK y \in (IF cp = p THEN FirstChild(cp) ELSE NextChild(cp)) :
          call' = [call EXCEPT ![c] =
            IF y = x THEN [@ EXCEPT !.step = "unlink", !.after = next[x]]
            ELSE IF y = None THEN [@ EXCEPT !.step = "missing"]
            ELSE [@ EXCEPT !.cp = y]]
    BY <1>7 DEF Walk
  <2>4. y \in Kind(p) \cup {None}
    <3>1. CASE cp = p
      BY <2>1, <2>3, <3>1, ReadKind
    <3>2. CASE cp # p
      <4>1. cp \in Children /\ Kind(Parent(cp)) = Kind(p)
        BY <2>1, <2>2, <3>2, Kinship DEF Kind, Parents
      <4>2. QED
        BY <2>3, <3>2, <4>1, ReadKind
    <3>3. QED
      BY <3>1, <3>2
  <2>5. next[x] \in Kind(p) \cup {None}
    BY <2>1 DEF TInv, Kinds
  <2> DEFINE k == IF y = x THEN [call[c] EXCEPT !.step = "unlink", !.after = next[x]]
                  ELSE IF y = None THEN [call[c] EXCEPT !.step = "missing"]
                  ELSE [call[c] EXCEPT !.cp = y]
  <2>6. call' = [call EXCEPT ![c] = k]
    BY <1>1, <2>3
  <2>7. k \in Calls
    BY <1>1, <2>1, <2>4, <2>5 DEF Calls, Steps
  <2>8. CallKind(k)
    <3>1. call[c].step = "walk"
      BY <1>7 DEF Walk
    <3>2. CASE y = x
      <4>1. k.step = "unlink" /\ k.child = x /\ k.cp = cp /\ k.after = next[x]
        BY <1>1, <3>2 DEF Calls
      <4>2. QED
        BY <2>1, <2>2, <2>5, <4>1 DEF CallKind
    <3>3. CASE y # x /\ y = None
      <4>1. k.step = "missing" /\ k.child = x
        BY <1>1, <3>3 DEF Calls
      <4>2. QED
        BY <2>1, <4>1 DEF CallKind
    <3>4. CASE y # x /\ y # None
      <4>1. k.step = "walk" /\ k.child = x /\ k.cp = y
        BY <1>1, <3>1, <3>4 DEF Calls
      <4>2. QED
        BY <2>1, <2>4, <3>4, <4>1 DEF CallKind
    <3>5. QED
      BY <3>2, <3>3, <3>4
  <2> HIDE DEF k
  <2>9. UNCHANGED <<m_start, mutex, listVars, ready, loopVars>>
    BY <1>7 DEF Walk
  <2>10. QED
    BY <2>6, <2>7, <2>8, <2>9, TypeCall DEF TInv, TypeOK, Kinds, listVars
<1>8. CASE Unlink(c)
  <2> DEFINE cp == call[c].cp
             after == call[c].after
  <2>1. /\ x \in Children /\ p \in Parents /\ Kind(p) \subseteq Children
        /\ cp = p \/ cp \in Kind(p)
        /\ after \in Kind(p) \cup {None}
    BY <1>1, <1>2, <1>8 DEF Unlink, CallKind
  <2>2. /\ first' \in [Parents -> Children \cup {None}]
        /\ \A q \in Parents : first'[q] \in Kind(q) \cup {None}
    BY <1>8, <2>1 DEF Unlink, TInv, TypeOK, Kinds
  <2>3. /\ next' \in [Children -> Children \cup {None}]
        /\ \A y \in Children : next'[y] \in Kind(Parent(y)) \cup {None}
    <3>1. CASE cp = p
      BY <1>8, <3>1 DEF Unlink, TInv, TypeOK, Kinds
    <3>2. CASE cp # p
      <4>1. cp \in Children /\ Kind(Parent(cp)) = Kind(p)
        BY <2>1, <3>2, Kinship DEF Kind, Parents
      <4>2. next' = [next EXCEPT ![cp] = after]
        BY <1>8, <3>2 DEF Unlink
      <4>3. QED
        BY <2>1, <4>1, <4>2 DEF TInv, TypeOK, Kinds
    <3>3. QED
      BY <3>1, <3>2
  <2>4. listed' \in [Parents -> Seq(Children)]
    <3>1. Without(listed[p], x) \in Seq(Children)
      BY <2>1, WithoutType DEF TInv, TypeOK
    <3>2. QED
      BY <1>8, <3>1 DEF Unlink, TInv, TypeOK
  <2>5. /\ life' \in [Children -> {"none", "bare", "live", "dying", "freed"}]
        /\ UNCHANGED <<m_start, mutex, ready, loopVars>>
        /\ call' = [call EXCEPT ![c] = NoCall]
    BY <1>8 DEF Unlink, TInv, TypeOK
  <2>6. QED
    BY <2>2, <2>3, <2>4, <2>5, NoCallKind, TypeCall DEF TInv, TypeOK, Kinds
<1>9. QED
  BY <1>3, <1>4, <1>5, <1>6, <1>7, <1>8 DEF Step

LEMMA TypeLoop ==
  ASSUME TInv, Loop
  PROVE  TInv'
<1>1. CASE CheckStarted
  BY <1>1 DEF CheckStarted, TInv, TypeOK, Kinds, listVars, CallKind
<1>2. CASE BeginPass
  <2>1. app' = first[Container] /\ app' \in Applications \cup {None}
    BY <1>2, Kinship DEF BeginPass, TInv, Kinds
  <2>2. QED
    BY <1>2, <2>1 DEF BeginPass, TInv, TypeOK, Kinds, listVars, CallKind
<1>3. CASE EnterApplication
  <2>1. app \in Applications /\ FirstChild(app) \subseteq Workers \cup {None}
    BY <1>3, ReadKind, Kinship DEF EnterApplication, TInv, Kinds
  <2>2. QED
    BY <1>3, <2>1 DEF EnterApplication, TInv, TypeOK, Kinds, listVars, CallKind
<1>4. CASE Visit
  <2>1. worker \in Workers
    BY <1>4 DEF Visit, TInv, TypeOK
  <2>2. NextChild(worker) \subseteq Workers \cup {None}
    BY <2>1, ReadKind, Kinship
  <2>3. ready' \subseteq ready /\ anyone_run' \in BOOLEAN
    BY <1>4 DEF Visit, RunIfReady, TInv, TypeOK
  <2>4. QED
    BY <1>4, <2>2, <2>3 DEF Visit, TInv, TypeOK, Kinds, listVars, CallKind
<1>5. CASE NextApplication
  <2>1. app \in Applications
    BY <1>5 DEF NextApplication, TInv, Kinds
  <2>2. PICK n \in NextChild(app) :
          IF GoOn(n)
            THEN /\ pc' = "enter" /\ app' = n /\ run_count' = run_count + 1
                 /\ UNCHANGED <<mutex, anyone_run>>
            ELSE /\ pc' = "idle" /\ app' = None /\ mutex' = "free"
                 /\ run_count' = 0 /\ anyone_run' = FALSE
    BY <1>5 DEF NextApplication
  <2>3. n \in Applications \cup {None}
    BY <2>1, ReadKind, Kinship
  <2>4. UNCHANGED <<m_start, listVars, ready, call, worker>> /\ worker = None
    BY <1>5 DEF NextApplication
  <2>5. CASE GoOn(n)
    <3>1. /\ pc' = "enter" /\ app' = n /\ run_count' = run_count + 1
          /\ UNCHANGED <<mutex, anyone_run>> /\ n \in Applications
      BY <2>2, <2>3, <2>5 DEF GoOn
    <3>2. run_count' \in 0 .. MAX_RUNS_PER_CALL - 1
      BY <2>5, <3>1, DispatchAssumption DEF GoOn, TInv, TypeOK
    <3>3. QED
      BY <2>4, <3>1, <3>2 DEF TInv, TypeOK, Kinds, listVars, CallKind
  <2>6. CASE ~GoOn(n)
    <3>1. /\ pc' = "idle" /\ app' = None /\ mutex' = "free"
          /\ run_count' = 0 /\ anyone_run' = FALSE
      BY <2>2, <2>6
    <3>2. QED
      BY <2>4, <3>1, FirstRun DEF TInv, TypeOK, Kinds, listVars, CallKind
  <2>7. QED
    BY <2>5, <2>6
<1>6. QED
  BY <1>1, <1>2, <1>3, <1>4, <1>5 DEF Loop

LEMMA TypeOthers ==
  ASSUME TInv, Others
  PROVE  TInv'
BY DEF Others, BecomeReady, StopWorker, StartStop, TInv, TypeOK, Kinds, CallKind, listVars, loopVars

LEMMA TypeNext ==
  ASSUME TInv, [Next]_vars
  PROVE  TInv'
<1>1. CASE UNCHANGED vars
  BY <1>1 DEF TInv, TypeOK, Kinds, CallKind, vars, listVars, loopVars
<1>2. QED
  BY <1>1, TypeBegin, TypeStep, TypeLoop, TypeOthers DEF Next

\* The pointers, cursors and calls keep the types of the code, whatever the
\* clients do.
THEOREM TypeCorrect == Spec => []TypeOK
<1>1. TInv => TypeOK
  BY DEF TInv
<1>2. QED
  BY TypeInit, TypeNext, <1>1, PTL DEF Spec

-----------------------------------------------------------------------------
(* One call at a time on a list *)

OneClient == \A c, d \in Clients : c = d

\* The programs whose worker lists are handled by one call at a time.
Handled == OneClient \/ Unlocked = {}

\* The lists that are handled by one call at a time: those of the workers; the
\* list of the applications with one client only, since the end of
\* ~Application does not hold the mutex.
Tame(p) == p # Container \/ OneClient

\* The life of the child that a call creates or deletes.
Alive(c) ==
  /\ call[c].step \in {"link", "build"} => life[call[c].child] = "bare"
  /\ call[c].step \in {"clear", "walk", "unlink", "missing"} =>
       life[call[c].child] = "dying"
  /\ call[c].child \in Workers => life[Owner[call[c].child]] = "live"

Lives ==
  /\ \A c \in Clients : Alive(c)
  /\ \A c, d \in Clients :
       call[c].child \in Children /\ call[c].child = call[d].child => c = d
  /\ \A x \in Children : life[x] = "bare" =>
       \E c \in Clients : call[c].step \in {"link", "build"} /\ call[c].child = x

\* Who holds the mutex, and who is alone.
Mutual ==
  /\ pc \in {"enter", "pass"} <=> mutex = "loop"
  /\ \A c \in Clients : call[c].step = "clear" => mutex = c
  /\ \A c \in Clients : Exclusive(c) =>
       pc = "idle" /\ \A d \in Clients : d # c => call[d] = NoCall

\* The list of a parent: a chain of children that exist, with all that live.
Sound(p) ==
  /\ IsChain(listed[p], first[p], next)
  /\ \A x \in ToSet(listed[p]) : Parent(x) = p /\ Exists(x)
  /\ \A x \in Children : Parent(x) = p /\ life[x] \in {"live", "dying"} =>
       x \in ToSet(listed[p])

\* Where a call is in its list.
Placed(c) ==
  LET k == call[c]
      p == Parent(k.child)
      list == listed[p]
  IN /\ k.step = "link" => k.child \notin ToSet(list) /\ next[k.child] = first[p]
     /\ k.step = "build" => k.child \in ToSet(list)
     /\ k.step = "walk" => k.cp = p \/ Before(list, k.cp, k.child)
     /\ k.step = "unlink" =>
          /\ \/ k.cp = p /\ list # <<>> /\ list[1] = k.child
             \/ k.cp # p /\ RightBefore(list, k.cp, k.child)
          /\ k.after = next[k.child]
     /\ k.step # "missing"

Lists ==
  /\ \A p \in Parents : Tame(p) => Sound(p)
  /\ \A c \in Clients : call[c].step # "none" /\ Tame(Parent(call[c].child)) => Placed(c)

\* The loop's cursor is in the list of its application.
Cursor == worker # None /\ Exists(app) => worker \in ToSet(listed[app])

DInv == TInv /\ Lives /\ Mutual /\ Lists

LEMMA StepKinds ==
  ASSUME TInv, NEW c \in Clients
  PROVE  /\ call[c].step \in Steps
         /\ call[c].step # "none" => call[c].child \in Children
         /\ call[c].child \in Children => call[c].step # "none"
         /\ call[c].step = "none" => call[c] = NoCall
         /\ call[c].step = "clear" => call[c].child \in Applications
BY Kinship DEF TInv, TypeOK, Kinds, CallKind, Calls, NoCall

\* Two calls do not work on one of those lists.
OnList(c, p) ==
  IF call[c].step = "clear" THEN call[c].child = p
  ELSE call[c].step # "none" /\ Parent(call[c].child) = p

LEMMA OneAtATime ==
  ASSUME Handled, TInv, Mutual, NEW p \in Parents, Tame(p),
         NEW c \in Clients, NEW d \in Clients, OnList(c, p), OnList(d, p)
  PROVE  c = d
<1>1. CASE OneClient
  BY <1>1 DEF OneClient
<1>2. CASE ~OneClient
  <2>1. Unlocked = {} /\ p # Container
    BY <1>2 DEF Handled, Tame
  <2>2. ASSUME NEW e \in Clients, OnList(e, p)
        PROVE  call[e].step # "none" /\ (mutex = e \/ Exclusive(e))
    <3>1. CASE call[e].step = "clear"
      BY <3>1 DEF Mutual
    <3>2. CASE call[e].step # "clear"
      <4>1. call[e].step # "none" /\ call[e].child \in Children /\ Parent(call[e].child) = p
        BY <2>2, <3>2, StepKinds DEF OnList
      <4>2. call[e].child \in Workers
        BY <2>1, <4>1, Kinship DEF Children
      <4>3. call[e].step \in {"link", "build", "walk", "unlink", "missing"}
        BY <3>2, <4>1, StepKinds DEF Steps
      <4>4. QED
        BY <2>1, <4>1, <4>2, <4>3 DEF Exclusive
    <3>3. QED
      BY <3>1, <3>2
  <2>3. call[c].step # "none" /\ call[d].step # "none" /\ NoCall.step = "none"
    BY <2>2 DEF NoCall
  <2>4. CASE Exclusive(c) \/ Exclusive(d)
    BY <2>3, <2>4 DEF Mutual
  <2>5. CASE ~Exclusive(c) /\ ~Exclusive(d)
    BY <2>2, <2>5
  <2>6. QED
    BY <2>4, <2>5
<1>3. QED
  BY <1>1, <1>2

LEMMA DInit == Init => DInv
<1> SUFFICES ASSUME Init PROVE DInv
  OBVIOUS
<1>1. TInv
  BY TypeInit
<1>2. \A c \in Clients : call[c] = NoCall /\ call[c].step = "none" /\ call[c].child = None
  BY DEF Init, NoCall
<1>3. Lives
  BY <1>2, Kinship DEF Init, Lives, Alive
<1>4. Mutual
  BY <1>2, DispatchAssumption DEF Init, Mutual, Exclusive
<1>5. Lists
  <2>1. ASSUME NEW p \in Parents PROVE Sound(p)
    <3>1. listed[p] = <<>> /\ first[p] = None
      BY DEF Init
    <3>2. IsChain(listed[p], first[p], next)
      BY <3>1 DEF IsChain, IsInjective
    <3>3. ToSet(listed[p]) = {}
      BY <3>1 DEF ToSet
    <3>4. \A x \in Children : life[x] = "none"
      BY DEF Init
    <3>5. QED
      BY <3>2, <3>3, <3>4 DEF Sound
  <2>2. QED
    BY <1>2, <2>1 DEF Lists
<1>6. QED
  BY <1>1, <1>3, <1>4, <1>5 DEF DInv

-----------------------------------------------------------------------------
(* Steps keep the mutual exclusion *)

LEMMA SameExclusive ==
  ASSUME NEW d \in Clients, call'[d] = call[d], mutex' = d <=> mutex = d
  PROVE  Exclusive(d)' <=> Exclusive(d)
BY DEF Exclusive

\* What a step of a call leaves of the others: they stay as they are.
LEMMA OtherCalls ==
  ASSUME TInv, NEW c \in Clients, NEW k, call' = [call EXCEPT ![c] = k]
  PROVE  call'[c] = k /\ \A d \in Clients : d # c => call'[d] = call[d]
BY DEF TInv, TypeOK

LEMMA Strangers == \A c \in Clients : c # "free" /\ c # "loop"
BY DispatchAssumption

\* The beginning of a call: it takes the mutex, or is alone, or may be beside
\* the others.
LEMMA MutualBegin ==
  ASSUME TInv, Mutual, NEW c \in Clients, Quiet, NEW k,
         call' = [call EXCEPT ![c] = k], UNCHANGED pc,
         k.step = "clear" => mutex' = c,
         \/ mutex = "free" /\ mutex' = c
         \/ UNCHANGED mutex,
         Exclusive(c)' => Alone
  PROVE  Mutual'
<1>1. call'[c] = k /\ \A d \in Clients : d # c => call'[d] = call[d]
  BY OtherCalls
<1>2. ASSUME NEW d \in Clients, d # c PROVE ~Exclusive(d)'
  <2>1. mutex' = d <=> mutex = d
    BY <1>2, Strangers
  <2>2. QED
    BY <1>1, <1>2, <2>1, SameExclusive DEF Quiet
<1>3. pc' \in {"enter", "pass"} <=> mutex' = "loop"
  BY Strangers DEF Mutual
<1>4. ASSUME NEW d \in Clients, call'[d].step = "clear" PROVE mutex' = d
  BY <1>1, <1>4, Strangers DEF Mutual
<1>5. ASSUME NEW d \in Clients, Exclusive(d)'
      PROVE  pc' = "idle" /\ \A e \in Clients : e # d => call'[e] = NoCall
  BY <1>1, <1>2, <1>5 DEF Alone
<1>6. QED
  BY <1>3, <1>4, <1>5 DEF Mutual

\* A later step of a call.
LEMMA MutualStep ==
  ASSUME TInv, Mutual, NEW c \in Clients, NEW k,
         call' = [call EXCEPT ![c] = k], UNCHANGED pc,
         call[c].step # "none",
         k.step = "clear" => call[c].step = "clear" /\ UNCHANGED mutex,
         Exclusive(c)' => Exclusive(c),
         \/ mutex = c /\ mutex' = "free"
         \/ UNCHANGED mutex
  PROVE  Mutual'
<1>1. call'[c] = k /\ \A d \in Clients : d # c => call'[d] = call[d]
  BY OtherCalls
<1>2. ASSUME NEW d \in Clients, d # c PROVE ~Exclusive(d)'
  <2>1. mutex' = d <=> mutex = d
    BY <1>2, Strangers
  <2>2. Exclusive(d)' <=> Exclusive(d)
    BY <1>1, <1>2, <2>1, SameExclusive
  <2>3. call[c] # NoCall
    BY DEF NoCall
  <2>4. QED
    BY <1>2, <2>2, <2>3 DEF Mutual
<1>3. pc' \in {"enter", "pass"} <=> mutex' = "loop"
  BY Strangers DEF Mutual
<1>4. ASSUME NEW d \in Clients, call'[d].step = "clear" PROVE mutex' = d
  BY <1>1, <1>4, Strangers DEF Mutual
<1>5. ASSUME NEW d \in Clients, Exclusive(d)'
      PROVE  pc' = "idle" /\ \A e \in Clients : e # d => call'[e] = NoCall
  BY <1>1, <1>2, <1>5 DEF Mutual
<1>6. QED
  BY <1>3, <1>4, <1>5 DEF Mutual

\* A step of the dispatch thread.
LEMMA MutualLoop ==
  ASSUME TInv, Mutual, Loop
  PROVE  Mutual'
<1>1. UNCHANGED call
  BY DEF Loop, CheckStarted, BeginPass, EnterApplication, Visit, NextApplication
<1>2. /\ mutex' = mutex \/ {mutex, mutex'} \subseteq {"free", "loop"}
      /\ pc' \in {"enter", "pass"} <=> mutex' = "loop"
  <2>1. CASE CheckStarted
    BY <2>1 DEF CheckStarted, Mutual
  <2>2. CASE BeginPass
    BY <2>2 DEF BeginPass, Mutual
  <2>3. CASE EnterApplication
    BY <2>3 DEF EnterApplication, Mutual
  <2>4. CASE Visit
    BY <2>4 DEF Visit, Mutual
  <2>5. CASE NextApplication
    BY <2>5 DEF NextApplication, Mutual
  <2>6. QED
    BY <2>1, <2>2, <2>3, <2>4, <2>5 DEF Loop
<1>3. ASSUME NEW d \in Clients
      PROVE  Exclusive(d)' <=> Exclusive(d)
  <2>1. mutex' = d <=> mutex = d
    BY <1>2, Strangers
  <2>2. QED
    BY <1>1, <2>1, SameExclusive
<1>4. ASSUME NEW d \in Clients, Exclusive(d) PROVE FALSE
  <2>1. pc = "idle"
    BY <1>4 DEF Mutual
  <2>2. CheckStarted
    BY <2>1 DEF Loop, BeginPass, EnterApplication, Visit, NextApplication
  <2>3. QED
    BY <1>4, <2>2 DEF CheckStarted, Quiet
<1>5. ASSUME NEW d \in Clients, call'[d].step = "clear" PROVE mutex' = d
  BY <1>1, <1>2, <1>5, Strangers DEF Mutual
<1>6. QED
  BY <1>2, <1>3, <1>4, <1>5 DEF Mutual

LEMMA MutualNext ==
  ASSUME TInv, Mutual, [Next]_vars
  PROVE  Mutual'
<1>1. ASSUME NEW c \in Clients, Begin(c) PROVE Mutual'
  <2>1. ASSUME NEW x \in Children, AddChild(c, x), mutex = "free", mutex' = c PROVE Mutual'
    <3> DEFINE k == [NoCall EXCEPT !.step = "link", !.child = x]
    <3>1. call' = [call EXCEPT ![c] = k] /\ UNCHANGED pc /\ Quiet /\ k.step = "link"
      BY <2>1 DEF AddChild, MayBegin, NoCall, loopVars
    <3>2. call'[c] = k
      BY <3>1, OtherCalls
    <3> HIDE DEF k
    <3>3. ~Exclusive(c)'
      BY <2>1, <3>1, <3>2 DEF Exclusive
    <3>4. QED
      BY <2>1, <3>1, <3>3, MutualBegin
  <2>2. ASSUME NEW w \in Workers, CreateWorkerOfArtifact(c, w) PROVE Mutual'
    <3> DEFINE k == [NoCall EXCEPT !.step = "link", !.child = w]
    <3>1. /\ call' = [call EXCEPT ![c] = k] /\ UNCHANGED <<pc, mutex>> /\ Quiet /\ k.step = "link"
          /\ "create" \in Unlocked \/ Alone
      BY <2>2 DEF CreateWorkerOfArtifact, AddChild, MayBegin, NoCall, loopVars
    <3>2. call'[c] = k
      BY <3>1, OtherCalls
    <3> HIDE DEF k
    <3>3. Exclusive(c)' => Alone
      BY <3>1, <3>2 DEF Exclusive
    <3>4. QED
      BY <3>1, <3>3, MutualBegin
  <2>3. ASSUME NEW a \in Applications, DeleteApplication(c, a) PROVE Mutual'
    <3> DEFINE k == [NoCall EXCEPT !.step = "clear", !.child = a]
    <3>1. /\ call' = [call EXCEPT ![c] = k] /\ UNCHANGED pc /\ Quiet /\ k.step = "clear"
          /\ mutex = "free" /\ mutex' = c
      BY <2>3 DEF DeleteApplication, MayBegin, NoCall, loopVars
    <3>2. call'[c] = k
      BY <3>1, OtherCalls
    <3> HIDE DEF k
    <3>3. ~Exclusive(c)'
      BY <3>1, <3>2 DEF Exclusive
    <3>4. QED
      BY <3>1, <3>3, MutualBegin
  <2>4. ASSUME NEW w \in Workers, DeleteWorker(c, w) PROVE Mutual'
    <3> DEFINE k == [NoCall EXCEPT !.step = "walk", !.child = w, !.cp = Owner[w]]
    <3>1. /\ call' = [call EXCEPT ![c] = k] /\ UNCHANGED <<pc, mutex>> /\ Quiet /\ k.step = "walk"
          /\ "delete" \in Unlocked \/ Alone
      BY <2>4 DEF DeleteWorker, MayBegin, NoCall, loopVars
    <3>2. call'[c] = k
      BY <3>1, OtherCalls
    <3> HIDE DEF k
    <3>3. Exclusive(c)' => Alone
      BY <3>1, <3>2 DEF Exclusive
    <3>4. QED
      BY <3>1, <3>3, MutualBegin
  <2>5. QED
    BY <1>1, <2>1, <2>2, <2>3, <2>4, Kinship DEF Begin, CreateApplication, CreateWorker
<1>2. ASSUME NEW c \in Clients, Step(c) PROVE Mutual'
  <2>0. call[c] \in Calls
    BY DEF TInv, TypeOK
  <2>1. CASE Link(c)
    <3> DEFINE k == [call[c] EXCEPT !.step = "build"]
    <3>1. /\ call' = [call EXCEPT ![c] = k] /\ UNCHANGED <<pc, mutex>>
          /\ call[c].step = "link" /\ k.step = "build" /\ k.child = call[c].child
      BY <2>0, <2>1 DEF Link, Calls, loopVars
    <3>2. call'[c] = k
      BY <3>1, OtherCalls
    <3> HIDE DEF k
    <3>3. Exclusive(c)' => Exclusive(c)
      BY <3>1, <3>2 DEF Exclusive
    <3>4. QED
      BY <3>1, <3>3, MutualStep
  <2>2. CASE Build(c) \/ Unlink(c)
    <3>1. /\ call' = [call EXCEPT ![c] = NoCall] /\ UNCHANGED pc
          /\ call[c].step \in {"build", "unlink"} /\ NoCall.step = "none"
          /\ (mutex = c /\ mutex' = "free") \/ UNCHANGED mutex
      BY <2>2 DEF Build, Unlink, loopVars, NoCall
    <3>2. call'[c] = NoCall
      BY <3>1, OtherCalls
    <3>3. ~Exclusive(c)'
      BY <3>1, <3>2 DEF Exclusive
    <3>4. QED
      BY <3>1, <3>3, MutualStep
  <2>3. CASE ClearWorker(c)
    <3>1. UNCHANGED <<mutex, call, pc>>
      BY <2>3 DEF ClearWorker, loopVars
    <3>2. QED
      BY <3>1 DEF Mutual, Exclusive
  <2>4. CASE Unlock(c)
    <3> DEFINE k == [call[c] EXCEPT !.step = "walk", !.cp = Container]
    <3>1. /\ call' = [call EXCEPT ![c] = k] /\ UNCHANGED pc /\ mutex = c /\ mutex' = "free"
          /\ call[c].step = "clear" /\ k.step = "walk" /\ k.child = call[c].child
      BY <2>0, <2>4 DEF Unlock, Calls, loopVars, Mutual
    <3>2. call'[c] = k
      BY <3>1, OtherCalls
    <3>3. k.child \notin Workers
      BY <3>1, StepKinds, Kinship
    <3> HIDE DEF k
    <3>4. ~Exclusive(c)'
      BY <3>1, <3>2, <3>3 DEF Exclusive
    <3>5. QED
      BY <3>1, <3>4, MutualStep
  <2>5. CASE Walk(c)
    <3>1. PICK k : /\ call' = [call EXCEPT ![c] = k] /\ k.child = call[c].child
                   /\ k.step \in {"walk", "unlink", "missing"}
      BY <2>0, <2>5 DEF Walk, Calls
    <3>2. UNCHANGED <<mutex, pc>> /\ call[c].step = "walk"
      BY <2>5 DEF Walk, loopVars
    <3>3. call'[c] = k
      BY <3>1, OtherCalls
    <3>4. Exclusive(c)' => Exclusive(c)
      BY <3>1, <3>2, <3>3 DEF Exclusive
    <3>5. QED
      BY <3>1, <3>2, <3>4, MutualStep
  <2>6. QED
    BY <1>2, <2>1, <2>2, <2>3, <2>4, <2>5 DEF Step
<1>3. CASE Loop
  BY <1>3, MutualLoop
<1>4. CASE Others \/ UNCHANGED vars
  <2>1. UNCHANGED <<mutex, call, pc>>
    BY <1>4 DEF Others, BecomeReady, StopWorker, StartStop, loopVars, vars
  <2>2. QED
    BY <2>1 DEF Mutual, Exclusive
<1>5. QED
  BY <1>1, <1>2, <1>3, <1>4 DEF Next

-----------------------------------------------------------------------------
(* Steps keep the lives *)

\* The child of a call is being created or deleted.
LEMMA Busy ==
  ASSUME TInv, Lives, NEW c \in Clients, call[c].child \in Children
  PROVE  life[call[c].child] \in {"bare", "dying"}
BY StepKinds DEF Lives, Alive, Steps

LEMMA NoChild == NoCall.step = "none" /\ NoCall.child \notin Children
BY Kinship DEF NoCall

\* The beginning of a call on a child x that no call has.
LEMMA LivesBegin ==
  ASSUME TInv, Lives, NEW c \in Clients, call[c] = NoCall, NEW x \in Children, NEW k,
         call' = [call EXCEPT ![c] = k], k.child = x,
         life[x] \notin {"bare", "dying"},
         x \in Workers => life[Owner[x]] = "live",
         \/ k.step = "link" /\ life' = [life EXCEPT ![x] = "bare"]
         \/ k.step \in {"clear", "walk"} /\ life' = [life EXCEPT ![x] = "dying"],
         \A d \in Clients : call[d].child \in Workers => Owner[call[d].child] # x
  PROVE  Lives'
<1>1. call'[c] = k /\ \A d \in Clients : d # c => call'[d] = call[d]
  BY OtherCalls
<1>2. ASSUME NEW d \in Clients PROVE call[d].child # x
  BY Busy
<1>3. life'[x] \in {"bare", "dying"} /\ \A y \in Children : y # x => life'[y] = life[y]
  BY DEF TInv, TypeOK
<1>4. ASSUME NEW d \in Clients PROVE Alive(d)'
  <2>1. CASE d = c
    <3>1. x \in Workers => Owner[x] \in Children /\ Owner[x] # x
      BY Kinship
    <3>2. x \in Workers => life'[Owner[x]] = "live"
      BY <1>3, <3>1
    <3>3. k.step = "link" => life'[x] = "bare"
      BY DEF TInv, TypeOK
    <3>4. k.step \in {"clear", "walk"} => life'[x] = "dying"
      BY DEF TInv, TypeOK
    <3>5. QED
      BY <1>1, <2>1, <3>2, <3>3, <3>4 DEF Alive
  <2>2. CASE d # c
    <3>1. call'[d] = call[d] /\ Alive(d)
      BY <1>1, <2>2 DEF Lives
    <3>2. call[d].step # "none" => life'[call[d].child] = life[call[d].child]
      BY <1>2, <1>3, StepKinds
    <3>3. call[d].child \in Workers => life'[Owner[call[d].child]] = life[Owner[call[d].child]]
      BY <1>3, Kinship
    <3>4. QED
      BY <3>1, <3>2, <3>3 DEF Alive
  <2>3. QED
    BY <2>1, <2>2
<1>5. ASSUME NEW d \in Clients, NEW e \in Clients,
             call'[d].child \in Children, call'[d].child = call'[e].child
      PROVE  d = e
  <2>1. CASE d = c \/ e = c
    BY <1>1, <1>2, <1>5, <2>1
  <2>2. CASE d # c /\ e # c
    BY <1>1, <1>5, <2>2 DEF Lives
  <2>3. QED
    BY <2>1, <2>2
<1>6. ASSUME NEW y \in Children, life'[y] = "bare"
      PROVE  \E d \in Clients : call'[d].step \in {"link", "build"} /\ call'[d].child = y
  <2>1. CASE y = x
    <3>1. k.step = "link"
      BY <1>6, <2>1 DEF TInv, TypeOK
    <3>2. QED
      BY <1>1, <2>1, <3>1
  <2>2. CASE y # x
    <3>1. life[y] = "bare"
      BY <1>3, <1>6, <2>2
    <3>2. PICK d \in Clients : call[d].step \in {"link", "build"} /\ call[d].child = y
      BY <3>1 DEF Lives
    <3>3. d # c
      BY <3>2, NoChild
    <3>4. QED
      BY <1>1, <3>2, <3>3
  <2>3. QED
    BY <2>1, <2>2
<1>7. QED
  BY <1>4, <1>5, <1>6 DEF Lives

\* The end of a call: its child lives, or is freed.
LEMMA LivesEnd ==
  ASSUME TInv, Lives, NEW c \in Clients, NEW l,
         call' = [call EXCEPT ![c] = NoCall],
         life' = [life EXCEPT ![call[c].child] = l],
         \/ call[c].step = "build" /\ l = "live"
         \/ call[c].step = "unlink" /\ l = "freed"
  PROVE  Lives'
<1> DEFINE x == call[c].child
<1>1. call'[c] = NoCall /\ \A d \in Clients : d # c => call'[d] = call[d]
  BY OtherCalls
<1>2. x \in Children /\ life[x] \in {"bare", "dying"}
  BY StepKinds, Busy
<1>3. ASSUME NEW d \in Clients, d # c PROVE call[d].child # x
  BY <1>2, <1>3 DEF Lives
<1>4. life'[x] = l /\ \A y \in Children : y # x => life'[y] = life[y]
  BY <1>2 DEF TInv, TypeOK
<1> HIDE DEF x
<1>5. ASSUME NEW d \in Clients PROVE Alive(d)'
  <2>1. CASE d = c
    BY <1>1, <2>1, NoChild DEF Alive, Children
  <2>2. CASE d # c
    <3>1. call'[d] = call[d] /\ Alive(d)
      BY <1>1, <2>2 DEF Lives
    <3>2. call[d].step # "none" => life'[call[d].child] = life[call[d].child]
      BY <1>3, <1>4, <2>2, StepKinds
    <3>3. call[d].child \in Workers => life'[Owner[call[d].child]] = "live"
      <4>1. SUFFICES ASSUME call[d].child \in Workers
                     PROVE  life'[Owner[call[d].child]] = "live"
        OBVIOUS
      <4>2. life[Owner[call[d].child]] = "live" /\ Owner[call[d].child] \in Children
        BY <3>1, <4>1, Kinship DEF Alive
      <4>3. Owner[call[d].child] # x
        BY <1>2, <4>2
      <4>4. QED
        BY <1>4, <4>2, <4>3
    <3>4. QED
      BY <3>1, <3>2, <3>3 DEF Alive
  <2>3. QED
    BY <2>1, <2>2
<1>6. ASSUME NEW d \in Clients, NEW e \in Clients,
             call'[d].child \in Children, call'[d].child = call'[e].child
      PROVE  d = e
  <2>1. d # c /\ e # c
    BY <1>1, <1>6, NoChild
  <2>2. QED
    BY <1>1, <1>6, <2>1 DEF Lives
<1>7. ASSUME NEW y \in Children, life'[y] = "bare"
      PROVE  \E d \in Clients : call'[d].step \in {"link", "build"} /\ call'[d].child = y
  <2>1. y # x /\ life[y] = "bare"
    BY <1>4, <1>7
  <2>2. PICK d \in Clients : call[d].step \in {"link", "build"} /\ call[d].child = y
    BY <2>1 DEF Lives
  <2>3. d # c
    BY <2>1, <2>2 DEF x
  <2>4. QED
    BY <1>1, <2>2, <2>3
<1>8. QED
  BY <1>5, <1>6, <1>7 DEF Lives

\* A step in a call.
LEMMA LivesOn ==
  ASSUME TInv, Lives, NEW c \in Clients, NEW k,
         call' = [call EXCEPT ![c] = k], UNCHANGED life,
         k.child = call[c].child,
         \/ call[c].step = "link" /\ k.step = "build"
         \/ /\ call[c].step \in {"clear", "walk", "unlink"}
            /\ k.step \in {"clear", "walk", "unlink", "missing"}
  PROVE  Lives'
<1>1. call'[c] = k /\ \A d \in Clients : d # c => call'[d] = call[d]
  BY OtherCalls
<1>2. \A d \in Clients : call'[d].child = call[d].child
  BY <1>1
<1>3. ASSUME NEW d \in Clients PROVE Alive(d)'
  BY <1>1 DEF Lives, Alive
<1>4. \A d \in Clients : call[d].step \in {"link", "build"} => call'[d].step \in {"link", "build"}
  BY <1>1
<1>5. QED
  BY <1>2, <1>3, <1>4 DEF Lives

\* The first worker of an application that is deleted is one of its workers.
LEMMA FirstWorker ==
  ASSUME TInv, Lists, NEW a \in Applications, first[a] # None
  PROVE  /\ Sound(a)
         /\ listed[a] \in Seq(Children) /\ listed[a] # <<>> /\ first[a] = listed[a][1]
         /\ first[a] \in Workers /\ Owner[first[a]] = a /\ Exists(first[a])
<1>1. a \in Parents /\ Tame(a)
  BY Kinship DEF Tame
<1>2. Sound(a)
  BY <1>1 DEF Lists
<1>3. listed[a] \in Seq(Children)
  BY <1>1 DEF TInv, TypeOK
<1>4. listed[a] # <<>> /\ first[a] = listed[a][1]
  BY <1>2 DEF Sound, IsChain
<1>5. first[a] \in ToSet(listed[a])
  BY <1>3, <1>4, Elements
<1>6. first[a] \in Workers
  BY <1>1, Kinship DEF TInv, Kinds
<1>7. QED
  BY <1>2, <1>3, <1>4, <1>5, <1>6, Kinship DEF Sound

LEMMA LivesClear ==
  ASSUME TInv, Lives, Lists, NEW c \in Clients, ClearWorker(c)
  PROVE  Lives'
<1> DEFINE a == call[c].child
           w == first[a]
<1>1. /\ call[c].step = "clear" /\ w # None /\ a \in Applications
      /\ life' = [life EXCEPT ![w] = "freed"] /\ UNCHANGED call
  BY StepKinds DEF ClearWorker
<1>2. w \in Workers /\ w \in Children /\ Owner[w] = a /\ a # w
  BY <1>1, FirstWorker, Kinship
<1>3. life[a] = "dying"
  BY <1>1 DEF Lives, Alive
<1>4. life'[w] = "freed" /\ \A y \in Children : y # w => life'[y] = life[y]
  BY <1>1, <1>2 DEF TInv, TypeOK
<1> HIDE DEF a, w
<1>5. ASSUME NEW d \in Clients PROVE Alive(d)'
  <2>1. Alive(d)
    BY DEF Lives
  <2>2. call[d].child # w
    BY <1>2, <1>3, <2>1 DEF Alive
  <2>3. call[d].step # "none" => life'[call[d].child] = life[call[d].child]
    BY <1>4, <2>2, StepKinds
  <2>4. call[d].child \in Workers => life'[Owner[call[d].child]] = life[Owner[call[d].child]]
    BY <1>2, <1>4, Kinship
  <2>5. QED
    BY <1>1, <2>1, <2>3, <2>4 DEF Alive
<1>6. \A y \in Children : life'[y] = "bare" => life[y] = "bare"
  BY <1>4
<1>7. QED
  BY <1>1, <1>5, <1>6 DEF Lives

LEMMA LivesNext ==
  ASSUME TInv, Lives, Lists, [Next]_vars
  PROVE  Lives'
<1>1. ASSUME NEW c \in Clients, Begin(c) PROVE Lives'
  <2>1. ASSUME NEW x \in Children, AddChild(c, x), x \in Workers => life[Owner[x]] = "live"
        PROVE  Lives'
    <3> DEFINE k == [NoCall EXCEPT !.step = "link", !.child = x]
    <3>1. /\ call' = [call EXCEPT ![c] = k] /\ call[c] = NoCall
          /\ k.step = "link" /\ k.child = x
          /\ life[x] = "none" /\ life' = [life EXCEPT ![x] = "bare"]
      BY <2>1 DEF AddChild, MayBegin, NoCall
    <3> HIDE DEF k
    <3>2. \A d \in Clients : call[d].child \in Workers => Owner[call[d].child] # x
      BY <3>1 DEF Lives, Alive
    <3>3. QED
      BY <2>1, <3>1, <3>2, LivesBegin
  <2>2. ASSUME NEW a \in Applications, DeleteApplication(c, a) PROVE Lives'
    <3> DEFINE k == [NoCall EXCEPT !.step = "clear", !.child = a]
    <3>1. /\ call' = [call EXCEPT ![c] = k] /\ call[c] = NoCall
          /\ k.step = "clear" /\ k.child = a
          /\ life[a] = "live" /\ life' = [life EXCEPT ![a] = "dying"]
          /\ \A d \in Clients : call[d].child \in Workers => Owner[call[d].child] # a
      BY <2>2 DEF DeleteApplication, MayBegin, NoCall
    <3> HIDE DEF k
    <3>2. QED
      BY <3>1, LivesBegin, Kinship
  <2>3. ASSUME NEW w \in Workers, DeleteWorker(c, w) PROVE Lives'
    <3> DEFINE k == [NoCall EXCEPT !.step = "walk", !.child = w, !.cp = Owner[w]]
    <3>1. /\ call' = [call EXCEPT ![c] = k] /\ call[c] = NoCall
          /\ k.step = "walk" /\ k.child = w
          /\ life[w] = "live" /\ life' = [life EXCEPT ![w] = "dying"]
          /\ life[Owner[w]] = "live"
      BY <2>3 DEF DeleteWorker, MayBegin, NoCall
    <3> HIDE DEF k
    <3>2. /\ \A d \in Clients : call[d].child \in Workers => Owner[call[d].child] # w
          /\ w \in Children
      BY Kinship
    <3>3. life[w] \notin {"bare", "dying"} /\ k.step \in {"clear", "walk"}
      BY <3>1
    <3>4. QED
      BY <3>1, <3>2, <3>3, LivesBegin
  <2>4. QED
    BY <1>1, <2>1, <2>2, <2>3, Kinship
    DEF Begin, CreateApplication, CreateWorker, CreateWorkerOfArtifact
<1>2. ASSUME NEW c \in Clients, Step(c) PROVE Lives'
  <2>0. call[c] \in Calls
    BY DEF TInv, TypeOK
  <2>1. CASE Link(c)
    <3> DEFINE k == [call[c] EXCEPT !.step = "build"]
    <3>1. /\ call' = [call EXCEPT ![c] = k] /\ UNCHANGED life
          /\ call[c].step = "link" /\ k.step = "build" /\ k.child = call[c].child
      BY <2>0, <2>1 DEF Link, Calls
    <3> HIDE DEF k
    <3>2. QED
      BY <3>1, LivesOn
  <2>2. CASE Build(c)
    BY <2>2, LivesEnd DEF Build
  <2>3. CASE ClearWorker(c)
    BY <2>3, LivesClear
  <2>4. CASE Unlock(c)
    <3> DEFINE k == [call[c] EXCEPT !.step = "walk", !.cp = Container]
    <3>1. /\ call' = [call EXCEPT ![c] = k] /\ UNCHANGED life
          /\ call[c].step = "clear" /\ k.step = "walk" /\ k.child = call[c].child
      BY <2>0, <2>4 DEF Unlock, Calls, listVars
    <3> HIDE DEF k
    <3>2. QED
      BY <3>1, LivesOn
  <2>5. CASE Walk(c)
    <3>1. PICK k : /\ call' = [call EXCEPT ![c] = k] /\ k.child = call[c].child
                   /\ k.step \in {"walk", "unlink", "missing"}
      BY <2>0, <2>5 DEF Walk, Calls
    <3>2. UNCHANGED life /\ call[c].step = "walk"
      BY <2>5 DEF Walk, listVars
    <3>3. QED
      BY <3>1, <3>2, LivesOn
  <2>6. CASE Unlink(c)
    BY <2>6, LivesEnd DEF Unlink
  <2>7. QED
    BY <1>2, <2>1, <2>2, <2>3, <2>4, <2>5, <2>6 DEF Step
<1>3. CASE Loop \/ Others \/ UNCHANGED vars
  <2>1. UNCHANGED <<call, life>>
    BY <1>3 DEF Loop, CheckStarted, BeginPass, EnterApplication, Visit, NextApplication,
                Others, BecomeReady, StopWorker, StartStop, listVars, vars
  <2>2. QED
    BY <2>1 DEF Lives, Alive
<1>4. QED
  BY <1>1, <1>2, <1>3 DEF Next

-----------------------------------------------------------------------------
(* Steps keep the lists *)

\* A list that a step does not change.
LEMMA SoundSame ==
  ASSUME TInv, NEW p \in Parents, Sound(p),
         listed'[p] = listed[p], first'[p] = first[p],
         \A x \in ToSet(listed[p]) :
           next'[x] = next[x] /\ life'[x] \in {"bare", "live", "dying"},
         \A x \in Children :
           Parent(x) = p /\ life'[x] \in {"live", "dying"} =>
             life[x] \in {"live", "dying"} \/ x \in ToSet(listed[p])
  PROVE  Sound(p)'
<1>1. listed[p] \in Seq(Children)
  BY DEF TInv, TypeOK
<1>2. IsChain(listed'[p], first'[p], next')
  BY <1>1, ChainSame DEF Sound
<1>3. QED
  BY <1>2 DEF Sound, Exists

\* A call that a step does not touch.
LEMMA PlacedSame ==
  ASSUME NEW d \in Clients, Placed(d), call'[d] = call[d],
         listed'[Parent(call[d].child)] = listed[Parent(call[d].child)],
         first'[Parent(call[d].child)] = first[Parent(call[d].child)],
         next'[call[d].child] = next[call[d].child]
  PROVE  Placed(d)'
BY DEF Placed

\* No other call has a place in the list that one works on.
LEMMA Elsewhere ==
  ASSUME Handled, TInv, Mutual, NEW p \in Parents, Tame(p),
         NEW c \in Clients, OnList(c, p),
         NEW d \in Clients, d # c, call[d].step \notin {"none", "clear"}
  PROVE  Parent(call[d].child) # p
BY OneAtATime DEF OnList

\* The lists of a parent and the calls that are elsewhere.
LEMMA ListsSame ==
  ASSUME TInv, Lists, UNCHANGED listVars, NEW c \in Clients, NEW k,
         call' = [call EXCEPT ![c] = k],
         k.step # "none" /\ Tame(Parent(k.child)) => Placed(c)'
  PROVE  Lists'
<1>1. call'[c] = k /\ \A d \in Clients : d # c => call'[d] = call[d]
  BY OtherCalls
<1>2. ASSUME NEW p \in Parents, Tame(p) PROVE Sound(p)'
  BY <1>2 DEF Lists, Sound, listVars, Exists
<1>3. ASSUME NEW d \in Clients, call'[d].step # "none", Tame(Parent(call'[d].child))
      PROVE  Placed(d)'
  <2>1. CASE d = c
    BY <1>1, <1>3, <2>1
  <2>2. CASE d # c
    BY <1>1, <1>3, <2>2, PlacedSame DEF Lists, listVars
  <2>3. QED
    BY <2>1, <2>2
<1>4. QED
  BY <1>2, <1>3 DEF Lists

LEMMA ListsAddChild ==
  ASSUME DInv, NEW c \in Clients, NEW x \in Children, AddChild(c, x)
  PROVE  Lists'
<1> DEFINE k == [NoCall EXCEPT !.step = "link", !.child = x]
<1>1. /\ call' = [call EXCEPT ![c] = k] /\ k.step = "link" /\ k.child = x
      /\ life[x] = "none" /\ life' = [life EXCEPT ![x] = "bare"]
      /\ next' = [next EXCEPT ![x] = first[Parent(x)]]
      /\ UNCHANGED <<first, listed>>
  BY DEF AddChild, NoCall
<1> HIDE DEF k
<1>2. call'[c] = k /\ \A d \in Clients : d # c => call'[d] = call[d]
  BY <1>1, OtherCalls DEF DInv
<1>3. /\ life'[x] = "bare" /\ next'[x] = first[Parent(x)]
      /\ \A y \in Children : y # x => life'[y] = life[y] /\ next'[y] = next[y]
  BY <1>1 DEF DInv, TInv, TypeOK
<1>4. ASSUME NEW p \in Parents, Tame(p) PROVE Sound(p) /\ x \notin ToSet(listed[p])
  BY <1>1, <1>4 DEF DInv, Lists, Sound, Exists
<1>5. ASSUME NEW p \in Parents, Tame(p) PROVE Sound(p)'
  <2>1. ToSet(listed[p]) \subseteq Children
    BY Elements DEF DInv, TInv, TypeOK
  <2>2. \A y \in ToSet(listed[p]) :
          next'[y] = next[y] /\ life'[y] \in {"bare", "live", "dying"}
    BY <1>3, <1>4, <1>5, <2>1 DEF Sound, Exists
  <2>3. \A y \in Children : life'[y] \in {"live", "dying"} => life[y] \in {"live", "dying"}
    BY <1>3
  <2>4. QED
    BY <1>1, <1>4, <1>5, <2>2, <2>3, SoundSame DEF DInv
<1>6. ASSUME NEW d \in Clients, call'[d].step # "none", Tame(Parent(call'[d].child))
      PROVE  Placed(d)'
  <2>1. CASE d = c
    <3>1. Parent(x) \in Parents /\ Tame(Parent(x))
      BY <1>1, <1>2, <1>6, <2>1, Kinship
    <3>2. x \notin ToSet(listed[Parent(x)])
      BY <1>4, <3>1
    <3>3. QED
      BY <1>1, <1>2, <1>3, <2>1, <3>2 DEF Placed
  <2>2. CASE d # c
    <3>1. call'[d] = call[d] /\ call[d].child \in Children
      BY <1>2, <1>6, <2>2, StepKinds DEF DInv
    <3>2. call[d].child # x
      BY <1>1, <3>1, Busy DEF DInv
    <3>3. Placed(d)
      BY <1>6, <3>1 DEF DInv, Lists
    <3>4. QED
      BY <1>1, <1>3, <3>1, <3>2, <3>3, PlacedSame
  <2>3. QED
    BY <2>1, <2>2
<1>7. QED
  BY <1>5, <1>6 DEF Lists

LEMMA ListsLink ==
  ASSUME Handled, DInv, NEW c \in Clients, Link(c)
  PROVE  Lists'
<1> DEFINE x == call[c].child
           p == Parent(x)
           k == [call[c] EXCEPT !.step = "build"]
<1>1. /\ call' = [call EXCEPT ![c] = k] /\ call[c].step = "link"
      /\ k.step = "build" /\ k.child = x
      /\ first' = [first EXCEPT ![p] = x]
      /\ listed' = [listed EXCEPT ![p] = <<x>> \o @]
      /\ UNCHANGED <<next, life>>
  <2>1. call[c] \in Calls
    BY DEF DInv, TInv, TypeOK
  <2>2. QED
    BY <2>1 DEF Link, Calls
<1> HIDE DEF k
<1>2. call'[c] = k /\ \A d \in Clients : d # c => call'[d] = call[d]
  BY <1>1, OtherCalls DEF DInv
<1>3. x \in Children /\ p \in Parents /\ life[x] = "bare" /\ OnList(c, p)
  BY <1>1, StepKinds, Kinship DEF DInv, Lives, Alive, OnList
<1>4. /\ first'[p] = x /\ listed'[p] = <<x>> \o listed[p] /\ listed[p] \in Seq(Children)
      /\ \A q \in Parents : q # p => first'[q] = first[q] /\ listed'[q] = listed[q]
  BY <1>1, <1>3 DEF DInv, TInv, TypeOK
<1>5. ToSet(listed'[p]) = {x} \cup ToSet(listed[p])
  BY <1>3, <1>4, Prepended
<1>6. ASSUME NEW q \in Parents, Tame(q) PROVE Sound(q)'
  <2>1. Sound(q)
    BY <1>6 DEF DInv, Lists
  <2>2. CASE q = p
    <3>1. Placed(c)
      BY <1>1, <1>6, <2>2 DEF DInv, Lists
    <3>2. x \notin ToSet(listed[p]) /\ next[x] = first[p]
      BY <1>1, <3>1 DEF Placed
    <3>3. IsChain(<<x>> \o listed[p], x, next)
      BY <1>3, <1>4, <2>1, <2>2, <3>2, ChainPush DEF Sound
    <3>4. IsChain(listed'[q], first'[q], next')
      BY <1>1, <1>4, <2>2, <3>3
    <3>5. \A y \in ToSet(listed'[q]) : Parent(y) = q /\ life'[y] \in {"bare", "live", "dying"}
      BY <1>1, <1>3, <1>5, <2>1, <2>2 DEF Sound, Exists
    <3>6. QED
      BY <1>1, <1>5, <2>1, <2>2, <3>4, <3>5 DEF Sound, Exists
  <2>3. CASE q # p
    BY <1>1, <1>4, <2>1, <2>3, SoundSame DEF DInv, Sound, Exists
  <2>4. QED
    BY <2>2, <2>3
<1>7. ASSUME NEW d \in Clients, call'[d].step # "none", Tame(Parent(call'[d].child))
      PROVE  Placed(d)'
  <2>1. CASE d = c
    BY <1>1, <1>2, <1>5, <2>1 DEF Placed
  <2>2. CASE d # c
    <3>1. call'[d] = call[d] /\ call[d].child \in Children /\ Parent(call[d].child) \in Parents
      BY <1>2, <1>7, <2>2, StepKinds, Kinship DEF DInv
    <3>2. CASE call[d].step = "clear"
      BY <3>1, <3>2 DEF Placed
    <3>3. CASE call[d].step # "clear"
      <4>1. Parent(call[d].child) # p
        BY <1>3, <1>7, <2>2, <3>1, <3>3, Elsewhere DEF DInv
      <4>2. QED
        BY <1>1, <1>4, <1>7, <3>1, <4>1, PlacedSame DEF DInv, Lists
    <3>4. QED
      BY <3>2, <3>3
  <2>3. QED
    BY <2>1, <2>2
<1>8. QED
  BY <1>6, <1>7 DEF Lists

\* A step that changes the life of one child, which is listed, and no pointer.
LEMMA ListsLife ==
  ASSUME DInv, UNCHANGED <<first, next, listed>>,
         NEW x \in Children, NEW l \in {"live", "dying"}, life' = [life EXCEPT ![x] = l],
         Tame(Parent(x)) => x \in ToSet(listed[Parent(x)]),
         NEW c \in Clients, NEW k, call' = [call EXCEPT ![c] = k],
         k.step # "none" /\ Tame(Parent(k.child)) => Placed(c)'
  PROVE  Lists'
<1>1. call'[c] = k /\ \A d \in Clients : d # c => call'[d] = call[d]
  BY OtherCalls DEF DInv
<1>2. life'[x] = l /\ \A y \in Children : y # x => life'[y] = life[y]
  BY DEF DInv, TInv, TypeOK
<1>3. ASSUME NEW p \in Parents, Tame(p) PROVE Sound(p)'
  <2>1. Sound(p) /\ ToSet(listed[p]) \subseteq Children
    BY <1>3, Elements DEF DInv, Lists, TInv, TypeOK
  <2>2. \A y \in ToSet(listed[p]) : life'[y] \in {"bare", "live", "dying"}
    BY <1>2, <2>1 DEF Sound, Exists
  <2>3. \A y \in Children : Parent(y) = p /\ life'[y] \in {"live", "dying"} =>
          life[y] \in {"live", "dying"} \/ y \in ToSet(listed[p])
    BY <1>2, <1>3
  <2>4. QED
    BY <2>1, <2>2, <2>3, SoundSame DEF DInv
<1>4. ASSUME NEW d \in Clients, call'[d].step # "none", Tame(Parent(call'[d].child))
      PROVE  Placed(d)'
  <2>1. CASE d = c
    BY <1>1, <1>4, <2>1
  <2>2. CASE d # c
    BY <1>1, <1>4, <2>2, PlacedSame DEF DInv, Lists
  <2>3. QED
    BY <2>1, <2>2
<1>5. QED
  BY <1>3, <1>4 DEF Lists

LEMMA ListsBuild ==
  ASSUME DInv, NEW c \in Clients, Build(c)
  PROVE  Lists'
<1> DEFINE x == call[c].child
<1>1. /\ call[c].step = "build" /\ call' = [call EXCEPT ![c] = NoCall]
      /\ life' = [life EXCEPT ![x] = "live"] /\ UNCHANGED <<first, next, listed>>
      /\ x \in Children
  BY StepKinds DEF Build, DInv
<1>2. Tame(Parent(x)) => x \in ToSet(listed[Parent(x)])
  BY <1>1 DEF DInv, Lists, Placed
<1>3. NoCall.step = "none"
  BY NoChild
<1>4. QED
  BY <1>1, <1>2, <1>3, ListsLife

\* A child that lives is in its list.
LEMMA LiveListed ==
  ASSUME DInv, NEW x \in Children, life[x] \in {"live", "dying"}, Tame(Parent(x))
  PROVE  x \in ToSet(listed[Parent(x)])
BY Kinship DEF DInv, Lists, Sound

LEMMA ListsDelete ==
  ASSUME DInv, NEW c \in Clients
  PROVE  /\ \A a \in Applications : DeleteApplication(c, a) => Lists'
         /\ \A w \in Workers : DeleteWorker(c, w) => Lists'
<1>1. ASSUME NEW a \in Applications, DeleteApplication(c, a) PROVE Lists'
  <2> DEFINE k == [NoCall EXCEPT !.step = "clear", !.child = a]
  <2>1. /\ call' = [call EXCEPT ![c] = k] /\ k.step = "clear" /\ k.child = a
        /\ life[a] = "live" /\ life' = [life EXCEPT ![a] = "dying"]
        /\ UNCHANGED <<first, next, listed>> /\ a \in Children
    BY <1>1, Kinship DEF DeleteApplication, NoCall
  <2> HIDE DEF k
  <2>2. call'[c] = k
    BY <2>1, OtherCalls DEF DInv
  <2>3. Placed(c)'
    BY <2>1, <2>2 DEF Placed
  <2>4. QED
    BY <2>1, <2>3, LiveListed, ListsLife
<1>2. ASSUME NEW w \in Workers, DeleteWorker(c, w) PROVE Lists'
  <2> DEFINE k == [NoCall EXCEPT !.step = "walk", !.child = w, !.cp = Owner[w]]
  <2>1. /\ call' = [call EXCEPT ![c] = k]
        /\ k.step = "walk" /\ k.child = w /\ k.cp = Parent(w)
        /\ life[w] = "live" /\ life' = [life EXCEPT ![w] = "dying"]
        /\ UNCHANGED <<first, next, listed>> /\ w \in Children
    BY <1>2, Kinship DEF DeleteWorker, NoCall
  <2> HIDE DEF k
  <2>2. call'[c] = k
    BY <2>1, OtherCalls DEF DInv
  <2>3. Placed(c)'
    BY <2>1, <2>2 DEF Placed
  <2>4. QED
    BY <2>1, <2>3, LiveListed, ListsLife
<1>3. QED
  BY <1>1, <1>2

\* ~Application takes the first worker out of the list.
LEMMA ListsClear ==
  ASSUME Handled, DInv, NEW c \in Clients, ClearWorker(c)
  PROVE  Lists'
<1> DEFINE a == call[c].child
           w == first[a]
           s == listed[a]
<1>1. /\ call[c].step = "clear" /\ w # None /\ a \in Applications
      /\ life' = [life EXCEPT ![w] = "freed"]
      /\ listed' = [listed EXCEPT ![a] = Without(s, w)]
      /\ UNCHANGED <<call, next>>
  BY StepKinds DEF ClearWorker, DInv
<1>2. /\ Sound(a) /\ s \in Seq(Children) /\ s # <<>> /\ w = s[1] /\ 1 \in DOMAIN s
      /\ w \in Workers /\ w \in Children /\ Owner[w] = a /\ Exists(w) /\ a \in Parents
  BY <1>1, FirstWorker, Kinship DEF DInv
<1>3. first' = [first EXCEPT ![a] = next[w]]
  BY <1>2 DEF ClearWorker, NextChild
<1>4. /\ first'[a] = next[w] /\ listed'[a] = Without(s, w)
      /\ \A q \in Parents : q # a => first'[q] = first[q] /\ listed'[q] = listed[q]
      /\ \A y \in Children : y # w => life'[y] = life[y]
      /\ life'[w] = "freed"
  BY <1>1, <1>2, <1>3 DEF DInv, TInv, TypeOK
<1>5. OnList(c, a) /\ Tame(a)
  BY <1>1, Kinship DEF OnList, Tame
<1> HIDE DEF a, w, s
<1>6. /\ ToSet(Without(s, w)) = ToSet(s) \ {w}
      /\ IsChain(Without(s, w), next[w], next)
  <2>1. IsChain(s, first[a], next)
    BY <1>2 DEF Sound, s
  <2>2. QED
    BY <1>2, <2>1, ChainCut
<1>7. ASSUME NEW q \in Parents, Tame(q) PROVE Sound(q)'
  <2>1. Sound(q) /\ ToSet(listed[q]) \subseteq Children
    BY <1>7, Elements DEF DInv, Lists, TInv, TypeOK
  <2>2. CASE q = a
    <3>1. IsChain(listed'[q], first'[q], next')
      BY <1>1, <1>4, <1>6, <2>2
    <3>2. ToSet(listed'[q]) = ToSet(listed[q]) \ {w}
      BY <1>4, <1>6, <2>2 DEF s
    <3>3. QED
      BY <1>4, <2>1, <3>1, <3>2 DEF Sound, Exists
  <2>3. CASE q # a
    <3>1. w \notin ToSet(listed[q])
      BY <1>2, <2>1, <2>3, Kinship DEF Sound
    <3>2. \A y \in ToSet(listed[q]) : life'[y] \in {"bare", "live", "dying"}
      BY <1>4, <2>1, <3>1 DEF Sound, Exists
    <3>3. \A y \in Children : life'[y] \in {"live", "dying"} => life[y] \in {"live", "dying"}
      BY <1>4
    <3>4. QED
      BY <1>1, <1>4, <2>1, <2>3, <3>2, <3>3, SoundSame DEF DInv
  <2>4. QED
    BY <2>2, <2>3
<1>8. ASSUME NEW d \in Clients, call'[d].step # "none", Tame(Parent(call'[d].child))
      PROVE  Placed(d)'
  <2>1. CASE call[d].step = "clear"
    BY <1>1, <2>1 DEF Placed
  <2>2. CASE call[d].step # "clear"
    <3>1. d # c /\ call[d].step # "none" /\ Parent(call[d].child) \in Parents
      BY <1>1, <1>8, <2>2, StepKinds, Kinship DEF DInv
    <3>2. Parent(call[d].child) # a
      BY <1>2, <1>5, <2>2, <3>1, Elsewhere DEF DInv
    <3>3. QED
      BY <1>1, <1>4, <1>8, <3>1, <3>2, PlacedSame DEF DInv, Lists
  <2>3. QED
    BY <2>1, <2>2
<1>9. QED
  BY <1>7, <1>8 DEF Lists

LEMMA ListsUnlock ==
  ASSUME DInv, NEW c \in Clients, Unlock(c)
  PROVE  Lists'
<1> DEFINE k == [call[c] EXCEPT !.step = "walk", !.cp = Container]
<1>1. /\ call' = [call EXCEPT ![c] = k] /\ UNCHANGED listVars
      /\ call[c].step = "clear" /\ k.step = "walk" /\ k.child = call[c].child
      /\ k.cp = Container
  <2>1. call[c] \in Calls
    BY DEF DInv, TInv, TypeOK
  <2>2. QED
    BY <2>1 DEF Unlock, Calls
<1> HIDE DEF k
<1>2. call'[c] = k
  BY <1>1, OtherCalls DEF DInv
<1>3. Parent(k.child) = Container
  BY <1>1, StepKinds, Kinship DEF DInv
<1>4. Placed(c)'
  BY <1>1, <1>2, <1>3 DEF Placed
<1>5. QED
  BY <1>1, <1>4, ListsSame DEF DInv

\* A step of releaseChild stays on the way to the child.
LEMMA ListsWalk ==
  ASSUME DInv, NEW c \in Clients, Walk(c)
  PROVE  Lists'
<1> DEFINE x == call[c].child
           cp == call[c].cp
           p == Parent(x)
           s == listed[p]
<1>1. /\ call[c].step = "walk" /\ call[c] \in Calls /\ UNCHANGED listVars
      /\ x \in Children /\ p \in Parents /\ life[x] = "dying" /\ Alive(c)
      /\ cp = p \/ cp \in Kind(p)
  BY StepKinds, Kinship DEF Walk, DInv, TInv, TypeOK, Kinds, CallKind, Lives, Alive, listVars
<1>2. PICK y \in (IF cp = p THEN FirstChild(cp) ELSE NextChild(cp)) :
        call' = [call EXCEPT ![c] =
          IF y = x THEN [@ EXCEPT !.step = "unlink", !.after = next[x]]
          ELSE IF y = None THEN [@ EXCEPT !.step = "missing"]
          ELSE [@ EXCEPT !.cp = y]]
  BY DEF Walk
<1> DEFINE k == IF y = x THEN [call[c] EXCEPT !.step = "unlink", !.after = next[x]]
                ELSE IF y = None THEN [call[c] EXCEPT !.step = "missing"]
                ELSE [call[c] EXCEPT !.cp = y]
<1>3. call' = [call EXCEPT ![c] = k]
  BY <1>2 DEF DInv, TInv, TypeOK
<1>4. k.child = x
  BY <1>1 DEF Calls
<1>5. call'[c] = k
  BY <1>3, OtherCalls DEF DInv
<1>6. ASSUME Tame(p) PROVE Placed(c)'
  <2>1. Sound(p) /\ Placed(c) /\ s \in Seq(Children)
    BY <1>1, <1>6 DEF DInv, Lists, TInv, TypeOK
  <2>2. IsChain(s, first[p], next) /\ x \in ToSet(s) /\ ToSet(s) \subseteq Children
    BY <1>1, <2>1, Elements DEF Sound
  <2>3. /\ y \in ToSet(s)
        /\ y = x => \/ cp = p /\ s # <<>> /\ s[1] = x
                    \/ cp # p /\ RightBefore(s, cp, x)
        /\ y # x => Before(s, y, x)
    <3>1. CASE cp = p
      <4>1. p = Container \/ Exists(p)
        BY <1>1, Kinship DEF Alive, Exists, Children
      <4>2. y = first[p]
        BY <1>2, <3>1, <4>1 DEF FirstChild
      <4>3. first[p] = s[1] /\ 1 \in DOMAIN s /\ (first[p] = x \/ Before(s, first[p], x))
        BY <2>1, <2>2, WalkFirst
      <4>4. s # <<>> /\ s[1] \in ToSet(s)
        BY <4>3 DEF ToSet
      <4>5. QED
        BY <3>1, <4>2, <4>3, <4>4
    <3>2. CASE cp # p
      <4>1. Before(s, cp, x)
        BY <1>1, <2>1, <3>2 DEF Placed
      <4>2. /\ cp \in ToSet(s) /\ next[cp] \in ToSet(s)
            /\ RightBefore(s, cp, next[cp])
            /\ next[cp] = x \/ Before(s, next[cp], x)
        BY <2>1, <2>2, <4>1, WalkNext
      <4>3. y = next[cp]
        BY <1>2, <2>1, <3>2, <4>2 DEF NextChild, Sound
      <4>4. QED
        BY <3>2, <4>2, <4>3
    <3>3. QED
      BY <3>1, <3>2
  <2>4. y # None
    BY <2>2, <2>3, Kinship
  <2>5. CASE y = x
    <3>1. k.step = "unlink" /\ k.cp = cp /\ k.after = next[x]
      BY <1>1, <2>5 DEF Calls
    <3> HIDE DEF k
    <3>2. QED
      BY <1>1, <1>4, <1>5, <2>3, <2>5, <3>1 DEF Placed, listVars
  <2>6. CASE y # x
    <3>1. k.step = "walk" /\ k.cp = y
      BY <1>1, <2>4, <2>6 DEF Calls
    <3> HIDE DEF k
    <3>2. QED
      BY <1>1, <1>4, <1>5, <2>3, <2>6, <3>1 DEF Placed, listVars
  <2>7. QED
    BY <2>5, <2>6
<1> HIDE DEF k
<1>7. QED
  BY <1>1, <1>3, <1>4, <1>6, ListsSame DEF DInv

\* releaseChild takes its child out of the list, and no other.
LEMMA ListsUnlink ==
  ASSUME Handled, DInv, NEW c \in Clients, Unlink(c)
  PROVE  Lists'
<1> DEFINE x == call[c].child
           cp == call[c].cp
           p == Parent(x)
           s == listed[p]
<1>1. /\ call[c].step = "unlink" /\ call' = [call EXCEPT ![c] = NoCall]
      /\ x \in Children /\ p \in Parents /\ OnList(c, p)
      /\ cp = p \/ cp \in Kind(p)
      /\ listed' = [listed EXCEPT ![p] = Without(s, x)]
      /\ life' = [life EXCEPT ![x] = "freed"]
  BY StepKinds, Kinship DEF Unlink, DInv, TInv, Kinds, CallKind, OnList
<1>2. /\ cp = p => first' = [first EXCEPT ![p] = call[c].after] /\ next' = next
      /\ cp # p => next' = [next EXCEPT ![cp] = call[c].after] /\ first' = first
  BY DEF Unlink
<1>3. /\ \A q \in Parents : q # p => listed'[q] = listed[q] /\ first'[q] = first[q]
      /\ listed'[p] = Without(s, x) /\ s \in Seq(Children)
      /\ life'[x] = "freed" /\ \A y \in Children : y # x => life'[y] = life[y]
      /\ \A y \in Children : cp = p \/ y # cp => next'[y] = next[y]
  BY <1>1, <1>2 DEF DInv, TInv, TypeOK
<1>4. call'[c] = NoCall /\ \A d \in Clients : d # c => call'[d] = call[d]
  BY <1>1, OtherCalls DEF DInv
<1>5. ASSUME Tame(p)
      PROVE  /\ ToSet(listed'[p]) = ToSet(s) \ {x}
             /\ IsChain(listed'[p], first'[p], next')
             /\ cp # p => Parent(cp) = p
  <2>1. Sound(p) /\ Placed(c)
    BY <1>1, <1>5 DEF DInv, Lists
  <2>2. /\ \/ cp = p /\ s # <<>> /\ s[1] = x
           \/ cp # p /\ RightBefore(s, cp, x)
        /\ call[c].after = next[x]
    BY <1>1, <2>1 DEF Placed
  <2>3. IsChain(s, first[p], next) /\ ToSet(s) \subseteq Children
    BY <1>3, <2>1, Elements DEF Sound
  <2>4. CASE cp = p
    <3>1. 1 \in DOMAIN s /\ s[1] = x
      BY <1>3, <2>2, <2>4
    <3>2. first'[p] = next[x] /\ next' = next
      BY <1>1, <1>2, <2>2, <2>4 DEF DInv, TInv, TypeOK
    <3>3. /\ ToSet(Without(s, s[1])) = ToSet(s) \ {s[1]}
          /\ IsChain(Without(s, s[1]), first'[p], next')
      <4> DEFINE head == first[p]
                 head2 == first'[p]
                 link2 == next'
      <4>1. /\ IsChain(s, head, next) /\ head2 = next[s[1]]
            /\ \A y \in ToSet(s) : y # s[1] => link2[y] = next[y]
        BY <2>3, <3>1, <3>2
      <4> HIDE DEF x, cp, p, s, head, head2, link2
      <4>2. /\ ToSet(Without(s, s[1])) = ToSet(s) \ {s[1]}
            /\ IsChain(Without(s, s[1]), head2, link2)
        BY <1>3, <3>1, <4>1, ChainCut
      <4>3. QED
        BY <4>2 DEF head2, link2
    <3>4. QED
      BY <1>3, <2>4, <3>1, <3>3
  <2>5. CASE cp # p
    <3>1. PICK i \in DOMAIN s : i + 1 \in DOMAIN s /\ s[i] = cp /\ s[i + 1] = x
      BY <2>2, <2>5 DEF RightBefore
    <3>2. cp \in ToSet(s) /\ cp \in Children
      BY <2>3, <3>1 DEF ToSet
    <3>3. /\ next'[cp] = next[x] /\ first'[p] = first[p]
          /\ \A y \in ToSet(s) : y # cp => next'[y] = next[y]
      BY <1>2, <1>3, <2>2, <2>3, <2>5, <3>2 DEF DInv, TInv, TypeOK
    <3> DEFINE j == i + 1
    <3>4. j \in DOMAIN s /\ j # 1 /\ s[j] = x /\ s[j - 1] = cp
      BY <1>3, <3>1
    <3> HIDE DEF j
    <3>5. /\ ToSet(Without(s, s[j])) = ToSet(s) \ {s[j]}
          /\ IsChain(Without(s, s[j]), first'[p], next')
      <4> DEFINE head == first[p]
                 head2 == first'[p]
                 link2 == next'
      <4>1. /\ IsChain(s, head, next) /\ head2 = head
            /\ link2[s[j - 1]] = next[s[j]]
            /\ \A y \in ToSet(s) : y # s[j - 1] => link2[y] = next[y]
        BY <2>3, <3>3, <3>4
      <4> HIDE DEF x, cp, p, s, head, head2, link2
      <4>2. /\ ToSet(Without(s, s[j])) = ToSet(s) \ {s[j]}
            /\ IsChain(Without(s, s[j]), head2, link2)
        BY <1>3, <3>4, <4>1, ChainCut
      <4>3. QED
        BY <4>2 DEF head2, link2
    <3>6. Parent(cp) = p
      BY <2>1, <3>2 DEF Sound
    <3>7. QED
      BY <1>3, <3>4, <3>5, <3>6
  <2>6. QED
    BY <2>4, <2>5
<1>6. cp # p => cp \in Children /\ Parent(cp) = p
  <2>1. CASE Tame(p)
    BY <1>1, <1>5, <2>1, Kinship
  <2>2. CASE ~Tame(p)
    BY <1>1, <2>2, Kinship DEF Tame
  <2>3. QED
    BY <2>1, <2>2
<1>7. ASSUME NEW q \in Parents, Tame(q) PROVE Sound(q)'
  <2>1. Sound(q) /\ ToSet(listed[q]) \subseteq Children
    BY <1>7, Elements DEF DInv, Lists, TInv, TypeOK
  <2>2. CASE q = p
    BY <1>3, <1>5, <1>7, <2>1, <2>2 DEF Sound, Exists
  <2>3. CASE q # p
    <3>1. \A y \in ToSet(listed[q]) : y # x /\ (cp # p => y # cp)
      BY <1>6, <2>1, <2>3 DEF Sound
    <3>2. \A y \in ToSet(listed[q]) :
            next'[y] = next[y] /\ life'[y] \in {"bare", "live", "dying"}
      BY <1>3, <2>1, <3>1 DEF Sound, Exists
    <3>3. \A y \in Children : life'[y] \in {"live", "dying"} => life[y] \in {"live", "dying"}
      BY <1>3
    <3>4. QED
      BY <1>3, <2>1, <2>3, <3>2, <3>3, SoundSame DEF DInv
  <2>4. QED
    BY <2>2, <2>3
<1>8. ASSUME NEW d \in Clients, call'[d].step # "none", Tame(Parent(call'[d].child))
      PROVE  Placed(d)'
  <2>1. d # c /\ call'[d] = call[d]
    BY <1>4, <1>8, NoChild
  <2>2. call[d].child \in Children /\ Parent(call[d].child) \in Parents
    BY <1>8, <2>1, StepKinds, Kinship DEF DInv
  <2>3. CASE call[d].step = "clear"
    BY <2>1, <2>3 DEF Placed
  <2>4. CASE call[d].step # "clear"
    <3>1. Parent(call[d].child) # p
      BY <1>1, <1>8, <2>1, <2>4, Elsewhere DEF DInv
    <3>2. next'[call[d].child] = next[call[d].child]
      BY <1>3, <1>6, <2>2, <3>1
    <3>3. QED
      BY <1>3, <1>8, <2>1, <2>2, <3>1, <3>2, PlacedSame DEF DInv, Lists
  <2>5. QED
    BY <2>3, <2>4
<1>9. QED
  BY <1>7, <1>8 DEF Lists

LEMMA ListsNext ==
  ASSUME Handled, DInv, [Next]_vars
  PROVE  Lists'
<1>1. ASSUME NEW c \in Clients, Begin(c) PROVE Lists'
  BY <1>1, ListsAddChild, ListsDelete, Kinship
  DEF Begin, CreateApplication, CreateWorker, CreateWorkerOfArtifact
<1>2. ASSUME NEW c \in Clients, Step(c) PROVE Lists'
  BY <1>2, ListsLink, ListsBuild, ListsClear, ListsUnlock, ListsWalk, ListsUnlink DEF Step
<1>3. CASE Loop \/ Others \/ UNCHANGED vars
  <2>1. UNCHANGED <<call, listVars>>
    BY <1>3 DEF Loop, CheckStarted, BeginPass, EnterApplication, Visit, NextApplication,
                Others, BecomeReady, StopWorker, StartStop, vars
  <2>2. QED
    BY <2>1 DEF DInv, Lists, Sound, Placed, Exists, listVars
<1>4. QED
  BY <1>1, <1>2, <1>3 DEF Next

LEMMA DNext ==
  ASSUME Handled, DInv, [Next]_vars
  PROVE  DInv'
BY TypeNext, LivesNext, MutualNext, ListsNext DEF DInv

-----------------------------------------------------------------------------
(* What follows *)

\* With one client, whether or not it deletes and creates workers beside the
\* dispatch loop, the pointers of every list are the children linked and not
\* yet unlinked, at every step of every call.
THEOREM ListsStayWhole == ASSUME OneClient PROVE Spec => []ListsWhole
<1>1. Handled
  BY DEF Handled
<1>2. DInv => ListsWhole
  BY DEF DInv, Lists, Sound, Tame, ListsWhole
<1>3. DInv /\ [Next]_vars => DInv'
  BY <1>1, DNext
<1>4. QED
  BY DInit, <1>2, <1>3, PTL DEF Spec

\* With one client, releaseChild finds its child: its assertion never fails.
THEOREM ChildNeverMissing == ASSUME OneClient PROVE Spec => []ChildPresent
<1>1. Handled
  BY DEF Handled
<1>2. DInv => ChildPresent
  <2>1. SUFFICES ASSUME DInv, NEW c \in Clients, call[c].step = "missing" PROVE FALSE
    BY DEF ChildPresent
  <2>2. Placed(c)
    BY <2>1 DEF DInv, Lists, Tame
  <2>3. QED
    BY <2>1, <2>2 DEF Placed
<1>3. DInv /\ [Next]_vars => DInv'
  BY <1>1, DNext
<1>4. QED
  BY DInit, <1>2, <1>3, PTL DEF Spec

\* A worker list that changes is not the one the loop is in: the call on it
\* holds the mutex, or is alone in the container.
LEMMA LoopAlone ==
  ASSUME Unlocked = {}, TInv, Mutual, worker # None, NEW c \in Clients
  PROVE  /\ mutex = "loop" /\ pc = "pass"
         /\ call[c].step # "clear"
         /\ call[c].child \in Workers => call[c].step = "none"
<1>1. pc = "pass" /\ mutex = "loop"
  BY DEF TInv, Kinds, Mutual
<1>2. mutex # c /\ ~Exclusive(c)
  BY <1>1, Strangers DEF Mutual
<1>3. call[c].step # "clear"
  BY <1>2 DEF Mutual
<1>4. QED
  BY <1>1, <1>2, <1>3, StepKinds DEF Exclusive, Steps

LEMMA CursorNext ==
  ASSUME Unlocked = {}, DInv, Cursor, [Next]_vars
  PROVE  Cursor'
<1>1. ASSUME NEW c \in Clients, Begin(c) PROVE Cursor'
  <2>1. UNCHANGED <<listed, app, worker>>
    BY <1>1 DEF Begin, CreateApplication, CreateWorker, CreateWorkerOfArtifact,
                AddChild, DeleteApplication, DeleteWorker, loopVars
  <2>2. worker # None /\ Exists(app)' => Exists(app)
    <3>1. SUFFICES ASSUME worker # None, Exists(app)' PROVE Exists(app)
      OBVIOUS
    <3>2. mutex = "loop" /\ app \in Applications
      BY <3>1, LoopAlone, <1>1 DEF DInv, TInv, Kinds
    <3>3. /\ \A a \in Applications : ~CreateApplication(c, a) /\ ~DeleteApplication(c, a)
          /\ \A w \in Workers : ~CreateWorker(c, w)
      BY <3>2 DEF CreateApplication, DeleteApplication, CreateWorker
    <3>4. PICK w \in Workers : CreateWorkerOfArtifact(c, w) \/ DeleteWorker(c, w)
      BY <1>1, <3>3 DEF Begin
    <3>5. app # w /\ app \in Children
      BY <3>2, Kinship
    <3>6. life'[app] = life[app]
      <4>1. PICK l \in {"bare", "dying"} : life' = [life EXCEPT ![w] = l]
        BY <3>4 DEF CreateWorkerOfArtifact, AddChild, DeleteWorker
      <4>2. QED
        BY <3>5, <4>1 DEF DInv, TInv, TypeOK
    <3>7. app' = app
      BY <2>1
    <3>8. QED
      BY <3>1, <3>6, <3>7 DEF Exists
  <2>3. QED
    BY <2>1, <2>2 DEF Cursor
<1>2. ASSUME NEW c \in Clients, Step(c) PROVE Cursor'
  <2>1. UNCHANGED <<app, worker>>
    BY <1>2 DEF Step, Link, Build, ClearWorker, Unlock, Walk, Unlink, loopVars
  <2>2. SUFFICES ASSUME worker # None, Exists(app)' PROVE worker \in ToSet(listed'[app])
    BY <2>1 DEF Cursor
  <2>3. /\ call[c].step # "clear" /\ app \in Applications
        /\ call[c].step # "none" => call[c].child \in Applications
    BY <2>2, LoopAlone, StepKinds DEF DInv, TInv, Kinds, Children
  <2>4. Link(c) \/ Build(c) \/ Walk(c) \/ Unlink(c)
    BY <1>2, <2>3 DEF Step, ClearWorker, Unlock
  <2>5. call[c].child \in Applications /\ Parent(call[c].child) = Container
    BY <2>3, <2>4, Kinship DEF Link, Build, Walk, Unlink
  <2>6. listed'[app] = listed[app]
    BY <2>3, <2>4, <2>5, Kinship DEF Link, Build, Walk, Unlink, listVars, DInv, TInv, TypeOK
  <2>7. Exists(app)
    <3>1. life' = life \/ \E l \in {"live", "freed"} : life' = [life EXCEPT ![call[c].child] = l]
      BY <2>4 DEF Link, Build, Walk, Unlink, listVars
    <3>2. life[call[c].child] \in {"bare", "dying"}
      BY <2>5, Busy, Kinship DEF DInv
    <3>3. life'[app] \in {"bare", "live", "dying"}
      BY <2>1, <2>2 DEF Exists
    <3>4. QED
      BY <2>3, <3>1, <3>2, <3>3, Kinship DEF Exists, DInv, TInv, TypeOK
  <2>8. QED
    BY <2>2, <2>6, <2>7 DEF Cursor
<1>3. CASE EnterApplication \/ Visit
  <2>1. UNCHANGED <<app, listVars>> /\ app \in Applications
    BY <1>3 DEF EnterApplication, Visit, DInv, TInv, Kinds
  <2>2. SUFFICES ASSUME worker' # None, Exists(app) PROVE worker' \in ToSet(listed[app])
    BY <2>1 DEF Cursor, Exists, listVars
  <2>3. /\ Sound(app) /\ listed[app] \in Seq(Children)
    BY <2>1, Kinship DEF DInv, Lists, Tame, TInv, TypeOK
  <2>4. CASE EnterApplication
    <3>1. worker' = first[app]
      BY <2>1, <2>2, <2>4, Kinship DEF EnterApplication, FirstChild
    <3>2. listed[app] # <<>> /\ first[app] = listed[app][1]
      BY <2>2, <2>3, <3>1 DEF Sound, IsChain
    <3>3. QED
      BY <2>3, <3>1, <3>2, Elements
  <2>5. CASE Visit
    <3>1. worker # None /\ worker \in ToSet(listed[app])
      BY <2>2, <2>5 DEF Visit, Cursor
    <3>2. worker' = next[worker]
      BY <2>3, <2>5, <3>1 DEF Visit, NextChild, Sound
    <3>3. PICK i \in DOMAIN listed[app] : listed[app][i] = worker
      BY <3>1 DEF ToSet
    <3>4. i # Len(listed[app]) /\ worker' = listed[app][i + 1]
      BY <2>2, <2>3, <3>2, <3>3 DEF Sound, IsChain
    <3>5. i + 1 \in DOMAIN listed[app]
      BY <2>3, <3>3, <3>4
    <3>6. QED
      BY <3>4, <3>5 DEF ToSet
  <2>6. QED
    BY <1>3, <2>4, <2>5
<1>4. CASE CheckStarted \/ BeginPass \/ NextApplication
  <2>1. worker' = None \/ UNCHANGED <<worker, app, listVars>>
    <3>1. BeginPass \/ NextApplication => worker = None /\ worker' = worker
      BY DEF BeginPass, NextApplication, DInv, TInv, Kinds
    <3>2. CheckStarted => UNCHANGED <<worker, app, listVars>>
      BY DEF CheckStarted
    <3>3. QED
      BY <1>4, <3>1, <3>2
  <2>2. QED
    BY <2>1 DEF Cursor, Exists, listVars
<1>5. CASE Others \/ UNCHANGED vars
  <2>1. UNCHANGED <<worker, app, listVars>>
    BY <1>5 DEF Others, BecomeReady, StopWorker, StartStop, loopVars, vars
  <2>2. QED
    BY <2>1 DEF Cursor, Exists, listVars
<1>6. QED
  BY <1>1, <1>2, <1>3, <1>4, <1>5 DEF Next, Loop

\* In programs that make the calls without the mutex beside no other thread,
\* with any number of threads that make the others: the worker that the loop is
\* about to visit is a whole one, and one of the application's that it visits.
THEOREM LoopLockedOut == ASSUME Unlocked = {} PROVE Spec => []LockedOut
<1>1. Handled
  BY DEF Handled
<1>2. Init => DInv /\ Cursor
  BY DInit DEF Init, Cursor
<1>3. DInv /\ Cursor /\ [Next]_vars => (DInv /\ Cursor)'
  BY <1>1, DNext, CursorNext
<1>4. DInv /\ Cursor => LockedOut
  <2>1. SUFFICES ASSUME DInv, Cursor, worker # None, Exists(app)
                 PROVE  life[worker] \in {"live", "dying"} /\ Owner[worker] = app
    BY DEF LockedOut
  <2>2. worker \in Workers /\ app \in Applications
    BY <2>1, LoopAlone DEF DInv, TInv, TypeOK, Kinds
  <2>3. Sound(app)
    BY <2>1, <2>2, Kinship DEF DInv, Lists, Tame
  <2>4. Exists(worker) /\ Parent(worker) = app
    BY <2>1, <2>3 DEF Cursor, Sound
  <2>5. life[worker] # "bare"
    <3>1. SUFFICES ASSUME life[worker] = "bare" PROVE FALSE
      OBVIOUS
    <3>2. PICK c \in Clients : call[c].step \in {"link", "build"} /\ call[c].child = worker
      BY <2>1, <2>2, <3>1, Kinship DEF DInv, Lives
    <3>3. QED
      BY <2>1, <2>2, <3>2, LoopAlone DEF DInv
  <2>6. QED
    BY <2>2, <2>4, <2>5, Kinship DEF Exists
<1>5. QED
  BY <1>2, <1>3, <1>4, PTL DEF Spec
=============================================================================
