--------------------------- MODULE Pipeline_proofs ---------------------------
(***************************************************************************)
(* Theorems about Pipeline, for every number of links and buffers: the     *)
(* line hands every message over once, intact and in order, no buffer that *)
(* a worker has or keeps changes under it, and none is lost.               *)
(*                                                                         *)
(* The invariant labels every output buffer with the number of the message *)
(* that a reader finds in it, wherever the message really is (M), and      *)
(* counts for every link the messages sent to it, attached and handed over *)
(* (p, st, n).  A link by itself is a ring (LinkInv), two links meet at    *)
(* the input buffers that were sent on (Joint), and the consumer keeps a   *)
(* window (Kept).  The labels exist, but are no variables: Sound hides     *)
(* them.  Every operation of LocalLinks gets a lemma that says what it     *)
(* changes (...Is) and one that it keeps the line sound (...Line).         *)
(***************************************************************************)
EXTENDS Pipeline, Rings, SequenceTheorems

\* A step back along the chain.
Back(s, k, x) ==
  IF x = None \/ s[k].from[x] = None THEN None ELSE s[k].zfrom[s[k].from[x]]

IsBack(s, l, t, n, f) ==
  f = [i \in 0 .. n |-> IF i = 0 THEN t ELSE Back(s, l - i + 1, f[i - 1])]

\* The steps back along a chain are a function, whatever the links are.
LEMMA BackExists ==
  ASSUME NEW s, NEW l \in Nat, NEW t
  PROVE  \A n \in Nat : \E f : IsBack(s, l, t, n, f)
<1> DEFINE S == {n \in Nat : \E f : IsBack(s, l, t, n, f)}
<1>1. 0 \in S
  <2> DEFINE f == [i \in 0 .. 0 |-> t]
  <2>1. IsBack(s, l, t, 0, f)
    BY DEF IsBack
  <2>2. QED
    BY <2>1
<1>2. ASSUME NEW n \in Nat, n \in S PROVE n + 1 \in S
  <2>1. PICK f : IsBack(s, l, t, n, f)
    BY <1>2
  <2> DEFINE g == [i \in 0 .. n + 1 |->
                     IF i = n + 1 THEN Back(s, l - i + 1, f[n]) ELSE f[i]]
  <2>2. \A i \in 0 .. n : f[i] = IF i = 0 THEN t ELSE Back(s, l - i + 1, f[i - 1])
    BY <2>1 DEF IsBack
  <2>3. \A i \in 0 .. n : g[i] = f[i]
    OBVIOUS
  <2>4. g[n + 1] = Back(s, l - (n + 1) + 1, g[n])
    BY <2>3
  <2>5. ASSUME NEW i \in 0 .. n + 1
        PROVE  g[i] = IF i = 0 THEN t ELSE Back(s, l - i + 1, g[i - 1])
    <3>1. CASE i = n + 1
      BY <2>4, <3>1
    <3>2. CASE i \in 1 .. n
      BY <2>2, <2>3, <3>2
    <3>3. CASE i = 0
      BY <2>2, <2>3, <3>3
    <3>4. QED
      BY <3>1, <3>2, <3>3
  <2>6. g = [i \in 0 .. n + 1 |-> g[i]]
    OBVIOUS
  <2> HIDE DEF g
  <2>7. IsBack(s, l, t, n + 1, g)
    BY <2>5, <2>6 DEF IsBack
  <2>8. QED
    BY <2>7
<1> HIDE DEF S
<1>3. Nat \subseteq S
  BY <1>1, <1>2, Induction
<1>4. QED
  BY <1>3 DEF S

\* The chain that ends in input buffer t of link l, without recursion.
Chain(s, l, t, c) ==
  /\ c = [k \in Links |-> c[k]]
  /\ c[l] = t
  /\ \A k \in Links : k > l => c[k] = None
  /\ \A k \in 1 .. l - 1 : c[k] = Back(s, k + 1, c[k + 1])

\* LocalLinks.Behind returns the chain: its recursion is unfolded once and for all.
LEMMA BehindIsChain ==
  ASSUME NEW s, NEW l \in Links, NEW t
  PROVE  Chain(s, l, t, Behind(s, l, t))
<1> DEFINE b == CHOOSE f : IsBack(s, l, t, l - 1, f)
           c == Behind(s, l, t)
<1>1. l \in Nat /\ l - 1 \in Nat /\ l >= 1 /\ l <= NumLinks
  BY LocalLinksAssumption DEF Links
<1>2. IsBack(s, l, t, l - 1, b)
  BY <1>1, BackExists
<1>3. c = [k \in Links |-> IF k > l THEN None ELSE b[l - k]]
  BY <1>1 DEF Behind, IsBack, Back
<1> HIDE DEF b, c
<1>4. \A i \in 0 .. l - 1 : b[i] = IF i = 0 THEN t ELSE Back(s, l - i + 1, b[i - 1])
  BY <1>2 DEF IsBack
<1>5. c[l] = t
  <2>1. c[l] = b[l - l]
    BY <1>1, <1>3
  <2>2. l - l = 0
    BY <1>1
  <2>3. QED
    BY <1>1, <1>4, <2>1, <2>2
<1>6. ASSUME NEW k \in 1 .. l - 1 PROVE c[k] = Back(s, k + 1, c[k + 1])
  <2>1. l - k \in 1 .. l - 1 /\ k \in Links /\ k + 1 \in Links /\ ~(k > l) /\ ~(k + 1 > l)
    BY <1>1, LocalLinksAssumption DEF Links
  <2>2. c[k] = b[l - k] /\ c[k + 1] = b[l - (k + 1)]
    BY <1>3, <2>1
  <2>3. l - (k + 1) = (l - k) - 1 /\ l - (l - k) + 1 = k + 1
    BY <1>1
  <2>4. b[l - k] = Back(s, l - (l - k) + 1, b[(l - k) - 1])
    BY <1>4, <2>1
  <2>5. QED
    BY <2>2, <2>3, <2>4
<1>7. QED
  BY <1>3, <1>5, <1>6 DEF Chain, c

\* There is one chain behind an input buffer.
LEMMA ChainUnique ==
  ASSUME NEW s, NEW l \in Links, NEW t, NEW c, NEW d,
         Chain(s, l, t, c), Chain(s, l, t, d)
  PROVE  c = d
<1> DEFINE S == {n \in Nat : n <= l - 1 => c[l - n] = d[l - n]}
<1>1. l \in Nat /\ l >= 1 /\ l <= NumLinks
  BY LocalLinksAssumption DEF Links
<1>2. 0 \in S
  <2>1. l - 0 = l
    BY <1>1
  <2>2. QED
    BY <2>1 DEF Chain
<1>3. ASSUME NEW n \in Nat, n \in S PROVE n + 1 \in S
  <2>1. SUFFICES ASSUME n + 1 <= l - 1 PROVE c[l - (n + 1)] = d[l - (n + 1)]
    OBVIOUS
  <2>2. l - (n + 1) \in 1 .. l - 1 /\ l - (n + 1) + 1 = l - n
    BY <1>1, <2>1
  <2>3. c[l - n] = d[l - n]
    BY <1>1, <1>3, <2>1
  <2>4. QED
    BY <2>2, <2>3 DEF Chain
<1> HIDE DEF S
<1>4. Nat \subseteq S
  BY <1>2, <1>3, Induction
<1>5. ASSUME NEW k \in Links PROVE c[k] = d[k]
  <2>1. CASE k > l
    BY <2>1 DEF Chain
  <2>2. CASE k <= l
    <3>1. l - k \in Nat /\ l - k <= l - 1 /\ l - (l - k) = k
      BY <1>1, <2>2 DEF Links
    <3>2. l - k \in S
      BY <1>4, <3>1
    <3>3. QED
      BY <3>1, <3>2 DEF S
  <2>3. QED
    BY <1>1, <2>1, <2>2 DEF Links
<1>6. QED
  BY <1>5 DEF Chain

\* The consumer and the workers in between live with the container: one that
\* sends its input buffer does not wait for an output buffer.
Frugal == \A k \in FilterKinds : k.sendsInput => ~k.polls

PrevTids(l) == IF l = 1 THEN {} ELSE Tids(l - 1)

LinkState(l) ==
  [out : PortState(l), in : PortState(l), lastTid : Tids(l), lastOrd : TidOrNone(l),
   nextTid : Tids(l), outInUse : [Tids(l) -> BOOLEAN], inInUse : [Tids(l) -> BOOLEAN],
   from : [Tids(l) -> TidOrNone(l)], zfrom : [Tids(l) -> PrevTids(l) \cup {None}],
   msg : [Tids(l) -> Nat], queued : Seq(Tids(l)), waiting : Seq(PrevTids(l))]

InSeq(x, q) == \E i \in 1 .. Len(q) : q[i] = x
Distinct(q) == \A i, j \in 1 .. Len(q) : q[i] = q[j] => i = j

HasOut(r, b) == r.out.data /\ r.out.buffer = b
HasIn(r, t) == r.in.data /\ r.in.buffer = t

\* The buffers of either side of one link, in whichever state its neighbours are.
Sides(r, l) ==
  /\ r \in LinkState(l)
  /\ ~r.out.data => r.out.ready
  /\ ~r.in.data => r.in.ready
  /\ r.out.data => /\ r.out.buffer \in Tids(l) /\ r.outInUse[r.out.buffer]
                   /\ r.zfrom[r.out.buffer] = None
                   /\ ~InSeq(r.out.buffer, r.queued)
  /\ r.in.data => r.in.buffer \in Tids(l) /\ r.inInUse[r.in.buffer]
  /\ \A b \in Tids(l) : InSeq(b, r.queued) => r.outInUse[b]
  /\ Distinct(r.queued) /\ Distinct(r.waiting)
  /\ \A t, u \in Tids(l) : r.from[t] # None /\ r.from[t] = r.from[u] => t = u
  /\ \A b, c \in Tids(l) : r.zfrom[b] # None /\ r.zfrom[b] = r.zfrom[c] => b = c
  /\ \A t \in Tids(l) : r.from[t] # None => ~r.outInUse[r.from[t]]
  /\ \A t \in Tids(l) : r.inInUse[t] => r.from[t] # None

\* n messages were handed over at the input of link l, st were attached, and m
\* says which message each output buffer has.
Ring(r, l, n, st, m) ==
  /\ n <= st /\ st <= n + NumBufs[l]
  /\ r.nextTid = st % NumBufs[l]
  /\ Later(l, r.lastOrd) = n % NumBufs[l]
  /\ {t \in Tids(l) : r.from[t] # None /\ ~r.inInUse[t]} = Arc(NumBufs[l], n, st)
  /\ \A i \in n .. st - 1 : m[r.from[i % NumBufs[l]]] = i + 1
  /\ r.in.data => n > 0 /\ m[r.from[r.in.buffer]] = n

\* The queue has the messages after the attached ones.
Queue(r, st, m) == \A j \in 1 .. Len(r.queued) : m[r.queued[j]] = st + j

\* An output buffer in use is with the worker or in the queue, or in h.
OutOwned(r, l, h) ==
  \A b \in Tids(l) : r.outInUse[b] => HasOut(r, b) \/ InSeq(b, r.queued) \/ b \in h

\* Every input buffer of the link before that is in use is at its port, or
\* waiting to be attached to link l, or what a buffer of link l stands for, and
\* in no two of these places.
Shared(s, l) ==
  /\ \A x \in PrevTids(l) : InSeq(x, s[l].waiting) =>
       /\ s[l - 1].inInUse[x] /\ ~HasIn(s[l - 1], x)
       /\ \A b \in Tids(l) : s[l].zfrom[b] # x
  /\ \A b \in Tids(l) : s[l].zfrom[b] # None =>
       s[l - 1].inInUse[s[l].zfrom[b]] /\ ~HasIn(s[l - 1], s[l].zfrom[b])
  /\ \A x \in PrevTids(l) : s[l - 1].inInUse[x] =>
       HasIn(s[l - 1], x) \/ InSeq(x, s[l].waiting) \/ \E b \in Tids(l) : s[l].zfrom[b] = x

\* Of the p messages sent to link l, st are attached and the others wait in
\* order; a buffer that stands for an input buffer has that one's message.
Tallied(s, l, p, st, M) ==
  /\ st[l] + Len(s[l].queued) + Len(s[l].waiting) = p[l - 1]
  /\ \A j \in 1 .. Len(s[l].waiting) :
       M[l - 1][s[l - 1].from[s[l].waiting[j]]] = st[l] + Len(s[l].queued) + j
  /\ \A b \in Tids(l) :
       M[l][b] = IF s[l].zfrom[b] = None THEN s[l].msg[b]
                 ELSE M[l - 1][s[l - 1].from[s[l].zfrom[b]]]

\* Link l and the input of the link before: its buffers that were sent on, p
\* messages in all.
Joint(s, l, p, st, M) == Shared(s, l) /\ Tallied(s, l, p, st, M)

\* The consumer's window w.
Kept(r, m, w) ==
  /\ \A i \in 1 .. Len(w) :
       /\ w[i].buffer \in Tids(Sink) /\ r.inInUse[w[i].buffer]
       /\ ~HasIn(r, w[i].buffer) /\ m[r.from[w[i].buffer]] = w[i].message
  /\ \A i, j \in 1 .. Len(w) : w[i].buffer = w[j].buffer => i = j
  /\ \A x \in Tids(Sink) : r.inInUse[x] => HasIn(r, x) \/ \E i \in 1 .. Len(w) : w[i].buffer = x

\* One link: n messages were handed over at its input, st were attached.
LinkInv(r, l, n, st, m) ==
  /\ m \in [Tids(l) -> Nat]
  /\ Sides(r, l) /\ Ring(r, l, n, st, m) /\ Queue(r, st, m)
  /\ Frugal => OutOwned(r, l, {})

\* The whole line: n[l] messages were handed over behind link l, p[l - 1] were
\* sent to it, st[l] were attached at its input, M[l] is what its buffers hold.
Lines(s, n, p, w, st, M) ==
  /\ s = [l \in Links |-> s[l]]
  /\ n \in [Links -> Nat] /\ p \in [0 .. NumLinks - 1 -> Nat]
  /\ st \in [Links -> Nat] /\ M = [l \in Links |-> M[l]]
  /\ \A l \in Links : LinkInv(s[l], l, n[l], st[l], M[l]) /\ Joint(s, l, p, st, M)
  /\ Kept(s[Sink], M[Sink], w)

\* Two lines that differ in link l alone.
Beside(l, s, n, p, st, M, u, n2, p2, st2, M2) ==
  /\ l \in Links
  /\ u = [i \in Links |-> u[i]]
  /\ n2 \in [Links -> Nat] /\ p2 \in [0 .. NumLinks - 1 -> Nat]
  /\ st2 \in [Links -> Nat] /\ M2 = [i \in Links |-> M2[i]]
  /\ \A i \in Links : i # l =>
       u[i] = s[i] /\ n2[i] = n[i] /\ st2[i] = st[i] /\ M2[i] = M[i]
  /\ \A i \in 0 .. NumLinks - 1 : i # l - 1 /\ i # l => p2[i] = p[i]


\* The arithmetic of link numbers that the proofs keep needing.
LEMMA LinkFacts ==
  ASSUME NEW l \in Links
  PROVE  /\ l \in Nat /\ l >= 1 /\ l <= NumLinks /\ l # 0 /\ Sink \in Links
         /\ NumLinks \in Nat /\ NumBufs[l] \in Nat \ {0}
         /\ l - 1 \in 0 .. NumLinks - 1
         /\ l # 1 => l - 1 \in Links /\ l - 1 # l /\ PrevTids(l) = Tids(l - 1)
         /\ l < NumLinks => l + 1 \in Links /\ l + 1 # 1 /\ (l + 1) - 1 = l /\ l \in 0 .. NumLinks - 1
                            /\ PrevTids(l + 1) = Tids(l) /\ l + 1 # l
         /\ l >= NumLinks => l = Sink
         /\ None \notin Tids(l) /\ None \notin PrevTids(l)
BY LocalLinksAssumption DEF Links, Tids, PrevTids, None, Sink

\* What a link's queue of transfers has for its input, what was sent on to it
\* and what it reads through it stay the same.
LEMMA SameJoint ==
  ASSUME NEW s, NEW u, NEW l \in Links, NEW p, NEW p2, NEW st, NEW st2, NEW M, NEW M2,
         s[l] \in LinkState(l), Joint(s, l, p, st, M),
         u[l].waiting = s[l].waiting, u[l].zfrom = s[l].zfrom, u[l].msg = s[l].msg,
         st2[l] + Len(u[l].queued) = st[l] + Len(s[l].queued),
         M2[l] = M[l], p2[l - 1] = p[l - 1],
         l # 1 => /\ u[l - 1].in = s[l - 1].in /\ u[l - 1].inInUse = s[l - 1].inInUse
                  /\ \A x \in Tids(l - 1) : s[l - 1].inInUse[x] =>
                       M2[l - 1][u[l - 1].from[x]] = M[l - 1][s[l - 1].from[x]]
  PROVE  Joint(u, l, p2, st2, M2)
<1>1. /\ s[l].zfrom \in [Tids(l) -> PrevTids(l) \cup {None}]
      /\ s[l].waiting \in Seq(PrevTids(l))
  BY DEF LinkState
<1>2. l # 1 => PrevTids(l) = Tids(l - 1)
  BY LinkFacts
<1>3. l = 1 => PrevTids(l) = {}
  BY DEF PrevTids
<1>4. \A x \in PrevTids(l) :
        /\ InSeq(x, u[l].waiting) <=> InSeq(x, s[l].waiting)
        /\ HasIn(u[l - 1], x) <=> HasIn(s[l - 1], x)
        /\ u[l - 1].inInUse[x] <=> s[l - 1].inInUse[x]
        /\ s[l - 1].inInUse[x] => M2[l - 1][u[l - 1].from[x]] = M[l - 1][s[l - 1].from[x]]
  BY <1>2, <1>3 DEF HasIn
<1>5. \A b \in Tids(l) : s[l].zfrom[b] # None => s[l].zfrom[b] \in PrevTids(l)
  BY <1>1
<1>6. \A j \in 1 .. Len(s[l].waiting) : /\ s[l].waiting[j] \in PrevTids(l)
                                        /\ InSeq(s[l].waiting[j], s[l].waiting)
  BY <1>1 DEF InSeq
<1>7. \A x \in PrevTids(l) : InSeq(x, u[l].waiting) =>
       /\ u[l - 1].inInUse[x] /\ ~HasIn(u[l - 1], x)
       /\ \A b \in Tids(l) : u[l].zfrom[b] # x
  BY <1>4 DEF Joint, Shared
<1>8. \A b \in Tids(l) : u[l].zfrom[b] # None =>
       u[l - 1].inInUse[u[l].zfrom[b]] /\ ~HasIn(u[l - 1], u[l].zfrom[b])
  BY <1>4, <1>5 DEF Joint, Shared
<1>9. \A x \in PrevTids(l) : u[l - 1].inInUse[x] =>
       HasIn(u[l - 1], x) \/ InSeq(x, u[l].waiting) \/ \E b \in Tids(l) : u[l].zfrom[b] = x
  BY <1>4 DEF Joint, Shared
<1>10. ASSUME NEW j \in 1 .. Len(u[l].waiting)
       PROVE  M2[l - 1][u[l - 1].from[u[l].waiting[j]]] = st2[l] + Len(u[l].queued) + j
  <2> DEFINE x == s[l].waiting[j]
  <2>1. x \in PrevTids(l) /\ InSeq(x, s[l].waiting) /\ u[l].waiting[j] = x
    BY <1>6
  <2>2. M[l - 1][s[l - 1].from[x]] = st[l] + Len(s[l].queued) + j
    BY DEF Joint, Tallied
  <2> HIDE DEF x
  <2>3. s[l - 1].inInUse[x]
    BY <2>1 DEF Joint, Shared
  <2>4. M2[l - 1][u[l - 1].from[x]] = M[l - 1][s[l - 1].from[x]]
    BY <1>4, <2>1, <2>3
  <2>5. QED
    BY <2>1, <2>2, <2>4
<1>11. ASSUME NEW b \in Tids(l)
       PROVE  M2[l][b] = IF u[l].zfrom[b] = None THEN u[l].msg[b]
                        ELSE M2[l - 1][u[l - 1].from[u[l].zfrom[b]]]
  <2>1. s[l].zfrom[b] # None => s[l - 1].inInUse[s[l].zfrom[b]]
    BY DEF Joint, Shared
  <2>2. M[l][b] = IF s[l].zfrom[b] = None THEN s[l].msg[b]
                  ELSE M[l - 1][s[l - 1].from[s[l].zfrom[b]]]
    BY DEF Joint, Tallied
  <2>3. s[l].zfrom[b] # None =>
          M2[l - 1][u[l - 1].from[s[l].zfrom[b]]] = M[l - 1][s[l - 1].from[s[l].zfrom[b]]]
    BY <1>4, <1>5, <2>1
  <2>4. QED
    BY <2>2, <2>3
<1>12. st2[l] + Len(u[l].queued) + Len(u[l].waiting) = p2[l - 1]
  BY DEF Joint, Tallied
<1>13. QED
  BY <1>7, <1>8, <1>9, <1>10, <1>11, <1>12 DEF Joint, Shared, Tallied

\* The window stays valid when the buffers in it keep their messages.
LEMMA SameKept ==
  ASSUME NEW r, NEW q, NEW m, NEW m2, NEW w, Kept(r, m, w),
         q.in = r.in, q.inInUse = r.inInUse,
         \A x \in Tids(Sink) : r.inInUse[x] => m2[q.from[x]] = m[r.from[x]]
  PROVE  Kept(q, m2, w)
BY DEF Kept, HasIn


\* A line with one link changed.
LEMMA Rebuild ==
  ASSUME NEW s, NEW n, NEW p, NEW w, NEW st, NEW M, Lines(s, n, p, w, st, M),
         NEW l, NEW u, NEW n2, NEW p2, NEW w2, NEW st2, NEW M2,
         Beside(l, s, n, p, st, M, u, n2, p2, st2, M2),
         LinkInv(u[l], l, n2[l], st2[l], M2[l]),
         l # Sink => w2 = w, l = Sink => Kept(u[l], M2[l], w2),
         Joint(u, l, p2, st2, M2), l < NumLinks => Joint(u, l + 1, p2, st2, M2)
  PROVE  Lines(u, n2, p2, w2, st2, M2)
<1>1. l \in Links
  BY DEF Beside
<1>2. \A i \in Links : i # l =>
        u[i] = s[i] /\ n2[i] = n[i] /\ st2[i] = st[i] /\ M2[i] = M[i]
  BY DEF Beside
<1>3. ASSUME NEW i \in Links PROVE Joint(u, i, p2, st2, M2)
  <2>1. CASE i # l /\ i # l + 1
    <3>1. i # 1 => i - 1 \in Links /\ i - 1 # l
      BY <1>1, <2>1, LinkFacts
    <3>2. /\ u[i] = s[i] /\ st2[i] = st[i] /\ M2[i] = M[i]
          /\ i # 1 => u[i - 1] = s[i - 1] /\ M2[i - 1] = M[i - 1]
      BY <1>2, <2>1, <3>1
    <3>3. i - 1 \in 0 .. NumLinks - 1 /\ i - 1 # l - 1 /\ i - 1 # l
      BY <1>1, <2>1, LinkFacts
    <3>4. p2[i - 1] = p[i - 1]
      BY <3>3 DEF Beside
    <3>5. s[i] \in LinkState(i) /\ Joint(s, i, p, st, M)
      BY DEF Lines, LinkInv, Sides
    <3>6. QED
      BY <3>2, <3>4, <3>5, SameJoint
  <2>2. CASE i = l
    BY <2>2
  <2>3. CASE i = l + 1
    BY <1>1, <2>3, LinkFacts
  <2>4. QED
    BY <2>1, <2>2, <2>3
<1>4. Kept(u[Sink], M2[Sink], w2)
  <2>1. CASE l = Sink
    BY <2>1
  <2>2. CASE l # Sink
    BY <1>1, <1>2, <2>2, LinkFacts DEF Lines
  <2>3. QED
    BY <2>1, <2>2
<1>5. ASSUME NEW i \in Links
      PROVE  LinkInv(u[i], i, n2[i], st2[i], M2[i])
  BY <1>1, <1>2 DEF Lines
<1>6. QED
  BY <1>1, <1>3, <1>4, <1>5 DEF Lines, Beside

\* The input buffers in use stay so, and have the same messages.
SameInputs(l, r, m, q, m2) ==
  /\ q.in = r.in /\ q.inInUse = r.inInUse
  /\ \A x \in Tids(l) : r.inInUse[x] => m2[q.from[x]] = m[r.from[x]]

\* The output side of link l changes; the messages in its input buffers that
\* are in use do not.
LEMMA OutputSide ==
  ASSUME NEW s, NEW n, NEW p, NEW w, NEW st, NEW M, Lines(s, n, p, w, st, M),
         NEW l, NEW u, NEW p2, NEW st2, NEW M2,
         Beside(l, s, n, p, st, M, u, n, p2, st2, M2),
         LinkInv(u[l], l, n[l], st2[l], M2[l]),
         SameInputs(l, s[l], M[l], u[l], M2[l]), l < NumLinks => p2[l] = p[l],
         Joint(u, l, p2, st2, M2)
  PROVE  Lines(u, n, p2, w, st2, M2)
<1>1. l \in Links
  BY DEF Beside
<1>2. ASSUME l < NumLinks PROVE Joint(u, l + 1, p2, st2, M2)
  <2> DEFINE i == l + 1
  <2>1. i \in Links /\ i # 1 /\ i - 1 = l /\ i # l
    BY <1>1, <1>2, LinkFacts
  <2>2. u[i] = s[i] /\ st2[i] = st[i] /\ M2[i] = M[i] /\ p2[i - 1] = p[i - 1]
    BY <1>2, <2>1 DEF Beside
  <2>3. s[i] \in LinkState(i) /\ Joint(s, i, p, st, M)
    BY <2>1 DEF Lines, LinkInv, Sides
  <2>4. /\ u[i - 1].in = s[i - 1].in /\ u[i - 1].inInUse = s[i - 1].inInUse
        /\ \A x \in Tids(i - 1) : s[i - 1].inInUse[x] =>
              M2[i - 1][u[i - 1].from[x]] = M[i - 1][s[i - 1].from[x]]
    BY <2>1 DEF SameInputs
  <2> HIDE DEF i
  <2>5. Joint(u, i, p2, st2, M2)
    BY <2>1, <2>2, <2>3, <2>4, SameJoint
  <2>6. QED
    BY <2>5 DEF i
<1>3. ASSUME l = Sink PROVE Kept(u[l], M2[l], w)
  <2>1. Kept(s[l], M[l], w)
    BY <1>3 DEF Lines
  <2>2. QED
    BY <1>3, <2>1, SameKept DEF SameInputs
<1>4. QED
  BY <1>2, <1>3, Rebuild

\* The input side of link l changes.
LEMMA InputSide ==
  ASSUME NEW s, NEW n, NEW p, NEW w, NEW st, NEW M, Lines(s, n, p, w, st, M),
         NEW l, NEW u, NEW n2, NEW w2,
         Beside(l, s, n, p, st, M, u, n2, p, st, M),
         Sides(u[l], l), Ring(u[l], l, n2[l], st[l], M[l]),
         u[l].out = s[l].out, u[l].outInUse = s[l].outInUse, u[l].queued = s[l].queued,
         u[l].waiting = s[l].waiting, u[l].zfrom = s[l].zfrom, u[l].msg = s[l].msg,
         l # Sink => w2 = w, l = Sink => Kept(u[l], M[l], w2),
         l < NumLinks => Joint(u, l + 1, p, st, M)
  PROVE  Lines(u, n2, p, w2, st, M)
<1>1. l \in Links
  BY DEF Beside
<1>2. LinkInv(u[l], l, n2[l], st[l], M[l])
  <2>1. LinkInv(s[l], l, n[l], st[l], M[l])
    BY <1>1 DEF Lines
  <2>2. Queue(u[l], st[l], M[l]) /\ (Frugal => OutOwned(u[l], l, {}))
    BY <2>1 DEF LinkInv, Queue, OutOwned, HasOut
  <2>3. QED
    BY <2>1, <2>2 DEF LinkInv
<1>3. Joint(u, l, p, st, M)
  <2>1. l # 1 => u[l - 1] = s[l - 1]
    BY <1>1, LinkFacts DEF Beside
  <2>2. s[l] \in LinkState(l) /\ Joint(s, l, p, st, M)
    BY <1>1 DEF Lines, LinkInv, Sides
  <2>3. QED
    BY <1>1, <2>1, <2>2, SameJoint
<1>4. QED
  BY <1>2, <1>3, Rebuild

\* A record with the fields of a link is a link.
LEMMA LinkStateIs ==
  ASSUME NEW l, NEW r,
         r = [out |-> r.out, in |-> r.in, lastTid |-> r.lastTid, lastOrd |-> r.lastOrd,
              nextTid |-> r.nextTid, outInUse |-> r.outInUse, inInUse |-> r.inInUse,
              from |-> r.from, zfrom |-> r.zfrom, msg |-> r.msg,
              queued |-> r.queued, waiting |-> r.waiting],
         r.out \in PortState(l), r.in \in PortState(l), r.lastTid \in Tids(l),
         r.lastOrd \in TidOrNone(l), r.nextTid \in Tids(l),
         r.outInUse \in [Tids(l) -> BOOLEAN], r.inInUse \in [Tids(l) -> BOOLEAN],
         r.from \in [Tids(l) -> TidOrNone(l)],
         r.zfrom \in [Tids(l) -> PrevTids(l) \cup {None}],
         r.msg \in [Tids(l) -> Nat], r.queued \in Seq(Tids(l)),
         r.waiting \in Seq(PrevTids(l))
  PROVE  r \in LinkState(l)
BY DEF LinkState

\* A link has the fields of a link.
LEMMA LinkFields ==
  ASSUME NEW l, NEW r \in LinkState(l)
  PROVE  /\ r = [out |-> r.out, in |-> r.in, lastTid |-> r.lastTid, lastOrd |-> r.lastOrd,
                 nextTid |-> r.nextTid, outInUse |-> r.outInUse, inInUse |-> r.inInUse,
                 from |-> r.from, zfrom |-> r.zfrom, msg |-> r.msg,
                 queued |-> r.queued, waiting |-> r.waiting]
         /\ r.out \in PortState(l) /\ r.in \in PortState(l) /\ r.lastTid \in Tids(l)
         /\ r.lastOrd \in TidOrNone(l) /\ r.nextTid \in Tids(l)
         /\ r.outInUse \in [Tids(l) -> BOOLEAN] /\ r.inInUse \in [Tids(l) -> BOOLEAN]
         /\ r.from \in [Tids(l) -> TidOrNone(l)]
         /\ r.zfrom \in [Tids(l) -> PrevTids(l) \cup {None}]
         /\ r.msg \in [Tids(l) -> Nat] /\ r.queued \in Seq(Tids(l))
         /\ r.waiting \in Seq(PrevTids(l))
BY DEF LinkState

\* The next ring position is a ring position.
LEMMA LaterTid ==
  ASSUME NEW l \in Links, NEW t \in Tids(l)
  PROVE  Later(l, t) \in Tids(l)
<1>1. NumBufs[l] \in Nat \ {0} /\ t + 1 \in Nat
  BY LinkFacts DEF Tids
<1>2. (t + 1) % NumBufs[l] \in 0 .. NumBufs[l] - 1
  BY <1>1, OnRing
<1>3. QED
  BY <1>2 DEF Tids, Later

\* An output buffer that is neither with the worker nor queued nor attached.
InHand(r, l, b) == b \in Tids(l) /\ r.outInUse[b] /\ ~HasOut(r, b) /\ ~InSeq(b, r.queued)

\* The fields of a link that sending a buffer leaves alone.
SentSame(r, q) ==
  /\ q.out = r.out /\ q.in = r.in /\ q.lastTid = r.lastTid /\ q.lastOrd = r.lastOrd
  /\ q.inInUse = r.inInUse /\ q.zfrom = r.zfrom /\ q.msg = r.msg /\ q.waiting = r.waiting

\* A link with an output buffer in hand.
Loose(r, l, n, st, m, b) ==
  /\ n \in Nat /\ st \in Nat /\ m \in [Tids(l) -> Nat]
  /\ Sides(r, l) /\ Ring(r, l, n, st, m)
  /\ InHand(r, l, b) /\ (Frugal => OutOwned(r, l, {b}))

\* The buffer in hand is attached, or queued.
Attached(r, q, l, b) ==
  /\ SentSame(r, q) /\ q.queued = r.queued
  /\ q.from = [r.from EXCEPT ![r.nextTid] = b]
  /\ q.nextTid = Later(l, r.nextTid)
  /\ q.outInUse = [r.outInUse EXCEPT ![b] = FALSE]

Enqueued(r, q, b) ==
  /\ SentSame(r, q) /\ q.queued = Append(r.queued, b)
  /\ q.from = r.from /\ q.nextTid = r.nextTid /\ q.outInUse = r.outInUse

\* Circuit::startBufferTransfer keeps what holds for a link: the next input
\* buffer is free, and gets the next message.
LEMMA Attach ==
  ASSUME NEW l \in Links, NEW r, NEW n, NEW st, NEW m, NEW b, Loose(r, l, n, st, m, b),
         Queue(r, st + 1, m), m[b] = st + 1, r.from[r.nextTid] = None,
         NEW q \in LinkState(l), Attached(r, q, l, b)
  PROVE  /\ LinkInv(q, l, n, st + 1, m)
         /\ \A x \in Tids(l) : r.inInUse[x] => q.from[x] = r.from[x]
<1> DEFINE N == NumBufs[l]
           t == r.nextTid
<1> USE DEF Loose, Attached
<1>1. /\ N \in Nat \ {0} /\ Tids(l) = 0 .. N - 1 /\ None \notin Tids(l)
  BY LinkFacts DEF Tids
<1>2. /\ t \in Tids(l) /\ b \in Tids(l) /\ t = st % N
      /\ r.from \in [Tids(l) -> TidOrNone(l)] /\ r.outInUse \in [Tids(l) -> BOOLEAN]
      /\ r.inInUse \in [Tids(l) -> BOOLEAN]
  BY DEF Sides, LinkState, Ring, InHand
<1>3. /\ \A x \in Tids(l) : q.from[x] = IF x = t THEN b ELSE r.from[x]
      /\ \A x \in Tids(l) : q.outInUse[x] <=> r.outInUse[x] /\ x # b
  BY <1>2
<1>4. ~r.inInUse[t]
  BY <1>2 DEF Sides
<1>5. n <= st /\ st <= n + N /\ t \notin Arc(N, n, st)
  BY <1>2 DEF Ring
<1>6. st < n + N
  <2>1. Arc(N, n, n + N) = Tids(l)
    BY <1>1, ArcFull
  <2>2. st # n + N
    BY <1>2, <1>5, <2>1
  <2>3. n + N \in Nat
    BY <1>1
  <2>4. QED
    BY <1>5, <2>2, <2>3
<1>7. Arc(N, n, st + 1) = Arc(N, n, st) \cup {t}
  <2>1. Arc(N, n, st + 1) = Arc(N, n, st) \cup {st % N}
    BY <1>1, <1>5, <1>6, ArcGrows
  <2>2. QED
    BY <1>2, <2>1
<1>8. q.nextTid = (st + 1) % N
  BY <1>1, <1>2, StepOnRing, SMTT(30) DEF Later
<1>9. \A x \in Tids(l) : r.from[x] # b
  BY <1>1, <1>2, SMTT(30) DEF Sides, InHand
<1>10. Sides(q, l)
  <2>1. /\ ~q.out.data => q.out.ready
        /\ ~q.in.data => q.in.ready
        /\ q.out.data => /\ q.out.buffer \in Tids(l) /\ q.outInUse[q.out.buffer]
                         /\ q.zfrom[q.out.buffer] = None
                         /\ ~InSeq(q.out.buffer, q.queued)
        /\ q.in.data => q.in.buffer \in Tids(l) /\ q.inInUse[q.in.buffer]
    BY <1>3 DEF Sides, SentSame, InHand, HasOut
  <2>2. /\ \A c \in Tids(l) : InSeq(c, q.queued) => q.outInUse[c]
        /\ Distinct(q.queued) /\ Distinct(q.waiting)
        /\ \A c, d \in Tids(l) : q.zfrom[c] # None /\ q.zfrom[c] = q.zfrom[d] => c = d
    BY <1>3 DEF Sides, SentSame, InHand
  <2>3. /\ \A x, y \in Tids(l) : q.from[x] # None /\ q.from[x] = q.from[y] => x = y
        /\ \A x \in Tids(l) : q.from[x] # None => ~q.outInUse[q.from[x]]
        /\ \A x \in Tids(l) : q.inInUse[x] => q.from[x] # None
    <3>1. ASSUME NEW x \in Tids(l), NEW y \in Tids(l), q.from[x] # None, q.from[x] = q.from[y]
          PROVE  x = y
      BY <1>3, <1>9, <3>1 DEF Sides
    <3>2. ASSUME NEW x \in Tids(l), q.from[x] # None PROVE ~q.outInUse[q.from[x]]
      <4>1. CASE x = t
        BY <1>2, <1>3, <4>1
      <4>2. CASE x # t
        <5>1. q.from[x] = r.from[x] /\ r.from[x] \in Tids(l) /\ ~r.outInUse[r.from[x]]
          BY <1>2, <1>3, <3>2, <4>2 DEF TidOrNone, Sides
        <5>2. QED
          BY <1>3, <5>1
      <4>3. QED
        BY <4>1, <4>2
    <3>3. ASSUME NEW x \in Tids(l), q.inInUse[x] PROVE q.from[x] # None
      <4>1. r.inInUse[x]
        BY <3>3 DEF SentSame
      <4>2. QED
        BY <1>3, <1>4, <4>1 DEF Sides
    <3>4. QED
      BY <3>1, <3>2, <3>3
  <2>4. QED
    BY <2>1, <2>2, <2>3 DEF Sides
<1>11. Ring(q, l, n, st + 1, m)
  <2>1. {x \in Tids(l) : q.from[x] # None /\ ~q.inInUse[x]} = Arc(N, n, st) \cup {t}
    <3>1. {x \in Tids(l) : r.from[x] # None /\ ~r.inInUse[x]} = Arc(N, n, st)
      BY DEF Ring
    <3>2. \A x \in Tids(l) : q.inInUse[x] <=> r.inInUse[x]
      BY DEF SentSame
    <3>3. b # None
      BY <1>1, <1>2
    <3>4. QED
      BY <1>2, <1>3, <1>4, <3>1, <3>2, <3>3
  <2>2. ASSUME NEW i \in n .. (st + 1) - 1 PROVE m[q.from[i % N]] = i + 1
    <3>1. i % N \in Tids(l)
      <4>1. i \in Nat
        OBVIOUS
      <4>2. i % N \in 0 .. N - 1
        BY <1>1, <4>1, OnRing
      <4>3. QED
        BY <1>1, <4>2
    <3>2. CASE i = st
      BY <1>2, <1>3, <3>2
    <3>3. CASE i < st
      <4>1. i % N # t
        <5>1. i \in Nat /\ i <= st /\ st < i + N
          BY <1>1, <1>6, <3>3
        <5>2. QED
          BY <1>1, <1>2, <3>3, <5>1, SamePosition
      <4>2. i \in n .. st - 1
        BY <3>3
      <4>3. QED
        BY <1>3, <3>1, <4>1, <4>2 DEF Ring
    <3>4. QED
      BY <3>2, <3>3
  <2>3. q.in.data => n > 0 /\ m[q.from[q.in.buffer]] = n
    <3>1. SUFFICES ASSUME q.in.data PROVE n > 0 /\ m[q.from[q.in.buffer]] = n
      OBVIOUS
    <3>2. r.in.data /\ q.in.buffer = r.in.buffer
      BY <3>1 DEF SentSame
    <3>3. r.in.buffer \in Tids(l) /\ r.in.buffer # t /\ n > 0 /\ m[r.from[r.in.buffer]] = n
      BY <1>4, <3>2 DEF Sides, Ring
    <3>4. QED
      BY <1>3, <3>2, <3>3
  <2>4. Later(l, q.lastOrd) = n % N
    BY DEF Ring, SentSame
  <2>5. n <= st + 1 /\ st + 1 <= n + N
    BY <1>1, <1>5, <1>6
  <2>6. {x \in Tids(l) : q.from[x] # None /\ ~q.inInUse[x]} = Arc(N, n, st + 1)
    BY <1>7, <2>1
  <2>7. QED
    BY <1>8, <2>2, <2>3, <2>4, <2>5, <2>6 DEF Ring
<1>12. Queue(q, st + 1, m)
  BY DEF Queue
<1>13. ASSUME Frugal PROVE OutOwned(q, l, {})
  BY <1>3, <1>13 DEF OutOwned, HasOut, SentSame
<1>14. QED
  BY <1>3, <1>4, <1>10, <1>11, <1>12, <1>13 DEF LinkInv

\* What appending to a sequence does to its members.
LEMMA AppendFacts ==
  ASSUME NEW S, NEW q \in Seq(S), NEW x \in S
  PROVE  /\ Append(q, x) \in Seq(S) /\ Len(Append(q, x)) = Len(q) + 1
         /\ \A i \in 1 .. Len(q) : Append(q, x)[i] = q[i]
         /\ Append(q, x)[Len(q) + 1] = x
         /\ \A y : InSeq(y, Append(q, x)) <=> InSeq(y, q) \/ y = x
         /\ Distinct(q) /\ ~InSeq(x, q) => Distinct(Append(q, x))
BY DEF InSeq, Distinct

\* What removing the head of a sequence does to its members.
LEMMA TailFacts ==
  ASSUME NEW S, NEW q \in Seq(S), q # <<>>
  PROVE  /\ Tail(q) \in Seq(S) /\ Len(Tail(q)) = Len(q) - 1 /\ Len(q) >= 1
         /\ \A i \in 1 .. Len(q) - 1 : Tail(q)[i] = q[i + 1]
         /\ Head(q) = q[1] /\ Head(q) \in S /\ InSeq(Head(q), q)
         /\ \A y : InSeq(y, q) <=> InSeq(y, Tail(q)) \/ y = Head(q)
         /\ Distinct(q) => Distinct(Tail(q)) /\ ~InSeq(Head(q), Tail(q))
<1>1. /\ Tail(q) \in Seq(S) /\ Len(Tail(q)) = Len(q) - 1 /\ Len(q) >= 1
      /\ \A i \in 1 .. Len(q) - 1 : Tail(q)[i] = q[i + 1]
      /\ Head(q) = q[1] /\ Head(q) \in S
  OBVIOUS
<1>2. \A i \in 1 .. Len(Tail(q)) : i + 1 \in 1 .. Len(q)
  BY <1>1
<1>3. \A i \in 2 .. Len(q) : i - 1 \in 1 .. Len(Tail(q)) /\ Tail(q)[i - 1] = q[i]
  BY <1>1
<1>4. ASSUME NEW y PROVE InSeq(y, q) <=> InSeq(y, Tail(q)) \/ y = Head(q)
  <2>1. ASSUME InSeq(y, q) PROVE InSeq(y, Tail(q)) \/ y = Head(q)
    <3>1. PICK i \in 1 .. Len(q) : q[i] = y
      BY <2>1 DEF InSeq
    <3>2. CASE i = 1
      BY <1>1, <3>1, <3>2
    <3>3. CASE i \in 2 .. Len(q)
      BY <1>3, <3>1, <3>3 DEF InSeq
    <3>4. QED
      BY <3>2, <3>3
  <2>2. ASSUME InSeq(y, Tail(q)) PROVE InSeq(y, q)
    <3>1. PICK i \in 1 .. Len(Tail(q)) : Tail(q)[i] = y
      BY <2>2 DEF InSeq
    <3>2. i + 1 \in 1 .. Len(q) /\ q[i + 1] = y
      BY <1>1, <3>1
    <3>3. QED
      BY <3>2 DEF InSeq
  <2>3. ASSUME y = Head(q) PROVE InSeq(y, q)
    BY <1>1, <2>3 DEF InSeq
  <2>4. QED
    BY <2>1, <2>2, <2>3
<1>5. ASSUME Distinct(q) PROVE Distinct(Tail(q)) /\ ~InSeq(Head(q), Tail(q))
  <2>1. ASSUME NEW i \in 1 .. Len(Tail(q)), NEW j \in 1 .. Len(Tail(q)), Tail(q)[i] = Tail(q)[j]
        PROVE  i = j
    <3>1. q[i + 1] = q[j + 1] /\ i + 1 \in 1 .. Len(q) /\ j + 1 \in 1 .. Len(q)
      BY <1>1, <2>1
    <3>2. i + 1 = j + 1
      BY <1>5, <3>1 DEF Distinct
    <3>3. QED
      BY <3>2
  <2>2. ASSUME NEW i \in 1 .. Len(Tail(q)), Tail(q)[i] = Head(q) PROVE FALSE
    <3>1. q[i + 1] = q[1] /\ i + 1 \in 1 .. Len(q) /\ 1 \in 1 .. Len(q)
      BY <1>1, <2>2
    <3>2. i + 1 = 1
      BY <1>5, <3>1 DEF Distinct
    <3>3. QED
      BY <3>2
  <2>3. QED
    BY <2>1, <2>2 DEF Distinct, InSeq
<1>6. QED
  BY <1>1, <1>4, <1>5 DEF InSeq

\* Queueing a transfer keeps what holds for a link.
LEMMA Enqueue ==
  ASSUME NEW l \in Links, NEW r, NEW n, NEW st, NEW m, NEW b, Loose(r, l, n, st, m, b),
         Queue(r, st, m), m[b] = st + Len(r.queued) + 1,
         NEW q \in LinkState(l), Enqueued(r, q, b)
  PROVE  LinkInv(q, l, n, st, m)
<1> USE DEF Loose, Enqueued
<1>1. b \in Tids(l) /\ r.queued \in Seq(Tids(l)) /\ ~InSeq(b, r.queued)
  BY DEF Sides, LinkState, InHand
<1>2. /\ Len(q.queued) = Len(r.queued) + 1 /\ Len(r.queued) \in Nat
      /\ \A i \in 1 .. Len(r.queued) : q.queued[i] = r.queued[i]
      /\ q.queued[Len(r.queued) + 1] = b
      /\ \A y : InSeq(y, q.queued) <=> InSeq(y, r.queued) \/ y = b
      /\ Distinct(q.queued)
  BY <1>1, AppendFacts DEF Sides
<1>3. Sides(q, l)
  BY <1>2 DEF Sides, SentSame, InHand, HasOut
<1>4. Ring(q, l, n, st, m)
  BY DEF Ring, SentSame
<1>5. Queue(q, st, m)
  <2>1. ASSUME NEW j \in 1 .. Len(q.queued) PROVE m[q.queued[j]] = st + j
    <3>1. CASE j = Len(r.queued) + 1
      BY <1>2, <3>1
    <3>2. CASE j \in 1 .. Len(r.queued)
      BY <1>2, <3>2 DEF Queue
    <3>3. QED
      BY <1>2, <3>1, <3>2
  <2>2. QED
    BY <2>1 DEF Queue
<1>6. ASSUME Frugal PROVE OutOwned(q, l, {})
  BY <1>2, <1>6 DEF OutOwned, HasOut, SentSame
<1>7. QED
  BY <1>3, <1>4, <1>5, <1>6 DEF LinkInv

Shape(s) == s = [l \in Links |-> s[l]] /\ \A l \in Links : s[l] \in LinkState(l)

\* u is s with another state of link l.
Elsewhere(l, s, u) ==
  /\ Shape(u)
  /\ \A k \in Links : k # l => u[k] = s[k]

\* Assigning a link leaves the others alone.
LEMMA Overwrite ==
  ASSUME NEW s, Shape(s), NEW l \in Links, NEW r \in LinkState(l), NEW u,
         u = [k \in Links |-> IF k = l THEN r ELSE s[k]]
  PROVE  u[l] = r /\ Elsewhere(l, s, u)
BY DEF Shape, Elsewhere

\* What LocalLinks.Start changes.
LEMMA StartIs ==
  ASSUME NEW s, Shape(s), NEW l \in Links, NEW b \in Tids(l),
         NEW u, u = Start(s, l, b)
  PROVE  Elsewhere(l, s, u) /\ Attached(s[l], u[l], l, b)
<1> DEFINE n == s[l].nextTid
           f == [s[l].from EXCEPT ![n] = b]
           o == [s[l].outInUse EXCEPT ![b] = FALSE]
           m == Later(l, n)
           r == [s[l] EXCEPT !.from = f, !.nextTid = m, !.outInUse = o]
<1>1. s[l] \in LinkState(l)
  BY DEF Shape
<1>2. n \in Tids(l) /\ f \in [Tids(l) -> TidOrNone(l)] /\ o \in [Tids(l) -> BOOLEAN]
  BY <1>1 DEF LinkState, TidOrNone
<1>3. m \in Tids(l)
  BY <1>2, LaterTid
<1>4. u = [k \in Links |-> IF k = l THEN r ELSE s[k]]
  BY <1>1 DEF Start, Shape, LinkState
<1> HIDE DEF f, o, m
<1>5. r \in LinkState(l)
  BY <1>1, <1>2, <1>3 DEF LinkState
<1>6. /\ SentSame(s[l], r) /\ r.queued = s[l].queued
      /\ r.from = f /\ r.nextTid = m /\ r.outInUse = o
  BY <1>1 DEF SentSame, LinkState
<1> HIDE DEF r
<1>7. u[l] = r /\ Elsewhere(l, s, u)
  BY <1>4, <1>5, Overwrite
<1>8. QED
  BY <1>6, <1>7 DEF f, o, m, Attached

\* What queueing changes.
LEMMA EnqueueIs ==
  ASSUME NEW s, Shape(s), NEW l \in Links, NEW b \in Tids(l),
         NEW u, u = [s EXCEPT ![l].queued = Append(@, b)]
  PROVE  Elsewhere(l, s, u) /\ Enqueued(s[l], u[l], b)
<1> DEFINE q == Append(s[l].queued, b)
           r == [s[l] EXCEPT !.queued = q]
<1>1. s[l] \in LinkState(l)
  BY DEF Shape
<1>2. q \in Seq(Tids(l))
  BY <1>1, AppendFacts DEF LinkState
<1>3. u = [k \in Links |-> IF k = l THEN r ELSE s[k]]
  BY <1>1 DEF Shape, LinkState
<1> HIDE DEF q
<1>4. r \in LinkState(l)
  BY <1>1, <1>2 DEF LinkState
<1>5. /\ SentSame(s[l], r) /\ r.queued = q /\ r.from = s[l].from
      /\ r.nextTid = s[l].nextTid /\ r.outInUse = s[l].outInUse
  BY <1>1 DEF SentSame, LinkState
<1> HIDE DEF r
<1>6. u[l] = r /\ Elsewhere(l, s, u)
  BY <1>3, <1>4, Overwrite
<1>7. QED
  BY <1>5, <1>6 DEF q, Enqueued

\* k messages were attached or are queued.
Holds(q, l, n, m, k) == \E j \in Nat : LinkInv(q, l, n, j, m) /\ j + Len(q.queued) = k

\* Port::sendOutputBuffer keeps what holds for a link, whichever way it takes.
LEMMA SendOutputLink ==
  ASSUME NEW s, Shape(s), NEW l \in Links, NEW n, NEW st, NEW m, NEW b,
         Loose(s[l], l, n, st, m, b), Queue(s[l], st, m),
         m[b] = st + Len(s[l].queued) + 1,
         NEW u, u = SendOutput(s, l, b)
  PROVE  /\ Elsewhere(l, s, u) /\ SentSame(s[l], u[l])
         /\ SameInputs(l, s[l], m, u[l], m)
         /\ Holds(u[l], l, n, m, st + Len(s[l].queued) + 1)
<1>1. /\ b \in Tids(l) /\ s[l] \in LinkState(l) /\ s[l].queued \in Seq(Tids(l))
      /\ Len(s[l].queued) \in Nat /\ st \in Nat
  BY DEF Loose, InHand, Shape, LinkState
<1>2. CASE s[l].queued = <<>> /\ CanProduce(s, l)
  <2>1. u = Start(s, l, b)
    BY <1>2 DEF SendOutput
  <2>2. Elsewhere(l, s, u) /\ Attached(s[l], u[l], l, b)
    BY <1>1, <2>1, StartIs
  <2>3. s[l].from[s[l].nextTid] = None
    BY <1>2 DEF CanProduce, InputEmpty
  <2>4. Len(s[l].queued) = 0 /\ m[b] = st + 1
    BY <1>1, <1>2
  <2>5. Queue(s[l], st + 1, m)
    BY <2>4 DEF Queue
  <2>6. u[l] \in LinkState(l)
    BY <2>2 DEF Elsewhere, Shape
  <2>7. /\ LinkInv(u[l], l, n, st + 1, m)
        /\ \A x \in Tids(l) : s[l].inInUse[x] => u[l].from[x] = s[l].from[x]
    BY <2>2, <2>3, <2>4, <2>5, <2>6, Attach
  <2>8. st + 1 \in Nat /\ st + 1 + Len(u[l].queued) = st + Len(s[l].queued) + 1
    BY <1>1, <2>2, <2>4 DEF Attached
  <2>9. QED
    BY <2>2, <2>7, <2>8 DEF Attached, SentSame, SameInputs, Holds
<1>3. CASE ~(s[l].queued = <<>> /\ CanProduce(s, l))
  <2>1. u = [s EXCEPT ![l].queued = Append(@, b)]
    BY <1>3 DEF SendOutput
  <2>2. Elsewhere(l, s, u) /\ Enqueued(s[l], u[l], b)
    BY <1>1, <2>1, EnqueueIs
  <2>3. u[l] \in LinkState(l)
    BY <2>2 DEF Elsewhere, Shape
  <2>4. LinkInv(u[l], l, n, st, m)
    BY <2>2, <2>3, Enqueue
  <2>5. st + Len(u[l].queued) = st + Len(s[l].queued) + 1
    BY <1>1, <2>2, AppendFacts DEF Enqueued
  <2>6. QED
    BY <1>1, <2>2, <2>4, <2>5 DEF Enqueued, SentSame, SameInputs, Holds
<1>4. QED
  BY <1>2, <1>3

\* The links of a sound line are links.
LEMMA LinesShape ==
  ASSUME NEW s, NEW n, NEW p, NEW w, NEW st, NEW M, Lines(s, n, p, w, st, M)
  PROVE  Shape(s)
BY DEF Lines, Shape, LinkInv, Sides

\* What the invariant says of one link.
LEMMA LinesAt ==
  ASSUME NEW s, NEW n, NEW p, NEW w, NEW st, NEW M, Lines(s, n, p, w, st, M),
         NEW l \in Links
  PROVE  /\ s[l] \in LinkState(l) /\ n[l] \in Nat /\ st[l] \in Nat
         /\ M[l] \in [Tids(l) -> Nat]
         /\ Sides(s[l], l) /\ Ring(s[l], l, n[l], st[l], M[l]) /\ Queue(s[l], st[l], M[l])
         /\ Frugal => OutOwned(s[l], l, {})
         /\ Joint(s, l, p, st, M)
         /\ p[l - 1] \in Nat
BY LinkFacts DEF Lines, LinkInv, Sides

\* Of link l, only what was sent to it, attached and held changes; st1 counts
\* one message more.
Counted(l, p, p2, st, st1, M, M2) ==
  /\ p2 \in [0 .. NumLinks - 1 -> Nat]
  /\ \A i \in 0 .. NumLinks - 1 : i # l - 1 => p2[i] = p[i]
  /\ st1 \in [Links -> Nat] /\ st1[l] = st[l] + 1
  /\ \A i \in Links : i # l => st1[i] = st[i]
  /\ M2 = [i \in Links |-> M2[i]]
  /\ \A i \in Links : i # l => M2[i] = M[i]

\* The buffer in hand has the message after those queued.
IsNext(r, l, n, st, m, b) ==
  Loose(r, l, n, st, m, b) /\ Queue(r, st, m) /\ m[b] = st + Len(r.queued) + 1

\* An output buffer in hand that has the next message goes out.  In st1 it is
\* counted already.
LEMMA SendLine ==
  ASSUME NEW s, NEW n, NEW p, NEW w, NEW st, NEW M, Lines(s, n, p, w, st, M),
         NEW l \in Links, NEW v, Elsewhere(l, s, v),
         NEW p2, NEW st1, NEW M2, Counted(l, p, p2, st, st1, M, M2),
         NEW b, IsNext(v[l], l, n[l], st[l], M2[l], b),
         SameInputs(l, s[l], M[l], v[l], M2[l]),
         Joint(v, l, p2, st1, M2),
         NEW u, u = SendOutput(v, l, b)
  PROVE  /\ \E st2 : Lines(u, n, p2, w, st2, M2)
         /\ Elsewhere(l, s, u) /\ SentSame(v[l], u[l])
<1>1. n[l] \in Nat /\ st[l] \in Nat /\ Shape(v) /\ st1[l] = st[l] + 1 /\ st1[l] \in Nat
  BY LinesAt DEF Elsewhere, Counted
<1>2. /\ Elsewhere(l, v, u) /\ SentSame(v[l], u[l])
      /\ SameInputs(l, v[l], M2[l], u[l], M2[l])
      /\ Holds(u[l], l, n[l], M2[l], st[l] + Len(v[l].queued) + 1)
  BY <1>1, SendOutputLink DEF IsNext
<1>3. PICK j \in Nat : /\ LinkInv(u[l], l, n[l], j, M2[l])
                       /\ j + Len(u[l].queued) = st[l] + Len(v[l].queued) + 1
  BY <1>2 DEF Holds
<1> DEFINE st2 == [i \in Links |-> IF i = l THEN j ELSE st[i]]
<1>4. /\ st2 \in [Links -> Nat] /\ st2[l] = j
      /\ \A i \in Links : i # l => st2[i] = st[i]
  BY DEF Lines
<1> HIDE DEF st2
<1>5. Elsewhere(l, s, u)
  BY <1>2 DEF Elsewhere
<1>6. Beside(l, s, n, p, st, M, u, n, p2, st2, M2)
  BY <1>4, <1>5 DEF Beside, Elsewhere, Shape, Lines, Counted
<1>7. Joint(u, l, p2, st2, M2)
  <2>1. v[l] \in LinkState(l) /\ Len(v[l].queued) \in Nat
    BY <1>1 DEF Shape, LinkState
  <2>2. st2[l] + Len(u[l].queued) = st1[l] + Len(v[l].queued)
    <3>1. Len(u[l].queued) \in Nat
      BY <1>2 DEF Elsewhere, Shape, LinkState
    <3>2. QED
      BY <1>1, <1>3, <1>4, <2>1, <3>1
  <2>3. u[l].waiting = v[l].waiting /\ u[l].zfrom = v[l].zfrom /\ u[l].msg = v[l].msg
    BY <1>2 DEF SentSame
  <2>4. l # 1 => u[l - 1] = v[l - 1]
    BY <1>2, LinkFacts DEF Elsewhere
  <2>5. QED
    BY <2>1, <2>2, <2>3, <2>4, SameJoint
<1>8. SameInputs(l, s[l], M[l], u[l], M2[l])
  BY <1>2 DEF SameInputs
<1>9. l < NumLinks => p2[l] = p[l]
  BY LinkFacts DEF Counted
<1>10. LinkInv(u[l], l, n[l], st2[l], M2[l])
  BY <1>3, <1>4
<1>11. Lines(u, n, p2, w, st2, M2)
  BY <1>6, <1>7, <1>8, <1>9, <1>10, OutputSide
<1>12. QED
  BY <1>2, <1>5, <1>11

\* The first of the queue is attached.
UnqueuedFirst(r, q, l) ==
  /\ SentSame(r, q) /\ q.queued = Tail(r.queued)
  /\ q.from = [r.from EXCEPT ![r.nextTid] = Head(r.queued)]
  /\ q.nextTid = Later(l, r.nextTid)
  /\ q.outInUse = [r.outInUse EXCEPT ![Head(r.queued)] = FALSE]

\* What Circuit::checkQueuedTransfers changes.
LEMMA CheckQueuedIs ==
  ASSUME NEW s, Shape(s), NEW l \in Links, s[l].queued # <<>>, CanProduce(s, l),
         NEW u, u = CheckQueued(s, l)
  PROVE  Elsewhere(l, s, u) /\ UnqueuedFirst(s[l], u[l], l)
<1> DEFINE b == Head(s[l].queued)
           v == Start(s, l, b)
           q == Tail(s[l].queued)
           r == [v[l] EXCEPT !.queued = q]
<1>1. s[l] \in LinkState(l) /\ s[l].queued \in Seq(Tids(l))
  BY DEF Shape, LinkState
<1>2. b \in Tids(l) /\ q \in Seq(Tids(l))
  BY <1>1, TailFacts
<1>3. Elsewhere(l, s, v) /\ Attached(s[l], v[l], l, b)
  BY <1>2, StartIs
<1>4. u = [v EXCEPT ![l].queued = Tail(@)]
  BY DEF CheckQueued
<1> HIDE DEF b, v, q
<1>5. v[l] \in LinkState(l) /\ v = [k \in Links |-> v[k]] /\ v[l].queued = s[l].queued
  BY <1>3 DEF Elsewhere, Shape, Attached
<1>6. u = [k \in Links |-> IF k = l THEN r ELSE v[k]]
  BY <1>4, <1>5 DEF q
<1>7. r \in LinkState(l)
  BY <1>2, <1>5 DEF LinkState
<1>8. /\ SentSame(v[l], r) /\ r.queued = q /\ r.from = v[l].from
      /\ r.nextTid = v[l].nextTid /\ r.outInUse = v[l].outInUse
  BY <1>5 DEF SentSame, LinkState
<1> HIDE DEF r
<1>9. u[l] = r /\ Elsewhere(l, v, u)
  BY <1>3, <1>6, <1>7, Overwrite DEF Elsewhere
<1>10. SentSame(s[l], u[l])
  BY <1>3, <1>8, <1>9 DEF SentSame, Attached
<1>11. UnqueuedFirst(s[l], u[l], l)
  BY <1>3, <1>8, <1>9, <1>10 DEF Attached, UnqueuedFirst, b, q
<1>12. QED
  BY <1>3, <1>9, <1>11 DEF Elsewhere

\* What serving the transport leaves alone.
Served(r, q) ==
  /\ q.out = r.out /\ q.in = r.in /\ q.inInUse = r.inInUse
  /\ r.waiting = <<>> => q.waiting = <<>>

Sound(s, n, p, w) == \E st, M : Lines(s, n, p, w, st, M)

\* Circuit::checkQueuedTransfers keeps the line sound.
LEMMA CheckQueuedLine ==
  ASSUME NEW s, NEW n, NEW p, NEW w, Sound(s, n, p, w), NEW l \in Links,
         NEW u, u = CheckQueued(s, l)
  PROVE  Sound(u, n, p, w) /\ Elsewhere(l, s, u) /\ Served(s[l], u[l])
<1>1. PICK st, M : Lines(s, n, p, w, st, M)
  BY DEF Sound
<1>2. Shape(s)
  BY <1>1, LinesShape
<1>3. CASE ~(s[l].queued # <<>> /\ CanProduce(s, l))
  <2>1. u = s
    BY <1>3 DEF CheckQueued
  <2>2. QED
    BY <1>2, <2>1 DEF Elsewhere, Served
<1>4. CASE s[l].queued # <<>> /\ CanProduce(s, l)
  <2> DEFINE r == s[l]
             b == Head(r.queued)
             tl == Tail(r.queued)
             m == M[l]
  <2>1. Elsewhere(l, s, u) /\ UnqueuedFirst(r, u[l], l)
    BY <1>2, <1>4, CheckQueuedIs
  <2>2. /\ r \in LinkState(l) /\ n[l] \in Nat /\ st[l] \in Nat
        /\ m \in [Tids(l) -> Nat]
        /\ Sides(r, l) /\ Ring(r, l, n[l], st[l], m) /\ Queue(r, st[l], m)
        /\ Frugal => OutOwned(r, l, {})
        /\ Joint(s, l, p, st, M)
    BY <1>1, LinesAt
  <2>3. u[l] \in LinkState(l) /\ r.from[r.nextTid] = None
    BY <1>4, <2>1 DEF Elsewhere, Shape, CanProduce, InputEmpty
  <2>4. r.queued \in Seq(Tids(l)) /\ r.queued # <<>>
    BY <1>4, <2>2 DEF LinkState
  <2>5. /\ tl \in Seq(Tids(l)) /\ Len(tl) = Len(r.queued) - 1 /\ Len(r.queued) >= 1
        /\ \A i \in 1 .. Len(r.queued) - 1 : tl[i] = r.queued[i + 1]
        /\ b = r.queued[1] /\ b \in Tids(l) /\ InSeq(b, r.queued)
        /\ \A y : InSeq(y, r.queued) <=> InSeq(y, tl) \/ y = b
        /\ Distinct(r.queued) => Distinct(tl) /\ ~InSeq(b, tl)
    BY <2>4, TailFacts
  <2> DEFINE t == [r EXCEPT !.queued = tl]
  <2>6. t \in LinkState(l) /\ t.queued = tl
    BY <2>2, <2>5 DEF LinkState
  <2>7. /\ t.out = r.out /\ t.in = r.in /\ t.lastTid = r.lastTid /\ t.lastOrd = r.lastOrd
        /\ t.inInUse = r.inInUse /\ t.zfrom = r.zfrom /\ t.msg = r.msg /\ t.waiting = r.waiting
        /\ t.from = r.from /\ t.outInUse = r.outInUse /\ t.nextTid = r.nextTid
    BY <2>2 DEF LinkState
  <2> HIDE DEF t, tl, b, r, m
  <2>8. Sides(t, l)
    BY <2>2, <2>5, <2>6, <2>7 DEF Sides
  <2>9. InHand(t, l, b)
    BY <2>2, <2>5, <2>6, <2>7 DEF Sides, InHand, HasOut
  <2>10. Ring(t, l, n[l], st[l], m)
    BY <2>2, <2>7 DEF Ring
  <2>11. Frugal => OutOwned(t, l, {b})
    BY <2>2, <2>5, <2>6, <2>7 DEF OutOwned, HasOut
  <2>12. Queue(t, st[l] + 1, m) /\ m[b] = st[l] + 1
    <3>1. ASSUME NEW j \in 1 .. Len(tl) PROVE m[tl[j]] = (st[l] + 1) + j
      <4>1. j + 1 \in 1 .. Len(r.queued) /\ tl[j] = r.queued[j + 1]
        BY <2>4, <2>5
      <4>2. m[r.queued[j + 1]] = st[l] + (j + 1)
        BY <2>2, <4>1 DEF Queue
      <4>3. QED
        BY <2>2, <4>1, <4>2
    <3>2. m[b] = st[l] + 1
      BY <2>2, <2>5 DEF Queue
    <3>3. QED
      BY <2>6, <3>1, <3>2 DEF Queue
  <2>13. Loose(t, l, n[l], st[l], m, b)
    BY <2>2, <2>8, <2>9, <2>10, <2>11 DEF Loose, m
  <2>14. Attached(t, u[l], l, b)
    BY <2>1, <2>6, <2>7 DEF Attached, SentSame, UnqueuedFirst, tl, b
  <2>15. t.from[t.nextTid] = None
    BY <2>3, <2>7 DEF r
  <2>16. /\ LinkInv(u[l], l, n[l], st[l] + 1, m)
         /\ \A x \in Tids(l) : t.inInUse[x] => u[l].from[x] = t.from[x]
    BY <2>3, <2>12, <2>13, <2>14, <2>15, Attach
  <2> DEFINE st2 == [i \in Links |-> IF i = l THEN st[l] + 1 ELSE st[i]]
  <2>17. /\ st2 \in [Links -> Nat] /\ st2[l] = st[l] + 1
         /\ \A i \in Links : i # l => st2[i] = st[i]
    BY <1>1 DEF Lines
  <2> HIDE DEF st2
  <2>18. SameInputs(l, s[l], M[l], u[l], M[l])
    BY <2>1, <2>7, <2>16 DEF UnqueuedFirst, SentSame, SameInputs, m, r
  <2>19. Beside(l, s, n, p, st, M, u, n, p, st2, M)
    BY <1>1, <2>1, <2>17 DEF Beside, Elsewhere, Shape, Lines
  <2>20. Joint(u, l, p, st2, M)
    <3>1. st2[l] + Len(u[l].queued) = st[l] + Len(s[l].queued)
      <4>1. u[l].queued = tl /\ s[l].queued = r.queued
        BY <2>1 DEF UnqueuedFirst, tl, r
      <4>2. Len(tl) = Len(r.queued) - 1 /\ Len(r.queued) \in Nat /\ st[l] \in Nat
        BY <2>2, <2>4, <2>5
      <4>3. QED
        BY <2>17, <4>1, <4>2, SMTT(30)
    <3>2. u[l].waiting = s[l].waiting /\ u[l].zfrom = s[l].zfrom /\ u[l].msg = s[l].msg
      BY <2>1 DEF SentSame, UnqueuedFirst, r
    <3>3. l # 1 => u[l - 1] = s[l - 1]
      BY <2>1, LinkFacts DEF Elsewhere
    <3>4. s[l] \in LinkState(l)
      BY <2>2 DEF r
    <3>5. QED
      BY <2>2, <3>1, <3>2, <3>3, <3>4, SameJoint
  <2>21. LinkInv(u[l], l, n[l], st2[l], M[l])
    BY <2>16, <2>17 DEF m
  <2>22. Lines(u, n, p, w, st2, M)
    BY <1>1, <2>18, <2>19, <2>20, <2>21, OutputSide
  <2>23. QED
    BY <2>1, <2>22 DEF Sound, Served, UnqueuedFirst, SentSame, r
<1>5. QED
  BY <1>3, <1>4

\* The worker has written c to its output buffer and let it go.
Written(r, q, c) ==
  /\ ~q.out.data /\ q.out.buffer = r.out.buffer /\ q.out.ready
  /\ q.msg = [r.msg EXCEPT ![r.out.buffer] = c]
  /\ q.in = r.in /\ q.lastTid = r.lastTid /\ q.lastOrd = r.lastOrd /\ q.nextTid = r.nextTid
  /\ q.outInUse = r.outInUse /\ q.inInUse = r.inInUse /\ q.from = r.from
  /\ q.zfrom = r.zfrom /\ q.queued = r.queued /\ q.waiting = r.waiting

Write(s, l, c) ==
  [s EXCEPT ![l].msg[s[l].out.buffer] = c, ![l].out.data = FALSE, ![l].out.ready = TRUE]

\* What writing to the output buffer changes.
LEMMA WriteIs ==
  ASSUME NEW s, Shape(s), NEW l \in Links, s[l].out.buffer \in Tids(l), NEW c \in Nat,
         NEW u, u = Write(s, l, c)
  PROVE  Elsewhere(l, s, u) /\ Written(s[l], u[l], c)
<1> DEFINE b == s[l].out.buffer
           f == [s[l].msg EXCEPT ![b] = c]
           o == [s[l].out EXCEPT !.data = FALSE, !.ready = TRUE]
           r == [s[l] EXCEPT !.msg = f, !.out = o]
<1>1. s[l] \in LinkState(l) /\ s[l].out \in PortState(l)
  BY DEF Shape, LinkState
<1>2. /\ f \in [Tids(l) -> Nat] /\ o \in PortState(l)
      /\ ~o.data /\ o.buffer = s[l].out.buffer /\ o.ready
  BY <1>1 DEF LinkState, PortState
<1>3. u = [k \in Links |-> IF k = l THEN r ELSE s[k]]
  BY <1>1 DEF Shape, LinkState, PortState, Write
<1> HIDE DEF f, o
<1>4. r \in LinkState(l)
  BY <1>1, <1>2 DEF LinkState
<1>5. /\ r.out = o /\ r.msg = f
      /\ r.in = s[l].in /\ r.lastTid = s[l].lastTid /\ r.lastOrd = s[l].lastOrd
      /\ r.nextTid = s[l].nextTid /\ r.outInUse = s[l].outInUse
      /\ r.inInUse = s[l].inInUse /\ r.from = s[l].from /\ r.zfrom = s[l].zfrom
      /\ r.queued = s[l].queued /\ r.waiting = s[l].waiting
  BY <1>1 DEF LinkState
<1> HIDE DEF r
<1>6. u[l] = r /\ Elsewhere(l, s, u)
  BY <1>3, <1>4, Overwrite
<1>7. QED
  BY <1>2, <1>5, <1>6 DEF f, Written

\* A worker that sends the message after its last keeps the line sound.
LEMMA SendCurrentLine ==
  ASSUME NEW s, NEW n, NEW p, NEW w, Sound(s, n, p, w), NEW l \in Links,
         s[l].out.data, s[l].waiting = <<>>, NEW c, c = p[l - 1] + 1,
         NEW u, u = SendCurrent(s, l, c)
  PROVE  /\ Sound(u, n, [p EXCEPT ![l - 1] = c], w) /\ Elsewhere(l, s, u)
         /\ u[l].in = s[l].in /\ u[l].inInUse = s[l].inInUse
         /\ u[l].waiting = s[l].waiting /\ ~u[l].out.data
<1>1. PICK st, M : Lines(s, n, p, w, st, M)
  BY DEF Sound
<1> DEFINE r == s[l]
           b == r.out.buffer
           m == M[l]
<1>2. Shape(s)
  BY <1>1, LinesShape
<1>3. /\ r \in LinkState(l) /\ n[l] \in Nat /\ st[l] \in Nat
      /\ m \in [Tids(l) -> Nat]
      /\ Sides(r, l) /\ Ring(r, l, n[l], st[l], m) /\ Queue(r, st[l], m)
      /\ Frugal => OutOwned(r, l, {})
      /\ Joint(s, l, p, st, M) /\ p[l - 1] \in Nat
  BY <1>1, LinesAt
<1>4. b \in Tids(l) /\ r.outInUse[b] /\ r.zfrom[b] = None /\ ~InSeq(b, r.queued)
  BY <1>3 DEF Sides
<1>5. /\ r.from \in [Tids(l) -> TidOrNone(l)] /\ r.inInUse \in [Tids(l) -> BOOLEAN]
      /\ r.queued \in Seq(Tids(l)) /\ Len(r.queued) \in Nat /\ None \notin Tids(l)
      /\ r.msg \in [Tids(l) -> Nat] /\ Len(r.waiting) = 0
  BY <1>3, LinkFacts, SMTT(30) DEF LinkState
<1>6. \A x \in Tids(l) : r.from[x] # b
  BY <1>3, <1>4, <1>5 DEF Sides
<1> DEFINE v == Write(s, l, c)
           q == v[l]
<1>7. Elsewhere(l, s, v) /\ Written(r, q, c)
  BY <1>2, <1>3, <1>4, WriteIs
<1>8. u = SendOutput(v, l, b)
  BY DEF SendCurrent, Write
<1> DEFINE m2 == [x \in Tids(l) |-> IF x = b THEN c ELSE m[x]]
           M2 == [i \in Links |-> IF i = l THEN m2 ELSE M[i]]
           p2 == [p EXCEPT ![l - 1] = c]
           st1 == [i \in Links |-> IF i = l THEN st[l] + 1 ELSE st[i]]
<1>9. /\ st1 \in [Links -> Nat] /\ st1[l] = st[l] + 1
      /\ \A i \in Links : i # l => st1[i] = st[i]
  BY <1>1 DEF Lines
<1>10. /\ M2 = [i \in Links |-> M2[i]] /\ M2[l] = m2
       /\ \A i \in Links : i # l => M2[i] = M[i]
  OBVIOUS
<1>11. /\ m2 \in [Tids(l) -> Nat] /\ m2[b] = c
       /\ \A x \in Tids(l) : x # b => m2[x] = m[x]
  BY <1>3, <1>4
<1>12. /\ p2 \in [0 .. NumLinks - 1 -> Nat] /\ p2[l - 1] = c
       /\ \A i \in 0 .. NumLinks - 1 : i # l - 1 => p2[i] = p[i]
  BY <1>1, <1>3, LinkFacts DEF Lines
<1> HIDE DEF r, b, m, v, q, m2, M2, p2, st1
<1>13. q \in LinkState(l) /\ q = v[l]
  BY <1>7 DEF Elsewhere, Shape, q
<1>14. Sides(q, l) /\ InHand(q, l, b) /\ (Frugal => OutOwned(q, l, {b}))
  <2>1. Sides(q, l)
    BY <1>3, <1>7, <1>13 DEF Sides, Written
  <2>2. InHand(q, l, b)
    BY <1>4, <1>7 DEF Written, InHand, HasOut
  <2>3. Frugal => OutOwned(q, l, {b})
    BY <1>3, <1>7 DEF Written, OutOwned, HasOut, b
  <2>4. QED
    BY <2>1, <2>2, <2>3
<1>15. Ring(q, l, n[l], st[l], m2)
  <2>1. ASSUME NEW i \in n[l] .. st[l] - 1 PROVE m2[q.from[i % NumBufs[l]]] = i + 1
    <3>1. i % NumBufs[l] \in Tids(l) /\ i % NumBufs[l] \in Arc(NumBufs[l], n[l], st[l])
      <4>1. NumBufs[l] \in Nat \ {0} /\ i \in Nat
        BY <1>3, LinkFacts
      <4>2. i % NumBufs[l] \in 0 .. NumBufs[l] - 1
        BY <4>1, OnRing
      <4>3. QED
        BY <4>2 DEF Tids, Arc
    <3>2. r.from[i % NumBufs[l]] \in Tids(l)
      BY <1>3, <1>5, <3>1 DEF Ring, TidOrNone
    <3>3. q.from[i % NumBufs[l]] = r.from[i % NumBufs[l]]
      BY <1>7 DEF Written
    <3>4. QED
      BY <1>3, <1>6, <1>11, <3>1, <3>2, <3>3 DEF Ring
  <2>2. q.in.data => n[l] > 0 /\ m2[q.from[q.in.buffer]] = n[l]
    <3>1. SUFFICES ASSUME q.in.data PROVE n[l] > 0 /\ m2[q.from[q.in.buffer]] = n[l]
      OBVIOUS
    <3>2. /\ r.in.data /\ q.in.buffer = r.in.buffer /\ r.in.buffer \in Tids(l)
          /\ r.from[r.in.buffer] # None /\ q.from = r.from
      BY <1>3, <1>7, <3>1 DEF Written, Sides
    <3>3. r.from[r.in.buffer] \in Tids(l) /\ r.from[r.in.buffer] # b
      BY <1>5, <1>6, <3>2 DEF TidOrNone
    <3>4. QED
      BY <1>3, <1>11, <3>2, <3>3 DEF Ring
  <2>3. {x \in Tids(l) : q.from[x] # None /\ ~q.inInUse[x]} = Arc(NumBufs[l], n[l], st[l])
    BY <1>3, <1>7 DEF Ring, Written
  <2>4. QED
    BY <1>3, <1>7, <2>1, <2>2, <2>3 DEF Ring, Written
<1>16. Queue(q, st[l], m2)
  BY <1>3, <1>4, <1>5, <1>7, <1>11, SMTT(30) DEF Queue, Written, InSeq
<1>17. Loose(q, l, n[l], st[l], m2, b)
  BY <1>3, <1>11, <1>14, <1>15 DEF Loose
<1>18. c = st[l] + Len(q.queued) + 1
  <2>1. st[l] + Len(r.queued) + Len(r.waiting) = p[l - 1]
    BY <1>3 DEF Joint, Tallied, r
  <2>2. q.queued = r.queued
    BY <1>7 DEF Written
  <2>3. QED
    BY <1>3, <1>5, <2>1, <2>2
<1>19. SameInputs(l, s[l], M[l], v[l], M2[l])
  <2>1. ASSUME NEW x \in Tids(l), r.inInUse[x] PROVE m2[q.from[x]] = m[r.from[x]]
    <3>1. r.from[x] \in Tids(l) /\ r.from[x] # b
      BY <1>3, <1>5, <1>6, <2>1 DEF Sides, TidOrNone
    <3>2. QED
      BY <1>7, <1>11, <3>1 DEF Written
  <2>2. QED
    BY <1>7, <1>10, <1>13, <2>1 DEF Written, SameInputs, r, m
<1>20. Joint(v, l, p2, st1, M2)
  <2>1. l # 1 => v[l - 1] = s[l - 1] /\ M2[l - 1] = M[l - 1]
    BY <1>7, <1>10, LinkFacts DEF Elsewhere
  <2>2. PrevTids(l) # {} => l # 1
    BY DEF PrevTids
  <2>3. v[l].waiting = s[l].waiting /\ v[l].zfrom = s[l].zfrom
        /\ Len(s[l].waiting) = 0
    BY <1>5, <1>7, <1>13 DEF Written, r
  <2>4. /\ s[l].zfrom \in [Tids(l) -> PrevTids(l) \cup {None}]
        /\ \A x \in Tids(l) : s[l].zfrom[x] # None => s[l].zfrom[x] \in PrevTids(l)
    BY <1>3 DEF LinkState, r
  <2>5. /\ \A x \in PrevTids(l) : InSeq(x, v[l].waiting) =>
            /\ v[l - 1].inInUse[x] /\ ~HasIn(v[l - 1], x)
            /\ \A y \in Tids(l) : v[l].zfrom[y] # x
        /\ \A y \in Tids(l) : v[l].zfrom[y] # None =>
            v[l - 1].inInUse[v[l].zfrom[y]] /\ ~HasIn(v[l - 1], v[l].zfrom[y])
        /\ \A x \in PrevTids(l) : v[l - 1].inInUse[x] =>
            HasIn(v[l - 1], x) \/ InSeq(x, v[l].waiting) \/ \E y \in Tids(l) : v[l].zfrom[y] = x
    BY <1>3, <2>1, <2>2, <2>3, <2>4 DEF Joint, Shared, Tallied
  <2>6. \A j \in 1 .. Len(v[l].waiting) :
          M2[l - 1][v[l - 1].from[v[l].waiting[j]]] = st1[l] + Len(v[l].queued) + j
    BY <2>3
  <2>7. \A x \in Tids(l) :
         M2[l][x] = IF v[l].zfrom[x] = None THEN v[l].msg[x]
                   ELSE M2[l - 1][v[l - 1].from[v[l].zfrom[x]]]
    <3>1. ASSUME NEW x \in Tids(l)
          PROVE  M2[l][x] = IF v[l].zfrom[x] = None THEN v[l].msg[x]
                            ELSE M2[l - 1][v[l - 1].from[v[l].zfrom[x]]]
      <4>1. CASE x = b
        BY <1>4, <1>5, <1>7, <1>10, <1>11, <1>13, <2>3, <4>1 DEF Written, r, b
      <4>2. CASE x # b
        <5>1. M2[l][x] = M[l][x]
          BY <1>10, <1>11, <4>2 DEF m
        <5>2. v[l].msg[x] = s[l].msg[x]
          BY <1>4, <1>5, <1>7, <1>13, <4>2 DEF Written, r, b
        <5>3. M[l][x] = IF s[l].zfrom[x] = None THEN s[l].msg[x]
                        ELSE M[l - 1][s[l - 1].from[s[l].zfrom[x]]]
          BY <1>3 DEF Joint, Tallied
        <5>4. QED
          BY <2>1, <2>2, <2>3, <2>4, <5>1, <5>2, <5>3
      <4>3. QED
        BY <4>1, <4>2
    <3>2. QED
      BY <3>1
  <2>8. st1[l] + Len(v[l].queued) + Len(v[l].waiting) = p2[l - 1]
    <3>1. v[l].queued = r.queued
      BY <1>7, <1>13 DEF Written
    <3>2. c = st[l] + Len(r.queued) + 1
      BY <1>7, <1>18 DEF Written
    <3>3. QED
      BY <1>3, <1>5, <1>9, <1>12, <2>3, <3>1, <3>2
  <2>9. QED
    BY <2>5, <2>6, <2>7, <2>8 DEF Joint, Shared, Tallied
<1>21. /\ \E st2 : Lines(u, n, p2, w, st2, M2)
       /\ Elsewhere(l, s, u) /\ SentSame(v[l], u[l])
  <2>1. IsNext(v[l], l, n[l], st[l], M2[l], b)
    BY <1>10, <1>11, <1>13, <1>16, <1>17, <1>18 DEF IsNext
  <2>2. Counted(l, p, p2, st, st1, M, M2)
    BY <1>9, <1>10, <1>12 DEF Counted
  <2>3. QED
    BY <1>1, <1>7, <1>8, <1>19, <1>20, <2>1, <2>2, SendLine
<1>22. QED
  BY <1>7, <1>13, <1>21 DEF Sound, Written, SentSame, p2, r

\* The next output buffer is in use.
Reserved(r, q, l) ==
  /\ q.outInUse = [r.outInUse EXCEPT ![r.lastTid] = TRUE]
  /\ q.in = r.in /\ q.lastTid = Later(l, r.lastTid) /\ q.lastOrd = r.lastOrd
  /\ q.nextTid = r.nextTid /\ q.inInUse = r.inInUse /\ q.from = r.from
  /\ q.msg = r.msg /\ q.queued = r.queued

\* The worker has it.
Requested(r, q, l) ==
  /\ Reserved(r, q, l)
  /\ q.out.data /\ q.out.buffer = r.lastTid
  /\ q.zfrom = r.zfrom /\ q.waiting = r.waiting

\* The first input buffer that waits has it.
Lent(r, q, l) ==
  /\ Reserved(r, q, l)
  /\ q.out = r.out
  /\ q.zfrom = [r.zfrom EXCEPT ![r.lastTid] = Head(r.waiting)]
  /\ q.waiting = Tail(r.waiting)

\* What a request for an output buffer changes.
LEMMA TakeOutputIs ==
  ASSUME NEW s, Shape(s), NEW l \in Links, NEW u, u = TakeOutput(s, l), u # s
  PROVE  Elsewhere(l, s, u) /\ Requested(s[l], u[l], l)
<1> DEFINE b == s[l].lastTid
           f == [s[l].outInUse EXCEPT ![b] = TRUE]
           t == Later(l, b)
           o == [data |-> TRUE, buffer |-> b, ready |-> FALSE]
           r == [s[l] EXCEPT !.outInUse = f, !.lastTid = t, !.out = o]
<1>1. s[l] \in LinkState(l) /\ b \in Tids(l)
  BY DEF Shape, LinkState
<1>2. /\ f \in [Tids(l) -> BOOLEAN] /\ t \in Tids(l) /\ o \in PortState(l)
      /\ o.data /\ o.buffer = b
  BY <1>1, LaterTid DEF LinkState, PortState, TidOrNone
<1>3. u = [k \in Links |-> IF k = l THEN r ELSE s[k]]
  BY <1>1 DEF Shape, LinkState, TakeOutput, GetNextEmptyOutput
<1> HIDE DEF f, t, o
<1>4. r \in LinkState(l)
  BY <1>1, <1>2 DEF LinkState
<1>5. /\ r.out = o /\ r.outInUse = f /\ r.lastTid = t
      /\ r.in = s[l].in /\ r.lastOrd = s[l].lastOrd
      /\ r.nextTid = s[l].nextTid /\ r.msg = s[l].msg
      /\ r.inInUse = s[l].inInUse /\ r.from = s[l].from /\ r.zfrom = s[l].zfrom
      /\ r.queued = s[l].queued /\ r.waiting = s[l].waiting
  BY <1>1 DEF LinkState
<1> HIDE DEF r
<1>6. u[l] = r /\ Elsewhere(l, s, u)
  BY <1>3, <1>4, Overwrite
<1>7. QED
  BY <1>2, <1>5, <1>6 DEF f, t, Requested, Reserved

Lend(s, l) ==
  [GetNextEmptyOutput(s, l) EXCEPT ![l].zfrom[s[l].lastTid] = Head(s[l].waiting),
                                   ![l].waiting = Tail(@)]

\* What Circuit::checkIOZCopyQ does before it sends.
LEMMA LendIs ==
  ASSUME NEW s, Shape(s), NEW l \in Links, s[l].waiting # <<>>, NEW u, u = Lend(s, l)
  PROVE  Elsewhere(l, s, u) /\ Lent(s[l], u[l], l)
<1> DEFINE b == s[l].lastTid
           f == [s[l].outInUse EXCEPT ![b] = TRUE]
           t == Later(l, b)
           z == [s[l].zfrom EXCEPT ![b] = Head(s[l].waiting)]
           a == Tail(s[l].waiting)
           r == [s[l] EXCEPT !.outInUse = f, !.lastTid = t, !.zfrom = z, !.waiting = a]
<1>1. s[l] \in LinkState(l) /\ b \in Tids(l) /\ s[l].waiting \in Seq(PrevTids(l))
  BY DEF Shape, LinkState
<1>2. Head(s[l].waiting) \in PrevTids(l) /\ a \in Seq(PrevTids(l))
  BY <1>1, TailFacts
<1>3. /\ f \in [Tids(l) -> BOOLEAN] /\ t \in Tids(l)
      /\ z \in [Tids(l) -> PrevTids(l) \cup {None}]
  BY <1>1, <1>2, LaterTid DEF LinkState
<1>4. u = [k \in Links |-> IF k = l THEN r ELSE s[k]]
  BY <1>1 DEF Shape, LinkState, Lend, GetNextEmptyOutput
<1> HIDE DEF f, t, z, a
<1>5. r \in LinkState(l)
  BY <1>1, <1>2, <1>3 DEF LinkState
<1>6. /\ r.outInUse = f /\ r.lastTid = t /\ r.zfrom = z /\ r.waiting = a
      /\ r.in = s[l].in /\ r.lastOrd = s[l].lastOrd /\ r.out = s[l].out
      /\ r.nextTid = s[l].nextTid /\ r.msg = s[l].msg
      /\ r.inInUse = s[l].inInUse /\ r.from = s[l].from
      /\ r.queued = s[l].queued
  BY <1>1 DEF LinkState
<1> HIDE DEF r
<1>7. u[l] = r /\ Elsewhere(l, s, u)
  BY <1>4, <1>5, Overwrite
<1>8. QED
  BY <1>6, <1>7 DEF f, t, z, a, Lent, Reserved

\* The next output buffer, when it is empty.
LEMMA EmptyFacts ==
  ASSUME NEW s, NEW l \in Links, s[l] \in LinkState(l), Sides(s[l], l), HasEmptyOutput(s, l)
  PROVE  /\ s[l].lastTid \in Tids(l) /\ ~s[l].outInUse[s[l].lastTid]
         /\ s[l].zfrom[s[l].lastTid] = None
         /\ \A t \in Tids(l) : s[l].from[t] # s[l].lastTid
         /\ ~InSeq(s[l].lastTid, s[l].queued)
         /\ ~HasOut(s[l], s[l].lastTid)
<1>1. s[l].lastTid \in Tids(l)
  BY DEF LinkState
<1>2. QED
  BY <1>1 DEF HasEmptyOutput, OutputEmpty, Sides, HasOut

\* The input ring does not depend on the output side.
LEMMA ReservedRing ==
  ASSUME NEW r, NEW q, NEW l, Reserved(r, q, l), NEW n, NEW st, NEW m, Ring(r, l, n, st, m)
  PROVE  Ring(q, l, n, st, m)
BY DEF Ring, Reserved

\* What is not in the hands of the worker that takes an output buffer.
TakenOut(r, q) ==
  q.in = r.in /\ q.inInUse = r.inInUse /\ q.waiting = r.waiting /\ q.from = r.from
    /\ q.zfrom = r.zfrom /\ q.msg = r.msg

\* A request for an output buffer keeps the line sound.
LEMMA TakeOutputLine ==
  ASSUME NEW s, NEW n, NEW p, NEW w, Sound(s, n, p, w), NEW l \in Links,
         NEW u, u = TakeOutput(s, l)
  PROVE  Sound(u, n, p, w) /\ Elsewhere(l, s, u) /\ TakenOut(s[l], u[l])
<1>1. PICK st, M : Lines(s, n, p, w, st, M)
  BY DEF Sound
<1> DEFINE r == s[l]
           q == u[l]
           b == r.lastTid
           m == M[l]
<1>2. Shape(s)
  BY <1>1, LinesShape
<1>3. /\ r \in LinkState(l) /\ n[l] \in Nat /\ st[l] \in Nat
      /\ m \in [Tids(l) -> Nat]
      /\ Sides(r, l) /\ Ring(r, l, n[l], st[l], m) /\ Queue(r, st[l], m)
      /\ Frugal => OutOwned(r, l, {})
      /\ Joint(s, l, p, st, M)
  BY <1>1, LinesAt
<1>4. CASE u = s
  BY <1>2, <1>4 DEF Elsewhere, TakenOut
<1>5. CASE u # s
  <2>1. Elsewhere(l, s, u) /\ Requested(r, q, l)
    BY <1>2, <1>5, TakeOutputIs
  <2>2. HasEmptyOutput(s, l) /\ ~r.out.data
    BY <1>5 DEF TakeOutput
  <2>3. /\ b \in Tids(l) /\ ~r.outInUse[b] /\ r.zfrom[b] = None
        /\ \A t \in Tids(l) : r.from[t] # b
        /\ ~InSeq(b, r.queued)
    BY <1>3, <2>2, EmptyFacts
  <2>4. q \in LinkState(l)
    BY <2>1 DEF Elsewhere, Shape
  <2>5. r.outInUse \in [Tids(l) -> BOOLEAN] /\ r.from \in [Tids(l) -> TidOrNone(l)]
    BY <1>3 DEF LinkState
  <2> HIDE DEF r, q, b, m
  <2>6. /\ \A x \in Tids(l) : q.outInUse[x] <=> (x = b \/ r.outInUse[x])
        /\ q.out.data /\ q.out.buffer = b
    BY <2>1, <2>3, <2>5 DEF Requested, Reserved, b
  <2>7. Sides(q, l)
    <3>1. \A t \in Tids(l) : q.from[t] # None => ~q.outInUse[q.from[t]]
      BY <1>3, <2>1, <2>3, <2>5, <2>6 DEF Sides, Requested, Reserved, TidOrNone
    <3>2. /\ q.out.data => /\ q.out.buffer \in Tids(l) /\ q.outInUse[q.out.buffer]
                           /\ q.zfrom[q.out.buffer] = None
                           /\ ~InSeq(q.out.buffer, q.queued)
          /\ \A x \in Tids(l) : InSeq(x, q.queued) => q.outInUse[x]
      BY <1>3, <2>1, <2>3, <2>6 DEF Sides, Requested, Reserved
    <3>3. QED
      BY <1>3, <2>1, <2>4, <2>6, <3>1, <3>2 DEF Sides, Requested, Reserved
  <2>8. Ring(q, l, n[l], st[l], m)
    BY <1>3, <2>1, ReservedRing DEF Requested
  <2>9. Queue(q, st[l], m)
    BY <1>3, <2>1 DEF Queue, Requested, Reserved
  <2>10. Frugal => OutOwned(q, l, {})
    BY <1>3, <2>1, <2>2, <2>6 DEF OutOwned, HasOut, Requested, Reserved
  <2>11. LinkInv(u[l], l, n[l], st[l], M[l])
    BY <1>3, <2>7, <2>8, <2>9, <2>10 DEF LinkInv, q, m
  <2>12. Beside(l, s, n, p, st, M, u, n, p, st, M)
    BY <1>1, <2>1 DEF Beside, Elsewhere, Shape, Lines
  <2>13. SameInputs(l, s[l], M[l], u[l], M[l])
    BY <2>1 DEF SameInputs, Requested, Reserved, r, q
  <2>14. Joint(u, l, p, st, M)
    <3>1. l # 1 => u[l - 1] = s[l - 1]
      BY <2>1, LinkFacts DEF Elsewhere
    <3>2. u[l].waiting = s[l].waiting /\ u[l].zfrom = s[l].zfrom /\ u[l].msg = s[l].msg
          /\ u[l].queued = s[l].queued /\ s[l] \in LinkState(l)
      BY <1>3, <2>1 DEF Requested, Reserved, r, q
    <3>3. QED
      BY <1>3, <3>1, <3>2, SameJoint
  <2>15. Lines(u, n, p, w, st, M)
    BY <1>1, <2>11, <2>12, <2>13, <2>14, OutputSide
  <2>16. QED
    BY <2>1, <2>15 DEF Sound, TakenOut, Requested, Reserved, r, q
<1>6. QED
  BY <1>4, <1>5

\* Circuit::checkIOZCopyQ keeps the line sound.
LEMMA CheckWaitingLine ==
  ASSUME NEW s, NEW n, NEW p, NEW w, Sound(s, n, p, w), NEW l \in Links,
         NEW u, u = CheckWaiting(s, l)
  PROVE  Sound(u, n, p, w) /\ Elsewhere(l, s, u) /\ Served(s[l], u[l])
<1>1. PICK st, M : Lines(s, n, p, w, st, M)
  BY DEF Sound
<1>2. Shape(s)
  BY <1>1, LinesShape
<1>3. CASE ~(s[l].waiting # <<>> /\ HasEmptyOutput(s, l))
  <2>1. u = s
    BY <1>3 DEF CheckWaiting
  <2>2. QED
    BY <1>2, <2>1 DEF Elsewhere, Served
<1>4. CASE s[l].waiting # <<>> /\ HasEmptyOutput(s, l)
  <2> DEFINE r == s[l]
             b == r.lastTid
             x0 == Head(r.waiting)
             tl == Tail(r.waiting)
             m == M[l]
             v == Lend(s, l)
             q == v[l]
             c == st[l] + Len(r.queued) + 1
             m2 == [x \in Tids(l) |-> IF x = b THEN c ELSE m[x]]
             M2 == [i \in Links |-> IF i = l THEN m2 ELSE M[i]]
             st1 == [i \in Links |-> IF i = l THEN st[l] + 1 ELSE st[i]]
  <2>1. u = SendOutput(v, l, b)
    BY <1>4 DEF CheckWaiting, Lend
  <2>2. Elsewhere(l, s, v) /\ Lent(r, q, l)
    BY <1>2, <1>4, LendIs
  <2>3. /\ r \in LinkState(l) /\ n[l] \in Nat /\ st[l] \in Nat
        /\ m \in [Tids(l) -> Nat]
        /\ Sides(r, l) /\ Ring(r, l, n[l], st[l], m) /\ Queue(r, st[l], m)
        /\ Frugal => OutOwned(r, l, {})
        /\ Joint(s, l, p, st, M)
    BY <1>1, LinesAt
  <2>4. /\ b \in Tids(l) /\ ~r.outInUse[b] /\ r.zfrom[b] = None
        /\ \A t \in Tids(l) : r.from[t] # b
        /\ ~InSeq(b, r.queued) /\ ~HasOut(r, b)
    BY <1>4, <2>3, EmptyFacts
  <2>5. /\ q \in LinkState(l)
        /\ r.outInUse \in [Tids(l) -> BOOLEAN] /\ r.from \in [Tids(l) -> TidOrNone(l)]
        /\ r.zfrom \in [Tids(l) -> PrevTids(l) \cup {None}]
        /\ r.queued \in Seq(Tids(l)) /\ Len(r.queued) \in Nat
        /\ r.waiting \in Seq(PrevTids(l)) /\ r.waiting # <<>>
        /\ None \notin Tids(l) /\ None \notin PrevTids(l)
    <3>1. q \in LinkState(l)
      BY <2>2 DEF Elsewhere, Shape
    <3>2. None \notin Tids(l) /\ None \notin PrevTids(l)
      BY LinkFacts
    <3>3. /\ r.outInUse \in [Tids(l) -> BOOLEAN] /\ r.from \in [Tids(l) -> TidOrNone(l)]
          /\ r.zfrom \in [Tids(l) -> PrevTids(l) \cup {None}]
          /\ r.queued \in Seq(Tids(l)) /\ r.waiting \in Seq(PrevTids(l))
      BY <2>3 DEF LinkState
    <3> HIDE DEF r, q
    <3>4. Len(r.queued) \in Nat
      BY <3>3
    <3>5. r.waiting # <<>>
      BY <1>4 DEF r
    <3>6. QED
      BY <3>1, <3>2, <3>3, <3>4, <3>5
  <2>6. /\ tl \in Seq(PrevTids(l)) /\ Len(tl) = Len(r.waiting) - 1 /\ Len(r.waiting) >= 1
        /\ Len(r.waiting) \in Nat
        /\ \A i \in 1 .. Len(r.waiting) - 1 : tl[i] = r.waiting[i + 1]
        /\ x0 = r.waiting[1] /\ x0 \in PrevTids(l) /\ InSeq(x0, r.waiting)
        /\ \A y : InSeq(y, r.waiting) <=> InSeq(y, tl) \/ y = x0
        /\ Distinct(r.waiting) => Distinct(tl) /\ ~InSeq(x0, tl)
    BY <2>5, TailFacts
  <2>7. /\ st1 \in [Links -> Nat] /\ st1[l] = st[l] + 1
        /\ \A i \in Links : i # l => st1[i] = st[i]
    BY <1>1 DEF Lines
  <2>8. /\ M2 = [i \in Links |-> M2[i]] /\ M2[l] = m2
        /\ \A i \in Links : i # l => M2[i] = M[i]
    OBVIOUS
  <2>9. /\ m2 \in [Tids(l) -> Nat] /\ m2[b] = c /\ c \in Nat
        /\ \A x \in Tids(l) : x # b => m2[x] = m[x]
    BY <2>3, <2>4, <2>5
  <2>10. /\ q.outInUse = [r.outInUse EXCEPT ![b] = TRUE]
         /\ q.zfrom = [r.zfrom EXCEPT ![b] = x0]
         /\ q.waiting = tl /\ q.out = r.out
         /\ q.in = r.in /\ q.lastOrd = r.lastOrd
         /\ q.nextTid = r.nextTid /\ q.inInUse = r.inInUse /\ q.from = r.from
         /\ q.msg = r.msg /\ q.queued = r.queued
    BY <2>2 DEF Lent, Reserved
  <2> HIDE DEF b, x0, tl, v, q, c, m2, M2, st1
  <2>11. q = v[l] /\ Reserved(r, q, l) /\ c = st[l] + Len(r.queued) + 1
    BY <2>2 DEF Lent, q, c
  <2> HIDE DEF r, m
  <2>12. /\ \A x \in Tids(l) : q.outInUse[x] <=> (x = b \/ r.outInUse[x])
         /\ \A x \in Tids(l) : q.zfrom[x] = IF x = b THEN x0 ELSE r.zfrom[x]
    BY <2>4, <2>5, <2>10
  <2>13. /\ s[l - 1].inInUse[x0] /\ ~HasIn(s[l - 1], x0)
         /\ \A y \in Tids(l) : r.zfrom[y] # x0
         /\ M[l - 1][s[l - 1].from[x0]] = c
    <3>1. s[l].waiting = r.waiting /\ s[l].zfrom = r.zfrom /\ s[l].queued = r.queued
      BY DEF r
    <3>2. /\ s[l - 1].inInUse[x0] /\ ~HasIn(s[l - 1], x0)
          /\ \A y \in Tids(l) : r.zfrom[y] # x0
      BY <2>3, <2>6, <3>1 DEF Joint, Shared
    <3>3. 1 \in 1 .. Len(r.waiting)
      BY <2>6
    <3>4. M[l - 1][s[l - 1].from[r.waiting[1]]] = st[l] + Len(r.queued) + 1
      BY <2>3, <3>1, <3>3 DEF Joint, Tallied
    <3>5. QED
      BY <2>6, <2>11, <3>2, <3>4
  <2>14. Sides(q, l)
    <3>1. \A t \in Tids(l) : q.from[t] # None => ~q.outInUse[q.from[t]]
      BY <2>3, <2>4, <2>5, <2>10, <2>12 DEF Sides, TidOrNone
    <3>2. /\ q.out.data => /\ q.out.buffer \in Tids(l) /\ q.outInUse[q.out.buffer]
                           /\ q.zfrom[q.out.buffer] = None
                           /\ ~InSeq(q.out.buffer, q.queued)
          /\ \A x \in Tids(l) : InSeq(x, q.queued) => q.outInUse[x]
      BY <2>3, <2>4, <2>10, <2>12 DEF Sides, HasOut
    <3>3. \A x, y \in Tids(l) : q.zfrom[x] # None /\ q.zfrom[x] = q.zfrom[y] => x = y
      BY <2>3, <2>12, <2>13 DEF Sides
    <3>4. Distinct(q.queued) /\ Distinct(q.waiting)
      BY <2>3, <2>6, <2>10 DEF Sides
    <3>5. /\ ~q.out.data => q.out.ready
          /\ ~q.in.data => q.in.ready
          /\ q.in.data => q.in.buffer \in Tids(l) /\ q.inInUse[q.in.buffer]
          /\ \A t, y \in Tids(l) : q.from[t] # None /\ q.from[t] = q.from[y] => t = y
          /\ \A t \in Tids(l) : q.inInUse[t] => q.from[t] # None
      BY <2>3, <2>10 DEF Sides
    <3>6. QED
      BY <2>5, <3>1, <3>2, <3>3, <3>4, <3>5 DEF Sides
  <2>15. InHand(q, l, b) /\ (Frugal => OutOwned(q, l, {b}))
    BY <2>3, <2>4, <2>10, <2>12 DEF InHand, OutOwned, HasOut
  <2>16. Ring(q, l, n[l], st[l], m2)
    <3>1. ASSUME NEW i \in n[l] .. st[l] - 1 PROVE m2[q.from[i % NumBufs[l]]] = i + 1
      <4>1. i % NumBufs[l] \in Tids(l) /\ i % NumBufs[l] \in Arc(NumBufs[l], n[l], st[l])
        <5>1. NumBufs[l] \in Nat \ {0} /\ i \in Nat
          BY <2>3, LinkFacts
        <5>2. i % NumBufs[l] \in 0 .. NumBufs[l] - 1
          BY <5>1, OnRing
        <5>3. QED
          BY <5>2 DEF Tids, Arc
      <4>2. r.from[i % NumBufs[l]] \in Tids(l)
        BY <2>3, <2>5, <4>1 DEF Ring, TidOrNone
      <4>3. QED
        BY <2>3, <2>4, <2>9, <2>10, <4>1, <4>2 DEF Ring
    <3>2. q.in.data => n[l] > 0 /\ m2[q.from[q.in.buffer]] = n[l]
      <4>1. SUFFICES ASSUME q.in.data PROVE n[l] > 0 /\ m2[q.from[q.in.buffer]] = n[l]
        OBVIOUS
      <4>2. /\ r.in.data /\ q.in.buffer = r.in.buffer /\ r.in.buffer \in Tids(l)
            /\ r.from[r.in.buffer] # None /\ q.from = r.from
        BY <2>3, <2>10, <4>1 DEF Sides
      <4>3. r.from[r.in.buffer] \in Tids(l) /\ r.from[r.in.buffer] # b
        BY <2>4, <2>5, <4>2 DEF TidOrNone
      <4>4. QED
        BY <2>3, <2>9, <4>2, <4>3 DEF Ring
    <3>3. {x \in Tids(l) : q.from[x] # None /\ ~q.inInUse[x]} = Arc(NumBufs[l], n[l], st[l])
      BY <2>3, <2>10 DEF Ring
    <3>4. QED
      BY <2>3, <2>10, <3>1, <3>2, <3>3 DEF Ring
  <2>17. Queue(q, st[l], m2)
    BY <2>3, <2>4, <2>5, <2>9, <2>10 DEF Queue, InSeq
  <2>18. IsNext(v[l], l, n[l], st[l], M2[l], b)
    <3>1. Loose(q, l, n[l], st[l], m2, b)
      BY <2>3, <2>9, <2>14, <2>15, <2>16 DEF Loose
    <3>2. m2[b] = st[l] + Len(q.queued) + 1
      BY <2>9, <2>10, <2>11
    <3>3. QED
      BY <2>8, <2>11, <2>17, <3>1, <3>2 DEF IsNext
  <2>19. SameInputs(l, s[l], M[l], v[l], M2[l])
    <3>1. ASSUME NEW x \in Tids(l), r.inInUse[x] PROVE m2[q.from[x]] = m[r.from[x]]
      <4>1. r.from[x] \in Tids(l) /\ r.from[x] # b
        BY <2>3, <2>4, <2>5, <3>1 DEF Sides, TidOrNone
      <4>2. QED
        BY <2>9, <2>10, <4>1
    <3>2. QED
      BY <2>8, <2>10, <2>11, <3>1 DEF SameInputs, r, m
  <2>20. Joint(v, l, p, st1, M2)
    <3>1. l # 1
      BY <2>6 DEF PrevTids
    <3>2. v[l - 1] = s[l - 1] /\ M2[l - 1] = M[l - 1]
      BY <2>2, <2>8, <3>1, LinkFacts DEF Elsewhere
    <3>3. s[l].waiting = r.waiting /\ s[l].zfrom = r.zfrom /\ s[l].queued = r.queued
          /\ s[l].msg = r.msg /\ v[l] = q
      BY <2>11 DEF r
    <3>4. Distinct(r.waiting)
      BY <2>3 DEF Sides
    <3>5. ASSUME NEW x \in PrevTids(l), InSeq(x, q.waiting)
          PROVE  /\ s[l - 1].inInUse[x] /\ ~HasIn(s[l - 1], x)
                 /\ \A y \in Tids(l) : q.zfrom[y] # x
      <4>1. InSeq(x, r.waiting) /\ x # x0
        BY <2>6, <2>10, <3>4, <3>5
      <4>2. /\ s[l - 1].inInUse[x] /\ ~HasIn(s[l - 1], x)
            /\ \A y \in Tids(l) : r.zfrom[y] # x
        BY <2>3, <3>3, <4>1 DEF Joint, Shared
      <4>3. QED
        BY <2>12, <4>1, <4>2
    <3>6. ASSUME NEW y \in Tids(l), q.zfrom[y] # None
          PROVE  s[l - 1].inInUse[q.zfrom[y]] /\ ~HasIn(s[l - 1], q.zfrom[y])
      <4>1. CASE y = b
        BY <2>12, <2>13, <4>1
      <4>2. CASE y # b
        BY <2>3, <2>12, <3>3, <3>6, <4>2 DEF Joint, Shared
      <4>3. QED
        BY <4>1, <4>2
    <3>7. ASSUME NEW x \in PrevTids(l), s[l - 1].inInUse[x]
          PROVE  HasIn(s[l - 1], x) \/ InSeq(x, q.waiting) \/ \E y \in Tids(l) : q.zfrom[y] = x
      <4>1. HasIn(s[l - 1], x) \/ InSeq(x, r.waiting) \/ \E y \in Tids(l) : r.zfrom[y] = x
        BY <2>3, <3>3, <3>7 DEF Joint, Shared
      <4>2. CASE InSeq(x, r.waiting)
        BY <2>4, <2>6, <2>10, <2>12, <4>2
      <4>3. ASSUME NEW y \in Tids(l), r.zfrom[y] = x PROVE q.zfrom[y] = x
        BY <2>4, <2>5, <2>12, <4>3
      <4>4. QED
        BY <4>1, <4>2, <4>3
    <3>8. st1[l] + Len(q.queued) + Len(q.waiting) = p[l - 1]
      <4>1. st[l] + Len(r.queued) + Len(r.waiting) = p[l - 1]
        BY <2>3, <3>3 DEF Joint, Tallied
      <4>2. Len(q.queued) = Len(r.queued) /\ Len(q.waiting) = Len(r.waiting) - 1
        BY <2>6, <2>10
      <4>3. /\ Len(r.queued) \in Nat /\ Len(r.waiting) \in Nat /\ st[l] \in Nat
            /\ st1[l] = st[l] + 1
        BY <2>3, <2>5, <2>6, <2>7
      <4>4. (st[l] + 1) + Len(r.queued) + (Len(r.waiting) - 1) = p[l - 1]
        BY <4>1, <4>3, SMTT(30)
      <4>5. QED
        BY <4>2, <4>3, <4>4
    <3>9. ASSUME NEW j \in Int, j \in 1 .. Len(q.waiting)
          PROVE  M[l - 1][s[l - 1].from[q.waiting[j]]] = st1[l] + Len(q.queued) + j
      <4>1. j + 1 \in 1 .. Len(r.waiting) /\ q.waiting[j] = r.waiting[j + 1]
        <5>1. q.waiting = tl
          BY <2>10
        <5>2. j \in 1 .. Len(r.waiting) - 1
          BY <2>6, <3>9, <5>1
        <5>3. QED
          BY <2>6, <5>1, <5>2
      <4>2. M[l - 1][s[l - 1].from[r.waiting[j + 1]]] = st[l] + Len(r.queued) + (j + 1)
        BY <2>3, <3>3, <4>1 DEF Joint, Tallied
      <4>3. st1[l] + Len(q.queued) + j = st[l] + Len(r.queued) + (j + 1)
        <5>1. Len(r.queued) \in Nat /\ st[l] \in Nat
          BY <2>3, <2>5
        <5>2. (st[l] + 1) + Len(r.queued) + j = st[l] + Len(r.queued) + (j + 1)
          BY <5>1
        <5>3. Len(q.queued) = Len(r.queued) /\ st1[l] = st[l] + 1
          BY <2>7, <2>10
        <5>4. QED
          BY <5>2, <5>3
      <4>4. QED
        BY <4>1, <4>2, <4>3
    <3>10. ASSUME NEW y \in Tids(l)
           PROVE  m2[y] = IF q.zfrom[y] = None THEN q.msg[y]
                          ELSE M[l - 1][s[l - 1].from[q.zfrom[y]]]
      <4>1. CASE y = b
        BY <2>5, <2>6, <2>9, <2>12, <2>13, <4>1
      <4>2. CASE y # b
        <5>1. m[y] = IF r.zfrom[y] = None THEN r.msg[y]
                     ELSE M[l - 1][s[l - 1].from[r.zfrom[y]]]
          BY <2>3, <3>3 DEF Joint, Tallied, m
        <5>2. QED
          BY <2>9, <2>10, <2>12, <4>2, <5>1
      <4>3. QED
        BY <4>1, <4>2
    <3>11. Shared(v, l)
      BY <3>2, <3>3, <3>5, <3>6, <3>7 DEF Shared
    <3>12. Tallied(v, l, p, st1, M2)
      <4>1. \A j \in 1 .. Len(v[l].waiting) :
              M2[l - 1][v[l - 1].from[v[l].waiting[j]]] = st1[l] + Len(v[l].queued) + j
        BY <3>2, <3>3, <3>9
      <4>2. \A y \in Tids(l) :
              M2[l][y] = IF v[l].zfrom[y] = None THEN v[l].msg[y]
                         ELSE M2[l - 1][v[l - 1].from[v[l].zfrom[y]]]
        BY <2>8, <3>2, <3>3, <3>10
      <4>3. QED
        BY <3>3, <3>8, <4>1, <4>2 DEF Tallied
    <3>13. QED
      BY <3>11, <3>12 DEF Joint
  <2>21. Counted(l, p, p, st, st1, M, M2)
    BY <1>1, <2>7, <2>8 DEF Counted, Lines
  <2>22. /\ \E st2 : Lines(u, n, p, w, st2, M2)
         /\ Elsewhere(l, s, u) /\ SentSame(v[l], u[l])
    BY <1>1, <2>1, <2>2, <2>18, <2>19, <2>20, <2>21, SendLine
  <2>23. Served(s[l], u[l])
    <3>1. u[l].out = q.out /\ u[l].in = q.in /\ u[l].inInUse = q.inInUse
      BY <2>11, <2>22 DEF SentSame
    <3>2. QED
      BY <1>4, <2>10, <3>1 DEF Served, r
  <2>24. QED
    BY <2>22, <2>23 DEF Sound
<1>5. QED
  BY <1>3, <1>4

IsServed(s, n, f) ==
  f = [l \in 0 .. n |-> IF l = 0 THEN s ELSE CheckWaiting(CheckQueued(f[l - 1], l), l)]

\* The links served one after the other are a function.
LEMMA ServedExists ==
  ASSUME NEW s
  PROVE  \A n \in Nat : \E f : IsServed(s, n, f)
<1> DEFINE S == {n \in Nat : \E f : IsServed(s, n, f)}
<1>1. 0 \in S
  <2> DEFINE f == [i \in 0 .. 0 |-> s]
  <2>1. IsServed(s, 0, f)
    BY DEF IsServed
  <2>2. QED
    BY <2>1
<1>2. ASSUME NEW n \in Nat, n \in S PROVE n + 1 \in S
  <2>1. PICK f : IsServed(s, n, f)
    BY <1>2
  <2> DEFINE Serve(k, l) == CheckWaiting(CheckQueued(k, l), l)
  <2> DEFINE g == [i \in 0 .. n + 1 |-> IF i = n + 1 THEN Serve(f[n], i) ELSE f[i]]
  <2>2. \A i \in 0 .. n : f[i] = IF i = 0 THEN s ELSE Serve(f[i - 1], i)
    BY <2>1 DEF IsServed
  <2> HIDE DEF Serve
  <2>3. \A i \in 0 .. n : g[i] = f[i]
    OBVIOUS
  <2>4. g[n + 1] = Serve(g[n], n + 1)
    BY <2>3
  <2>5. ASSUME NEW i \in 0 .. n + 1
        PROVE  g[i] = IF i = 0 THEN s ELSE Serve(g[i - 1], i)
    <3>1. CASE i = n + 1
      BY <2>4, <3>1
    <3>2. CASE i \in 1 .. n
      BY <2>2, <2>3, <3>2
    <3>3. CASE i = 0
      BY <2>2, <2>3, <3>3
    <3>4. QED
      BY <3>1, <3>2, <3>3
  <2>6. g = [i \in 0 .. n + 1 |-> g[i]]
    OBVIOUS
  <2> HIDE DEF g
  <2>7. IsServed(s, n + 1, g)
    BY <2>5, <2>6 DEF IsServed, Serve
  <2>8. QED
    BY <2>7
<1> HIDE DEF S
<1>3. Nat \subseteq S
  BY <1>1, <1>2, Induction
<1>4. QED
  BY <1>3 DEF S

AllServed(s, u) == \A l \in Links : Served(s[l], u[l])

\* Serving the whole transport keeps the line sound: by induction over the links.
LEMMA DispatchedLine ==
  ASSUME NEW s, NEW n, NEW p, NEW w, Sound(s, n, p, w), NEW u, u = Dispatched(s)
  PROVE  Sound(u, n, p, w) /\ AllServed(s, u)
<1> DEFINE f == CHOOSE g : IsServed(s, NumLinks, g)
           S == {i \in Nat : i <= NumLinks => Sound(f[i], n, p, w) /\ AllServed(s, f[i])}
<1>1. NumLinks \in Nat /\ NumLinks >= 1
  BY LocalLinksAssumption
<1>2. IsServed(s, NumLinks, f)
  BY <1>1, ServedExists
<1>3. u = f[NumLinks]
  BY DEF Dispatched, IsServed
<1> HIDE DEF f
<1>4. f[0] = s /\ \A i \in 1 .. NumLinks : f[i] = CheckWaiting(CheckQueued(f[i - 1], i), i)
  <2>1. \A i \in 0 .. NumLinks :
          f[i] = IF i = 0 THEN s ELSE CheckWaiting(CheckQueued(f[i - 1], i), i)
    BY <1>2 DEF IsServed
  <2>2. 0 \in 0 .. NumLinks /\ \A i \in 1 .. NumLinks : i \in 0 .. NumLinks /\ i # 0
    BY <1>1
  <2>3. QED
    BY <2>1, <2>2
<1>5. 0 \in S
  BY <1>4 DEF AllServed, Served
<1>6. ASSUME NEW i \in Nat, i \in S PROVE i + 1 \in S
  <2> DEFINE l == i + 1
  <2>1. SUFFICES ASSUME l <= NumLinks
                 PROVE  Sound(f[l], n, p, w) /\ AllServed(s, f[l])
    OBVIOUS
  <2>2. l \in Links /\ l \in 1 .. NumLinks /\ l - 1 = i /\ i <= NumLinks
    BY <1>1, <2>1 DEF Links
  <2>3. Sound(f[i], n, p, w) /\ AllServed(s, f[i])
    BY <1>6, <2>2
  <2> DEFINE a == CheckQueued(f[i], l)
             b == CheckWaiting(a, l)
  <2>4. f[l] = b
    BY <1>4, <2>2
  <2> HIDE DEF l, a, b
  <2>5. Sound(a, n, p, w) /\ Elsewhere(l, f[i], a) /\ Served(f[i][l], a[l])
    BY <2>2, <2>3, CheckQueuedLine DEF a
  <2>6. Sound(b, n, p, w) /\ Elsewhere(l, a, b) /\ Served(a[l], b[l])
    BY <2>2, <2>5, CheckWaitingLine DEF b
  <2>7. AllServed(s, b)
    <3>1. ASSUME NEW k \in Links PROVE Served(s[k], b[k])
      <4>1. CASE k = l
        BY <2>3, <2>5, <2>6, <4>1 DEF AllServed, Served
      <4>2. CASE k # l
        BY <2>3, <2>5, <2>6, <4>2 DEF AllServed, Elsewhere
      <4>3. QED
        BY <4>1, <4>2
    <3>2. QED
      BY <3>1 DEF AllServed
  <2>8. QED
    BY <2>4, <2>6, <2>7
<1> HIDE DEF S
<1>7. Nat \subseteq S
  BY <1>5, <1>6, Induction
<1>8. NumLinks \in S
  BY <1>1, <1>7
<1>9. QED
  BY <1>1, <1>3, <1>8 DEF S

\* The output side, which no step of the input side touches.
SameOutput(r, q) ==
  /\ q.out = r.out /\ q.lastTid = r.lastTid /\ q.nextTid = r.nextTid
  /\ q.outInUse = r.outInUse /\ q.zfrom = r.zfrom /\ q.msg = r.msg
  /\ q.queued = r.queued /\ q.waiting = r.waiting

\* The worker has the next input buffer.
Fetched(r, q, l) ==
  /\ SameOutput(r, q) /\ q.from = r.from
  /\ q.in.data /\ q.in.buffer = Later(l, r.lastOrd)
  /\ q.lastOrd = Later(l, r.lastOrd)
  /\ q.inInUse = [r.inInUse EXCEPT ![Later(l, r.lastOrd)] = TRUE]

\* What fetching an input buffer changes.
LEMMA TakeInputIs ==
  ASSUME NEW s, Shape(s), NEW l \in Links, Later(l, s[l].lastOrd) \in Tids(l),
         NEW u, u = TakeInput(s, l), u # s
  PROVE  Elsewhere(l, s, u) /\ Fetched(s[l], u[l], l)
<1> DEFINE t == Later(l, s[l].lastOrd)
           f == [s[l].inInUse EXCEPT ![t] = TRUE]
           o == [data |-> TRUE, buffer |-> t, ready |-> FALSE]
           r == [s[l] EXCEPT !.inInUse = f, !.lastOrd = t, !.in = o]
<1>1. s[l] \in LinkState(l)
  BY DEF Shape
<1>2. /\ f \in [Tids(l) -> BOOLEAN] /\ o \in PortState(l) /\ t \in TidOrNone(l)
      /\ o.data /\ o.buffer = t
  BY <1>1 DEF LinkState, PortState, TidOrNone
<1>3. u = [k \in Links |-> IF k = l THEN r ELSE s[k]]
  BY <1>1 DEF Shape, LinkState, TakeInput, GetNextFullInput
<1> HIDE DEF f, t, o
<1>4. r \in LinkState(l)
  BY <1>1, <1>2 DEF LinkState
<1>5. /\ r.in = o /\ r.inInUse = f /\ r.lastOrd = t /\ r.from = s[l].from
      /\ SameOutput(s[l], r)
  BY <1>1 DEF LinkState, SameOutput
<1> HIDE DEF r
<1>6. u[l] = r /\ Elsewhere(l, s, u)
  BY <1>3, <1>4, Overwrite
<1>7. QED
  BY <1>2, <1>5, <1>6 DEF f, t, Fetched

\* The worker behind the link before takes its next buffer.
LEMMA OtherInputs ==
  ASSUME NEW s, NEW u, NEW k \in Links, k # 1, NEW p, NEW st, NEW M,
         s[k] \in LinkState(k), Joint(s, k, p, st, M), u[k] = s[k],
         \A x \in Tids(k - 1) : HasIn(u[k - 1], x) => ~s[k - 1].inInUse[x],
         \A x \in Tids(k - 1) :
           u[k - 1].inInUse[x] <=> s[k - 1].inInUse[x] \/ HasIn(u[k - 1], x),
         ~s[k - 1].in.data, u[k - 1].from = s[k - 1].from
  PROVE  Joint(u, k, p, st, M)
<1>1. PrevTids(k) = Tids(k - 1)
  BY LinkFacts
<1>2. /\ s[k].zfrom \in [Tids(k) -> PrevTids(k) \cup {None}]
      /\ s[k].waiting \in Seq(PrevTids(k))
  BY DEF LinkState
<1>3. ASSUME NEW x \in PrevTids(k), InSeq(x, u[k].waiting)
      PROVE  /\ u[k - 1].inInUse[x] /\ ~HasIn(u[k - 1], x)
             /\ \A b \in Tids(k) : u[k].zfrom[b] # x
  <2>1. s[k - 1].inInUse[x] /\ \A b \in Tids(k) : s[k].zfrom[b] # x
    BY <1>3 DEF Joint, Shared
  <2>2. QED
    BY <1>1, <2>1
<1>4. ASSUME NEW b \in Tids(k), u[k].zfrom[b] # None
      PROVE u[k - 1].inInUse[u[k].zfrom[b]] /\ ~HasIn(u[k - 1], u[k].zfrom[b])
  <2>1. s[k].zfrom[b] \in PrevTids(k) /\ s[k - 1].inInUse[s[k].zfrom[b]]
    BY <1>2, <1>4 DEF Joint, Shared
  <2>2. QED
    BY <1>1, <2>1
<1>5. ASSUME NEW x \in PrevTids(k), u[k - 1].inInUse[x]
      PROVE  HasIn(u[k - 1], x) \/ InSeq(x, u[k].waiting) \/ \E b \in Tids(k) : u[k].zfrom[b] = x
  <2>1. s[k - 1].inInUse[x] \/ HasIn(u[k - 1], x)
    BY <1>1, <1>5
  <2>2. ~HasIn(s[k - 1], x)
    BY DEF HasIn
  <2>3. QED
    BY <2>1, <2>2 DEF Joint, Shared
<1>6. st[k] + Len(u[k].queued) + Len(u[k].waiting) = p[k - 1]
  BY DEF Joint, Tallied
<1>7. \A j \in 1 .. Len(u[k].waiting) :
           M[k - 1][u[k - 1].from[u[k].waiting[j]]] = st[k] + Len(u[k].queued) + j
  BY DEF Joint, Tallied
<1>8. \A b \in Tids(k) :
           M[k][b] = IF u[k].zfrom[b] = None THEN u[k].msg[b]
                     ELSE M[k - 1][u[k - 1].from[u[k].zfrom[b]]]
  BY DEF Joint, Tallied
<1>9. QED
  BY <1>3, <1>4, <1>5, <1>6, <1>7, <1>8 DEF Joint, Shared, Tallied

\* A worker that fetches its next buffer keeps the line sound, with one message
\* more handed over.
LEMMA TakeInputLine ==
  ASSUME NEW s, NEW n, NEW p, NEW w, Sound(s, n, p, w), NEW l \in Links,
         NEW u, u = TakeInput(s, l), u # s
  PROVE  /\ Sound(u, [n EXCEPT ![l] = n[l] + 1], p, w)
         /\ Elsewhere(l, s, u) /\ Fetched(s[l], u[l], l) /\ ~s[l].in.data
<1>1. PICK st, M : Lines(s, n, p, w, st, M)
  BY DEF Sound
<1> DEFINE r == s[l]
           q == u[l]
           t == Later(l, r.lastOrd)
           m == M[l]
           N == NumBufs[l]
           a == n[l]
           z == st[l]
<1>2. Shape(s)
  BY <1>1, LinesShape
<1>3. /\ r \in LinkState(l) /\ a \in Nat /\ z \in Nat
      /\ m \in [Tids(l) -> Nat]
      /\ Sides(r, l) /\ Ring(r, l, a, z, m) /\ Queue(r, z, m)
      /\ Frugal => OutOwned(r, l, {})
      /\ Joint(s, l, p, st, M)
  BY <1>1, LinesAt
<1>4. N \in Nat \ {0} /\ Tids(l) = 0 .. N - 1
  BY LinkFacts DEF Tids
<1>5. /\ ~r.in.data /\ r.inInUse[t] = FALSE
      /\ ~InputEmpty(s, l, t)
  <2>1. ~r.in.data /\ ~r.inInUse[t] /\ ~InputEmpty(s, l, t)
    BY DEF TakeInput, HasFullInput
  <2>2. t \in Tids(l)
    BY <1>3, <1>4, OnRing DEF Ring
  <2>3. r.inInUse[t] \in BOOLEAN
    BY <1>3, <2>2 DEF LinkState
  <2>4. QED
    BY <2>1, <2>3
<1>6. t = a % N /\ t \in Tids(l)
  BY <1>3, <1>4, OnRing DEF Ring
<1>7. Elsewhere(l, s, u) /\ Fetched(r, q, l)
  BY <1>2, <1>6, TakeInputIs
<1>8. r.from[t] # None
  <2>1. CASE l < NumLinks
    <3> DEFINE k == l + 1
    <3>1. k \in Links /\ k - 1 = l /\ Joint(s, k, p, st, M)
      BY <1>1, <2>1, LinkFacts, LinesAt
    <3>2. t # None
      BY <1>6, LinkFacts
    <3>3. \A b \in Tids(k) : s[k].zfrom[b] # t
      BY <1>5, <3>1, <3>2 DEF Joint, Shared
    <3>4. QED
      BY <1>5, <2>1, <3>3 DEF InputEmpty
  <2>2. CASE ~(l < NumLinks)
    BY <1>5, <2>2 DEF InputEmpty
  <2>3. QED
    BY <2>1, <2>2
<1>9. a <= z /\ z <= a + N /\ t \in Arc(N, a, z)
  BY <1>3, <1>5, <1>6, <1>8 DEF Ring
<1>10. a < z
  <2>1. Arc(N, a, a) = {}
    BY <1>3, <1>4, ArcEmpty
  <2>2. QED
    BY <1>3, <1>9, <2>1
<1>11. Arc(N, a + 1, z) = Arc(N, a, z) \ {t}
  <2>1. Arc(N, a + 1, z) = Arc(N, a, z) \ {a % N}
    BY <1>3, <1>4, <1>9, <1>10, ArcShrinks
  <2>2. QED
    BY <1>6, <2>1
<1>12. /\ q \in LinkState(l) /\ q.from = r.from /\ q.in.data /\ q.in.buffer = t
       /\ q.lastOrd = t /\ SameOutput(r, q)
       /\ r.inInUse \in [Tids(l) -> BOOLEAN]
       /\ \A x \in Tids(l) : q.inInUse[x] <=> (x = t \/ r.inInUse[x])
  <2>1. q \in LinkState(l) /\ r.inInUse \in [Tids(l) -> BOOLEAN]
    BY <1>3, <1>7 DEF Elsewhere, Shape, LinkState
  <2>2. q.inInUse = [r.inInUse EXCEPT ![t] = TRUE]
    BY <1>7 DEF Fetched
  <2> HIDE DEF t, r, q
  <2>3. QED
    BY <1>6, <1>7, <2>1, <2>2 DEF Fetched, t
<1> HIDE DEF r, q, t, m, N, a, z
<1>13. Sides(q, l)
  BY <1>3, <1>6, <1>8, <1>12 DEF Sides, SameOutput
<1>14. Ring(q, l, a + 1, z, m)
  <2>1. Later(l, q.lastOrd) = (a + 1) % NumBufs[l]
    BY <1>3, <1>4, <1>6, <1>12, StepOnRing DEF Later, N
  <2>2. {x \in Tids(l) : q.from[x] # None /\ ~q.inInUse[x]} = Arc(NumBufs[l], a + 1, z)
    <3>1. {x \in Tids(l) : r.from[x] # None /\ ~r.inInUse[x]} = Arc(N, a, z)
      BY <1>3 DEF Ring, N
    <3>2. QED
      BY <1>11, <1>12, <3>1 DEF N
  <2>3. \A i \in a + 1 .. z - 1 : m[q.from[i % NumBufs[l]]] = i + 1
    BY <1>3, <1>12 DEF Ring
  <2>4. a + 1 > 0 /\ m[q.from[q.in.buffer]] = a + 1
    <3>1. a \in a .. z - 1
      BY <1>3, <1>10
    <3>2. m[r.from[a % NumBufs[l]]] = a + 1
      BY <1>3, <3>1 DEF Ring
    <3>3. QED
      BY <1>3, <1>6, <1>12, <3>2 DEF N
  <2>5. a + 1 <= z /\ z <= (a + 1) + NumBufs[l]
    BY <1>3, <1>4, <1>9, <1>10 DEF N
  <2>6. q.nextTid = z % NumBufs[l]
    BY <1>3, <1>12 DEF Ring, SameOutput
  <2>7. QED
    BY <2>1, <2>2, <2>3, <2>4, <2>5, <2>6 DEF Ring
<1> DEFINE n2 == [n EXCEPT ![l] = n[l] + 1]
<1>15. /\ n2 \in [Links -> Nat] /\ n2[l] = a + 1
       /\ \A i \in Links : i # l => n2[i] = n[i]
  BY <1>1, <1>3 DEF Lines, a
<1> HIDE DEF n2
<1>16. Beside(l, s, n, p, st, M, u, n2, p, st, M)
  BY <1>1, <1>7, <1>15 DEF Beside, Elsewhere, Shape, Lines
<1>17. ASSUME l < NumLinks PROVE Joint(u, l + 1, p, st, M)
  <2> DEFINE k == l + 1
  <2>1. k \in Links /\ k # 1 /\ k # l /\ k - 1 = l
    BY <1>17, LinkFacts
  <2>2. s[k] \in LinkState(k) /\ Joint(s, k, p, st, M) /\ u[k] = s[k]
    BY <1>1, <1>7, <2>1, LinesAt DEF Elsewhere
  <2>3. \A x \in Tids(l) : HasIn(u[l], x) => ~s[l].inInUse[x]
    BY <1>5, <1>12 DEF HasIn, r, q
  <2>4. \A x \in Tids(l) : u[l].inInUse[x] <=> s[l].inInUse[x] \/ HasIn(u[l], x)
    BY <1>12 DEF HasIn, r, q
  <2>5. ~s[l].in.data /\ u[l].from = s[l].from
    BY <1>5, <1>12 DEF r, q
  <2> HIDE DEF k
  <2>6. Joint(u, k, p, st, M)
    BY <2>1, <2>2, <2>3, <2>4, <2>5, OtherInputs
  <2>7. QED
    BY <2>6 DEF k
<1>18. ASSUME l = Sink PROVE Kept(u[l], M[l], w)
  <2>1. Kept(r, m, w)
    BY <1>1, <1>18 DEF Lines, r, m
  <2>2. \A x \in Tids(Sink) : HasIn(q, x) <=> x = t
    BY <1>12 DEF HasIn
  <2>3. \A x \in Tids(Sink) : q.inInUse[x] <=> (x = t \/ r.inInUse[x])
    BY <1>12, <1>18
  <2>4. ~r.inInUse[t] /\ \A x \in Tids(Sink) : ~HasIn(r, x)
    BY <1>5 DEF HasIn
  <2>5. Kept(q, m, w)
    BY <1>12, <2>1, <2>2, <2>3, <2>4 DEF Kept
  <2>6. QED
    BY <2>5 DEF q, m
<1>19. Lines(u, n2, p, w, st, M)
  <2>1. Sides(u[l], l) /\ Ring(u[l], l, n2[l], st[l], M[l])
    BY <1>13, <1>14, <1>15 DEF q, m, z
  <2>2. /\ u[l].out = s[l].out /\ u[l].outInUse = s[l].outInUse /\ u[l].queued = s[l].queued
        /\ u[l].waiting = s[l].waiting /\ u[l].zfrom = s[l].zfrom /\ u[l].msg = s[l].msg
    BY <1>12 DEF SameOutput, q, r
  <2>3. QED
    BY <1>1, <1>16, <1>17, <1>18, <2>1, <2>2, InputSide
<1>20. QED
  BY <1>5, <1>7, <1>19 DEF Sound, n2, q, r

\* The worker's input buffer is not its own any more.
SentAway(r, q) ==
  /\ SameOutput(r, q) /\ q.from = r.from /\ q.inInUse = r.inInUse /\ q.lastOrd = r.lastOrd
  /\ ~q.in.data /\ q.in.ready

\* It waits for an output buffer of the next link.
Adopted(r, q, t) ==
  /\ ~q.out.data /\ q.out.ready /\ q.waiting = Append(r.waiting, t)
  /\ q.in = r.in /\ q.lastTid = r.lastTid /\ q.lastOrd = r.lastOrd /\ q.nextTid = r.nextTid
  /\ q.outInUse = r.outInUse /\ q.inInUse = r.inInUse /\ q.from = r.from
  /\ q.zfrom = r.zfrom /\ q.msg = r.msg /\ q.queued = r.queued

\* The input ring is described by five fields.
LEMMA SameRing ==
  ASSUME NEW r, NEW q, NEW l, NEW n, NEW st, NEW m, Ring(r, l, n, st, m),
         q.nextTid = r.nextTid, q.lastOrd = r.lastOrd, q.from = r.from,
         q.inInUse = r.inInUse, q.in.data => q.in = r.in
  PROVE  Ring(q, l, n, st, m)
BY DEF Ring

\* What sending an input buffer on changes.
LEMMA SendOnIs ==
  ASSUME NEW s, Shape(s), NEW l \in Links, l < NumLinks,
         s[l].in.buffer \in Tids(l), NEW u, u = SendOn(s, l)
  PROVE  /\ Shape(u) /\ SentAway(s[l], u[l])
         /\ Adopted(s[l + 1], u[l + 1], s[l].in.buffer)
         /\ \A k \in Links : k # l /\ k # l + 1 => u[k] = s[k]
<1> DEFINE k == l + 1
           a == Append(s[k].waiting, s[l].in.buffer)
           q == [s[l] EXCEPT !.in.data = FALSE, !.in.ready = TRUE]
           r == [s[k] EXCEPT !.waiting = a, !.out.data = FALSE, !.out.ready = TRUE]
<1>1. k \in Links /\ k # l /\ PrevTids(k) = Tids(l)
  BY LinkFacts
<1>2. /\ s[l] \in LinkState(l) /\ s[l].in \in PortState(l)
      /\ s[k] \in LinkState(k) /\ s[k].out \in PortState(k)
      /\ s[k].waiting \in Seq(Tids(l))
  BY <1>1 DEF Shape, LinkState
<1>4. a \in Seq(PrevTids(k))
  BY <1>1, <1>2, AppendFacts
<1>5. u = [j \in Links |-> IF j = l THEN q ELSE IF j = k THEN r ELSE s[j]]
  <2>1. s = [j \in Links |-> s[j]]
    BY DEF Shape
  <2>2. u = [s EXCEPT ![l].in.data = FALSE, ![l].in.ready = TRUE, ![k].waiting = a,
                      ![k].out.data = FALSE, ![k].out.ready = TRUE]
    BY <1>1, <2>1 DEF SendOn
  <2>3. u = [j \in Links |-> u[j]]
    BY <2>1, <2>2
  <2> HIDE DEF k, a
  <2>4. u[l] = q
    BY <1>1, <2>1, <2>2
  <2>5. u[k] = r
    BY <1>1, <2>1, <2>2
  <2>6. \A j \in Links : j # l /\ j # k => u[j] = s[j]
    BY <2>1, <2>2
  <2> HIDE DEF q, r
  <2>7. QED
    BY <2>3, <2>4, <2>5, <2>6
<1> HIDE DEF k, a
<1>6. q \in LinkState(l) /\ r \in LinkState(k)
  BY <1>2, <1>4 DEF LinkState, PortState
<1>7. /\ ~q.in.data /\ q.in.ready /\ q.from = s[l].from /\ q.inInUse = s[l].inInUse
      /\ q.lastOrd = s[l].lastOrd /\ SameOutput(s[l], q)
  BY <1>2 DEF LinkState, PortState, SameOutput
<1>8. /\ r.waiting = a /\ ~r.out.data /\ r.out.ready
      /\ r.in = s[k].in /\ r.lastTid = s[k].lastTid /\ r.lastOrd = s[k].lastOrd
      /\ r.nextTid = s[k].nextTid /\ r.outInUse = s[k].outInUse
      /\ r.inInUse = s[k].inInUse /\ r.from = s[k].from
      /\ r.zfrom = s[k].zfrom /\ r.msg = s[k].msg /\ r.queued = s[k].queued
  BY <1>2 DEF LinkState, PortState
<1> HIDE DEF q, r
<1>9. /\ u[l] = q /\ u[k] = r /\ Shape(u)
      /\ \A j \in Links : j # l /\ j # k => u[j] = s[j]
  BY <1>1, <1>5, <1>6 DEF Shape
<1>10. SentAway(s[l], u[l])
  BY <1>7, <1>9 DEF SentAway
<1>11. Adopted(s[k], u[k], s[l].in.buffer)
  BY <1>8, <1>9 DEF Adopted, a
<1>12. QED
  BY <1>9, <1>10, <1>11 DEF k

OnwardGiven(s, n, p, w, l, u) ==
  /\ Sound(s, n, p, w) /\ l \in Links /\ l < NumLinks /\ s[l].in.data
  /\ (Frugal => ~s[l + 1].out.data) /\ n[l] = p[l] + 1 /\ u = SendOn(s, l)

OnwardDone(s, n, p, w, l, u) ==
  /\ Sound(u, n, [p EXCEPT ![l] = p[l] + 1], w) /\ SentAway(s[l], u[l])
  /\ Adopted(s[l + 1], u[l + 1], s[l].in.buffer)
  /\ \A k \in Links : k # l /\ k # l + 1 => u[k] = s[k]

\* A worker that sends its input buffer on keeps the line sound.
LEMMA SendOnLine ==
  ASSUME NEW s, NEW n, NEW p, NEW w, NEW l, NEW u, OnwardGiven(s, n, p, w, l, u)
  PROVE  OnwardDone(s, n, p, w, l, u)
<1> SUFFICES ASSUME Sound(s, n, p, w), l \in Links, l < NumLinks, s[l].in.data,
                    Frugal => ~s[l + 1].out.data, n[l] = p[l] + 1, u = SendOn(s, l)
             PROVE  OnwardDone(s, n, p, w, l, u)
  BY DEF OnwardGiven
<1>1. PICK st, M : Lines(s, n, p, w, st, M)
  BY DEF Sound
<1> DEFINE k == l + 1
           t == s[l].in.buffer
           p2 == [p EXCEPT ![l] = p[l] + 1]
<1>2. /\ k \in Links /\ k # l /\ k # 1 /\ PrevTids(k) = Tids(l) /\ k - 1 = l /\ l # Sink
      /\ l \in 0 .. NumLinks - 1 /\ Sink \in Links /\ None \notin Tids(l)
  BY LinkFacts DEF Sink
<1>3. Shape(s)
  BY <1>1, LinesShape
<1>4. /\ s[l] \in LinkState(l) /\ Sides(s[l], l) /\ Ring(s[l], l, n[l], st[l], M[l])
      /\ Queue(s[l], st[l], M[l]) /\ (Frugal => OutOwned(s[l], l, {}))
      /\ n[l] \in Nat /\ st[l] \in Nat /\ M[l] \in [Tids(l) -> Nat]
  BY <1>1, LinesAt
<1>5. /\ s[k] \in LinkState(k) /\ Sides(s[k], k) /\ Ring(s[k], k, n[k], st[k], M[k])
      /\ Queue(s[k], st[k], M[k]) /\ (Frugal => OutOwned(s[k], k, {}))
      /\ n[k] \in Nat /\ st[k] \in Nat /\ M[k] \in [Tids(k) -> Nat]
      /\ Joint(s, k, p, st, M)
  BY <1>1, <1>2, LinesAt
<1>6. t \in Tids(l) /\ s[l].inInUse[t] /\ HasIn(s[l], t) /\ \A x : HasIn(s[l], x) => x = t
  BY <1>4 DEF Sides, HasIn
<1>7. /\ Shape(u) /\ SentAway(s[l], u[l]) /\ Adopted(s[k], u[k], t)
      /\ \A j \in Links : j # l /\ j # k => u[j] = s[j]
  BY <1>3, <1>6, SendOnIs
<1>8. u[l] \in LinkState(l) /\ u[k] \in LinkState(k)
  BY <1>2, <1>7 DEF Shape
<1>9. /\ p2 \in [0 .. NumLinks - 1 -> Nat] /\ p2[l] = p[l] + 1 /\ p[l] \in Nat
      /\ \A i \in 0 .. NumLinks - 1 : i # l => p2[i] = p[i]
  BY <1>1, <1>2 DEF Lines
<1>10. /\ s[k].waiting \in Seq(Tids(l)) /\ s[k].zfrom \in [Tids(k) -> Tids(l) \cup {None}]
       /\ s[k].queued \in Seq(Tids(k)) /\ Len(s[k].queued) \in Nat
       /\ Len(s[k].waiting) \in Nat
  BY <1>2, <1>5 DEF LinkState
<1> HIDE DEF k, t, p2
<1>11. /\ ~InSeq(t, s[k].waiting) /\ \A b \in Tids(k) : s[k].zfrom[b] # t
  BY <1>2, <1>5, <1>6 DEF Joint, Shared
<1>12. /\ Len(u[k].waiting) = Len(s[k].waiting) + 1
       /\ \A i \in 1 .. Len(s[k].waiting) : u[k].waiting[i] = s[k].waiting[i]
       /\ u[k].waiting[Len(s[k].waiting) + 1] = t
       /\ \A y : InSeq(y, u[k].waiting) <=> InSeq(y, s[k].waiting) \/ y = t
       /\ Distinct(u[k].waiting)
  <2>1. u[k].waiting = Append(s[k].waiting, t) /\ Distinct(s[k].waiting)
    BY <1>5, <1>7 DEF Adopted, Sides
  <2>2. QED
    BY <1>6, <1>10, <1>11, <2>1, AppendFacts
<1>13. LinkInv(u[l], l, n[l], st[l], M[l])
  <2>1. Sides(u[l], l)
    BY <1>4, <1>7, <1>8 DEF Sides, SentAway, SameOutput
  <2>2. Ring(u[l], l, n[l], st[l], M[l])
    BY <1>4, <1>7, SameRing DEF SentAway, SameOutput
  <2>3. Queue(u[l], st[l], M[l]) /\ (Frugal => OutOwned(u[l], l, {}))
    BY <1>4, <1>7 DEF Queue, OutOwned, HasOut, SentAway, SameOutput
  <2>4. QED
    BY <1>4, <2>1, <2>2, <2>3 DEF LinkInv
<1>14. LinkInv(u[k], k, n[k], st[k], M[k])
  <2>1. Sides(u[k], k)
    BY <1>5, <1>7, <1>8, <1>12 DEF Sides, Adopted
  <2>2. Ring(u[k], k, n[k], st[k], M[k])
    BY <1>5, <1>7, SMTT(30) DEF Ring, Adopted
  <2>3. Queue(u[k], st[k], M[k])
    BY <1>5, <1>7 DEF Queue, Adopted
  <2>4. Frugal => OutOwned(u[k], k, {})
    BY <1>5, <1>7 DEF OutOwned, HasOut, Adopted, k
  <2>5. QED
    BY <1>5, <2>1, <2>2, <2>3, <2>4 DEF LinkInv
<1>15. Joint(u, k, p2, st, M)
  <2>1. /\ u[l].inInUse = s[l].inInUse /\ u[l].from = s[l].from
        /\ \A x : ~HasIn(u[l], x)
    BY <1>7 DEF SentAway, HasIn
  <2>2. u[k].zfrom = s[k].zfrom /\ u[k].msg = s[k].msg /\ u[k].queued = s[k].queued
    BY <1>7 DEF Adopted
  <2>3. ASSUME NEW x \in PrevTids(k), InSeq(x, u[k].waiting)
        PROVE  /\ u[k - 1].inInUse[x] /\ ~HasIn(u[k - 1], x)
               /\ \A b \in Tids(k) : u[k].zfrom[b] # x
    <3>1. CASE x = t
      BY <1>2, <1>6, <1>11, <2>1, <2>2, <3>1
    <3>2. CASE x # t
      BY <1>2, <1>5, <1>12, <2>1, <2>2, <2>3, <3>2 DEF Joint, Shared
    <3>3. QED
      BY <3>1, <3>2
  <2>4. \A b \in Tids(k) : u[k].zfrom[b] # None =>
          u[k - 1].inInUse[u[k].zfrom[b]] /\ ~HasIn(u[k - 1], u[k].zfrom[b])
    BY <1>2, <1>5, <2>1, <2>2 DEF Joint, Shared
  <2>5. \A x \in PrevTids(k) : u[k - 1].inInUse[x] =>
         HasIn(u[k - 1], x) \/ InSeq(x, u[k].waiting) \/ \E b \in Tids(k) : u[k].zfrom[b] = x
    BY <1>2, <1>5, <1>6, <1>12, <2>1, <2>2 DEF Joint, Shared
  <2>6. st[k] + Len(s[k].queued) + Len(s[k].waiting) = p[l]
    BY <1>2, <1>5 DEF Joint, Tallied
  <2>6a. /\ st[k] + Len(s[k].queued) + (Len(s[k].waiting) + 1) = p[l] + 1
         /\ n[l] = st[k] + Len(s[k].queued) + (Len(s[k].waiting) + 1)
    <3> DEFINE A == st[k]
               B == Len(s[k].queued)
               C == Len(s[k].waiting)
               D == p[l]
               E == n[l]
    <3>1. A \in Nat /\ B \in Nat /\ C \in Nat /\ D \in Nat /\ A + B + C = D /\ E = D + 1
      BY <1>5, <1>9, <1>10, <2>6
    <3> HIDE DEF A, B, C, D, E
    <3>2. A + B + (C + 1) = D + 1 /\ E = A + B + (C + 1)
      BY <3>1
    <3>3. QED
      BY <3>2 DEF A, B, C, D, E
  <2>7. st[k] + Len(u[k].queued) + Len(u[k].waiting) = p2[k - 1]
    <3>1. st[k] + Len(s[k].queued) + (Len(s[k].waiting) + 1) = p[l] + 1
      BY <2>6a
    <3>2. QED
      BY <1>2, <1>9, <1>12, <2>2, <3>1
  <2>8. ASSUME NEW j \in 1 .. Len(u[k].waiting)
        PROVE  M[k - 1][u[k - 1].from[u[k].waiting[j]]] = st[k] + Len(u[k].queued) + j
    <3>1. CASE j \in 1 .. Len(s[k].waiting)
      <4>1. M[k - 1][s[k - 1].from[s[k].waiting[j]]] = st[k] + Len(s[k].queued) + j
        BY <1>5, <3>1 DEF Joint, Tallied
      <4>2. u[k].waiting[j] = s[k].waiting[j] /\ u[k - 1].from = s[k - 1].from
        BY <1>2, <1>12, <2>1, <3>1
      <4>3. QED
        BY <2>2, <4>1, <4>2
    <3>2. CASE j = Len(s[k].waiting) + 1
      <4>1. M[l][s[l].from[t]] = n[l]
        BY <1>4 DEF Ring, t
      <4>2. n[l] = st[k] + Len(s[k].queued) + (Len(s[k].waiting) + 1)
        BY <2>6a
      <4>3. QED
        BY <1>2, <1>12, <2>1, <2>2, <3>2, <4>1, <4>2
    <3>3. Len(s[k].waiting) \in Nat /\ j \in 1 .. Len(s[k].waiting) + 1
      BY <1>10, <1>12
    <3>4. QED
      BY <3>1, <3>2, <3>3
  <2>9. \A b \in Tids(k) :
         M[k][b] = IF u[k].zfrom[b] = None THEN u[k].msg[b]
                   ELSE M[k - 1][u[k - 1].from[u[k].zfrom[b]]]
    <3>1. \A b \in Tids(k) :
           M[k][b] = IF s[k].zfrom[b] = None THEN s[k].msg[b]
                     ELSE M[k - 1][s[k - 1].from[s[k].zfrom[b]]]
      BY <1>5 DEF Joint, Tallied
    <3>2. u[k - 1].from = s[k - 1].from
      BY <1>2, <2>1
    <3>3. QED
      BY <2>2, <3>1, <3>2
  <2>10. QED
    BY <2>3, <2>4, <2>5, <2>7, <2>8, <2>9 DEF Joint, Shared, Tallied
<1>16. ASSUME NEW i \in Links, i # k PROVE Joint(u, i, p2, st, M)
  <2>1. /\ s[i] \in LinkState(i) /\ Joint(s, i, p, st, M)
        /\ i - 1 \in 0 .. NumLinks - 1
    BY <1>1, LinkFacts, LinesAt
  <2>2. i - 1 # l
    BY <1>16, LinkFacts DEF k
  <2>3. p2[i - 1] = p[i - 1]
    BY <1>9, <2>1, <2>2
  <2>4. /\ u[i].waiting = s[i].waiting /\ u[i].zfrom = s[i].zfrom /\ u[i].msg = s[i].msg
        /\ u[i].queued = s[i].queued
    <3>1. CASE i = l
      BY <1>7, <3>1 DEF SentAway, SameOutput
    <3>2. CASE i # l
      BY <1>7, <1>16, <3>2
    <3>3. QED
      BY <3>1, <3>2
  <2>5. ASSUME i # 1
        PROVE  /\ u[i - 1].in = s[i - 1].in /\ u[i - 1].inInUse = s[i - 1].inInUse
               /\ u[i - 1].from = s[i - 1].from
    <3>1. i - 1 \in Links
      BY <2>5, LinkFacts
    <3>2. CASE i - 1 = k
      BY <1>7, <3>2 DEF Adopted
    <3>3. CASE i - 1 # k
      BY <1>7, <2>2, <3>1, <3>3
    <3>4. QED
      BY <3>2, <3>3
  <2>6. QED
    BY <2>1, <2>3, <2>4, <2>5, SameJoint
<1>17. Kept(u[Sink], M[Sink], w)
  <2>1. Kept(s[Sink], M[Sink], w)
    BY <1>1 DEF Lines
  <2>2. /\ u[Sink].in = s[Sink].in /\ u[Sink].inInUse = s[Sink].inInUse
        /\ u[Sink].from = s[Sink].from
    <3>1. CASE Sink = k
      BY <1>7, <3>1 DEF Adopted
    <3>2. CASE Sink # k
      BY <1>2, <1>7, <3>2
    <3>3. QED
      BY <3>1, <3>2
  <2>3. QED
    BY <2>1, <2>2, SameKept
<1>18. ASSUME NEW i \in Links
       PROVE LinkInv(u[i], i, n[i], st[i], M[i])
  <2>1. CASE i = l \/ i = k
    BY <1>13, <1>14, <2>1
  <2>2. CASE i # l /\ i # k
    BY <1>1, <1>7, <2>2 DEF Lines
  <2>3. QED
    BY <2>1, <2>2
<1>19. Lines(u, n, p2, w, st, M)
  BY <1>1, <1>7, <1>9, <1>15, <1>16, <1>17, <1>18 DEF Lines, Shape
<1>20. QED
  BY <1>7, <1>19 DEF OnwardDone, Sound, k, t, p2

\* Input buffer x of a link is free, and the output buffer that it was attached
\* to, if it is any.
Free(r, q, l, x) ==
  /\ q.out = r.out /\ q.lastTid = r.lastTid /\ q.lastOrd = r.lastOrd
  /\ q.nextTid = r.nextTid /\ q.msg = r.msg /\ q.queued = r.queued
  /\ q.waiting = r.waiting
  /\ \A y \in Tids(l) : q.from[y] = IF y = x THEN None ELSE r.from[y]
  /\ \A y \in Tids(l) : q.inInUse[y] <=> r.inInUse[y] /\ y # x
  /\ \A b \in Tids(l) :
       q.zfrom[b] = IF x # None /\ r.from[x] = b THEN None ELSE r.zfrom[b]
  /\ \A b \in Tids(l) : q.outInUse[b] <=> r.outInUse[b] /\ ~(x # None /\ r.from[x] = b)

\* Port::inputAvailable frees the chain behind a buffer, on every link.
LEMMA InputAvailableIs ==
  ASSUME NEW s, Shape(s), NEW l \in Links, NEW t, NEW c, c = Behind(s, l, t),
         NEW u, u = InputAvailable(s, l, t)
  PROVE  Shape(u) /\ \A k \in Links : Free(s[k], u[k], k, c[k]) /\ u[k].in = s[k].in
<1> DEFINE F(k) == [x \in Tids(k) |-> IF x = c[k] THEN None ELSE s[k].from[x]]
           I(k) == [x \in Tids(k) |-> s[k].inInUse[x] /\ x # c[k]]
           Read(k, b) == c[k] # None /\ s[k].from[c[k]] = b
           Z(k) == [b \in Tids(k) |-> IF Read(k, b) THEN None ELSE s[k].zfrom[b]]
           O(k) == [b \in Tids(k) |-> s[k].outInUse[b] /\ ~Read(k, b)]
           q(k) == [s[k] EXCEPT !.from = F(k), !.inInUse = I(k), !.zfrom = Z(k), !.outInUse = O(k)]
<1>1. ASSUME NEW k \in Links
      PROVE  /\ s[k] \in LinkState(k)
             /\ F(k) \in [Tids(k) -> TidOrNone(k)] /\ I(k) \in [Tids(k) -> BOOLEAN]
             /\ Z(k) \in [Tids(k) -> PrevTids(k) \cup {None}] /\ O(k) \in [Tids(k) -> BOOLEAN]
  <2>1. s[k] \in LinkState(k)
    BY DEF Shape
  <2>2. /\ s[k].from \in [Tids(k) -> TidOrNone(k)] /\ s[k].inInUse \in [Tids(k) -> BOOLEAN]
        /\ s[k].zfrom \in [Tids(k) -> PrevTids(k) \cup {None}]
        /\ s[k].outInUse \in [Tids(k) -> BOOLEAN]
    BY <2>1 DEF LinkState
  <2> HIDE DEF Read
  <2>3. F(k) \in [Tids(k) -> TidOrNone(k)]
    BY <2>2 DEF TidOrNone
  <2>4. I(k) \in [Tids(k) -> BOOLEAN]
    OBVIOUS
  <2>5. Z(k) \in [Tids(k) -> PrevTids(k) \cup {None}]
    BY <2>2
  <2>6. O(k) \in [Tids(k) -> BOOLEAN]
    OBVIOUS
  <2>7. QED
    BY <2>1, <2>3, <2>4, <2>5, <2>6
<1>2. u = [k \in Links |-> q(k)]
  <2>1. ASSUME NEW k \in Links
        PROVE  [s[k] EXCEPT
           !.from = [x \in Tids(k) |-> IF x = c[k] THEN None ELSE @[x]],
           !.inInUse = [x \in Tids(k) |-> @[x] /\ x # c[k]],
           !.zfrom = [b \in Tids(k) |-> IF Read(k, b) THEN None ELSE @[b]],
           !.outInUse = [b \in Tids(k) |-> @[b] /\ ~Read(k, b)]] = q(k)
    BY <1>1
  <2>2. QED
    BY <2>1 DEF InputAvailable
<1>3. ASSUME NEW k \in Links
      PROVE u[k] \in LinkState(k) /\ Free(s[k], u[k], k, c[k]) /\ u[k].in = s[k].in
  <2> HIDE DEF F, I, Z, O
  <2>1. u[k] = q(k) /\ q(k) \in LinkState(k)
    BY <1>1, <1>2 DEF LinkState
  <2>2. /\ q(k).out = s[k].out /\ q(k).lastTid = s[k].lastTid /\ q(k).lastOrd = s[k].lastOrd
        /\ q(k).nextTid = s[k].nextTid /\ q(k).msg = s[k].msg /\ q(k).queued = s[k].queued
        /\ q(k).waiting = s[k].waiting /\ q(k).in = s[k].in
        /\ q(k).from = F(k) /\ q(k).inInUse = I(k) /\ q(k).zfrom = Z(k) /\ q(k).outInUse = O(k)
    BY <1>1 DEF LinkState
  <2> HIDE DEF q
  <2>3. /\ \A y \in Tids(k) : F(k)[y] = IF y = c[k] THEN None ELSE s[k].from[y]
        /\ \A y \in Tids(k) : I(k)[y] <=> s[k].inInUse[y] /\ y # c[k]
        /\ \A b \in Tids(k) : Z(k)[b] = IF Read(k, b) THEN None ELSE s[k].zfrom[b]
        /\ \A b \in Tids(k) : O(k)[b] <=> s[k].outInUse[b] /\ ~Read(k, b)
    BY DEF F, I, Z, O
  <2>4. QED
    BY <2>1, <2>2, <2>3 DEF Free
<1>4. u = [k \in Links |-> u[k]]
  BY <1>2
<1>5. QED
  BY <1>3, <1>4 DEF Shape

\* What CP289Release changes.
LEMMA ReleaseIs ==
  ASSUME NEW s, Shape(s), NEW l \in Links, NEW t, NEW c, c = Behind(s, l, t),
         NEW u, u = Release(s, l, t)
  PROVE  /\ Shape(u) /\ \A k \in Links : Free(s[k], u[k], k, c[k])
         /\ \A k \in Links : k # l => u[k].in = s[k].in
         /\ u[l].in.ready /\ u[l].in.buffer = s[l].in.buffer
         /\ u[l].in.data <=> s[l].in.data /\ s[l].in.buffer # t
<1> DEFINE v == InputAvailable(s, l, t)
           d == s[l].in.data /\ s[l].in.buffer # t
           r == [v[l] EXCEPT !.in.ready = TRUE, !.in.data = d]
<1>1. Shape(v) /\ \A k \in Links : Free(s[k], v[k], k, c[k]) /\ v[k].in = s[k].in
  BY InputAvailableIs
<1>2. u = [v EXCEPT ![l].in.ready = TRUE, ![l].in.data = @ /\ s[l].in.buffer # t]
  BY DEF Release
<1> HIDE DEF v
<1>3. v[l] \in LinkState(l) /\ v = [k \in Links |-> v[k]] /\ v[l].in = s[l].in
  BY <1>1 DEF Shape
<1>4. d \in BOOLEAN
  OBVIOUS
<1>5. u[l] = r
  BY <1>2, <1>3 DEF LinkState, PortState
<1>6. u = [k \in Links |-> IF k = l THEN u[l] ELSE v[k]]
  BY <1>2, <1>3
<1> HIDE DEF d
<1>7. r \in LinkState(l)
  BY <1>3, <1>4 DEF LinkState, PortState
<1>8. /\ r.in.ready /\ r.in.data = d /\ r.in.buffer = v[l].in.buffer
      /\ r.out = v[l].out /\ r.lastTid = v[l].lastTid /\ r.lastOrd = v[l].lastOrd
      /\ r.nextTid = v[l].nextTid /\ r.msg = v[l].msg /\ r.queued = v[l].queued
      /\ r.waiting = v[l].waiting /\ r.from = v[l].from /\ r.inInUse = v[l].inInUse
      /\ r.zfrom = v[l].zfrom /\ r.outInUse = v[l].outInUse
  BY <1>3 DEF LinkState, PortState
<1> HIDE DEF r
<1>9. Free(s[l], u[l], l, c[l])
  <2>1. Free(s[l], v[l], l, c[l])
    BY <1>1
  <2>2. QED
    BY <1>5, <1>8, <2>1 DEF Free
<1>10. Shape(u)
  BY <1>1, <1>5, <1>6, <1>7 DEF Shape
<1>11. \A k \in Links : k # l => u[k] = v[k]
  BY <1>6
<1>12. QED
  BY <1>1, <1>3, <1>5, <1>8, <1>9, <1>10, <1>11 DEF d

\* The labels after input buffer x was freed: its output buffer shows again what
\* was written to it.
Relabelled(r, x, m, m2, l) ==
  /\ m2 \in [Tids(l) -> Nat]
  /\ \A b \in Tids(l) : m2[b] = IF x # None /\ r.from[x] = b THEN r.msg[b] ELSE m[b]

\* The input port does not have x any more.
Dropped(r, q, x) ==
  /\ q.in.data <=> r.in.data /\ r.in.buffer # x
  /\ q.in.buffer = r.in.buffer /\ (~q.in.data => q.in.ready)

\* Freeing an input buffer keeps what holds for its link.
LEMMA FreeLink ==
  ASSUME NEW l \in Links, NEW r, NEW n, NEW st, NEW m, LinkInv(r, l, n, st, m),
         NEW x, x = None \/ (x \in Tids(l) /\ r.inInUse[x]),
         NEW q \in LinkState(l), Free(r, q, l, x), Dropped(r, q, x),
         NEW m2, Relabelled(r, x, m, m2, l)
  PROVE  /\ LinkInv(q, l, n, st, m2)
         /\ \A y \in Tids(l) : r.inInUse[y] /\ y # x =>
              q.inInUse[y] /\ m2[q.from[y]] = m[r.from[y]]
<1>1. /\ NumBufs[l] \in Nat \ {0} /\ Tids(l) = 0 .. NumBufs[l] - 1 /\ None \notin Tids(l)
  BY LinkFacts DEF Tids
<1>2. Sides(r, l) /\ Ring(r, l, n, st, m) /\ Queue(r, st, m) /\ (Frugal => OutOwned(r, l, {}))
  BY DEF LinkInv
<1>3. /\ r \in LinkState(l) /\ r.from \in [Tids(l) -> Tids(l) \cup {None}]
      /\ r.queued \in Seq(Tids(l))
  BY <1>2 DEF Sides, LinkState, TidOrNone
<1>4. x # None => x \in Tids(l) /\ r.from[x] \in Tids(l) /\ ~r.outInUse[r.from[x]]
  BY <1>2, <1>3 DEF Sides
<1>5. \A b \in Tids(l) : q.outInUse[b] <=> r.outInUse[b]
  BY <1>4 DEF Free
<1>6. \A y \in Tids(l) : y # x /\ r.from[y] # None => m2[r.from[y]] = m[r.from[y]]
  BY <1>2, <1>3, <1>4 DEF Sides, Relabelled
<1>7. Sides(q, l)
  <2>1. /\ ~q.out.data => q.out.ready
        /\ ~q.in.data => q.in.ready
        /\ q.out.data => /\ q.out.buffer \in Tids(l) /\ q.outInUse[q.out.buffer]
                         /\ q.zfrom[q.out.buffer] = None
                         /\ ~InSeq(q.out.buffer, q.queued)
        /\ q.in.data => q.in.buffer \in Tids(l) /\ q.inInUse[q.in.buffer]
    BY <1>2, <1>5 DEF Sides, Free, Dropped
  <2>2. /\ \A b \in Tids(l) : InSeq(b, q.queued) => q.outInUse[b]
        /\ Distinct(q.queued) /\ Distinct(q.waiting)
    BY <1>2, <1>5 DEF Sides, Free
  <2>3. /\ \A y, z \in Tids(l) : q.from[y] # None /\ q.from[y] = q.from[z] => y = z
        /\ \A b, c \in Tids(l) : q.zfrom[b] # None /\ q.zfrom[b] = q.zfrom[c] => b = c
    BY <1>2 DEF Sides, Free
  <2>4. /\ \A y \in Tids(l) : q.from[y] # None => ~q.outInUse[q.from[y]]
        /\ \A y \in Tids(l) : q.inInUse[y] => q.from[y] # None
    BY <1>2, <1>3, <1>5 DEF Sides, Free
  <2>5. QED
    BY <2>1, <2>2, <2>3, <2>4 DEF Sides
<1>8. Ring(q, l, n, st, m2)
  <2>1. {y \in Tids(l) : q.from[y] # None /\ ~q.inInUse[y]}
          = {y \in Tids(l) : r.from[y] # None /\ ~r.inInUse[y]}
    BY <1>1 DEF Free
  <2>2. {y \in Tids(l) : q.from[y] # None /\ ~q.inInUse[y]} = Arc(NumBufs[l], n, st)
    BY <1>2, <2>1 DEF Ring
  <2>3. ASSUME NEW i \in n .. st - 1 PROVE m2[q.from[i % NumBufs[l]]] = i + 1
    <3> DEFINE y == i % NumBufs[l]
    <3>1. y \in Arc(NumBufs[l], n, st)
      BY DEF Arc
    <3>2. m[r.from[y]] = i + 1
      BY <1>2 DEF Ring
    <3> HIDE DEF y
    <3>3. y \in Tids(l) /\ r.from[y] # None /\ ~r.inInUse[y]
      BY <1>2, <3>1 DEF Ring
    <3>4. y # x
      BY <1>1, <3>3
    <3>5. q.from[y] = r.from[y]
      BY <3>3, <3>4 DEF Free
    <3>6. m2[q.from[y]] = i + 1
      BY <1>6, <3>2, <3>3, <3>4, <3>5
    <3>7. QED
      BY <3>6 DEF y
  <2>4. q.in.data => n > 0 /\ m2[q.from[q.in.buffer]] = n
    <3>1. SUFFICES ASSUME q.in.data PROVE n > 0 /\ m2[q.from[q.in.buffer]] = n
      OBVIOUS
    <3> DEFINE y == r.in.buffer
    <3>2. r.in.data /\ y # x /\ q.in.buffer = y
      BY <3>1 DEF Dropped
    <3>3. y \in Tids(l) /\ r.from[y] # None /\ n > 0 /\ m[r.from[y]] = n
      BY <1>2, <3>2 DEF Sides, Ring
    <3> HIDE DEF y
    <3>4. q.from[y] = r.from[y] /\ m2[r.from[y]] = m[r.from[y]]
      BY <1>6, <3>2, <3>3 DEF Free
    <3>5. QED
      BY <3>2, <3>3, <3>4
  <2>5. /\ n <= st /\ st <= n + NumBufs[l]
        /\ q.nextTid = st % NumBufs[l]
        /\ Later(l, q.lastOrd) = n % NumBufs[l]
    BY <1>2 DEF Ring, Free
  <2>6. QED
    BY <2>2, <2>3, <2>4, <2>5 DEF Ring
<1>9. Queue(q, st, m2)
  <2>1. ASSUME NEW j \in 1 .. Len(q.queued) PROVE m2[q.queued[j]] = st + j
    <3>1. q.queued = r.queued /\ j \in 1 .. Len(r.queued)
      BY DEF Free
    <3>2. r.queued[j] \in Tids(l) /\ InSeq(r.queued[j], r.queued) /\ m[r.queued[j]] = st + j
      BY <1>2, <1>3, <3>1 DEF Queue, InSeq
    <3>3. r.outInUse[r.queued[j]]
      BY <1>2, <3>2 DEF Sides
    <3>4. ~(x # None /\ r.from[x] = r.queued[j])
      BY <1>4, <3>3
    <3>5. m2[r.queued[j]] = m[r.queued[j]]
      BY <3>2, <3>4 DEF Relabelled
    <3>6. QED
      BY <3>1, <3>2, <3>5
  <2>2. QED
    BY <2>1 DEF Queue
<1>10. ASSUME Frugal PROVE OutOwned(q, l, {})
  BY <1>2, <1>5, <1>10 DEF OutOwned, HasOut, Free
<1>11. m2 \in [Tids(l) -> Nat]
  BY DEF Relabelled
<1>12. ASSUME NEW y \in Tids(l), r.inInUse[y], y # x
       PROVE  q.inInUse[y] /\ m2[q.from[y]] = m[r.from[y]]
  <2>1. r.from[y] # None
    BY <1>2, <1>12 DEF Sides
  <2>2. QED
    BY <1>6, <1>12, <2>1 DEF Free
<1>13. QED
  BY <1>7, <1>8, <1>9, <1>10, <1>11, <1>12 DEF LinkInv

\* Input buffer z of the link before is the one that x leads back to, if any.
Linked(s, k, x, z) ==
  /\ ~InSeq(z, s[k].waiting)
  /\ \A b \in Tids(k) : s[k].zfrom[b] = z /\ z # None <=> x # None /\ s[k].from[x] = b /\ z # None
  /\ x # None => s[k].zfrom[s[k].from[x]] = z

\* Freeing a chain keeps what holds between two links.
LEMMA FreeJoint ==
  ASSUME NEW s, NEW u, NEW k \in Links, NEW p, NEW st, NEW M, NEW M2,
         Joint(s, k, p, st, M), s[k] \in LinkState(k),
         NEW x, NEW z, Linked(s, k, x, z),
         Free(s[k], u[k], k, x), Relabelled(s[k], x, M[k], M2[k], k),
         k # 1 => /\ Free(s[k - 1], u[k - 1], k - 1, z) /\ Dropped(s[k - 1], u[k - 1], z)
                  /\ \A y \in Tids(k - 1) : s[k - 1].inInUse[y] /\ y # z =>
                       /\ u[k - 1].inInUse[y]
                       /\ M2[k - 1][u[k - 1].from[y]] = M[k - 1][s[k - 1].from[y]]
  PROVE  Joint(u, k, p, st, M2)
<1>1. /\ s[k].zfrom \in [Tids(k) -> PrevTids(k) \cup {None}]
      /\ s[k].waiting \in Seq(PrevTids(k)) /\ None \notin PrevTids(k)
  BY LinkFacts DEF LinkState
<1>2. /\ u[k].waiting = s[k].waiting /\ u[k].msg = s[k].msg /\ u[k].queued = s[k].queued
      /\ \A b \in Tids(k) :
           u[k].zfrom[b] = IF x # None /\ s[k].from[x] = b THEN None ELSE s[k].zfrom[b]
  BY DEF Free
<1>3. ASSUME NEW y \in PrevTids(k)
      PROVE  /\ y # z => (HasIn(u[k - 1], y) <=> HasIn(s[k - 1], y))
             /\ HasIn(u[k - 1], y) => HasIn(s[k - 1], y)
             /\ s[k - 1].inInUse[y] /\ y # z =>
                  /\ u[k - 1].inInUse[y]
                  /\ M2[k - 1][u[k - 1].from[y]] = M[k - 1][s[k - 1].from[y]]
             /\ u[k - 1].inInUse[y] => s[k - 1].inInUse[y] /\ y # z
  <2>1. k # 1 /\ PrevTids(k) = Tids(k - 1) /\ y \in Tids(k - 1)
    BY LinkFacts DEF PrevTids
  <2>2. QED
    BY <2>1 DEF Free, Dropped, HasIn
<1>4. \A b \in Tids(k) : u[k].zfrom[b] # None =>
         /\ u[k].zfrom[b] = s[k].zfrom[b] /\ s[k].zfrom[b] # z
         /\ s[k].zfrom[b] \in PrevTids(k)
  BY <1>1, <1>2 DEF Linked
<1>5. \A j \in 1 .. Len(s[k].waiting) : /\ s[k].waiting[j] \in PrevTids(k)
                                        /\ InSeq(s[k].waiting[j], s[k].waiting)
                                        /\ s[k].waiting[j] # z
  BY <1>1 DEF InSeq, Linked
<1>6. ASSUME NEW y \in PrevTids(k), InSeq(y, u[k].waiting)
      PROVE  /\ u[k - 1].inInUse[y] /\ ~HasIn(u[k - 1], y)
             /\ \A b \in Tids(k) : u[k].zfrom[b] # y
  <2>1. /\ s[k - 1].inInUse[y] /\ ~HasIn(s[k - 1], y)
        /\ \A b \in Tids(k) : s[k].zfrom[b] # y
    BY <1>2, <1>6 DEF Joint, Shared
  <2>2. y # z /\ y # None
    BY <1>1, <1>2, <1>6 DEF Linked
  <2>3. QED
    BY <1>2, <1>3, <2>1, <2>2
<1>7. ASSUME NEW b \in Tids(k), u[k].zfrom[b] # None
      PROVE  u[k - 1].inInUse[u[k].zfrom[b]] /\ ~HasIn(u[k - 1], u[k].zfrom[b])
  <2>1. s[k - 1].inInUse[s[k].zfrom[b]] /\ ~HasIn(s[k - 1], s[k].zfrom[b])
    BY <1>4, <1>7 DEF Joint, Shared
  <2>2. QED
    BY <1>3, <1>4, <1>7, <2>1
<1>8. ASSUME NEW y \in PrevTids(k), u[k - 1].inInUse[y]
      PROVE  HasIn(u[k - 1], y) \/ InSeq(y, u[k].waiting) \/ \E b \in Tids(k) : u[k].zfrom[b] = y
  <2>1. s[k - 1].inInUse[y] /\ y # z
    BY <1>3, <1>8
  <2>2. HasIn(s[k - 1], y) \/ InSeq(y, s[k].waiting) \/ \E b \in Tids(k) : s[k].zfrom[b] = y
    BY <2>1 DEF Joint, Shared
  <2>3. ASSUME NEW b \in Tids(k), s[k].zfrom[b] = y PROVE u[k].zfrom[b] = y
    BY <1>2, <2>1, <2>3 DEF Linked
  <2>4. QED
    BY <1>2, <1>3, <2>1, <2>2, <2>3
<1>9. st[k] + Len(u[k].queued) + Len(u[k].waiting) = p[k - 1]
  BY <1>2 DEF Joint, Tallied
<1>10. ASSUME NEW j \in 1 .. Len(u[k].waiting)
       PROVE  M2[k - 1][u[k - 1].from[u[k].waiting[j]]] = st[k] + Len(u[k].queued) + j
  <2>1. M[k - 1][s[k - 1].from[s[k].waiting[j]]] = st[k] + Len(s[k].queued) + j
    BY <1>2 DEF Joint, Tallied
  <2>2. s[k].waiting[j] \in PrevTids(k) /\ InSeq(s[k].waiting[j], s[k].waiting) /\ s[k].waiting[j] # z
    BY <1>2, <1>5
  <2>3. s[k - 1].inInUse[s[k].waiting[j]]
    BY <2>2 DEF Joint, Shared
  <2>4. QED
    BY <1>2, <1>3, <2>1, <2>2, <2>3
<1>11. ASSUME NEW b \in Tids(k)
       PROVE  M2[k][b] = IF u[k].zfrom[b] = None THEN u[k].msg[b]
                         ELSE M2[k - 1][u[k - 1].from[u[k].zfrom[b]]]
  <2>1. M[k][b] = IF s[k].zfrom[b] = None THEN s[k].msg[b]
                  ELSE M[k - 1][s[k - 1].from[s[k].zfrom[b]]]
    BY DEF Joint, Tallied
  <2>2. M2[k][b] = IF x # None /\ s[k].from[x] = b THEN s[k].msg[b] ELSE M[k][b]
    BY DEF Relabelled
  <2>3. CASE u[k].zfrom[b] = None
    <3>1. CASE x # None /\ s[k].from[x] = b
      BY <1>2, <2>2, <2>3, <3>1
    <3>2. CASE ~(x # None /\ s[k].from[x] = b)
      BY <1>2, <2>1, <2>2, <2>3, <3>2
    <3>3. QED
      BY <3>1, <3>2
  <2>4. CASE u[k].zfrom[b] # None
    <3>1. s[k - 1].inInUse[s[k].zfrom[b]]
      BY <1>4, <2>4 DEF Joint, Shared
    <3>2. M2[k - 1][u[k - 1].from[u[k].zfrom[b]]] = M[k - 1][s[k - 1].from[s[k].zfrom[b]]]
      BY <1>3, <1>4, <2>4, <3>1
    <3>3. M2[k][b] = M[k][b] /\ s[k].zfrom[b] # None
      BY <1>2, <2>2, <2>4
    <3>4. QED
      BY <2>1, <2>4, <3>2, <3>3
  <2>5. QED
    BY <2>3, <2>4
<1>12. QED
  BY <1>6, <1>7, <1>8, <1>9, <1>10, <1>11 DEF Joint, Shared, Tallied
\* What a buffer that is given back must be: in use, and not passed on.
Freeable(s, l, t) ==
  /\ t \in Tids(l) /\ s[l].inInUse[t]
  /\ l < NumLinks => /\ ~InSeq(t, s[l + 1].waiting)
                     /\ \A b \in Tids(l + 1) : s[l + 1].zfrom[b] # t

\* Every buffer of the chain behind is in use, and passed on to the next.
LEMMA ChainInUse ==
  ASSUME NEW s, NEW n, NEW p, NEW w, NEW st, NEW M, Lines(s, n, p, w, st, M),
         NEW l \in Links, NEW t \in Tids(l), s[l].inInUse[t],
         NEW c, Chain(s, l, t, c)
  PROVE  \A k \in Links :
           /\ c[k] # None => c[k] \in Tids(k) /\ s[k].inInUse[c[k]]
           /\ c[k] # None /\ k # l => k < l /\ ~HasIn(s[k], c[k])
<1> DEFINE Good(k) == c[k] # None => c[k] \in Tids(k) /\ s[k].inInUse[c[k]]
           S == {i \in Nat : i <= l - 1 => Good(l - i)}
<1>1. l \in Nat /\ l >= 1 /\ l <= NumLinks /\ NumLinks \in Nat
  BY LinkFacts
<1>2. ASSUME NEW k \in 1 .. l - 1, Good(k + 1)
      PROVE  Good(k) /\ (c[k] # None => ~HasIn(s[k], c[k]))
  <2> DEFINE j == k + 1
             y == c[j]
  <2>1. j \in Links /\ j # 1 /\ j - 1 = k /\ PrevTids(j) = Tids(k) /\ k \in Links
    BY <1>1 DEF Links, PrevTids
  <2>2. c[k] = Back(s, j, y)
    BY DEF Chain
  <2>3. SUFFICES ASSUME c[k] # None
                 PROVE  c[k] \in Tids(k) /\ s[k].inInUse[c[k]] /\ ~HasIn(s[k], c[k])
    OBVIOUS
  <2>4. y \in Tids(j) /\ s[j].from[y] # None /\ c[k] = s[j].zfrom[s[j].from[y]]
    BY <1>2, <2>2, <2>3 DEF Back
  <2> HIDE DEF y, j
  <2>5. s[j] \in LinkState(j) /\ Joint(s, j, p, st, M)
    BY <2>1, LinesAt
  <2>6. s[j].from[y] \in Tids(j) /\ c[k] \in Tids(k)
    BY <2>1, <2>3, <2>4, <2>5 DEF LinkState, TidOrNone
  <2>7. QED
    BY <2>1, <2>3, <2>4, <2>5, <2>6 DEF Joint, Shared, Tallied
<1>3. c[l] = t
  BY DEF Chain
<1>4. 0 \in S
  <2>1. l - 0 = l
    BY <1>1
  <2>2. QED
    BY <1>3, <2>1
<1> HIDE DEF Good
<1>5. ASSUME NEW i \in Nat, i \in S PROVE i + 1 \in S
  <2>1. SUFFICES ASSUME i + 1 <= l - 1 PROVE Good(l - (i + 1))
    OBVIOUS
  <2>2. l - (i + 1) \in 1 .. l - 1 /\ l - (i + 1) + 1 = l - i /\ i <= l - 1
    BY <1>1, <2>1
  <2>3. Good(l - i)
    BY <1>5, <2>2
  <2>4. QED
    BY <1>2, <2>2, <2>3
<1>6. Nat \subseteq S
  <2> HIDE DEF S
  <2>1. QED
    BY <1>4, <1>5, Induction
<1>7. ASSUME NEW k \in 1 .. l PROVE Good(k)
  <2>1. l - k \in Nat /\ l - k <= l - 1 /\ l - (l - k) = k
    BY <1>1
  <2>2. l - k \in S
    BY <1>6, <2>1
  <2>3. QED
    BY <2>1, <2>2
<1>8. ASSUME NEW k \in Links, k > l PROVE c[k] = None
  BY <1>8 DEF Chain
<1>9. ASSUME NEW k \in Links, c[k] # None
      PROVE  k \in 1 .. l /\ Good(k) /\ (k # l => k < l /\ ~HasIn(s[k], c[k]))
  <2>1. k \in 1 .. l
    BY <1>1, <1>8, <1>9 DEF Links
  <2>2. ASSUME k # l PROVE k < l /\ ~HasIn(s[k], c[k])
    <3>1. k \in 1 .. l - 1 /\ k + 1 \in 1 .. l
      BY <1>1, <2>1, <2>2
    <3>2. QED
      BY <1>2, <1>7, <1>9, <3>1
  <2>3. QED
    BY <1>7, <2>1, <2>2
<1>10. QED
  BY <1>9 DEF Good

\* The window without the buffer t.
Rest(w, w2, t) ==
  /\ \A i \in 1 .. Len(w2) : w2[i].buffer # t /\ \E j \in 1 .. Len(w) : w2[i] = w[j]
  /\ \A i, j \in 1 .. Len(w2) : w2[i].buffer = w2[j].buffer => i = j
  /\ \A j \in 1 .. Len(w) : w[j].buffer # t => \E i \in 1 .. Len(w2) : w2[i] = w[j]

\* Freeing a buffer of the consumer leaves the others of its window intact.
LEMMA FreeKept ==
  ASSUME NEW r, NEW q, NEW m, NEW m2, NEW w, NEW w2, NEW x, Kept(r, m, w),
         Rest(w, w2, x), Dropped(r, q, x), Free(r, q, Sink, x),
         \A y \in Tids(Sink) : r.inInUse[y] /\ y # x =>
            q.inInUse[y] /\ m2[q.from[y]] = m[r.from[y]]
  PROVE  Kept(q, m2, w2)
<1>1. ASSUME NEW i \in 1 .. Len(w2)
      PROVE  /\ w2[i].buffer \in Tids(Sink) /\ q.inInUse[w2[i].buffer]
             /\ ~HasIn(q, w2[i].buffer) /\ m2[q.from[w2[i].buffer]] = w2[i].message
  <2>1. PICK j \in 1 .. Len(w) : w2[i] = w[j]
    BY DEF Rest
  <2>2. /\ w[j].buffer \in Tids(Sink) /\ r.inInUse[w[j].buffer]
        /\ ~HasIn(r, w[j].buffer) /\ m[r.from[w[j].buffer]] = w[j].message
    BY DEF Kept
  <2>3. w2[i].buffer # x
    BY DEF Rest
  <2>4. QED
    BY <2>1, <2>2, <2>3 DEF Dropped, HasIn
<1>2. \A i, j \in 1 .. Len(w2) : w2[i].buffer = w2[j].buffer => i = j
  BY DEF Rest
<1>3. ASSUME NEW y \in Tids(Sink), q.inInUse[y]
      PROVE  HasIn(q, y) \/ \E i \in 1 .. Len(w2) : w2[i].buffer = y
  <2>1. r.inInUse[y] /\ y # x
    BY <1>3 DEF Free
  <2>2. CASE HasIn(r, y)
    BY <2>1, <2>2 DEF HasIn, Dropped
  <2>3. CASE \E i \in 1 .. Len(w) : w[i].buffer = y
    <3>1. PICK j \in 1 .. Len(w) : w[j].buffer = y
      BY <2>3
    <3>2. \E i \in 1 .. Len(w2) : w2[i] = w[j]
      BY <2>1, <3>1 DEF Rest
    <3>3. QED
      BY <3>1, <3>2
  <2>4. QED
    BY <2>1, <2>2, <2>3 DEF Kept
<1>4. QED
  BY <1>1, <1>2, <1>3 DEF Kept

\* What giving back a buffer of link l leaves alone.
Untouched(l, s, u) ==
  /\ Shape(u)
  /\ \A k \in Links : u[k].out = s[k].out /\ u[k].waiting = s[k].waiting
  /\ \A k \in Links : k # l => u[k].in = s[k].in

\* Giving back a buffer, with the chain behind it, keeps the line sound.
LEMMA ReleaseLine ==
  ASSUME NEW s, NEW n, NEW p, NEW w, Sound(s, n, p, w), NEW l \in Links,
         NEW t, Freeable(s, l, t), NEW w2, l # Sink => w2 = w, l = Sink => Rest(w, w2, t),
         NEW u, u = Release(s, l, t)
  PROVE  /\ Sound(u, n, p, w2) /\ Untouched(l, s, u)
         /\ u[l].in.data <=> s[l].in.data /\ s[l].in.buffer # t
         /\ u[l].in.buffer = s[l].in.buffer
<1>1. PICK st, M : Lines(s, n, p, w, st, M)
  BY DEF Sound
<1> DEFINE c == Behind(s, l, t)
           Z(k) == IF k = 1 THEN None ELSE c[k - 1]
           R(k) == [b \in Tids(k) |-> IF c[k] # None /\ s[k].from[c[k]] = b THEN s[k].msg[b] ELSE M[k][b]]
           M2 == [k \in Links |-> R(k)]
<1>2. Shape(s)
  BY <1>1, LinesShape
<1>3. /\ Shape(u) /\ \A k \in Links : Free(s[k], u[k], k, c[k])
      /\ \A k \in Links : k # l => u[k].in = s[k].in
      /\ u[l].in.ready /\ u[l].in.buffer = s[l].in.buffer
      /\ u[l].in.data <=> s[l].in.data /\ s[l].in.buffer # t
  BY <1>2, ReleaseIs
<1>4. Chain(s, l, t, c)
  BY BehindIsChain
<1> HIDE DEF c
<1>5. \A k \in Links :
           /\ c[k] # None => c[k] \in Tids(k) /\ s[k].inInUse[c[k]]
           /\ c[k] # None /\ k # l => k < l /\ ~HasIn(s[k], c[k])
  BY <1>1, <1>4, ChainInUse DEF Freeable
<1>6. c[l] = t
  BY <1>4 DEF Chain
<1>7. ASSUME NEW k \in Links
      PROVE  Dropped(s[k], u[k], c[k])
  <2>1. CASE k = l
    BY <1>3, <1>6, <2>1 DEF Dropped
  <2>2. CASE k # l
    <3>1. u[k].in = s[k].in /\ ~(s[k].in.data /\ s[k].in.buffer = c[k])
      <4>1. s[k].in.data => s[k].in.buffer # None
        BY <1>1, LinesAt, LinkFacts DEF Sides
      <4>2. QED
        BY <1>3, <1>5, <2>2, <4>1 DEF HasIn
    <3>2. ~s[k].in.data => s[k].in.ready
      BY <1>1, LinesAt DEF Sides
    <3>3. QED
      BY <3>1, <3>2 DEF Dropped
  <2>3. QED
    BY <2>1, <2>2
<1>8. ASSUME NEW k \in Links
      PROVE  M2[k] = R(k) /\ Relabelled(s[k], c[k], M[k], M2[k], k)
  <2>1. M[k] \in [Tids(k) -> Nat] /\ s[k].msg \in [Tids(k) -> Nat]
    BY <1>1, LinesAt DEF LinkState
  <2>2. M2[k] = R(k)
    OBVIOUS
  <2>3. R(k) \in [Tids(k) -> Nat]
    BY <2>1
  <2>4. QED
    BY <2>2, <2>3 DEF Relabelled
<1> HIDE DEF R
<1>9. M2 = [k \in Links |-> M2[k]]
  OBVIOUS
<1> HIDE DEF M2
<1>10. ASSUME NEW k \in Links
       PROVE  /\ LinkInv(u[k], k, n[k], st[k], M2[k])
              /\ \A y \in Tids(k) : s[k].inInUse[y] /\ y # c[k] =>
                   u[k].inInUse[y] /\ M2[k][u[k].from[y]] = M[k][s[k].from[y]]
  <2>1. LinkInv(s[k], k, n[k], st[k], M[k])
    BY <1>1 DEF Lines
  <2>2. u[k] \in LinkState(k)
    BY <1>3 DEF Shape
  <2>3. c[k] = None \/ (c[k] \in Tids(k) /\ s[k].inInUse[c[k]])
    BY <1>5
  <2>4. Free(s[k], u[k], k, c[k]) /\ Dropped(s[k], u[k], c[k]) /\ Relabelled(s[k], c[k], M[k], M2[k], k)
    BY <1>3, <1>7, <1>8
  <2>5. QED
    BY <2>1, <2>2, <2>3, <2>4, FreeLink
<1>11. ASSUME NEW k \in Links
       PROVE  Linked(s, k, c[k], Z(k))
  <2>1. /\ s[k] \in LinkState(k) /\ Sides(s[k], k) /\ Joint(s, k, p, st, M)
    BY <1>1, LinesAt
  <2>2. /\ s[k].zfrom \in [Tids(k) -> PrevTids(k) \cup {None}]
        /\ s[k].waiting \in Seq(PrevTids(k)) /\ None \notin PrevTids(k)
        /\ s[k].from \in [Tids(k) -> Tids(k) \cup {None}]
    BY <2>1, LinkFacts DEF LinkState, TidOrNone
  <2>3. ~InSeq(None, s[k].waiting)
    BY <2>2 DEF InSeq
  <2>4. l \in Nat /\ k \in Nat /\ k >= 1 /\ k <= NumLinks /\ NumLinks \in Nat
    BY LinkFacts
  <2>5. CASE k > l + 1
    <3>1. c[k] = None
      BY <1>4, <2>4, <2>5 DEF Chain
    <3>2. k - 1 \in Links /\ k - 1 > l /\ k # 1
      BY <2>4, <2>5, LinkFacts DEF Links
    <3>3. Z(k) = None
      BY <1>4, <3>2 DEF Chain
    <3>4. QED
      BY <2>3, <3>1, <3>3 DEF Linked
  <2>6. CASE k = l + 1
    <3>1. c[k] = None
      BY <1>4, <2>4, <2>6 DEF Chain
    <3>2. k - 1 = l /\ k # 1 /\ l < NumLinks /\ l >= 1
      BY <2>4, <2>6, LinkFacts
    <3>3. Z(k) = t
      BY <1>6, <3>2
    <3>4. /\ ~InSeq(t, s[k].waiting) /\ \A b \in Tids(k) : s[k].zfrom[b] # t
      BY <2>6, <3>2 DEF Freeable
    <3>5. QED
      BY <3>1, <3>3, <3>4 DEF Linked
  <2>7. CASE k <= l
    <3>1. CASE k = 1
      <4>1. Z(k) = None /\ \A b \in Tids(k) : s[k].zfrom[b] = None
        BY <2>2, <3>1 DEF PrevTids
      <4>2. c[k] # None => s[k].from[c[k]] \in Tids(k)
        BY <1>5, <2>1, <2>2 DEF Sides
      <4>3. QED
        BY <2>3, <4>1, <4>2 DEF Linked
    <3>2. CASE k # 1
      <4>1. k - 1 \in 1 .. l - 1 /\ (k - 1) + 1 = k
        BY <2>4, <2>7, <3>2
      <4>2. c[k - 1] = Back(s, k, c[k])
        BY <1>4, <4>1 DEF Chain
      <4> DEFINE x == c[k]
                 z == c[k - 1]
      <4>3. Z(k) = z
        BY <3>2
      <4>4. x # None => x \in Tids(k) /\ s[k].from[x] \in Tids(k) /\ z = s[k].zfrom[s[k].from[x]]
        BY <1>5, <2>1, <2>2, <4>2 DEF Sides, Back
      <4>5. x = None => z = None
        BY <4>2 DEF Back
      <4> HIDE DEF x, z
      <4>6. ~InSeq(z, s[k].waiting)
        <5>1. CASE z = None
          BY <2>3, <5>1
        <5>2. CASE z # None
          <6>1. z \in PrevTids(k)
            BY <2>2, <4>4, <4>5, <5>2
          <6>2. QED
            BY <2>1, <4>4, <4>5, <5>2, <6>1 DEF Joint, Shared
        <5>3. QED
          BY <5>1, <5>2
      <4>7. \A b \in Tids(k) : s[k].zfrom[b] = z /\ z # None => b = s[k].from[x]
        BY <2>1, <4>4, <4>5 DEF Sides
      <4>8. Linked(s, k, x, z)
        BY <4>4, <4>5, <4>6, <4>7 DEF Linked
      <4>9. QED
        BY <4>3, <4>8 DEF x
    <3>3. QED
      BY <3>1, <3>2
  <2>8. QED
    BY <2>4, <2>5, <2>6, <2>7
<1>12. ASSUME NEW k \in Links
       PROVE  Joint(u, k, p, st, M2)
  <2>1. Joint(s, k, p, st, M) /\ s[k] \in LinkState(k)
    BY <1>1, LinesAt
  <2>2. k # 1 => /\ Free(s[k - 1], u[k - 1], k - 1, Z(k)) /\ Dropped(s[k - 1], u[k - 1], Z(k))
                 /\ \A y \in Tids(k - 1) : s[k - 1].inInUse[y] /\ y # Z(k) =>
                      /\ u[k - 1].inInUse[y]
                      /\ M2[k - 1][u[k - 1].from[y]] = M[k - 1][s[k - 1].from[y]]
    BY <1>3, <1>7, <1>10, LinkFacts
  <2>3. Linked(s, k, c[k], Z(k)) /\ Free(s[k], u[k], k, c[k]) /\ Relabelled(s[k], c[k], M[k], M2[k], k)
    BY <1>3, <1>8, <1>11
  <2> HIDE DEF Z
  <2>4. QED
    BY <2>1, <2>2, <2>3, FreeJoint
<1>13. Kept(u[Sink], M2[Sink], w2)
  <2>1. Kept(s[Sink], M[Sink], w) /\ Sink \in Links
    BY <1>1, LinkFacts DEF Lines
  <2>2. Rest(w, w2, c[Sink])
    <3>1. CASE l = Sink
      BY <1>6, <3>1
    <3>2. CASE l # Sink
      <4>1. c[Sink] = None
        BY <1>5, <2>1, <3>2, LinkFacts DEF Sink
      <4>2. \A i \in 1 .. Len(w) : w[i].buffer # None
        BY <2>1, LinkFacts DEF Kept
      <4>3. \A i, j \in 1 .. Len(w) : w[i].buffer = w[j].buffer => i = j
        BY <2>1 DEF Kept
      <4>4. QED
        BY <3>2, <4>1, <4>2, <4>3 DEF Rest
    <3>3. QED
      BY <3>1, <3>2
  <2>3. QED
    BY <1>3, <1>7, <1>10, <2>1, <2>2, FreeKept
<1>14. Lines(u, n, p, w2, st, M2)
  BY <1>1, <1>3, <1>9, <1>10, <1>12, <1>13 DEF Lines, Shape
<1>15. Untouched(l, s, u)
  BY <1>3 DEF Untouched, Free
<1>16. QED
  BY <1>3, <1>14, <1>15 DEF Sound

Entry == [buffer : Tids(Sink), message : Nat]

\* A buffer that the worker has can be given back.
LEMMA CurrentFreeable ==
  ASSUME NEW s, NEW n, NEW p, NEW w, Sound(s, n, p, w), NEW l \in Links, s[l].in.data
  PROVE  /\ Freeable(s, l, s[l].in.buffer)
         /\ l = Sink => Rest(w, w, s[l].in.buffer)
<1>1. PICK st, M : Lines(s, n, p, w, st, M)
  BY DEF Sound
<1> DEFINE t == s[l].in.buffer
<1>2. t \in Tids(l) /\ s[l].inInUse[t] /\ HasIn(s[l], t)
  BY <1>1, LinesAt DEF Sides, HasIn
<1> HIDE DEF t
<1>3. ASSUME l < NumLinks
      PROVE /\ ~InSeq(t, s[l + 1].waiting) /\ \A b \in Tids(l + 1) : s[l + 1].zfrom[b] # t
  <2> DEFINE k == l + 1
  <2>1. k \in Links /\ k - 1 = l /\ PrevTids(k) = Tids(l) /\ None \notin Tids(l)
    BY <1>3, LinkFacts
  <2> HIDE DEF k
  <2>2. Joint(s, k, p, st, M)
    BY <1>1, <2>1, LinesAt
  <2>3. ~InSeq(t, s[k].waiting) /\ \A b \in Tids(k) : s[k].zfrom[b] # t
    BY <1>2, <2>1, <2>2 DEF Joint, Shared
  <2>4. QED
    BY <2>3 DEF k
<1>4. ASSUME l = Sink PROVE Rest(w, w, t)
  <2>1. Kept(s[Sink], M[Sink], w)
    BY <1>1 DEF Lines
  <2>2. \A i \in 1 .. Len(w) : w[i].buffer # t
    BY <1>2, <1>4, <2>1 DEF Kept
  <2>3. \A i, j \in 1 .. Len(w) : w[i].buffer = w[j].buffer => i = j
    BY <2>1 DEF Kept
  <2>4. QED
    BY <2>2, <2>3 DEF Rest
<1>5. QED
  BY <1>2, <1>3, <1>4 DEF Freeable, t

\* So can one that the consumer kept.
LEMMA KeptFreeable ==
  ASSUME NEW s, NEW n, NEW p, NEW w, Sound(s, n, p, w), NEW i \in 1 .. Len(w)
  PROVE  Freeable(s, Sink, w[i].buffer)
<1>1. PICK st, M : Lines(s, n, p, w, st, M)
  BY DEF Sound
<1>2. w[i].buffer \in Tids(Sink) /\ s[Sink].inInUse[w[i].buffer]
  BY <1>1 DEF Lines, Kept
<1>3. ~(Sink < NumLinks)
  BY LocalLinksAssumption DEF Sink
<1>4. QED
  BY <1>2, <1>3 DEF Freeable

\* No buffer is twice in the window.
LEMMA WindowDistinct ==
  ASSUME NEW s, NEW n, NEW p, NEW w, Sound(s, n, p, w)
  PROVE  \A i, j \in 1 .. Len(w) : w[i].buffer = w[j].buffer => i = j
BY DEF Sound, Lines, Kept

\* What is left when one entry of the window is taken out.
Removed(w, i, v) ==
  /\ v \in Seq(Entry) /\ Len(v) = Len(w) - 1
  /\ \A j \in 1 .. Len(v) : v[j] = IF j < i THEN w[j] ELSE w[j + 1]

\* RemoveAt removes one entry.
LEMMA RemoveAtIs ==
  ASSUME NEW w \in Seq(Entry), NEW i \in 1 .. Len(w), NEW v, v = RemoveAt(w, i)
  PROVE  Removed(w, i, v)
<1> DEFINE a == SubSeq(w, 1, i - 1)
           b == SubSeq(w, i + 1, Len(w))
<1>1. i \in Nat /\ Len(w) \in Nat /\ i >= 1 /\ i <= Len(w)
  OBVIOUS
<1>2. a \in Seq(Entry) /\ Len(a) = i - 1 /\ \A j \in 1 .. i - 1 : a[j] = w[j]
  <2>1. i - 1 \in Nat /\ i - 1 <= Len(w)
    BY <1>1
  <2>2. a \in Seq(Entry)
    BY <1>1
  <2>3. Len(a) = i - 1 /\ \A j \in 1 .. i - 1 : a[j] = w[j]
    BY <1>1
  <2>4. QED
    BY <2>2, <2>3
<1>3. b \in Seq(Entry) /\ Len(b) = Len(w) - i /\ \A j \in 1 .. Len(w) - i : b[j] = w[i + j]
  BY <1>1
<1>4. v = a \o b
  BY DEF RemoveAt
<1> HIDE DEF a, b
<1>5. v \in Seq(Entry) /\ Len(v) = Len(w) - 1
  BY <1>1, <1>2, <1>3, <1>4
<1>6. ASSUME NEW j \in 1 .. Len(v)
      PROVE v[j] = IF j < i THEN w[j] ELSE w[j + 1]
  <2>1. j \in Nat /\ j >= 1 /\ j <= Len(w) - 1
    BY <1>1, <1>5
  <2>2. CASE j < i
    <3>1. j \in 1 .. Len(a) /\ j \in 1 .. i - 1
      BY <1>1, <1>2, <2>1, <2>2
    <3>2. v[j] = a[j]
      BY <1>2, <1>3, <1>4, <3>1
    <3>3. QED
      BY <1>2, <2>2, <3>1, <3>2
  <2>3. CASE ~(j < i)
    <3>1. j - (i - 1) \in 1 .. Len(w) - i /\ i + (j - (i - 1)) = j + 1
      BY <1>1, <2>1, <2>3
    <3>2. v[j] = b[j - (i - 1)]
      BY <1>1, <1>2, <1>3, <1>4, <2>1, <2>3
    <3>3. b[j - (i - 1)] = w[j + 1]
      BY <1>3, <3>1
    <3>4. QED
      BY <2>3, <3>2, <3>3
  <2>4. QED
    BY <2>2, <2>3
<1>7. QED
  BY <1>5, <1>6 DEF Removed

\* Without the entry, the window is without its buffer.
LEMMA RemoveRest ==
  ASSUME NEW w \in Seq(Entry), NEW i \in 1 .. Len(w), NEW v, Removed(w, i, v),
         \A j, k \in 1 .. Len(w) : w[j].buffer = w[k].buffer => j = k
  PROVE  Rest(w, v, w[i].buffer)
<1>1. /\ v \in Seq(Entry) /\ Len(v) = Len(w) - 1
      /\ \A j \in 1 .. Len(v) : v[j] = IF j < i THEN w[j] ELSE w[j + 1]
  BY DEF Removed
<1>2. i \in Nat /\ Len(w) \in Nat /\ i >= 1 /\ i <= Len(w) /\ Len(v) \in Nat
  BY <1>1
<1> DEFINE at(j) == IF j < i THEN j ELSE j + 1
<1>3. ASSUME NEW j \in 1 .. Len(v)
      PROVE  at(j) \in 1 .. Len(w) /\ at(j) # i /\ v[j] = w[at(j)]
  BY <1>1, <1>2
<1>4. \A j, k \in 1 .. Len(v) : at(j) = at(k) => j = k
  BY <1>2
<1> HIDE DEF at
<1>5. \A j \in 1 .. Len(v) : v[j].buffer # w[i].buffer /\ \E k \in 1 .. Len(w) : v[j] = w[k]
  BY <1>3
<1>6. \A j, k \in 1 .. Len(v) : v[j].buffer = v[k].buffer => j = k
  BY <1>3, <1>4
<1>7. ASSUME NEW j \in 1 .. Len(w), w[j].buffer # w[i].buffer
      PROVE \E k \in 1 .. Len(v) : v[k] = w[j]
  <2>1. j # i
    BY <1>7
  <2>2. CASE j < i
    <3>1. j \in 1 .. Len(v)
      BY <1>1, <1>2, <2>2
    <3>2. v[j] = w[j]
      BY <1>1, <2>2, <3>1
    <3>3. QED
      BY <3>1, <3>2
  <2>3. CASE j > i
    <3>1. j - 1 \in 1 .. Len(v) /\ ~(j - 1 < i) /\ (j - 1) + 1 = j
      BY <1>1, <1>2, <2>3
    <3>2. v[j - 1] = w[j]
      BY <1>1, <3>1
    <3>3. QED
      BY <3>1, <3>2
  <2>4. QED
    BY <1>2, <2>1, <2>2, <2>3
<1>8. QED
  BY <1>5, <1>6, <1>7 DEF Rest

\* The worker keeps its input buffer.
LEMMA KeepLine ==
  ASSUME NEW s, NEW n, NEW p, NEW w \in Seq(Entry), Sound(s, n, p, w), s[Sink].in.data,
         NEW e, e = [buffer |-> s[Sink].in.buffer, message |-> n[Sink]],
         NEW u, u = [s EXCEPT ![Sink].in = UnusedPort]
  PROVE  /\ Sound(u, n, p, Append(w, e)) /\ Untouched(Sink, s, u) /\ ~u[Sink].in.data
         /\ e \in Entry
<1>1. PICK st, M : Lines(s, n, p, w, st, M)
  BY DEF Sound
<1> DEFINE l == Sink
           r == s[l]
           q == [r EXCEPT !.in = UnusedPort]
           m == M[l]
           w2 == Append(w, e)
<1>2. Shape(s) /\ l \in Links /\ ~(l < NumLinks)
  BY <1>1, LinesShape, LinkFacts, LocalLinksAssumption DEF Sink, Links
<1> HIDE DEF l
<1>3. /\ r \in LinkState(l) /\ n[l] \in Nat /\ st[l] \in Nat /\ m \in [Tids(l) -> Nat]
      /\ Sides(r, l) /\ Ring(r, l, n[l], st[l], m)
  BY <1>1, <1>2, LinesAt
<1>4. UnusedPort \in PortState(l) /\ ~UnusedPort.data /\ UnusedPort.ready
  BY DEF UnusedPort, PortState, TidOrNone
<1>5. u = [k \in Links |-> IF k = l THEN q ELSE s[k]]
  BY <1>2, <1>3 DEF Shape, l
<1>6. /\ q \in LinkState(l) /\ ~q.in.data /\ q.in.ready
      /\ SameOutput(r, q) /\ q.from = r.from /\ q.inInUse = r.inInUse /\ q.lastOrd = r.lastOrd
  <2> HIDE DEF r
  <2>1. q \in LinkState(l) /\ q.in = UnusedPort
    BY <1>3, <1>4 DEF LinkState
  <2>2. SameOutput(r, q) /\ q.from = r.from /\ q.inInUse = r.inInUse /\ q.lastOrd = r.lastOrd
    BY <1>3 DEF LinkState, SameOutput
  <2>3. QED
    BY <1>4, <2>1, <2>2
<1> HIDE DEF q
<1>7. u[l] = q /\ Elsewhere(l, s, u)
  BY <1>2, <1>5, <1>6, Overwrite
<1>8. r.in.buffer \in Tids(Sink) /\ r.inInUse[r.in.buffer] /\ m[r.from[r.in.buffer]] = n[l]
  BY <1>3 DEF Sides, Ring, l
<1>9. e \in Entry /\ e.buffer = r.in.buffer /\ e.message = n[l]
  BY <1>3, <1>8 DEF Entry, l
<1>10. /\ Len(w2) = Len(w) + 1 /\ Len(w) \in Nat /\ w2[Len(w) + 1] = e
       /\ \A i \in 1 .. Len(w) : w2[i] = w[i]
  BY <1>9
<1> HIDE DEF w2, r, m
<1>11. Kept(r, m, w)
  BY <1>1 DEF Lines, r, m, l
<1>12. Kept(q, m, w2)
  <2>1. ASSUME NEW i \in 1 .. Len(w2)
        PROVE  /\ w2[i].buffer \in Tids(Sink) /\ r.inInUse[w2[i].buffer]
               /\ m[r.from[w2[i].buffer]] = w2[i].message
    <3>1. CASE i = Len(w) + 1
      BY <1>8, <1>9, <1>10, <3>1
    <3>2. CASE i \in 1 .. Len(w)
      BY <1>10, <1>11, <3>2 DEF Kept
    <3>3. QED
      BY <1>10, <3>1, <3>2
  <2>2. ASSUME NEW i \in 1 .. Len(w) PROVE w2[i].buffer # e.buffer
    <3>1. ~HasIn(r, w[i].buffer)
      BY <1>11 DEF Kept
    <3>2. QED
      BY <1>9, <1>10, <3>1 DEF HasIn, r, l
  <2>3. ASSUME NEW i \in 1 .. Len(w2), NEW j \in 1 .. Len(w2), w2[i].buffer = w2[j].buffer
        PROVE  i = j
    <3>1. CASE i \in 1 .. Len(w) /\ j \in 1 .. Len(w)
      BY <1>10, <1>11, <2>3, <3>1 DEF Kept
    <3>2. CASE i = Len(w) + 1 \/ j = Len(w) + 1
      <4>1. i \in 1 .. Len(w) \/ i = Len(w) + 1
        BY <1>10
      <4>2. j \in 1 .. Len(w) \/ j = Len(w) + 1
        BY <1>10
      <4>3. QED
        BY <1>10, <2>2, <2>3, <3>2, <4>1, <4>2
    <3>3. QED
      BY <1>10, <3>1, <3>2
  <2>4. ASSUME NEW x \in Tids(Sink), r.inInUse[x]
        PROVE \E i \in 1 .. Len(w2) : w2[i].buffer = x
    <3>1. HasIn(r, x) \/ \E i \in 1 .. Len(w) : w[i].buffer = x
      BY <1>11, <2>4 DEF Kept
    <3>2. CASE HasIn(r, x)
      <4>1. Len(w) + 1 \in 1 .. Len(w2) /\ w2[Len(w) + 1].buffer = x
        BY <1>9, <1>10, <3>2 DEF HasIn
      <4>2. QED
        BY <4>1
    <3>3. CASE \E i \in 1 .. Len(w) : w[i].buffer = x
      <4>1. PICK i \in 1 .. Len(w) : w[i].buffer = x
        BY <3>3
      <4>2. i \in 1 .. Len(w2) /\ w2[i].buffer = x
        BY <1>10, <4>1
      <4>3. QED
        BY <4>2
    <3>4. QED
      BY <3>1, <3>2, <3>3
  <2>5. \A x : ~HasIn(q, x)
    BY <1>6 DEF HasIn
  <2>6. QED
    BY <1>6, <2>1, <2>3, <2>4, <2>5 DEF Kept
<1>13. Sides(q, l) /\ Ring(q, l, n[l], st[l], m)
  <2>1. Sides(q, l)
    BY <1>3, <1>6 DEF Sides, SameOutput
  <2>2. QED
    BY <1>3, <1>6, <2>1, SameRing DEF SameOutput
<1>14. Beside(l, s, n, p, st, M, u, n, p, st, M)
  BY <1>1, <1>2, <1>7 DEF Beside, Elsewhere, Shape, Lines
<1>15. Lines(u, n, p, w2, st, M)
  <2>1. Sides(u[l], l) /\ Ring(u[l], l, n[l], st[l], M[l])
    BY <1>7, <1>13 DEF m
  <2>2. /\ u[l].out = s[l].out /\ u[l].outInUse = s[l].outInUse /\ u[l].queued = s[l].queued
        /\ u[l].waiting = s[l].waiting /\ u[l].zfrom = s[l].zfrom /\ u[l].msg = s[l].msg
    BY <1>6, <1>7 DEF SameOutput, r
  <2>3. l = Sink /\ Kept(u[l], M[l], w2)
    BY <1>7, <1>12 DEF l, m
  <2>4. /\ l # Sink => w2 = w
        /\ l = Sink => Kept(u[l], M[l], w2)
        /\ l < NumLinks => Joint(u, l + 1, p, st, M)
    BY <1>2, <2>3
  <2>5. QED
    BY <1>1, <1>14, <2>1, <2>2, <2>4, InputSide
<1>16. Untouched(Sink, s, u)
  <2>1. ASSUME NEW k \in Links PROVE u[k].out = s[k].out /\ u[k].waiting = s[k].waiting
    BY <1>6, <1>7 DEF Elsewhere, SameOutput, r
  <2>2. QED
    BY <1>7, <2>1 DEF Untouched, Elsewhere, l
<1>17. QED
  BY <1>6, <1>7, <1>9, <1>15, <1>16 DEF Sound, w2, l

\* What a reader finds in an input buffer in use is the message its label says.
LEMMA ContentIs ==
  ASSUME NEW s, NEW n, NEW p, NEW w, NEW st, NEW M, Lines(s, n, p, w, st, M),
         NEW l \in Links, NEW t \in Tids(l), s[l].inInUse[t]
  PROVE  Content(s, l, t) = M[l][s[l].from[t]]
<1> DEFINE c == Behind(s, l, t)
           First(k) == c[k] # None /\ (k = 1 \/ c[k - 1] = None)
           first == CHOOSE k \in 1 .. l : First(k)
           V(k) == M[k][s[k].from[c[k]]]
           S == {i \in Nat : i <= l - 1 => (c[l - i] # None => V(l - i) = V(l))}
<1>1. l \in Nat /\ l >= 1 /\ l <= NumLinks /\ NumLinks \in Nat /\ None \notin Tids(l)
  BY LinkFacts
<1>2. Content(s, l, t) = s[first].msg[s[first].from[c[first]]]
  BY DEF Content
<1>3. Chain(s, l, t, c)
  BY BehindIsChain
<1> HIDE DEF c
<1>4. \A k \in Links : c[k] # None => c[k] \in Tids(k) /\ s[k].inInUse[c[k]]
  BY <1>1, <1>3, ChainInUse
<1>5. c[l] = t
  BY <1>3 DEF Chain
<1>6. ASSUME NEW k \in Links, c[k] # None
      PROVE  /\ s[k].from[c[k]] \in Tids(k)
             /\ M[k][s[k].from[c[k]]] =
                  IF s[k].zfrom[s[k].from[c[k]]] = None THEN s[k].msg[s[k].from[c[k]]]
                  ELSE M[k - 1][s[k - 1].from[s[k].zfrom[s[k].from[c[k]]]]]
  <2>1. s[k] \in LinkState(k) /\ Sides(s[k], k) /\ Joint(s, k, p, st, M)
    BY <1>1, LinesAt
  <2>2. s[k].from[c[k]] \in Tids(k)
    BY <1>4, <1>6, <2>1 DEF Sides, LinkState, TidOrNone
  <2>3. QED
    BY <2>1, <2>2 DEF Joint, Shared, Tallied
<1>7. \E k \in 1 .. l : First(k)
  <2> DEFINE T == {k \in 1 .. l : c[k] # None}
  <2>1. l \in T /\ T \subseteq Nat
    BY <1>1, <1>5
  <2> HIDE DEF T
  <2>2. PICK k \in T : \A j \in T : k <= j
    BY <2>1, Least
  <2>3. k \in 1 .. l /\ c[k] # None
    BY DEF T
  <2>4. CASE k = 1
    BY <2>3, <2>4
  <2>5. CASE k # 1
    <3>1. k - 1 \in 1 .. l /\ ~(k <= k - 1)
      BY <1>1, <2>3, <2>5
    <3>2. k - 1 \notin T
      BY <2>2, <3>1
    <3>3. c[k - 1] = None
      BY <3>1, <3>2 DEF T
    <3>4. QED
      BY <2>3, <3>3
  <2>6. QED
    BY <2>4, <2>5
<1>8. first \in 1 .. l /\ First(first)
  BY <1>7
<1> HIDE DEF first
<1>9. first \in Links /\ c[first] # None
  BY <1>1, <1>8 DEF Links
<1>10. s[first].zfrom[s[first].from[c[first]]] = None
  <2>1. CASE first = 1
    <3>1. s[1].zfrom \in [Tids(1) -> {None}]
      BY <1>9, <2>1, LinesAt DEF LinkState, PrevTids
    <3>2. s[1].from[c[1]] \in Tids(1)
      BY <1>6, <1>9, <2>1
    <3>3. QED
      BY <2>1, <3>1, <3>2
  <2>2. CASE first # 1
    <3>1. c[first - 1] = None /\ first - 1 \in 1 .. l - 1 /\ (first - 1) + 1 = first
      BY <1>1, <1>8, <2>2
    <3>2. c[first - 1] = Back(s, first, c[first])
      BY <1>3, <3>1 DEF Chain
    <3>3. s[first].from[c[first]] # None
      <4>1. s[first].from[c[first]] \in Tids(first)
        BY <1>6, <1>9
      <4>2. None \notin Tids(first)
        BY <1>9, LinkFacts
      <4>3. QED
        BY <4>1, <4>2
    <3>4. QED
      BY <1>9, <3>1, <3>2, <3>3 DEF Back
  <2>3. QED
    BY <2>1, <2>2
<1>11. Content(s, l, t) = V(first)
  BY <1>2, <1>6, <1>9, <1>10
<1>12. ASSUME NEW k \in 1 .. l - 1, c[k] # None
       PROVE  c[k + 1] # None /\ V(k) = V(k + 1)
  <2> DEFINE j == k + 1
  <2>1. j \in Links /\ j # 1 /\ j - 1 = k
    BY <1>1 DEF Links
  <2>2. c[k] = Back(s, j, c[j])
    BY <1>3 DEF Chain
  <2> HIDE DEF j
  <2>3. c[j] # None /\ c[k] = s[j].zfrom[s[j].from[c[j]]]
    BY <1>12, <2>2 DEF Back
  <2>4. V(j) = M[k][s[k].from[c[k]]]
    BY <1>6, <1>12, <2>1, <2>3
  <2>5. QED
    BY <2>3, <2>4 DEF j
<1> HIDE DEF V
<1>13. 0 \in S
  <2>1. l - 0 = l
    BY <1>1
  <2>2. QED
    BY <2>1
<1>14. ASSUME NEW i \in Nat, i \in S PROVE i + 1 \in S
  <2>1. SUFFICES ASSUME i + 1 <= l - 1, c[l - (i + 1)] # None PROVE V(l - (i + 1)) = V(l)
    OBVIOUS
  <2>2. l - (i + 1) \in 1 .. l - 1 /\ l - (i + 1) + 1 = l - i /\ i <= l - 1
    BY <1>1, <2>1
  <2>3. c[l - i] # None /\ V(l - (i + 1)) = V(l - i)
    BY <1>12, <2>1, <2>2
  <2>4. V(l - i) = V(l)
    BY <1>14, <2>2, <2>3
  <2>5. QED
    BY <2>3, <2>4
<1>15. Nat \subseteq S
  <2> HIDE DEF S
  <2>1. QED
    BY <1>13, <1>14, Induction
<1>16. V(first) = V(l)
  <2>1. l - first \in Nat /\ l - first <= l - 1 /\ l - (l - first) = first
    BY <1>1, <1>8
  <2>2. l - first \in S
    BY <1>15, <2>1
  <2>3. QED
    BY <1>9, <2>1, <2>2
<1>17. QED
  BY <1>5, <1>11, <1>16 DEF V

\* What a worker, or the consumer with its window, reads in its buffers is the
\* message it was handed.
LEMMA HeldContent ==
  ASSUME NEW s, NEW n, NEW p, NEW w, Sound(s, n, p, w)
  PROVE  /\ \A l \in Links : s[l].in.data => n[l] > 0 /\ Content(s, l, s[l].in.buffer) = n[l]
         /\ \A i \in 1 .. Len(w) : Content(s, Sink, w[i].buffer) = w[i].message
<1>1. PICK st, M : Lines(s, n, p, w, st, M)
  BY DEF Sound
<1>2. ASSUME NEW l \in Links, s[l].in.data
      PROVE n[l] > 0 /\ Content(s, l, s[l].in.buffer) = n[l]
  <2>1. Sides(s[l], l) /\ Ring(s[l], l, n[l], st[l], M[l])
    BY <1>1, LinesAt
  <2>2. s[l].in.buffer \in Tids(l) /\ s[l].inInUse[s[l].in.buffer]
    BY <1>2, <2>1 DEF Sides
  <2>3. n[l] > 0 /\ M[l][s[l].from[s[l].in.buffer]] = n[l]
    BY <1>2, <2>1 DEF Ring
  <2>4. QED
    BY <1>1, <2>2, <2>3, ContentIs
<1>3. ASSUME NEW i \in 1 .. Len(w)
      PROVE Content(s, Sink, w[i].buffer) = w[i].message
  <2>1. Kept(s[Sink], M[Sink], w) /\ Sink \in Links
    <3>1. Sink \in Links
      BY LocalLinksAssumption DEF Links, Sink
    <3>2. QED
      BY <1>1, <3>1 DEF Lines
  <2>2. /\ w[i].buffer \in Tids(Sink) /\ s[Sink].inInUse[w[i].buffer]
        /\ M[Sink][s[Sink].from[w[i].buffer]] = w[i].message
    BY <2>1 DEF Kept
  <2>3. QED
    BY <1>1, <2>1, <2>2, ContentIs
<1>4. QED
  BY <1>2, <1>3

\* Buffers that hold all messages from one after lo up to hi are that many.
LEMMA LabelsFit ==
  ASSUME NEW N \in Nat \ {0}, NEW lo \in Nat, NEW hi \in Nat, NEW m,
         \A i \in lo + 1 .. hi : \E b \in 0 .. N - 1 : m[b] = i
  PROVE  hi <= lo + N
<1> DEFINE S == lo + 1 .. hi
           T == 0 .. N - 1
           f == [i \in S |-> CHOOSE b \in T : m[b] = i]
<1>1. f \in [S -> T] /\ \A i \in S : m[f[i]] = i
  OBVIOUS
<1>2. f \in Injection(S, T)
  <2> HIDE DEF f
  <2>1. \A i, j \in S : f[i] = f[j] => i = j
    BY <1>1
  <2> HIDE DEF S, T
  <2>2. QED
    BY <1>1, <2>1 DEF Injection, IsInjective
<1>3. IsFiniteSet(T) /\ Cardinality(T) = N
  <2>1. 0 \in Int /\ N - 1 \in Int /\ ~(0 > N - 1) /\ (N - 1) - 0 + 1 = N
    OBVIOUS
  <2>2. QED
    BY <2>1, FS_Interval
<1>4. Cardinality(S) <= N
  <2> HIDE DEF f, S, T
  <2>1. QED
    BY <1>2, <1>3, FS_Injection
<1>5. Cardinality(S) = IF lo + 1 > hi THEN 0 ELSE hi - (lo + 1) + 1
  <2>1. lo + 1 \in Int /\ hi \in Int
    OBVIOUS
  <2>2. QED
    BY <2>1, FS_Interval
<1> HIDE DEF S
<1>6. QED
  BY <1>4, <1>5

\* A buffer of the link holds message i.
HeldAt(m, l, i) == \E b \in Tids(l) : m[b] = i

\* The same, for the buffers of a link.
LEMMA HeldFit ==
  ASSUME NEW l \in Links, NEW m, NEW lo \in Nat, NEW hi \in Nat,
         \A i \in lo + 1 .. hi : HeldAt(m, l, i)
  PROVE  hi <= lo + NumBufs[l]
<1>1. NumBufs[l] \in Nat \ {0} /\ Tids(l) = 0 .. NumBufs[l] - 1
  BY LinkFacts DEF Tids
<1> DEFINE N == NumBufs[l]
<1>2. N \in Nat \ {0} /\ \A i \in lo + 1 .. hi : \E b \in 0 .. N - 1 : m[b] = i
  BY <1>1 DEF HeldAt
<1> HIDE DEF N
<1>3. hi <= lo + N
  BY <1>2, LabelsFit
<1>4. QED
  BY <1>3 DEF N

\* The messages that a link has started or queued.
Given(s, st, l) == st[l] + Len(s[l].queued)

\* Where the messages of a link are.
LEMMA WhereHeld ==
  ASSUME NEW s, NEW n, NEW p, NEW w, NEW st, NEW M, Lines(s, n, p, w, st, M),
         NEW l \in Links
  PROVE  /\ Given(s, st, l) \in Nat /\ n[l] \in Nat /\ n[l] <= st[l] /\ st[l] \in Nat
         /\ Len(s[l].queued) \in Nat /\ Len(s[l].waiting) \in Nat
         /\ p[l - 1] = Given(s, st, l) + Len(s[l].waiting)
         /\ \A i \in n[l] + 1 .. Given(s, st, l) : HeldAt(M[l], l, i)
         /\ \A j \in 1 .. Len(s[l].queued) : HeldAt(M[l], l, st[l] + j)
         /\ s[l].in.data => HeldAt(M[l], l, n[l])
         /\ l # 1 => \A j \in 1 .. Len(s[l].waiting) : HeldAt(M[l - 1], l - 1, Given(s, st, l) + j)
<1> DEFINE r == s[l]
           m == M[l]
           N == NumBufs[l]
<1>1. /\ r \in LinkState(l) /\ n[l] \in Nat /\ st[l] \in Nat
      /\ Sides(r, l) /\ Ring(r, l, n[l], st[l], m) /\ Queue(r, st[l], m)
      /\ Joint(s, l, p, st, M)
  BY LinesAt
<1>2. /\ r.queued \in Seq(Tids(l)) /\ r.waiting \in Seq(PrevTids(l))
      /\ r.from \in [Tids(l) -> Tids(l) \cup {None}]
      /\ None \notin Tids(l) /\ N \in Nat \ {0} /\ Tids(l) = 0 .. N - 1
  BY <1>1, LinkFacts DEF LinkState, TidOrNone, Tids
<1>3. /\ Given(s, st, l) \in Nat /\ n[l] <= st[l]
      /\ Len(r.queued) \in Nat /\ Len(r.waiting) \in Nat
      /\ Given(s, st, l) = st[l] + Len(r.queued)
  BY <1>1, <1>2 DEF Given, Ring
<1>4. p[l - 1] = Given(s, st, l) + Len(r.waiting)
  BY <1>1 DEF Joint, Tallied, Given
<1>5. \A j \in 1 .. Len(r.queued) : HeldAt(m, l, st[l] + j)
  <2>1. ASSUME NEW j \in 1 .. Len(r.queued) PROVE HeldAt(m, l, st[l] + j)
    <3>1. r.queued[j] \in Tids(l)
      BY <1>2
    <3>2. m[r.queued[j]] = st[l] + j
      BY <1>1 DEF Queue
    <3>3. QED
      BY <3>1, <3>2 DEF HeldAt
  <2>2. QED
    BY <2>1
<1>6. r.in.data => HeldAt(m, l, n[l])
  <2>1. SUFFICES ASSUME r.in.data PROVE HeldAt(m, l, n[l])
    OBVIOUS
  <2>2. r.in.buffer \in Tids(l) /\ r.from[r.in.buffer] # None /\ m[r.from[r.in.buffer]] = n[l]
    BY <1>1, <2>1 DEF Sides, Ring
  <2>3. r.from[r.in.buffer] \in Tids(l)
    BY <1>2, <2>2
  <2>4. QED
    BY <2>2, <2>3 DEF HeldAt
<1> HIDE DEF r, m
<1>7. ASSUME NEW i \in n[l] + 1 .. st[l] PROVE HeldAt(m, l, i)
  <2> DEFINE k == i - 1
             x == k % N
  <2>1. k \in n[l] .. st[l] - 1 /\ k + 1 = i /\ k \in Nat
    BY <1>1, <1>3
  <2>2. x \in Arc(N, n[l], st[l])
    BY <2>1 DEF Arc
  <2> HIDE DEF k
  <2>3. m[r.from[x]] = i
    BY <1>1, <2>1 DEF Ring
  <2> HIDE DEF x
  <2>4. x \in Tids(l) /\ r.from[x] # None
    BY <1>1, <2>2 DEF Ring
  <2>5. r.from[x] \in Tids(l)
    BY <1>2, <2>4 DEF r
  <2>6. QED
    BY <2>3, <2>5 DEF HeldAt
<1>8. ASSUME NEW i \in n[l] + 1 .. Given(s, st, l) PROVE HeldAt(m, l, i)
  <2>1. CASE i <= st[l]
    <3>1. i \in n[l] + 1 .. st[l]
      BY <1>1, <2>1
    <3>2. QED
      BY <1>7, <3>1
  <2>2. CASE i > st[l]
    <3> DEFINE j == i - st[l]
    <3>1. j \in 1 .. Len(r.queued) /\ st[l] + j = i
      BY <1>1, <1>3, <2>2 DEF r
    <3> HIDE DEF j
    <3>2. QED
      BY <1>5, <3>1 DEF r, m
  <2>3. QED
    BY <1>1, <2>1, <2>2
<1>9. ASSUME l # 1, NEW j \in 1 .. Len(r.waiting)
      PROVE  HeldAt(M[l - 1], l - 1, Given(s, st, l) + j)
  <2> DEFINE k == l - 1
             y == r.waiting[j]
  <2>1. k \in Links /\ PrevTids(l) = Tids(k) /\ None \notin Tids(k)
    BY <1>9, LinkFacts
  <2>2. y \in Tids(k) /\ InSeq(y, r.waiting)
    BY <1>2, <2>1 DEF InSeq, r
  <2> HIDE DEF k
  <2>3. s[k].inInUse[y] /\ M[k][s[k].from[y]] = Given(s, st, l) + j
    <3>1. /\ s[k].inInUse[y]
          /\ M[k][s[k].from[r.waiting[j]]] = st[l] + Len(r.queued) + j
      <4>1. Shared(s, l) /\ Tallied(s, l, p, st, M)
        BY <1>1 DEF Joint
      <4>2. M[k][s[k].from[r.waiting[j]]] = st[l] + Len(r.queued) + j
        BY <4>1 DEF Tallied, r, k
      <4> HIDE DEF y
      <4>3. s[k].inInUse[y]
        BY <2>1, <2>2, <4>1 DEF Shared, r, k
      <4>4. QED
        BY <4>2, <4>3
    <3>2. QED
      BY <3>1 DEF Given, r
  <2> HIDE DEF y
  <2>4. s[k] \in LinkState(k) /\ Sides(s[k], k)
    BY <2>1, LinesAt
  <2>5. s[k].from[y] \in Tids(k)
    BY <2>1, <2>2, <2>3, <2>4 DEF Sides, LinkState, TidOrNone
  <2>6. QED
    BY <2>3, <2>5 DEF HeldAt, k
<1>10. QED
  BY <1>1, <1>3, <1>4, <1>5, <1>6, <1>8, <1>9 DEF r, m

\* Between the links, a message is with the worker or was sent on.
Between(s, n, p) ==
  \A l \in Links : l < NumLinks => n[l] = IF s[l].in.data THEN p[l] + 1 ELSE p[l]

\* The queue of transfers holds no more than the output buffers.
LEMMA QueueFits ==
  ASSUME NEW s, NEW n, NEW p, NEW w, NEW st, NEW M, Lines(s, n, p, w, st, M),
         NEW l \in Links
  PROVE  Len(s[l].queued) <= NumBufs[l]
<1> DEFINE a == Len(s[l].queued)
           b == st[l]
           h == b + a
           N == NumBufs[l]
<1>1. a \in Nat /\ b \in Nat /\ \A j \in 1 .. a : HeldAt(M[l], l, b + j)
  BY WhereHeld
<1> HIDE DEF a, b
<1>2. ASSUME NEW i \in b + 1 .. h PROVE HeldAt(M[l], l, i)
  <2>1. i - b \in 1 .. a /\ b + (i - b) = i
    BY <1>1
  <2>2. HeldAt(M[l], l, b + (i - b))
    BY <1>1, <2>1
  <2>3. QED
    BY <2>1, <2>2
<1>3. h \in Nat
  BY <1>1
<1> HIDE DEF h
<1>4. h <= b + NumBufs[l]
  BY <1>1, <1>2, <1>3, HeldFit
<1>5. N \in Nat /\ h <= b + N
  BY <1>4, LinkFacts
<1> HIDE DEF N
<1>6. a <= N
  BY <1>1, <1>5 DEF h
<1>7. QED
  BY <1>6 DEF a, N

\* No more input buffers wait than there are.
LEMMA WaitingFits ==
  ASSUME NEW s, NEW n, NEW p, NEW w, NEW st, NEW M, Lines(s, n, p, w, st, M),
         NEW l \in Links, l # 1
  PROVE  Len(s[l].waiting) <= NumBufs[l - 1]
<1> DEFINE a == Len(s[l].waiting)
           b == Given(s, st, l)
           h == b + a
           k == l - 1
           N == NumBufs[k]
<1>1. a \in Nat /\ b \in Nat /\ (\A j \in 1 .. a : HeldAt(M[k], k, b + j)) /\ k \in Links
  BY WhereHeld, LinkFacts
<1> HIDE DEF a, b, k
<1>2. ASSUME NEW i \in b + 1 .. h PROVE HeldAt(M[k], k, i)
  <2>1. i - b \in 1 .. a /\ b + (i - b) = i
    BY <1>1
  <2>2. HeldAt(M[k], k, b + (i - b))
    BY <1>1, <2>1
  <2>3. QED
    BY <2>1, <2>2
<1>3. h \in Nat
  BY <1>1
<1> HIDE DEF h
<1>4. h <= b + NumBufs[k]
  BY <1>1, <1>2, <1>3, HeldFit
<1>5. N \in Nat /\ h <= b + N
  BY <1>1, <1>4, LinkFacts
<1> HIDE DEF N
<1>6. a <= N
  BY <1>1, <1>5 DEF h
<1>7. QED
  BY <1>6 DEF a, N, k

\* What a link was given it holds, or the next was given it too.
LEMMA GivenFits ==
  ASSUME NEW s, NEW n, NEW p, NEW w, NEW st, NEW M, Lines(s, n, p, w, st, M),
         Between(s, n, p), NEW l \in Links, l < NumLinks
  PROVE  Given(s, st, l) <= Given(s, st, l + 1) + NumBufs[l]
<1> DEFINE k == l + 1
           lo == Given(s, st, k)
           hi == Given(s, st, l)
           m == M[l]
           a == Len(s[k].waiting)
           nn == n[l]
           q == p[l]
           N == NumBufs[l]
<1>1. k \in Links /\ k # 1 /\ k - 1 = l
  BY LinkFacts
<1> HIDE DEF k
<1>2. lo \in Nat /\ a \in Nat /\ q = lo + a /\ \A j \in 1 .. a : HeldAt(m, l, lo + j)
  BY <1>1, WhereHeld
<1>3. /\ hi \in Nat /\ nn \in Nat /\ \A i \in nn + 1 .. hi : HeldAt(m, l, i)
      /\ s[l].in.data => HeldAt(m, l, nn)
  BY WhereHeld
<1>4. nn = IF s[l].in.data THEN q + 1 ELSE q
  BY DEF Between
<1> HIDE DEF lo, hi, m, a, nn, q
<1>5. ASSUME NEW i \in lo + 1 .. hi PROVE HeldAt(m, l, i)
  <2>1. CASE i <= q
    <3>1. i - lo \in 1 .. a /\ lo + (i - lo) = i
      BY <1>2, <1>3, <2>1
    <3>2. HeldAt(m, l, lo + (i - lo))
      BY <1>2, <3>1
    <3>3. QED
      BY <3>1, <3>2
  <2>2. CASE i = nn /\ nn = q + 1
    BY <1>2, <1>3, <1>4, <2>2
  <2>3. CASE i > nn
    <3>1. i \in nn + 1 .. hi
      BY <1>2, <1>3, <2>3
    <3>2. QED
      BY <1>3, <3>1
  <2>4. i \in Nat /\ q \in Nat /\ (nn = q \/ nn = q + 1)
    BY <1>2, <1>3, <1>4
  <2>5. QED
    BY <2>1, <2>2, <2>3, <2>4
<1>6. hi <= lo + NumBufs[l]
  BY <1>2, <1>3, <1>5, HeldFit
<1>7. QED
  BY <1>6 DEF hi, lo, k

\* What a link was given it holds, or its worker was handed it.
LEMMA GivenLast ==
  ASSUME NEW s, NEW n, NEW p, NEW w, NEW st, NEW M, Lines(s, n, p, w, st, M),
         NEW l \in Links
  PROVE  Given(s, st, l) <= n[l] + NumBufs[l]
BY WhereHeld, HeldFit

IsSum(n, f) == f = [l \in 0 .. n |-> IF l = 0 THEN 0 ELSE f[l - 1] + NumBufs[l]]

\* The numbers of buffers have a sum.
LEMMA SumExists ==
  \A n \in Nat : \E f : IsSum(n, f)
<1> DEFINE S == {n \in Nat : \E f : IsSum(n, f)}
<1>1. 0 \in S
  <2> DEFINE f == [i \in 0 .. 0 |-> 0]
  <2>1. IsSum(0, f)
    BY DEF IsSum
  <2>2. QED
    BY <2>1
<1>2. ASSUME NEW n \in Nat, n \in S PROVE n + 1 \in S
  <2>1. PICK f : IsSum(n, f)
    BY <1>2
  <2> DEFINE Add(k, l) == k + NumBufs[l]
  <2> DEFINE g == [i \in 0 .. n + 1 |-> IF i = n + 1 THEN Add(f[n], i) ELSE f[i]]
  <2>2. \A i \in 0 .. n : f[i] = IF i = 0 THEN 0 ELSE Add(f[i - 1], i)
    BY <2>1 DEF IsSum
  <2> HIDE DEF Add
  <2>3. \A i \in 0 .. n : g[i] = f[i]
    OBVIOUS
  <2>4. g[n + 1] = Add(g[n], n + 1)
    BY <2>3
  <2>5. ASSUME NEW i \in 0 .. n + 1
        PROVE  g[i] = IF i = 0 THEN 0 ELSE Add(g[i - 1], i)
    <3>1. CASE i = n + 1
      BY <2>4, <3>1
    <3>2. CASE i \in 1 .. n
      BY <2>2, <2>3, <3>2
    <3>3. CASE i = 0
      BY <2>2, <2>3, <3>3
    <3>4. QED
      BY <3>1, <3>2, <3>3
  <2>6. g = [i \in 0 .. n + 1 |-> g[i]]
    OBVIOUS
  <2> HIDE DEF g
  <2>7. IsSum(n + 1, g)
    BY <2>5, <2>6 DEF IsSum, Add
  <2>8. QED
    BY <2>7
<1> HIDE DEF S
<1>3. Nat \subseteq S
  BY <1>1, <1>2, Induction
<1>4. QED
  BY <1>3 DEF S

\* No more messages are behind the source and before any worker than all the
\* buffers.
LEMMA CapacityFits ==
  ASSUME NEW s, NEW n, NEW p, NEW w, Sound(s, n, p, w), Between(s, n, p),
         NEW l \in Links
  PROVE  p[0] <= n[l] + Buffers /\ p[0] \in Nat /\ n[l] \in Nat /\ Buffers \in Nat
<1>1. PICK st, M : Lines(s, n, p, w, st, M)
  BY DEF Sound
<1> DEFINE f == CHOOSE g : IsSum(NumLinks, g)
           e(k) == Given(s, st, k)
           S == {i \in Nat : i <= NumLinks => f[i] \in Nat}
           T == {i \in Nat : i + 1 <= NumLinks => e(1) <= e(i + 1) + f[i]}
           U == {i \in Nat : l + i <= NumLinks => f[l] <= f[l + i]}
<1>2. NumLinks \in Nat /\ NumLinks >= 1 /\ 1 \in Links /\ l \in Nat /\ l >= 1 /\ l <= NumLinks
  BY LinkFacts, LocalLinksAssumption DEF Links
<1>3. IsSum(NumLinks, f)
  BY <1>2, SumExists
<1>4. Buffers = f[NumLinks]
  BY DEF Buffers, IsSum
<1> HIDE DEF f
<1>5. f[0] = 0 /\ \A i \in 1 .. NumLinks : f[i] = f[i - 1] + NumBufs[i]
  <2>1. \A i \in 0 .. NumLinks : f[i] = IF i = 0 THEN 0 ELSE f[i - 1] + NumBufs[i]
    BY <1>3 DEF IsSum
  <2>2. 0 \in 0 .. NumLinks /\ \A i \in 1 .. NumLinks : i \in 0 .. NumLinks /\ i # 0
    BY <1>2
  <2>3. QED
    BY <2>1, <2>2
<1>6. \A i \in 1 .. NumLinks : NumBufs[i] \in Nat
  BY LinkFacts DEF Links
<1>7. ASSUME NEW i \in 0 .. NumLinks PROVE f[i] \in Nat
  <2>1. 0 \in S
    BY <1>5
  <2>2. ASSUME NEW j \in Nat, j \in S PROVE j + 1 \in S
    <3>1. SUFFICES ASSUME j + 1 <= NumLinks PROVE f[j + 1] \in Nat
      OBVIOUS
    <3> DEFINE k == j + 1
    <3>2. k \in 1 .. NumLinks /\ k - 1 = j /\ f[j] \in Nat
      BY <1>2, <2>2, <3>1
    <3> HIDE DEF k
    <3>3. f[k] = f[j] + NumBufs[k] /\ NumBufs[k] \in Nat
      BY <1>5, <1>6, <3>2
    <3>4. f[k] \in Nat
      BY <3>2, <3>3
    <3>5. QED
      BY <3>4 DEF k
  <2>3. Nat \subseteq S
    <3> HIDE DEF S
    <3>1. QED
      BY <2>1, <2>2, Induction
  <2>4. QED
    BY <1>2, <2>3
<1>8. ASSUME NEW k \in Links PROVE e(k) \in Nat /\ n[k] \in Nat
  BY <1>1, WhereHeld
<1>9. ASSUME NEW k \in Links, k < NumLinks
      PROVE  e(k) <= e(k + 1) + NumBufs[k]
  BY <1>1, <1>9, GivenFits
<1>10. e(l) <= n[l] + NumBufs[l]
  BY <1>1, GivenLast
<1>11. p[0] = e(1) /\ p[0] \in Nat
  <2>1. s[1] \in LinkState(1) /\ p[1 - 1] = e(1) + Len(s[1].waiting) /\ e(1) \in Nat
    BY <1>1, <1>2, LinesAt, WhereHeld
  <2>2. s[1].waiting \in Seq({})
    BY <2>1 DEF LinkState, PrevTids
  <2>3. Len(s[1].waiting) = 0
    BY <2>2
  <2>4. 1 - 1 = 0
    OBVIOUS
  <2>5. QED
    BY <2>1, <2>3, <2>4
<1> HIDE DEF e
<1>12. e(1) <= e(l) + f[l - 1]
  <2>1. 0 \in T
    <3>1. 0 + 1 = 1 /\ e(1) \in Nat
      BY <1>2, <1>8
    <3>2. QED
      BY <1>5, <3>1
  <2>2. ASSUME NEW i \in Nat, i \in T PROVE i + 1 \in T
    <3>1. SUFFICES ASSUME (i + 1) + 1 <= NumLinks
                   PROVE  e(1) <= e((i + 1) + 1) + f[i + 1]
      OBVIOUS
    <3> DEFINE k == i + 1
               j == k + 1
    <3>2. /\ k \in Links /\ j \in Links /\ k < NumLinks /\ k \in 1 .. NumLinks
          /\ k - 1 = i /\ i \in 0 .. NumLinks
      BY <1>2, <3>1 DEF Links
    <3>3. e(1) <= e(k) + f[i]
      BY <1>2, <2>2, <3>1
    <3>4. e(k) <= e(j) + NumBufs[k]
      BY <1>9, <3>2
    <3> HIDE DEF k, j
    <3>5. f[k] = f[i] + NumBufs[k]
      BY <1>5, <3>2
    <3> DEFINE A == e(1)
               B == e(k)
               C == e(j)
               D == f[i]
               E == NumBufs[k]
    <3>6. A \in Nat /\ B \in Nat /\ C \in Nat /\ D \in Nat /\ E \in Nat
      BY <1>2, <1>6, <1>7, <1>8, <3>2
    <3>7. A <= B + D /\ B <= C + E
      BY <3>3, <3>4
    <3> HIDE DEF A, B, C, D, E
    <3>8. A <= C + (D + E)
      BY <3>6, <3>7
    <3>9. e(1) <= e(j) + f[k]
      BY <3>5, <3>8 DEF A, C, D, E
    <3>10. QED
      BY <3>9 DEF j, k
  <2>3. Nat \subseteq T
    <3> HIDE DEF T
    <3>1. QED
      BY <2>1, <2>2, Induction
  <2>4. l - 1 \in Nat /\ (l - 1) + 1 = l
    BY <1>2
  <2>5. l - 1 \in T
    BY <2>3, <2>4
  <2>6. QED
    BY <1>2, <2>4, <2>5
<1>13. f[l] <= f[NumLinks]
  <2>1. 0 \in U
    <3>1. l + 0 = l /\ f[l] \in Nat
      BY <1>2, <1>7
    <3>2. QED
      BY <3>1
  <2>2. ASSUME NEW i \in Nat, i \in U PROVE i + 1 \in U
    <3>1. SUFFICES ASSUME l + (i + 1) <= NumLinks PROVE f[l] <= f[l + (i + 1)]
      OBVIOUS
    <3> DEFINE k == l + (i + 1)
               j == l + i
    <3>2. k \in 1 .. NumLinks /\ k - 1 = j /\ j \in 0 .. NumLinks /\ l \in 0 .. NumLinks
      BY <1>2, <3>1
    <3>3. f[l] <= f[j]
      BY <1>2, <2>2, <3>1
    <3> HIDE DEF k, j
    <3>4. f[k] = f[j] + NumBufs[k] /\ f[j] \in Nat /\ NumBufs[k] \in Nat /\ f[l] \in Nat
      BY <1>5, <1>6, <1>7, <3>2
    <3>5. f[l] <= f[k]
      BY <3>3, <3>4
    <3>6. QED
      BY <3>5 DEF k
  <2>3. Nat \subseteq U
    <3> HIDE DEF U
    <3>1. QED
      BY <2>1, <2>2, Induction
  <2>4. NumLinks - l \in Nat /\ l + (NumLinks - l) = NumLinks
    BY <1>2
  <2>5. NumLinks - l \in U
    BY <2>3, <2>4
  <2>6. QED
    BY <1>2, <2>4, <2>5
<1>14. f[l] = f[l - 1] + NumBufs[l]
  BY <1>2, <1>5
<1> DEFINE A == e(1)
           B == e(l)
           C == n[l]
           D == f[l - 1]
           E == NumBufs[l]
           F == f[NumLinks]
<1>15. /\ A \in Nat /\ B \in Nat /\ C \in Nat /\ D \in Nat /\ E \in Nat /\ F \in Nat
       /\ A <= B + D /\ B <= C + E /\ D + E <= F
  <2>1. l - 1 \in 0 .. NumLinks /\ NumLinks \in 0 .. NumLinks
    BY <1>2
  <2>2. A \in Nat /\ B \in Nat /\ C \in Nat
    BY <1>2, <1>8
  <2>3. D \in Nat /\ F \in Nat /\ E \in Nat
    BY <1>2, <1>6, <1>7, <2>1
  <2>4. QED
    BY <1>10, <1>12, <1>13, <1>14, <2>2, <2>3
<1> HIDE DEF A, B, C, D, E, F
<1>16. A <= C + F
  BY <1>15
<1>17. p[0] <= n[l] + Buffers
  BY <1>4, <1>11, <1>16 DEF A, C, F
<1>18. n[l] \in Nat /\ Buffers \in Nat
  BY <1>4, <1>15 DEF C, F
<1>19. QED
  BY <1>11, <1>17, <1>18

\* No worker was handed more messages than were sent.
LEMMA SeenFits ==
  ASSUME NEW s, NEW n, NEW p, NEW w, Sound(s, n, p, w), Between(s, n, p),
         NEW l \in Links
  PROVE  n[l] <= p[0]
<1>1. PICK st, M : Lines(s, n, p, w, st, M)
  BY DEF Sound
<1> DEFINE S == {i \in Nat : i + 1 <= NumLinks => n[i + 1] <= p[0]}
<1>2. NumLinks \in Nat /\ l \in Nat /\ l >= 1 /\ l <= NumLinks
  BY LinkFacts
<1>3. ASSUME NEW k \in Links PROVE n[k] <= p[k - 1] /\ n[k] \in Nat /\ p[k - 1] \in Nat
  <2> DEFINE a == n[k]
             b == st[k]
             c == Len(s[k].queued)
             d == Len(s[k].waiting)
  <2>1. a \in Nat /\ b \in Nat /\ c \in Nat /\ d \in Nat /\ a <= b /\ p[k - 1] = b + c + d
    BY <1>1, WhereHeld DEF Given
  <2> HIDE DEF a, b, c, d
  <2>2. a <= b + c + d /\ b + c + d \in Nat
    BY <2>1
  <2>3. QED
    BY <2>1, <2>2 DEF a
<1>4. 0 \in S
  <2>1. 0 + 1 = 1 /\ 1 - 1 = 0
    OBVIOUS
  <2>2. 0 + 1 <= NumLinks => 1 \in Links
    BY <1>2 DEF Links
  <2>3. QED
    BY <1>3, <2>1, <2>2
<1>5. ASSUME NEW i \in Nat, i \in S PROVE i + 1 \in S
  <2>1. SUFFICES ASSUME (i + 1) + 1 <= NumLinks PROVE n[(i + 1) + 1] <= p[0]
    OBVIOUS
  <2> DEFINE j == i + 1
             k == j + 1
  <2>2. j \in Links /\ j < NumLinks /\ k \in Links /\ k - 1 = j /\ 1 \in Links
    BY <1>2, <2>1 DEF Links
  <2>3. n[j] <= p[0]
    BY <1>2, <1>5, <2>1
  <2> HIDE DEF j, k
  <2>4. n[k] <= p[j] /\ n[k] \in Nat /\ p[j] \in Nat /\ n[j] \in Nat
    BY <1>3, <2>2
  <2>5. p[0] \in Nat
    <3>1. 1 - 1 = 0
      OBVIOUS
    <3>2. QED
      BY <1>3, <2>2, <3>1
  <2>6. p[j] <= n[j]
    BY <2>2, <2>4 DEF Between
  <2>7. n[k] <= p[0]
    BY <2>3, <2>4, <2>5, <2>6
  <2>8. QED
    BY <2>7 DEF k, j
<1>6. Nat \subseteq S
  <2> HIDE DEF S
  <2>1. QED
    BY <1>4, <1>5, Induction
<1>7. l - 1 \in Nat /\ (l - 1) + 1 = l
  BY <1>2
<1>8. l - 1 \in S
  BY <1>6, <1>7
<1>9. QED
  BY <1>2, <1>7, <1>8

-----------------------------------------------------------------------------
(* The invariant *)

\* The messages 1, 2, ..., one after the other.
Counting(q) == Len(q) \in Nat /\ q = [i \in 1 .. Len(q) |-> i]

Seen(g) == [l \in Links |-> Len(g[l])]

Dealt(s, g, q) ==
  [l \in 0 .. NumLinks - 1 |->
     IF l = 0 THEN Len(q) ELSE IF s[l].in.data THEN Len(g[l]) - 1 ELSE Len(g[l])]

Books(s, g, q, w) ==
  /\ g = [l \in Links |-> g[l]] /\ (\A l \in Links : Counting(g[l])) /\ Counting(q)
  /\ Sound(s, Seen(g), Dealt(s, g, q), w)

\* What a worker of one kind never does.
Habits(s) ==
  \A w \in Filters :
    /\ ~kind[w].sendsInput => s[w + 1].waiting = <<>>
    /\ kind[w].sendsInput /\ ~kind[w].polls => ~s[w + 1].out.data

Ranges ==
  /\ kind \in [Filters -> FilterKinds] /\ mixes \in BOOLEAN
  /\ phase \in {"start", "transport", "poll", "run"} /\ worker \in Workers
  /\ window \in Seq(Entry) /\ Len(window) <= Window

Inv ==
  /\ Ranges
  /\ Books(ls, got, sent, window) /\ Habits(ls)
  /\ phase = "run" /\ worker # 0 => ls[worker].in.data

\* The counts of messages, as the line needs them.
LEMMA BooksFacts ==
  ASSUME NEW s, NEW g, NEW q, NEW w, Books(s, g, q, w)
  PROVE  /\ Sound(s, Seen(g), Dealt(s, g, q), w) /\ Shape(s)
         /\ Between(s, Seen(g), Dealt(s, g, q))
         /\ Dealt(s, g, q)[0] = Len(q) /\ Len(q) \in Nat
         /\ \A l \in Links : Seen(g)[l] = Len(g[l]) /\ Len(g[l]) \in Nat
<1>1. /\ Sound(s, Seen(g), Dealt(s, g, q), w) /\ \A l \in Links : Len(g[l]) \in Nat
      /\ Len(q) \in Nat
  BY DEF Books, Counting
<1>2. Shape(s)
  BY <1>1, LinesShape DEF Sound
<1>3. Dealt(s, g, q)[0] = Len(q)
  <2>1. 0 \in 0 .. NumLinks - 1
    BY LocalLinksAssumption
  <2>2. QED
    BY <2>1 DEF Dealt
<1>4. \A l \in Links : Seen(g)[l] = Len(g[l])
  BY DEF Seen
<1>5. ASSUME NEW l \in Links, l < NumLinks
      PROVE  Seen(g)[l] = IF s[l].in.data THEN Dealt(s, g, q)[l] + 1 ELSE Dealt(s, g, q)[l]
  <2>1. l \in 0 .. NumLinks - 1 /\ l # 0
    BY <1>5, LinkFacts
  <2>2. Dealt(s, g, q)[l] = IF s[l].in.data THEN Len(g[l]) - 1 ELSE Len(g[l])
    BY <2>1 DEF Dealt
  <2>3. Len(g[l]) = (Len(g[l]) - 1) + 1
    BY <1>1
  <2>4. QED
    BY <1>4, <2>2, <2>3
<1>6. QED
  BY <1>1, <1>2, <1>3, <1>4, <1>5 DEF Between

\* The books when no worker is handed anything and none deals with anything.
LEMMA BooksKept ==
  ASSUME NEW s, NEW g, NEW q, NEW w, Books(s, g, q, w), NEW u, NEW w2,
         Sound(u, Seen(g), Dealt(s, g, q), w2),
         \A l \in Links : l < NumLinks => (u[l].in.data <=> s[l].in.data)
  PROVE  Books(u, g, q, w2)
<1>1. ASSUME NEW l \in 0 .. NumLinks - 1, l # 0 PROVE l \in Links /\ l < NumLinks
  BY <1>1, LocalLinksAssumption DEF Links
<1>2. Dealt(u, g, q) = Dealt(s, g, q)
  BY <1>1 DEF Dealt
<1>3. QED
  BY <1>2 DEF Books

\* Counting goes on.
LEMMA CountingMore ==
  ASSUME NEW q, Counting(q), NEW c, c = Len(q) + 1
  PROVE  Counting(Append(q, c)) /\ Len(Append(q, c)) = Len(q) + 1
<1>1. q \in Seq(Nat) /\ Len(q) \in Nat /\ \A i \in 1 .. Len(q) : q[i] = i
  BY DEF Counting
<1> DEFINE r == Append(q, c)
<1>2. /\ r \in Seq(Nat) /\ Len(r) = Len(q) + 1
      /\ \A i \in 1 .. Len(q) : r[i] = q[i]
      /\ r[Len(q) + 1] = c
  <2>1. c \in Nat
    BY <1>1
  <2>2. QED
    BY <1>1, <2>1, AppendFacts
<1> HIDE DEF r
<1>3. ASSUME NEW i \in 1 .. Len(r) PROVE r[i] = i
  <2>1. i \in 1 .. Len(q) \/ i = Len(q) + 1
    BY <1>1, <1>2
  <2>2. QED
    BY <1>1, <1>2, <2>1
<1>4. r = [i \in 1 .. Len(r) |-> r[i]]
  BY <1>2
<1>5. Counting(r)
  BY <1>1, <1>2, <1>3, <1>4 DEF Counting
<1>6. QED
  BY <1>2, <1>5 DEF r

\* The last number is the count.
LEMMA LastCounting ==
  ASSUME NEW q, Counting(q), Len(q) > 0
  PROVE  Last(q) = Len(q)
BY DEF Counting, Last

\* The invariant holds initially.
LEMMA InitInv ==
  ASSUME Init
  PROVE  Inv
<1> DEFINE Z == [l \in Links |-> 0]
           P == [l \in 0 .. NumLinks - 1 |-> 0]
           M == [l \in Links |-> [b \in Tids(l) |-> 0]]
<1>1. /\ ls = [l \in Links |-> NewLink(l)] /\ window = <<>> /\ sent = <<>>
      /\ got = [l \in Links |-> <<>>] /\ phase = "start" /\ worker = 0
  BY DEF Init
<1>2. ASSUME NEW l \in Links
      PROVE  LinkInv(ls[l], l, 0, 0, M[l])
  <2> DEFINE r == NewLink(l)
             m == [b \in Tids(l) |-> 0]
  <2>1. /\ NumBufs[l] \in Nat \ {0} /\ 0 \in Tids(l) /\ None \notin Tids(l)
    BY LinkFacts DEF Tids
  <2>2. r \in LinkState(l)
    BY <2>1 DEF NewLink, LinkState, UnusedPort, PortState, TidOrNone, None
  <2>3. Sides(r, l)
    BY <2>1, <2>2 DEF Sides, NewLink, UnusedPort, InSeq, Distinct
  <2>4. Ring(r, l, 0, 0, m)
    <3>1. Arc(NumBufs[l], 0, 0) = {}
      BY <2>1, ArcEmpty
    <3>2. Later(l, -1) = 0 % NumBufs[l] /\ 0 % NumBufs[l] = 0
      <4>1. -1 + 1 = 0
        OBVIOUS
      <4>2. 0 % NumBufs[l] = 0
        BY <2>1
      <4>3. QED
        BY <4>1, <4>2 DEF Later
    <3>3. /\ r.nextTid = 0 /\ r.lastOrd = -1 /\ ~r.in.data
          /\ \A t \in Tids(l) : r.from[t] = None
      BY DEF NewLink, UnusedPort
    <3> HIDE DEF r
    <3>4. {t \in Tids(l) : r.from[t] # None /\ ~r.inInUse[t]} = {}
      BY <3>3
    <3>5. \A i \in 0 .. 0 - 1 : m[r.from[i % NumBufs[l]]] = i + 1
      OBVIOUS
    <3>6. 0 <= 0 + NumBufs[l]
      BY <2>1
    <3> HIDE DEF m
    <3>7. QED
      BY <3>1, <3>2, <3>3, <3>4, <3>5, <3>6 DEF Ring
  <2>5. Queue(r, 0, m) /\ OutOwned(r, l, {}) /\ m \in [Tids(l) -> Nat]
    BY DEF Queue, OutOwned, NewLink
  <2>6. M[l] = m /\ ls[l] = r
    BY <1>1
  <2> HIDE DEF r, m
  <2>7. QED
    BY <2>3, <2>4, <2>5, <2>6 DEF LinkInv
<1>3. ASSUME NEW l \in Links
      PROVE  Joint(ls, l, P, Z, M)
  <2>1. /\ ls[l].waiting = <<>> /\ ls[l].queued = <<>>
        /\ \A b \in Tids(l) : ls[l].zfrom[b] = None /\ ls[l].msg[b] = 0
    BY <1>1 DEF NewLink
  <2>2. ASSUME NEW x \in PrevTids(l) PROVE ~ls[l - 1].inInUse[x]
    <3>1. l - 1 \in Links /\ x \in Tids(l - 1)
      BY LinkFacts DEF PrevTids
    <3>2. ls[l - 1].inInUse = [t \in Tids(l - 1) |-> FALSE]
      BY <1>1, <3>1 DEF NewLink
    <3>3. QED
      BY <3>1, <3>2
  <2>3. \A x : ~InSeq(x, ls[l].waiting)
    BY <2>1 DEF InSeq
  <2>4. Z[l] = 0 /\ P[l - 1] = 0
    BY LinkFacts
  <2>5. \A b \in Tids(l) : M[l][b] = 0
    OBVIOUS
  <2> HIDE DEF Z, P, M
  <2>6. Z[l] + Len(ls[l].queued) + Len(ls[l].waiting) = P[l - 1]
    BY <2>1, <2>4
  <2>7. \A j \in 1 .. Len(ls[l].waiting) :
          M[l - 1][ls[l - 1].from[ls[l].waiting[j]]] = Z[l] + Len(ls[l].queued) + j
    BY <2>1
  <2>8. QED
    BY <2>1, <2>2, <2>3, <2>5, <2>6, <2>7 DEF Joint, Shared, Tallied
<1>4. Kept(ls[Sink], M[Sink], window)
  <2>1. \A x \in Tids(Sink) : ~ls[Sink].inInUse[x]
    <3>1. Sink \in Links
      BY LocalLinksAssumption DEF Links, Sink
    <3>2. QED
      BY <1>1, <3>1 DEF NewLink
  <2>2. Len(window) = 0
    BY <1>1
  <2>3. QED
    BY <2>1, <2>2 DEF Kept
<1>5. Lines(ls, Z, P, window, Z, M)
  <2>1. /\ ls = [l \in Links |-> ls[l]] /\ Z \in [Links -> Nat]
        /\ P \in [0 .. NumLinks - 1 -> Nat] /\ M = [l \in Links |-> M[l]]
        /\ \A l \in Links : Z[l] = 0
    BY <1>1
  <2> HIDE DEF Z, P, M
  <2>2. QED
    BY <1>2, <1>3, <1>4, <2>1 DEF Lines
<1>6. Seen(got) = Z /\ Dealt(ls, got, sent) = P
  <2>1. \A l \in Links : Len(got[l]) = 0 /\ ~ls[l].in.data
    BY <1>1 DEF NewLink, UnusedPort
  <2>2. \A l \in 0 .. NumLinks - 1 : l # 0 => l \in Links
    BY LocalLinksAssumption DEF Links
  <2>3. Len(sent) = 0
    BY <1>1
  <2>4. QED
    BY <2>1, <2>2, <2>3 DEF Seen, Dealt
<1>7. Books(ls, got, sent, window)
  <2>1. Sound(ls, Seen(got), Dealt(ls, got, sent), window)
    BY <1>5, <1>6 DEF Sound
  <2>2. Counting(<<>>)
    BY DEF Counting
  <2>3. QED
    BY <1>1, <2>1, <2>2 DEF Books
<1>8. Habits(ls)
  <2>1. ASSUME NEW w \in Filters PROVE w + 1 \in Links
    BY LocalLinksAssumption DEF Filters, Links
  <2>2. \A l \in Links : ls[l].waiting = <<>> /\ ~ls[l].out.data
    BY <1>1 DEF NewLink, UnusedPort
  <2>3. QED
    BY <2>1, <2>2 DEF Habits
<1>9. Ranges
  <2>1. window \in Seq(Entry) /\ Len(window) = 0
    BY <1>1
  <2>2. 0 \in Workers
    BY LocalLinksAssumption DEF Workers
  <2>3. Window \in Nat
    BY PipelineAssumption
  <2>4. QED
    BY <1>1, <2>1, <2>2, <2>3 DEF Ranges, Init
<1>10. QED
  BY <1>1, <1>7, <1>8, <1>9 DEF Inv

\* The part of the invariant that is about the links and the messages.
Core(s, g, q, w) == Books(s, g, q, w) /\ Habits(s)

\* Stuttering keeps the invariant.
LEMMA Unchanged ==
  ASSUME Inv, UNCHANGED vars
  PROVE  Inv'
BY DEF Inv, vars, Ranges, Books, Habits, Workers, Entry, Seen, Dealt, Counting

\* The invariant of the next state, from its parts.
LEMMA InvPrimed ==
  ASSUME Ranges', Core(ls', got', sent', window'), UNCHANGED kind,
         phase' = "run" /\ worker' # 0 => ls'[worker'].in.data
  PROVE  Inv'
<1>1. Books(ls, got, sent, window)' /\ Habits(ls)'
  BY DEF Core, Books, Habits, Seen, Dealt
<1>2. QED
  BY <1>1 DEF Inv

\* The sequences change as in an abstract stream.
Moves ==
  \/ UNCHANGED <<sent, got>>
  \/ /\ Len(sent) < MaxMessages /\ sent' = Append(sent, Len(sent) + 1) /\ UNCHANGED got
  \/ UNCHANGED sent /\ \E l \in Links : got' = [got EXCEPT ![l] = Append(got[l], Len(got[l]) + 1)]

\* The dispatch thread moves on to a worker.
LEMMA NextWorkerIs ==
  ASSUME Ranges, NextWorker
  PROVE  worker' \in Workers /\ phase' \in {"start", "transport", "poll", "run"} /\ phase' # "run"
<1> DEFINE N == NumLinks + 1
           i == worker + 1
<1>1. worker \in 0 .. NumLinks /\ NumLinks \in Nat
  BY LocalLinksAssumption DEF Ranges, Workers
<1>2. N \in Nat \ {0} /\ i \in Nat /\ N - 1 = NumLinks
  BY <1>1
<1>3. worker' = i % N
  BY DEF NextWorker
<1> HIDE DEF N, i
<1>4. worker' \in 0 .. N - 1
  BY <1>2, <1>3, OnRing
<1>5. QED
  BY <1>2, <1>4 DEF NextWorker, Workers

\* A request for an output buffer keeps the core; a worker that sends its input
\* buffer without polling never makes one.
LEMMA TakeOutputCore ==
  ASSUME NEW s, NEW g, NEW q, NEW w, Core(s, g, q, w), NEW l \in Links,
         \A f \in Filters : f + 1 = l => ~(kind[f].sendsInput /\ ~kind[f].polls),
         NEW u, u = TakeOutput(s, l)
  PROVE  /\ Core(u, g, q, w) /\ \A k \in Links : u[k].in = s[k].in
         /\ Elsewhere(l, s, u)
<1>1. Sound(s, Seen(g), Dealt(s, g, q), w)
  BY DEF Core, Books
<1>2. Sound(u, Seen(g), Dealt(s, g, q), w) /\ Elsewhere(l, s, u) /\ TakenOut(s[l], u[l])
  BY <1>1, TakeOutputLine
<1>3. \A k \in Links : u[k].in = s[k].in /\ u[k].waiting = s[k].waiting
  BY <1>2 DEF Elsewhere, TakenOut
<1>4. Books(u, g, q, w)
  BY <1>2, <1>3, BooksKept DEF Core
<1>5. ASSUME NEW f \in Filters
      PROVE  /\ ~kind[f].sendsInput => u[f + 1].waiting = <<>>
             /\ kind[f].sendsInput /\ ~kind[f].polls => ~u[f + 1].out.data
  <2>1. f + 1 \in Links
    BY LocalLinksAssumption DEF Filters, Links
  <2>2. f + 1 # l => u[f + 1] = s[f + 1]
    BY <1>2, <2>1 DEF Elsewhere
  <2>3. QED
    BY <1>3, <2>1, <2>2 DEF Core, Habits
<1>6. QED
  BY <1>2, <1>3, <1>4, <1>5 DEF Core, Habits

\* One more message for link l.
OneMore(g, h, l) == h = [g EXCEPT ![l] = Append(g[l], Len(g[l]) + 1)]

\* So does fetching an input buffer, with one message more in the books.
LEMMA TakeInputCore ==
  ASSUME NEW s, NEW g, NEW q, NEW w, Core(s, g, q, w), NEW l \in Links,
         NEW u, u = TakeInput(s, l), u # s, NEW h, OneMore(g, h, l)
  PROVE  /\ Core(u, h, q, w) /\ u[l].in.data /\ ~s[l].in.data
         /\ \A k \in Links : k # l => u[k] = s[k]
<1> DEFINE n == Seen(g)
           p == Dealt(s, g, q)
           n2 == [n EXCEPT ![l] = n[l] + 1]
<1>1. Books(s, g, q, w) /\ Sound(s, n, p, w)
  BY DEF Core, Books
<1>2. /\ Sound(u, n2, p, w)
      /\ Elsewhere(l, s, u) /\ Fetched(s[l], u[l], l) /\ ~s[l].in.data
  BY <1>1, TakeInputLine
<1>3. u[l].in.data /\ u[l].out = s[l].out /\ u[l].waiting = s[l].waiting
  BY <1>2 DEF Fetched, SameOutput
<1>4. \A k \in Links : k # l => u[k] = s[k]
  BY <1>2 DEF Elsewhere
<1>5. g = [k \in Links |-> g[k]] /\ \A k \in Links : Counting(g[k])
  BY <1>1 DEF Books
<1>6. Counting(Append(g[l], Len(g[l]) + 1)) /\ Len(Append(g[l], Len(g[l]) + 1)) = Len(g[l]) + 1
      /\ Len(g[l]) \in Nat
  <2>1. Counting(g[l])
    BY <1>5
  <2>2. QED
    BY <2>1, CountingMore DEF Counting
<1> DEFINE a == Append(g[l], Len(g[l]) + 1)
<1>7. h = [k \in Links |-> h[k]] /\ h[l] = a /\ \A k \in Links : k # l => h[k] = g[k]
  BY <1>5 DEF OneMore
<1>8. Counting(h[l]) /\ Len(h[l]) = Len(g[l]) + 1
  BY <1>6, <1>7
<1> HIDE DEF a
<1>9. Seen(h) = n2
  BY <1>7, <1>8 DEF Seen
<1>10. Dealt(u, h, q) = p
  <2>1. ASSUME NEW k \in 0 .. NumLinks - 1, k # 0
        PROVE  (IF u[k].in.data THEN Len(h[k]) - 1 ELSE Len(h[k]))
                 = (IF s[k].in.data THEN Len(g[k]) - 1 ELSE Len(g[k]))
    <3>1. k \in Links
      BY <2>1, LocalLinksAssumption DEF Links
    <3>2. CASE k = l
      <4>1. (Len(g[l]) + 1) - 1 = Len(g[l])
        BY <1>6
      <4>2. QED
        BY <1>2, <1>3, <1>8, <3>2, <4>1
    <3>3. CASE k # l
      BY <1>4, <1>7, <3>1, <3>3
    <3>4. QED
      BY <3>2, <3>3
  <2>2. QED
    BY <2>1 DEF Dealt
<1> HIDE DEF n, p, n2
<1>11. Books(u, h, q, w)
  <2>1. \A k \in Links : Counting(h[k])
    BY <1>5, <1>7, <1>8
  <2>2. Counting(q)
    BY <1>1 DEF Books
  <2>3. QED
    BY <1>2, <1>7, <1>9, <1>10, <2>1, <2>2 DEF Books
<1>12. Habits(u)
  <2>1. ASSUME NEW f \in Filters
        PROVE u[f + 1].waiting = s[f + 1].waiting /\ u[f + 1].out = s[f + 1].out
    <3>1. f + 1 \in Links
      BY LocalLinksAssumption DEF Filters, Links
    <3>2. QED
      BY <1>3, <1>4, <3>1
  <2>2. QED
    BY <2>1 DEF Core, Habits
<1>13. QED
  BY <1>2, <1>3, <1>4, <1>11, <1>12 DEF Core

\* What a worker reads in the buffer that it was just handed.
LEMMA CoreContent ==
  ASSUME NEW s, NEW g, NEW q, NEW w, Core(s, g, q, w), NEW l \in Links, s[l].in.data
  PROVE  /\ Len(g[l]) \in Nat /\ Len(g[l]) > 0 /\ Content(s, l, s[l].in.buffer) = Len(g[l])
         /\ Last(g[l]) = Len(g[l]) /\ Seen(g)[l] = Len(g[l])
<1>1. Sound(s, Seen(g), Dealt(s, g, q), w) /\ Seen(g)[l] = Len(g[l]) /\ Counting(g[l])
      /\ Len(g[l]) \in Nat
  BY BooksFacts DEF Core, Books
<1>2. Seen(g)[l] > 0 /\ Content(s, l, s[l].in.buffer) = Seen(g)[l]
  BY <1>1, HeldContent
<1>3. Len(g[l]) > 0
  BY <1>1, <1>2
<1>4. QED
  BY <1>1, <1>2, <1>3, LastCounting

\* The core is a part of the invariant.
LEMMA InvCore ==
  ASSUME Inv
  PROVE  /\ Ranges /\ Core(ls, got, sent, window)
         /\ phase = "run" /\ worker # 0 => ls[worker].in.data
         /\ NumLinks \in Nat /\ NumLinks >= 1 /\ 1 \in Links /\ Sink \in Links
BY LocalLinksAssumption DEF Inv, Core, Links, Sink

\* Serving the transport.
LEMMA ServeStep ==
  ASSUME Inv, ServeTransport
  PROVE  Inv' /\ Moves
<1>1. /\ phase \in {"start", "transport"} /\ ls' = Dispatched(ls)
      /\ phase' = IF phase = "start" THEN "transport" ELSE "poll"
      /\ UNCHANGED <<kind, mixes, worker, window, sent, got>>
  BY DEF ServeTransport
<1>2. Ranges /\ Core(ls, got, sent, window)
  BY InvCore
<1>3. Sound(ls, Seen(got), Dealt(ls, got, sent), window)
  BY <1>2 DEF Core, Books
<1>4. Sound(ls', Seen(got), Dealt(ls, got, sent), window) /\ AllServed(ls, ls')
  BY <1>1, <1>3, DispatchedLine
<1>5. Books(ls', got, sent, window)
  BY <1>2, <1>4, BooksKept DEF Core, AllServed, Served
<1>6. Habits(ls')
  <2>1. \A f \in Filters : f + 1 \in Links
    BY LocalLinksAssumption DEF Filters, Links
  <2>2. QED
    BY <1>2, <1>4, <2>1 DEF Core, Habits, AllServed, Served
<1>7. Core(ls', got', sent', window')
  BY <1>1, <1>5, <1>6 DEF Core
<1>8. Ranges'
  BY <1>1, <1>2 DEF Ranges, Workers, Entry
<1>9. Inv'
  BY <1>1, <1>7, <1>8, InvPrimed
<1>10. QED
  BY <1>1, <1>9 DEF Moves

\* What HandOver does to the streams, when the next buffer of link l was taken.
LEMMA HandOverNew ==
  ASSUME NEW s, NEW u, NEW l \in Links, NEW q, NEW w, NEW h, Core(u, h, q, w),
         got = [k \in Links |-> got[k]], Len(got[l]) \in Nat,
         OneMore(got, h, l), ~s[l].in.data, u[l].in.data, HandOver(s, u, l)
  PROVE  got' = h
<1> DEFINE a == Append(got[l], Len(got[l]) + 1)
           t == Content(u, l, u[l].in.buffer)
<1>1. got' = [got EXCEPT ![l] = Append(got[l], t)]
  BY DEF HandOver
<1>2. h[l] = a
  BY DEF OneMore
<1>3. Len(h[l]) = Len(got[l]) + 1
  <2>1. Counting(h[l]) /\ Len(h[l]) \in Nat
    BY DEF Core, Books, Counting
  <2> DEFINE c == Len(got[l]) + 1
  <2>2. Len(Append(got[l], c)) = Len(got[l]) + 1
    OBVIOUS
  <2>3. QED
    BY <1>2, <2>2
<1>4. t = Len(h[l])
  BY CoreContent
<1> HIDE DEF t
<1>5. QED
  BY <1>1, <1>3, <1>4 DEF OneMore

\* Looking at a worker.
LEMMA PollStep ==
  ASSUME Inv, Poll
  PROVE  Inv' /\ Moves
<1> DEFINE w == worker
           s == IF WatchesInput(w) THEN TakeInput(ls, w) ELSE ls
           polled == IF WatchesOutput(w) THEN TakeOutput(s, w + 1) ELSE s
           met == /\ WatchesInput(w) => polled[w].in.data
                  /\ WatchesOutput(w) => polled[w + 1].out.data \/ HasEmptyOutput(s, w + 1)
           h == [got EXCEPT ![w] = Append(got[w], Len(got[w]) + 1)]
<1>1. /\ phase = "poll" /\ ls' = polled
      /\ IF w = 0 THEN UNCHANGED got ELSE HandOver(ls, polled, w)
      /\ IF met THEN phase' = "run" /\ UNCHANGED worker ELSE NextWorker
      /\ UNCHANGED <<kind, mixes, window, sent>>
  BY DEF Poll
<1>2. /\ Ranges /\ Core(ls, got, sent, window) /\ NumLinks \in Nat /\ NumLinks >= 1
      /\ got = [k \in Links |-> got[k]] /\ \A k \in Links : Len(got[k]) \in Nat
  BY InvCore DEF Core, Books, Counting
<1>3. w \in 0 .. NumLinks
  BY <1>2 DEF Ranges, Workers
<1>4. /\ WatchesInput(w) <=> w # 0
      /\ WatchesInput(w) => w \in Links
      /\ WatchesOutput(w) => w + 1 \in Links /\ w + 1 # w
      /\ WatchesOutput(w) => \A f \in Filters : f + 1 = w + 1 =>
                                ~(kind[f].sendsInput /\ ~kind[f].polls)
  BY <1>2, <1>3 DEF WatchesInput, WatchesOutput, Filters, Links
<1>5. WatchesInput(w) => (met => polled[w].in.data)
  OBVIOUS
<1> HIDE DEF met, w
<1>6. \/ s = ls /\ Core(s, got, sent, window)
      \/ /\ WatchesInput(w) /\ Core(s, h, sent, window) /\ s[w].in.data /\ ~ls[w].in.data
  <2>1. CASE s = ls
    BY <1>2, <2>1
  <2>2. CASE s # ls
    <3>1. WatchesInput(w) /\ s = TakeInput(ls, w) /\ w \in Links
      BY <1>4, <2>2
    <3> HIDE DEF s, h
    <3>2. OneMore(got, h, w)
      BY DEF h, OneMore
    <3>3. Core(s, h, sent, window) /\ s[w].in.data /\ ~ls[w].in.data
      BY <1>2, <2>2, <3>1, <3>2, TakeInputCore
    <3>4. QED
      BY <3>1, <3>3
  <2>3. QED
    BY <2>1, <2>2
<1>7. ASSUME NEW g, Core(s, g, sent, window)
      PROVE  Core(polled, g, sent, window) /\ \A k \in Links : polled[k].in = s[k].in
  <2>1. CASE WatchesOutput(w)
    <3> DEFINE k == w + 1
    <3>1. k \in Links /\ \A f \in Filters : f + 1 = k => ~(kind[f].sendsInput /\ ~kind[f].polls)
      BY <1>4, <2>1
    <3>2. polled = TakeOutput(s, k)
      BY <2>1
    <3> HIDE DEF k, polled, s
    <3>3. QED
      BY <1>7, <3>1, <3>2, TakeOutputCore
  <2>2. CASE ~WatchesOutput(w)
    BY <1>7, <2>2
  <2>3. QED
    BY <2>1, <2>2
<1> HIDE DEF s, polled
<1>8. Core(polled, got', sent, window) /\ Moves
  <2>1. CASE s = ls /\ Core(s, got, sent, window)
    <3>1. Core(polled, got, sent, window) /\ \A k \in Links : polled[k].in = ls[k].in
      BY <1>7, <2>1
    <3>2. got' = got
      <4>1. CASE w = 0
        BY <1>1, <4>1
      <4>2. CASE w # 0
        <5>1. w \in Links
          BY <1>4, <4>2
        <5>2. polled[w].in = ls[w].in
          BY <3>1, <5>1
        <5>3. HandOver(ls, polled, w)
          BY <1>1, <4>2
        <5>4. QED
          BY <5>2, <5>3 DEF HandOver
      <4>3. QED
        BY <4>1, <4>2
    <3>3. QED
      BY <1>1, <3>1, <3>2 DEF Moves
  <2>2. CASE /\ WatchesInput(w) /\ Core(s, h, sent, window) /\ s[w].in.data /\ ~ls[w].in.data
    <3>1. w \in Links /\ w # 0
      BY <1>4, <2>2
    <3>2. Core(polled, h, sent, window) /\ polled[w].in.data
      BY <1>7, <2>2, <3>1
    <3>3. OneMore(got, h, w)
      BY DEF OneMore
    <3> HIDE DEF h
    <3>4. got' = h
      BY <1>1, <1>2, <2>2, <3>1, <3>2, <3>3, HandOverNew
    <3>5. QED
      BY <1>1, <3>1, <3>2, <3>3, <3>4 DEF Moves, OneMore
  <2>3. QED
    BY <1>6, <2>1, <2>2
<1>9. /\ Ranges' /\ (phase' = "run" /\ worker' # 0 => ls'[worker'].in.data)
  <2>1. CASE met
    <3>1. phase' = "run" /\ worker' = worker
      BY <1>1, <2>1
    <3>2. Ranges'
      BY <1>1, <1>2, <3>1 DEF Ranges, Workers, Entry
    <3>3. worker # 0 => ls'[worker].in.data
      BY <1>1, <1>4, <1>5, <2>1 DEF w
    <3>4. QED
      BY <3>1, <3>2, <3>3
  <2>2. CASE ~met
    <3>1. worker' \in Workers /\ phase' \in {"start", "transport", "poll", "run"} /\ phase' # "run"
      BY <1>1, <1>2, <2>2, NextWorkerIs
    <3>2. Ranges'
      BY <1>1, <1>2, <3>1 DEF Ranges, Workers, Entry
    <3>3. QED
      BY <3>1, <3>2
  <2>3. QED
    BY <2>1, <2>2
<1>10. Inv'
  BY <1>1, <1>8, <1>9, InvPrimed
<1>11. QED
  BY <1>8, <1>10

\* Sending what was written to the output buffer: one more message for link l,
\* where q or g counts it.
LEMMA SendCurrentCore ==
  ASSUME NEW s, NEW n, NEW p, NEW w, Sound(s, n, p, w), Habits(s), NEW l \in Links,
         s[l].out.data, l # 1 => l - 1 \in Filters /\ ~kind[l - 1].sendsInput,
         NEW c, c = p[l - 1] + 1, NEW u, u = SendCurrent(s, l, c)
  PROVE  /\ Sound(u, n, [p EXCEPT ![l - 1] = c], w) /\ Habits(u)
         /\ \A k \in Links : u[k].in = s[k].in
<1>1. s[l].waiting = <<>>
  <2>1. CASE l = 1
    <3>1. s[1] \in LinkState(1)
      BY <2>1, LinesAt DEF Sound
    <3>2. s[1].waiting \in Seq({})
      BY <3>1 DEF LinkState, PrevTids
    <3>3. QED
      BY <2>1, <3>2
  <2>2. CASE l # 1
    <3> DEFINE f == l - 1
    <3>1. f \in Filters /\ ~kind[f].sendsInput
      BY <2>2
    <3>2. f + 1 = l
      BY LinkFacts
    <3> HIDE DEF f
    <3>3. s[f + 1].waiting = <<>>
      BY <3>1 DEF Habits
    <3>4. QED
      BY <3>2, <3>3
  <2>3. QED
    BY <2>1, <2>2
<1>2. /\ Sound(u, n, [p EXCEPT ![l - 1] = c], w) /\ Elsewhere(l, s, u)
      /\ u[l].in = s[l].in /\ u[l].waiting = s[l].waiting /\ ~u[l].out.data
  BY <1>1, SendCurrentLine
<1>3. \A k \in Links : /\ u[k].in = s[k].in /\ u[k].waiting = s[k].waiting
                       /\ u[k].out.data => s[k].out.data
  BY <1>2 DEF Elsewhere
<1>4. \A f \in Filters : f + 1 \in Links
  BY LocalLinksAssumption DEF Filters, Links
<1>5. Habits(u)
  BY <1>3, <1>4 DEF Habits
<1>6. QED
  BY <1>2, <1>3, <1>5

\* The source sends.
LEMMA SendsIs ==
  ASSUME Core(ls, got, sent, window), Sends(ls), UNCHANGED <<got, window>>
  PROVE  Core(ls', got', sent', window') /\ Moves
<1> DEFINE n == Seen(got)
           p == Dealt(ls, got, sent)
           c == Len(sent) + 1
           p2 == [p EXCEPT ![0] = c]
<1>1. /\ Len(sent) < MaxMessages /\ ls[1].out.data
      /\ sent' = Append(sent, c) /\ ls' = SendCurrent(ls, 1, c)
  BY DEF Sends
<1>2. /\ Sound(ls, n, p, window) /\ Habits(ls) /\ p[0] = Len(sent) /\ Len(sent) \in Nat
      /\ Counting(sent)
  BY BooksFacts DEF Core, Books
<1>3. 1 \in Links /\ 1 - 1 = 0
  BY LocalLinksAssumption DEF Links
<1> HIDE DEF c
<1>4. c = p[1 - 1] + 1
  BY <1>2, <1>3 DEF c
<1>5. /\ Sound(ls', n, [p EXCEPT ![1 - 1] = c], window) /\ Habits(ls')
      /\ \A k \in Links : ls'[k].in = ls[k].in
  <2> HIDE DEF n, p
  <2>1. QED
    BY <1>1, <1>2, <1>3, <1>4, SendCurrentCore
<1>6. Sound(ls', n, p2, window)
  BY <1>3, <1>5
<1>7. Counting(sent') /\ Len(sent') = c
  BY <1>1, <1>2, CountingMore DEF c
<1>8. Dealt(ls', got, sent') = p2
  <2>1. ASSUME NEW k \in 0 .. NumLinks - 1, k # 0
        PROVE  ls'[k].in = ls[k].in
    <3>1. k \in Links
      BY <2>1, LocalLinksAssumption DEF Links
    <3>2. QED
      BY <1>5, <3>1
  <2>2. QED
    BY <1>7, <2>1 DEF Dealt
<1> HIDE DEF n, p, p2
<1>9. Books(ls', got, sent', window)
  BY <1>6, <1>7, <1>8 DEF Core, Books, n
<1>10. QED
  BY <1>1, <1>5, <1>9 DEF Core, Moves, c

\* The steps of the source.
LEMMA SourceStep ==
  ASSUME Inv, Source
  PROVE  Inv' /\ Moves
<1>1. /\ Ranges /\ Core(ls, got, sent, window) /\ 1 \in Links
  BY InvCore
<1>2. CASE SourceSends
  <2>1. /\ worker = 0 /\ Sends(ls)
        /\ UNCHANGED <<kind, mixes, phase, worker, window, got>>
    BY <1>2 DEF SourceSends, Running
  <2>2. Core(ls', got', sent', window') /\ Moves
    BY <1>1, <2>1, SendsIs
  <2>3. Ranges'
    BY <1>1, <2>1 DEF Ranges, Workers, Entry
  <2>4. QED
    BY <2>1, <2>2, <2>3, InvPrimed
<1>3. CASE SourceRequests
  <2>1. /\ worker = 0 /\ ls' = TakeOutput(ls, 1)
        /\ UNCHANGED <<kind, mixes, phase, worker, window, sent, got>>
    BY <1>3 DEF SourceRequests, Running
  <2>2. \A f \in Filters : f + 1 # 1
    BY LocalLinksAssumption DEF Filters
  <2>3. Core(ls', got, sent, window)
    BY <1>1, <2>1, <2>2, TakeOutputCore
  <2>4. Ranges'
    BY <1>1, <2>1 DEF Ranges, Workers, Entry
  <2>5. QED
    BY <2>1, <2>3, <2>4, InvPrimed DEF Moves
<1>4. CASE SourceReturns
  <2>1. /\ NextWorker /\ (Sends(ls) \/ UNCHANGED <<sent, ls>>)
        /\ UNCHANGED <<kind, mixes, window, got>>
    BY <1>4 DEF SourceReturns
  <2>2. worker' \in Workers /\ phase' \in {"start", "transport", "poll", "run"} /\ phase' # "run"
    BY <1>1, <2>1, NextWorkerIs
  <2>3. Ranges'
    BY <1>1, <2>1, <2>2 DEF Ranges, Workers, Entry
  <2>4. Core(ls', got', sent', window') /\ Moves
    <3>1. CASE Sends(ls)
      BY <1>1, <2>1, <3>1, SendsIs
    <3>2. CASE UNCHANGED <<sent, ls>>
      BY <1>1, <2>1, <3>2 DEF Moves
    <3>3. QED
      BY <2>1, <3>1, <3>2
  <2>5. QED
    BY <2>1, <2>2, <2>3, <2>4, InvPrimed
<1>5. QED
  BY <1>2, <1>3, <1>4 DEF Source

\* One message more dealt with by the worker behind link l.
LEMMA DealtWith ==
  ASSUME NEW s, NEW g, NEW q, NEW w, Books(s, g, q, w), NEW l \in Links, l < NumLinks,
         s[l].in.data, NEW u, NEW c, c = Dealt(s, g, q)[l] + 1, ~u[l].in.data,
         \A k \in Links : k # l => u[k].in = s[k].in,
         NEW w2, Sound(u, Seen(g), [Dealt(s, g, q) EXCEPT ![l] = c], w2)
  PROVE  Books(u, g, q, w2)
<1>1. l \in 0 .. NumLinks - 1 /\ l # 0
  BY LinkFacts
<1>2. Len(g[l]) \in Nat
  BY DEF Books, Counting
<1>3. c = Len(g[l])
  <2>1. Dealt(s, g, q)[l] = Len(g[l]) - 1
    BY <1>1 DEF Dealt
  <2>2. (Len(g[l]) - 1) + 1 = Len(g[l])
    BY <1>2
  <2>3. QED
    BY <2>1, <2>2
<1>4. Dealt(u, g, q) = [Dealt(s, g, q) EXCEPT ![l] = c]
  <2>1. ASSUME NEW k \in 0 .. NumLinks - 1, k # 0, k # l
        PROVE  u[k].in = s[k].in
    <3>1. k \in Links
      BY <2>1, LocalLinksAssumption DEF Links
    <3>2. QED
      BY <2>1, <3>1
  <2>2. QED
    BY <1>1, <1>3, <2>1 DEF Dealt
<1>5. QED
  BY <1>4 DEF Books

\* A filter sends its input buffer on.
LEMMA SendsInputCore ==
  ASSUME Inv, NEW w \in Filters, ls[w].in.data, FilterSendsInput(w)
  PROVE  Core(ls', got, sent, window)
<1> DEFINE n == Seen(got)
           p == Dealt(ls, got, sent)
           k == w + 1
<1>1. /\ w \in Links /\ w < NumLinks /\ w # 0 /\ k \in Links /\ k # w
      /\ \A f \in Filters : f + 1 \in Links /\ (f + 1 = k => f = w)
  BY LocalLinksAssumption DEF Filters, Links
<1>2. /\ Books(ls, got, sent, window) /\ Habits(ls) /\ Sound(ls, n, p, window)
      /\ Between(ls, n, p) /\ kind \in [Filters -> FilterKinds]
  BY BooksFacts DEF Inv, Ranges
<1>3. kind[w].sendsInput /\ ls' = SendOn(ls, w)
  BY DEF FilterSendsInput
<1>4. Frugal => ~ls[k].out.data
  <2>1. Frugal => ~kind[w].polls
    BY <1>2, <1>3 DEF Frugal
  <2>2. QED
    BY <1>2, <1>3, <2>1 DEF Habits
<1>5. n[w] = p[w] + 1
  BY <1>1, <1>2 DEF Between
<1> HIDE DEF n, p
<1>6. /\ Sound(ls', n, [p EXCEPT ![w] = p[w] + 1], window) /\ SentAway(ls[w], ls'[w])
      /\ Adopted(ls[k], ls'[k], ls[w].in.buffer)
      /\ \A j \in Links : j # w /\ j # k => ls'[j] = ls[j]
  <2>1. OnwardGiven(ls, n, p, window, w, ls')
    BY <1>1, <1>2, <1>3, <1>4, <1>5 DEF OnwardGiven
  <2>2. OnwardDone(ls, n, p, window, w, ls')
    BY <2>1, SendOnLine
  <2>3. QED
    BY <2>2 DEF OnwardDone
<1>7. /\ ~ls'[w].in.data /\ \A j \in Links : j # w => ls'[j].in = ls[j].in
  BY <1>1, <1>6 DEF SentAway, Adopted
<1> DEFINE c == p[w] + 1
<1>8. c = Dealt(ls, got, sent)[w] + 1 /\ Sound(ls', Seen(got), [Dealt(ls, got, sent) EXCEPT ![w] = c], window)
  BY <1>6 DEF n, p
<1> HIDE DEF c
<1>9. Books(ls', got, sent, window)
  BY <1>1, <1>2, <1>7, <1>8, DealtWith
<1>10. ASSUME NEW f \in Filters
       PROVE  /\ ~kind[f].sendsInput => ls'[f + 1].waiting = <<>>
              /\ kind[f].sendsInput /\ ~kind[f].polls => ~ls'[f + 1].out.data
  <2>1. CASE f + 1 = k
    BY <1>1, <1>3, <1>6, <2>1 DEF Adopted
  <2>2. CASE f + 1 # k
    <3>1. ls'[f + 1].waiting = ls[f + 1].waiting /\ ls'[f + 1].out = ls[f + 1].out
      <4>1. CASE f + 1 = w
        BY <1>6, <4>1 DEF SentAway, SameOutput
      <4>2. CASE f + 1 # w
        BY <1>1, <1>6, <2>2, <4>2
      <4>3. QED
        BY <4>1, <4>2
    <3>2. QED
      BY <1>2, <3>1 DEF Habits
  <2>3. QED
    BY <2>1, <2>2
<1>11. QED
  BY <1>9, <1>10 DEF Core, Habits

\* Giving a buffer back breaks no habit.
LEMMA UntouchedHabits ==
  ASSUME NEW s, NEW u, NEW l, Habits(s), Untouched(l, s, u)
  PROVE  Habits(u)
<1>1. \A f \in Filters : f + 1 \in Links
  BY LocalLinksAssumption DEF Filters, Links
<1>2. QED
  BY <1>1 DEF Habits, Untouched

\* A filter copies, when it finds an output buffer.
LEMMA CopiesCore ==
  ASSUME Inv, NEW w \in Filters, ls[w].in.data, FilterCopies(w)
  PROVE  Core(ls', got, sent, window)
<1> DEFINE k == w + 1
           s == TakeOutput(ls, k)
           t == ls[w].in.buffer
           c == Content(s, w, t)
           v == SendCurrent(s, k, c)
           n == Seen(got)
           p == Dealt(s, got, sent)
           p2 == [p EXCEPT ![w] = c]
<1>1. /\ w \in Links /\ w < NumLinks /\ w # 0 /\ k \in Links /\ k # w /\ k - 1 = w /\ k # 1
      /\ \A f \in Filters : f + 1 \in Links /\ (f + 1 = k => f = w) /\ w # Sink
  BY LocalLinksAssumption DEF Filters, Links, Sink
<1>2. /\ ~kind[w].sendsInput
      /\ ls' = IF s[k].out.data THEN Release(v, w, t) ELSE s
  BY DEF FilterCopies
<1>3. Core(ls, got, sent, window)
  BY InvCore
<1> HIDE DEF k
<1>4. Core(s, got, sent, window) /\ \A j \in Links : s[j].in = ls[j].in
  BY <1>1, <1>2, <1>3, TakeOutputCore
<1> HIDE DEF s
<1>5. s[w].in.data /\ s[w].in.buffer = t
  BY <1>1, <1>4
<1>6. CASE ~s[k].out.data
  BY <1>2, <1>4, <1>6
<1>7. CASE s[k].out.data
  <2>1. /\ Sound(s, n, p, window) /\ Between(s, n, p) /\ Habits(s) /\ Books(s, got, sent, window)
    BY <1>4, BooksFacts DEF Core
  <2>2. c = Seen(got)[w]
    BY <1>1, <1>4, <1>5, CoreContent
  <2>3. c = p[w] + 1
    BY <1>1, <1>5, <2>1, <2>2 DEF Between
  <2> HIDE DEF c, n, p, t
  <2>4. c = p[k - 1] + 1
    BY <1>1, <2>3
  <2>5. k - 1 \in Filters /\ ~kind[k - 1].sendsInput
    BY <1>1, <1>2
  <2>6. /\ Sound(v, n, [p EXCEPT ![k - 1] = c], window) /\ Habits(v)
        /\ \A j \in Links : v[j].in = s[j].in
    BY <1>1, <1>7, <2>1, <2>4, <2>5, SendCurrentCore
  <2> HIDE DEF v
  <2>7. Sound(v, n, p2, window)
    BY <1>1, <2>6
  <2>8. v[w].in.data /\ v[w].in.buffer = t
    BY <1>1, <1>5, <2>6
  <2>9. ls' = Release(v, w, t)
    BY <1>2, <1>7
  <2> HIDE DEF p2
  <2>10. Freeable(v, w, t)
    BY <1>1, <2>7, <2>8, CurrentFreeable
  <2>11. /\ Sound(ls', n, p2, window) /\ Untouched(w, v, ls')
         /\ ls'[w].in.data <=> v[w].in.data /\ v[w].in.buffer # t
    BY <1>1, <2>7, <2>9, <2>10, ReleaseLine
  <2>12. ~ls'[w].in.data /\ \A j \in Links : j # w => ls'[j].in = s[j].in
    BY <2>6, <2>8, <2>11 DEF Untouched
  <2>13. c = Dealt(s, got, sent)[w] + 1
         /\ Sound(ls', Seen(got), [Dealt(s, got, sent) EXCEPT ![w] = c], window)
    BY <2>3, <2>11 DEF p, p2, n
  <2>14. Books(ls', got, sent, window)
    BY <1>1, <1>5, <2>1, <2>12, <2>13, DealtWith
  <2>15. Habits(ls')
    BY <2>6, <2>11, UntouchedHabits
  <2>16. QED
    BY <2>14, <2>15 DEF Core
<1>8. QED
  BY <1>6, <1>7

\* The steps of a worker in between.
LEMMA FilterStep ==
  ASSUME Inv, NEW w \in Filters, FilterRuns(w)
  PROVE  Inv' /\ Moves
<1>1. /\ phase = "run" /\ worker = w /\ NextWorker
      /\ FilterSendsInput(w) \/ FilterCopies(w)
      /\ UNCHANGED <<kind, mixes, window, sent, got>>
  BY DEF FilterRuns, Running
<1>2. w # 0
  BY DEF Filters
<1>3. Ranges /\ ls[w].in.data
  BY <1>1, <1>2, InvCore
<1>4. worker' \in Workers /\ phase' \in {"start", "transport", "poll", "run"} /\ phase' # "run"
  BY <1>1, <1>3, NextWorkerIs
<1>5. Ranges'
  BY <1>1, <1>3, <1>4 DEF Ranges, Workers, Entry
<1>6. Core(ls', got, sent, window)
  BY <1>1, <1>3, SendsInputCore, CopiesCore
<1>7. QED
  BY <1>1, <1>4, <1>5, <1>6, InvPrimed DEF Moves

-----------------------------------------------------------------------------

\* The consumer gives a buffer back, its current one or one of its window.
LEMMA ReleaseCore ==
  ASSUME NEW s, NEW g, NEW q, NEW w, Core(s, g, q, w), NEW t, Freeable(s, Sink, t),
         NEW w2, Rest(w, w2, t), NEW u, u = Release(s, Sink, t)
  PROVE  /\ Core(u, g, q, w2)
         /\ u[Sink].in.data <=> s[Sink].in.data /\ s[Sink].in.buffer # t
<1>1. Sound(s, Seen(g), Dealt(s, g, q), w) /\ Habits(s) /\ Books(s, g, q, w)
  BY DEF Core, Books
<1>2. Sink \in Links /\ \A l \in Links : l < NumLinks => l # Sink
  BY LocalLinksAssumption DEF Links, Sink
<1>3. /\ Sound(u, Seen(g), Dealt(s, g, q), w2) /\ Untouched(Sink, s, u)
      /\ u[Sink].in.data <=> s[Sink].in.data /\ s[Sink].in.buffer # t
  BY <1>1, <1>2, ReleaseLine
<1>4. Books(u, g, q, w2)
  BY <1>1, <1>2, <1>3, BooksKept DEF Untouched
<1>5. Habits(u)
  BY <1>1, <1>3, UntouchedHabits
<1>6. QED
  BY <1>3, <1>4, <1>5 DEF Core

\* The consumer releases its current buffer.
LEMMA SinkReleasesStep ==
  ASSUME Inv, SinkReleases
  PROVE  Inv' /\ Moves
<1> DEFINE t == ls[Sink].in.buffer
<1>1. /\ phase = "run" /\ worker = Sink /\ NextWorker /\ ls' = Release(ls, Sink, t)
      /\ UNCHANGED <<kind, mixes, window, sent, got>>
  BY DEF SinkReleases, Running
<1>2. Ranges /\ Core(ls, got, sent, window) /\ ls[Sink].in.data /\ Sink \in Links
  BY <1>1, InvCore DEF Sink
<1>3. Freeable(ls, Sink, t) /\ Rest(window, window, t)
  BY <1>2, CurrentFreeable DEF Core, Books
<1> HIDE DEF t
<1>4. Core(ls', got, sent, window)
  BY <1>1, <1>2, <1>3, ReleaseCore
<1>5. worker' \in Workers /\ phase' \in {"start", "transport", "poll", "run"} /\ phase' # "run"
  BY <1>1, <1>2, NextWorkerIs
<1>6. Ranges'
  BY <1>1, <1>2, <1>5 DEF Ranges, Workers, Entry
<1>7. QED
  BY <1>1, <1>4, <1>5, <1>6, InvPrimed DEF Moves

\* The consumer releases a buffer it kept.
LEMMA SinkReleasesKeptStep ==
  ASSUME Inv, SinkReleasesKept
  PROVE  Inv' /\ Moves
<1>1. /\ phase = "run" /\ worker = Sink
      /\ \E i \in DOMAIN window : /\ ls' = Release(ls, Sink, window[i].buffer)
                                  /\ window' = RemoveAt(window, i)
      /\ UNCHANGED <<kind, mixes, phase, worker, sent, got>>
  BY DEF SinkReleasesKept, Running
<1>2. /\ Ranges /\ Core(ls, got, sent, window) /\ ls[Sink].in.data /\ Sink \in Links
      /\ window \in Seq(Entry) /\ Len(window) <= Window
  BY <1>1, InvCore DEF Sink, Ranges
<1>3. PICK i \in 1 .. Len(window) : /\ ls' = Release(ls, Sink, window[i].buffer)
                                    /\ window' = RemoveAt(window, i)
  BY <1>1, <1>2
<1> DEFINE t == window[i].buffer
<1>4. Sound(ls, Seen(got), Dealt(ls, got, sent), window)
  BY <1>2 DEF Core, Books
<1>5. Freeable(ls, Sink, t)
  BY <1>4, KeptFreeable
<1>6. Rest(window, window', t)
  <2>1. \A j, k \in 1 .. Len(window) : window[j].buffer = window[k].buffer => j = k
    BY <1>4, WindowDistinct
  <2>2. Removed(window, i, window')
    BY <1>2, <1>3, RemoveAtIs
  <2>3. QED
    BY <1>2, <2>1, <2>2, RemoveRest
<1>7. ls[Sink].in.buffer # t
  <2>1. Rest(window, window, ls[Sink].in.buffer)
    BY <1>2, <1>4, CurrentFreeable
  <2>2. QED
    BY <2>1 DEF Rest
<1> HIDE DEF t
<1>8. Core(ls', got, sent, window') /\ ls'[Sink].in.data
  <2>1. ls' = Release(ls, Sink, t)
    BY <1>3 DEF t
  <2>2. QED
    BY <1>2, <1>5, <1>6, <1>7, <2>1, ReleaseCore
<1>9. window' \in Seq(Entry) /\ Len(window') <= Window
  <2>1. Removed(window, i, window')
    BY <1>2, <1>3, RemoveAtIs
  <2>2. window' \in Seq(Entry) /\ Len(window') = Len(window) - 1 /\ Len(window) \in Nat
    BY <1>2, <2>1 DEF Removed
  <2>3. Window \in Nat
    BY PipelineAssumption
  <2>4. QED
    BY <1>2, <2>2, <2>3
<1>10. Ranges'
  BY <1>1, <1>2, <1>9 DEF Ranges, Workers, Entry
<1>11. QED
  BY <1>1, <1>8, <1>10, InvPrimed DEF Moves

\* A full window moves on by one entry: its oldest is removed.
LEMMA WindowMoves ==
  ASSUME NEW w \in Seq(Entry), Len(w) > 0, NEW e \in Entry
  PROVE  /\ Removed(Append(w, e), 1, Append(Tail(w), e))
         /\ 1 \in 1 .. Len(Append(w, e)) /\ Append(w, e)[1] = Head(w)
         /\ Len(Append(Tail(w), e)) = Len(w)
<1> DEFINE v == Append(w, e)
           r == Tail(w)
           x == Append(r, e)
<1>1. /\ w # <<>> /\ Len(w) \in Nat /\ Head(w) = w[1] /\ 1 \in 1 .. Len(w)
  OBVIOUS
<1>2. /\ r \in Seq(Entry) /\ Len(r) = Len(w) - 1
      /\ \A i \in 1 .. Len(w) - 1 : r[i] = w[i + 1]
  BY <1>1, TailFacts
<1> HIDE DEF r
<1>3. /\ v \in Seq(Entry) /\ Len(v) = Len(w) + 1 /\ v[Len(w) + 1] = e
      /\ \A i \in 1 .. Len(w) : v[i] = w[i]
  BY AppendFacts
<1>4. /\ x \in Seq(Entry) /\ Len(x) = Len(r) + 1 /\ x[Len(r) + 1] = e
      /\ \A i \in 1 .. Len(r) : x[i] = r[i]
  BY <1>2, AppendFacts
<1> HIDE DEF v, x
<1>5. Len(x) = Len(w) /\ Len(x) = Len(v) - 1
  BY <1>1, <1>2, <1>3, <1>4
<1>6. ASSUME NEW j \in 1 .. Len(x) PROVE x[j] = IF j < 1 THEN v[j] ELSE v[j + 1]
  <2>1. ~(j < 1) /\ j \in Nat
    BY <1>1, <1>5
  <2>2. CASE j = Len(w)
    BY <1>1, <1>2, <1>3, <1>4, <2>1, <2>2
  <2>3. CASE j # Len(w)
    <3>1. j \in 1 .. Len(r) /\ j \in 1 .. Len(w) - 1 /\ j + 1 \in 1 .. Len(w)
      BY <1>1, <1>2, <1>5, <2>3
    <3>2. QED
      BY <1>2, <1>3, <1>4, <2>1, <3>1
  <2>4. QED
    BY <2>2, <2>3
<1>7. Removed(v, 1, x)
  BY <1>4, <1>5, <1>6 DEF Removed
<1>8. 1 \in 1 .. Len(v)
  BY <1>1, <1>3
<1>9. QED
  BY <1>1, <1>3, <1>5, <1>7, <1>8 DEF v, x, r

\* The current buffer joins the window.
LEMMA KeepCore ==
  ASSUME NEW s, NEW g, NEW q, NEW w \in Seq(Entry), Core(s, g, q, w), s[Sink].in.data,
         NEW e, e = [buffer |-> s[Sink].in.buffer, message |-> Last(g[Sink])],
         NEW u, u = [s EXCEPT ![Sink].in = UnusedPort]
  PROVE  Core(u, g, q, Append(w, e)) /\ ~u[Sink].in.data /\ e \in Entry
<1> DEFINE n == Seen(g)
           p == Dealt(s, g, q)
           v == Append(w, e)
<1>1. Sink \in Links /\ \A l \in Links : l < NumLinks => l # Sink
  BY LocalLinksAssumption DEF Links, Sink
<1>2. Books(s, g, q, w) /\ Sound(s, n, p, w) /\ Habits(s)
  BY DEF Core, Books
<1>3. n[Sink] = Last(g[Sink])
  BY <1>1, CoreContent
<1> HIDE DEF n, p
<1>4. e = [buffer |-> s[Sink].in.buffer, message |-> n[Sink]]
  BY <1>3
<1>5. /\ Sound(u, n, p, v) /\ Untouched(Sink, s, u) /\ ~u[Sink].in.data
      /\ e \in Entry
  BY <1>2, <1>4, KeepLine
<1> HIDE DEF v
<1>6. Habits(u)
  BY <1>2, <1>5, UntouchedHabits
<1>7. Books(u, g, q, v)
  <2>1. Sound(u, Seen(g), Dealt(s, g, q), v)
    BY <1>5 DEF n, p
  <2>2. QED
    BY <1>1, <1>2, <1>5, <2>1, BooksKept DEF Untouched
<1>8. QED
  BY <1>5, <1>6, <1>7 DEF Core, v

\* CP289Take.
LEMMA SinkTakesStep ==
  ASSUME Inv, SinkTakes
  PROVE  Inv' /\ Moves
<1> DEFINE full == Len(window) = Window
           old == IF full THEN Head(window).buffer ELSE None
           kept == Keep(ls, Sink, old)
           new == [buffer |-> ls[Sink].in.buffer, message |-> Last(got[Sink])]
           w2 == Append(IF full THEN Tail(window) ELSE window, new)
           s == [ls EXCEPT ![Sink].in = UnusedPort]
           v == Append(window, new)
           h == [got EXCEPT ![Sink] = Append(got[Sink], Len(got[Sink]) + 1)]
<1>1. /\ phase = "run" /\ worker = Sink /\ Window > 0
      /\ window' = w2 /\ ls' = TakeInput(kept, Sink) /\ HandOver(kept, ls', Sink)
      /\ NextWorker /\ UNCHANGED <<kind, mixes, sent>>
  BY DEF SinkTakes, Running
<1>2. /\ Ranges /\ Core(ls, got, sent, window) /\ ls[Sink].in.data /\ Sink \in Links
      /\ window \in Seq(Entry) /\ Len(window) <= Window /\ Window \in Nat /\ Len(window) \in Nat
      /\ got = [k \in Links |-> got[k]] /\ Len(got[Sink]) \in Nat
  BY <1>1, InvCore, PipelineAssumption DEF Sink, Ranges, Core, Books, Counting
<1> HIDE DEF new, s
<1>3. Core(s, got, sent, v) /\ ~s[Sink].in.data /\ new \in Entry
  BY <1>2, KeepCore DEF new, s
<1>4. /\ Core(kept, got, sent, w2) /\ ~kept[Sink].in.data
      /\ w2 \in Seq(Entry) /\ Len(w2) <= Window
  <2>1. CASE ~full
    <3>1. w2 = v /\ kept = s
      BY <2>1 DEF Keep, s
    <3>2. v \in Seq(Entry) /\ Len(v) = Len(window) + 1
      BY <1>2, <1>3, AppendFacts
    <3> HIDE DEF v, w2, kept
    <3>3. Len(v) <= Window
      BY <1>2, <2>1, <3>2
    <3>4. QED
      BY <1>3, <3>1, <3>2, <3>3
  <2>2. CASE full
    <3> DEFINE t == Head(window).buffer
               r == Append(Tail(window), new)
    <3>1. Len(window) > 0
      BY <1>1, <2>2
    <3>2. /\ Removed(v, 1, r) /\ 1 \in 1 .. Len(v) /\ v[1] = Head(window)
          /\ Len(r) = Len(window) /\ v \in Seq(Entry)
      BY <1>2, <1>3, <3>1, WindowMoves
    <3>3. w2 = r /\ old = t
      BY <2>2
    <3> HIDE DEF v, r, w2, old
    <3>4. Sound(s, Seen(got), Dealt(s, got, sent), v)
      BY <1>3 DEF Core, Books
    <3>5. Freeable(s, Sink, t)
      BY <3>2, <3>4, KeptFreeable
    <3>6. Rest(v, r, t)
      <4>1. \A j, k \in 1 .. Len(v) : v[j].buffer = v[k].buffer => j = k
        BY <3>4, WindowDistinct
      <4>2. QED
        BY <3>2, <4>1, RemoveRest
    <3>7. t # None
      BY <1>2, <3>5, LinkFacts DEF Freeable
    <3> HIDE DEF t
    <3>8. kept = Release(s, Sink, t)
      BY <3>3, <3>7 DEF Keep, s
    <3> HIDE DEF kept
    <3>9. Core(kept, got, sent, r) /\ ~kept[Sink].in.data
      BY <1>3, <3>5, <3>6, <3>8, ReleaseCore
    <3>10. r \in Seq(Entry) /\ Len(r) <= Window
      BY <1>2, <3>2 DEF Removed
    <3>11. QED
      BY <3>3, <3>9, <3>10
  <2>3. QED
    BY <2>1, <2>2
<1> HIDE DEF kept, w2
<1>5. Core(ls', got', sent, w2) /\ Moves
  <2>1. CASE ls' = kept
    <3>1. got' = got
      BY <1>1, <2>1 DEF HandOver
    <3>2. QED
      BY <1>1, <1>4, <2>1, <3>1 DEF Moves
  <2>2. CASE ls' # kept
    <3>1. OneMore(got, h, Sink)
      BY DEF OneMore
    <3> HIDE DEF h
    <3>2. Core(ls', h, sent, w2) /\ ls'[Sink].in.data
      BY <1>1, <1>2, <1>4, <2>2, <3>1, TakeInputCore
    <3>3. got' = h
      BY <1>1, <1>2, <1>4, <3>1, <3>2, HandOverNew
    <3>4. QED
      BY <1>1, <1>2, <3>1, <3>2, <3>3 DEF Moves, OneMore
  <2>3. QED
    BY <2>1, <2>2
<1>6. worker' \in Workers /\ phase' \in {"start", "transport", "poll", "run"} /\ phase' # "run"
  BY <1>1, <1>2, NextWorkerIs
<1>7. Ranges'
  BY <1>1, <1>2, <1>4, <1>6 DEF Ranges, Workers, Entry
<1>8. QED
  BY <1>1, <1>5, <1>6, <1>7, InvPrimed

\* Every step keeps the invariant, and moves the streams by a message at most.
LEMMA NextStep ==
  ASSUME Inv, [Next]_vars
  PROVE  Inv' /\ Moves
<1>1. CASE ServeTransport
  BY <1>1, ServeStep
<1>2. CASE Poll
  BY <1>2, PollStep
<1>3. CASE Source
  BY <1>3, SourceStep
<1>4. CASE Consumer
  BY <1>4, SinkReleasesStep, SinkReleasesKeptStep, SinkTakesStep DEF Consumer
<1>5. CASE \E w \in Filters : FilterRuns(w)
  BY <1>5, FilterStep
<1>6. CASE UNCHANGED vars
  BY <1>6, Unchanged DEF Moves, vars
<1>7. QED
  BY <1>1, <1>2, <1>3, <1>4, <1>5, <1>6 DEF Next

\* The invariant holds in every reachable state, for every number of links and
\* buffers, every kind of worker and every window.
THEOREM InvHolds == Spec => []Inv
<1>1. Init => Inv
  BY InitInv
<1>2. Inv /\ [Next]_vars => Inv'
  BY NextStep
<1>3. QED
  BY <1>1, <1>2, PTL DEF Spec

-----------------------------------------------------------------------------
(* What it means *)

\* Every variable keeps its range, and no queue of transfers or of input buffers
\* that were sent on outgrows the buffers (Pipeline.TypeOK).
THEOREM TypeCorrect == Spec => []TypeOK
<1>1. ASSUME Inv PROVE TypeOK
  <2>1. Ranges /\ Sound(ls, Seen(got), Dealt(ls, got, sent), window)
    BY <1>1 DEF Inv, Books
  <2>2. PICK st, M : Lines(ls, Seen(got), Dealt(ls, got, sent), window, st, M)
    BY <2>1 DEF Sound
  <2>3. ASSUME NEW l \in Links
        PROVE  /\ ls[l].out \in PortState(l) /\ ls[l].in \in PortState(l)
               /\ ls[l].lastTid \in Tids(l) /\ ls[l].nextTid \in Tids(l)
               /\ ls[l].lastOrd \in Tids(l) \cup {-1}
               /\ ls[l].from \in [Tids(l) -> TidOrNone(l)]
               /\ IF l = 1 THEN ls[1].zfrom = [b \in Tids(1) |-> None] /\ ls[1].waiting = <<>>
                  ELSE /\ ls[l].zfrom \in [Tids(l) -> TidOrNone(l - 1)]
                       /\ Len(ls[l].waiting) <= NumBufs[l - 1]
               /\ Len(ls[l].queued) <= NumBufs[l]
    <3>1. ls[l] \in LinkState(l) /\ PrevTids(l) = IF l = 1 THEN {} ELSE Tids(l - 1)
      BY <2>2, LinesAt DEF PrevTids
    <3>2. Len(ls[l].queued) <= NumBufs[l]
      BY <2>2, QueueFits
    <3>3. l # 1 => Len(ls[l].waiting) <= NumBufs[l - 1]
      BY <2>2, WaitingFits
    <3>4. ls[l].lastOrd \in Tids(l) \cup {-1}
      BY <3>1 DEF LinkState, TidOrNone, None
    <3>5. CASE l = 1
      <4>1. ls[1].waiting \in Seq({}) /\ ls[1].zfrom \in [Tids(1) -> {None}]
        BY <3>1, <3>5 DEF LinkState
      <4>2. ls[1].waiting = <<>>
        BY <4>1
      <4>3. ls[1].zfrom = [b \in Tids(1) |-> None]
        BY <4>1
      <4>4. QED
        BY <3>1, <3>2, <3>4, <3>5, <4>2, <4>3 DEF LinkState
    <3>6. CASE l # 1
      BY <3>1, <3>2, <3>3, <3>4, <3>6 DEF LinkState, TidOrNone
    <3>7. QED
      BY <3>5, <3>6
  <2>4. QED
    BY <2>1, <2>3 DEF TypeOK, Ranges
<1>2. QED
  BY <1>1, InvHolds, PTL

\* The container's assertion on a port without a buffer never fires
\* (OcpiCP289Controller.cxx:139; Pipeline.PortsReady).
THEOREM ReadyPorts == Spec => []PortsReady
<1>1. ASSUME Inv PROVE PortsReady
  <2>1. PICK st, M : Lines(ls, Seen(got), Dealt(ls, got, sent), window, st, M)
    BY <1>1 DEF Inv, Books, Sound
  <2>2. \A l \in Links : Sides(ls[l], l)
    BY <2>1, LinesAt
  <2>3. QED
    BY <2>2 DEF PortsReady, Sides
<1>2. QED
  BY <1>1, InvHolds, PTL

\* A buffer that a worker has or keeps is not overwritten or recycled under it,
\* however long the chain of attached buffers (Pipeline.HeldStable).
THEOREM HeldBuffersStable == Spec => []HeldStable
<1>1. ASSUME Inv PROVE HeldStable
  <2>1. /\ Core(ls, got, sent, window) /\ window \in Seq(Entry)
        /\ Sound(ls, Seen(got), Dealt(ls, got, sent), window)
    BY <1>1 DEF Inv, Core, Books, Ranges
  <2>2. \A l \in Links : ls[l].in.data => Content(ls, l, ls[l].in.buffer) = Last(got[l])
    BY <2>1, CoreContent
  <2>3. \A i \in 1 .. Len(window) : Content(ls, Sink, window[i].buffer) = window[i].message
    BY <2>1, HeldContent
  <2>4. DOMAIN window = 1 .. Len(window)
    BY <2>1
  <2>5. QED
    BY <2>2, <2>3, <2>4 DEF HeldStable
<1>2. QED
  BY <1>1, InvHolds, PTL

\* An input buffer in use is with its worker, kept, or being read further down.
LEMMA InputsOwned ==
  ASSUME Inv, NEW l \in Links, NEW x \in Tids(l)
  PROVE  ls[l].inInUse[x] <=> InputHeld(l, x)
<1>1. window \in Seq(Entry)
  BY DEF Inv, Ranges
<1>2. PICK st, M : Lines(ls, Seen(got), Dealt(ls, got, sent), window, st, M)
  BY DEF Inv, Books, Sound
<1>3. Sides(ls[l], l)
  BY <1>2, LinesAt
<1>4. HasIn(ls[l], x) => ls[l].inInUse[x]
  BY <1>3 DEF Sides, HasIn
<1>5. CASE l = Sink
  <2>1. Kept(ls[Sink], M[Sink], window) /\ ~(l < NumLinks)
    BY <1>2, <1>5, LinkFacts DEF Lines, Sink
  <2>2. DOMAIN window = 1 .. Len(window)
    BY <1>1
  <2>3. QED
    BY <1>4, <1>5, <2>1, <2>2 DEF Kept, InputHeld, HasIn
<1>6. CASE l # Sink
  <2> DEFINE k == l + 1
  <2>1. l < NumLinks /\ k \in Links /\ k - 1 = l /\ PrevTids(k) = Tids(l)
    BY <1>6, LinkFacts
  <2> HIDE DEF k
  <2>2. Joint(ls, k, Dealt(ls, got, sent), st, M) /\ ls[k] \in LinkState(k)
    BY <1>2, <2>1, LinesAt
  <2>3. DOMAIN ls[k].waiting = 1 .. Len(ls[k].waiting)
    BY <2>2 DEF LinkState
  <2>4. InSeq(x, ls[k].waiting) <=> \E i \in DOMAIN ls[k].waiting : ls[k].waiting[i] = x
    BY <2>3 DEF InSeq
  <2>5. ls[l].inInUse[x] <=> \/ HasIn(ls[l], x) \/ InSeq(x, ls[k].waiting)
                             \/ \E b \in Tids(k) : ls[k].zfrom[b] = x
    <3>1. x # None
      BY LinkFacts
    <3>2. QED
      BY <1>4, <2>1, <2>2, <3>1 DEF Joint, Shared
  <2>6. QED
    BY <1>6, <2>1, <2>4, <2>5 DEF InputHeld, HasIn, k
<1>7. QED
  BY <1>5, <1>6

\* No buffer is lost or in two hands (Pipeline.BuffersOwned), as long as no worker
\* that sends its input buffer on also polls its output port: one that does keeps
\* an output buffer that nothing gives back.
THEOREM NoBufferLost == ASSUME Frugal PROVE Spec => []BuffersOwned
<1>1. ASSUME Inv PROVE BuffersOwned
  <2>1. PICK st, M : Lines(ls, Seen(got), Dealt(ls, got, sent), window, st, M)
    BY <1>1 DEF Inv, Books, Sound
  <2>2. ASSUME NEW l \in Links, NEW x \in Tids(l)
        PROVE  ls[l].outInUse[x] <=> OutputHeld(l, x)
    <3>1. Sides(ls[l], l) /\ OutOwned(ls[l], l, {}) /\ ls[l] \in LinkState(l)
      BY <2>1, LinesAt
    <3>2. DOMAIN ls[l].queued = 1 .. Len(ls[l].queued)
      BY <3>1 DEF LinkState
    <3>3. QED
      BY <3>1, <3>2 DEF Sides, OutOwned, OutputHeld, HasOut, InSeq
  <2>3. QED
    BY <1>1, <2>2, InputsOwned DEF BuffersOwned
<1>2. QED
  BY <1>1, InvHolds, PTL

\* A step of the line is a step of the abstract stream.
LEMMA MovesAsStream ==
  ASSUME Inv, Inv', Moves
  PROVE  [Line!Next]_(Line!streamVars)
<1> DEFINE m == Len(sent) + 1
<1>1. Counting(sent) /\ \A l \in Links : Len(got[l]) \in Nat
  BY DEF Inv, Books, Counting
<1>2. CASE UNCHANGED <<sent, got>>
  BY <1>2 DEF Line!streamVars
<1>3. CASE /\ Len(sent) < MaxMessages /\ sent' = Append(sent, m) /\ UNCHANGED got
  <2>1. m \in 1 .. MaxMessages
    BY <1>1, <1>3, PipelineAssumption DEF Counting
  <2>2. ASSUME NEW l \in Links PROVE Len(sent) - Len(got[l]) < Buffers
    <3> DEFINE s == ls'
               g == got'
               q == sent'
               w == window'
    <3>1. Books(s, g, q, w)
      <4>1. Books(ls, got, sent, window)'
        BY DEF Inv
      <4>2. QED
        BY <4>1 DEF Books, Seen, Dealt
    <3> HIDE DEF s, g, q, w
    <3>2. Len(q) <= Len(g[l]) + Buffers /\ Len(g[l]) \in Nat /\ Buffers \in Nat
      <4>1. /\ Sound(s, Seen(g), Dealt(s, g, q), w) /\ Between(s, Seen(g), Dealt(s, g, q))
            /\ Dealt(s, g, q)[0] = Len(q) /\ Seen(g)[l] = Len(g[l])
        BY <3>1, BooksFacts
      <4> DEFINE n == Seen(g)
                 p == Dealt(s, g, q)
      <4> HIDE DEF n, p
      <4>2. p[0] <= n[l] + Buffers /\ n[l] \in Nat /\ Buffers \in Nat
        BY <4>1, CapacityFits DEF n, p
      <4>3. QED
        BY <4>1, <4>2 DEF n, p
    <3>3. Len(q) = Len(sent) + 1 /\ g = got /\ Len(sent) \in Nat
      BY <1>1, <1>3, CountingMore DEF q, g, Counting
    <3>4. QED
      BY <3>2, <3>3
  <2>3. Line!Send(m)
    BY <1>3, <2>2 DEF Line!Send
  <2>4. QED
    BY <2>1, <2>3 DEF Line!Next
<1>4. CASE /\ UNCHANGED sent
           /\ \E l \in Links : got' = [got EXCEPT ![l] = Append(got[l], Len(got[l]) + 1)]
  <2>1. PICK l \in Links : got' = [got EXCEPT ![l] = Append(got[l], Len(got[l]) + 1)]
    BY <1>4
  <2> DEFINE s == ls'
             g == got'
             q == sent'
             w == window'
  <2>2. Books(s, g, q, w)
    <3>1. Books(ls, got, sent, window)'
      BY DEF Inv
    <3>2. QED
      BY <3>1 DEF Books, Seen, Dealt
  <2>3. /\ q = sent /\ OneMore(got, g, l)
    BY <1>4, <2>1 DEF OneMore
  <2> HIDE DEF s, g, q, w
  <2>4. Len(g[l]) <= Len(q) /\ Len(q) \in Nat
    <3>1. /\ Sound(s, Seen(g), Dealt(s, g, q), w) /\ Between(s, Seen(g), Dealt(s, g, q))
          /\ Dealt(s, g, q)[0] = Len(q) /\ Seen(g)[l] = Len(g[l]) /\ Len(q) \in Nat
      BY <2>2, BooksFacts
    <3>2. Seen(g)[l] <= Dealt(s, g, q)[0]
      BY <3>1, SeenFits
    <3>3. QED
      BY <3>1, <3>2
  <2>5. Len(g[l]) = Len(got[l]) + 1
    <3>1. Counting(got[l]) /\ got = [k \in Links |-> got[k]]
      BY DEF Inv, Books
    <3>2. g[l] = Append(got[l], Len(got[l]) + 1)
      BY <2>3, <3>1 DEF OneMore
    <3>3. QED
      BY <3>1, <3>2, CountingMore
  <2>6. Len(got[l]) < Len(sent) /\ sent[Len(got[l]) + 1] = Len(got[l]) + 1
    <3>1. Len(got[l]) + 1 \in 1 .. Len(sent)
      BY <1>1, <2>3, <2>4, <2>5
    <3>2. QED
      BY <1>1, <3>1 DEF Counting
  <2>7. Line!Deliver(l)
    BY <1>4, <2>1, <2>6 DEF Line!Deliver
  <2>8. QED
    BY <2>7 DEF Line!Next
<1>5. QED
  BY <1>2, <1>3, <1>4 DEF Moves

\* The line implements the stream: every worker is handed every message once,
\* intact and in order, and no more are under way than there are buffers
\* (Pipeline.InOrder).
THEOREM StreamImplemented == Spec => InOrder
<1>1. Init => Line!Init
  BY DEF Init, Line!Init
<1>2. Inv /\ [Next]_vars => [Line!Next]_(Line!streamVars)
  <2>1. SUFFICES ASSUME Inv, [Next]_vars PROVE [Line!Next]_(Line!streamVars)
    OBVIOUS
  <2>2. Inv' /\ Moves
    BY <2>1, NextStep
  <2>3. QED
    BY <2>1, <2>2, MovesAsStream
<1>3. QED
  BY <1>1, <1>2, InvHolds, PTL DEF Spec, InOrder, Line!Safe
==============================================================================
