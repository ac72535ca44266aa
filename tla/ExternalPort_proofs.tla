------------------------- MODULE ExternalPort_proofs -------------------------
(***************************************************************************)
(* The application's port to an FPGA, for any sizes of the two rings, in   *)
(* each direction and role: no buffer is lost or shared, the host's view   *)
(* of the far ring is true, and the link is a reliable stream.             *)
(*                                                                         *)
(* Both directions have one picture.  The transfers are numbered from 0;   *)
(* Moved of them are done, the application has given its buffers for all   *)
(* below Given, and the FPGA has given its own for all below Offered.      *)
(* Transfer i is at position i of either ring, modulo its size, so each    *)
(* set of buffers in the model is an arc of these counts.                  *)
(***************************************************************************)
EXTENDS ExternalPort, Roles_proofs, Rings, SequenceTheorems

Moved == IF provider THEN Len(got) + full ELSE nSent - full

Given == IF provider THEN nSent
         ELSE IF busy = {} THEN Len(got) + NumLocal ELSE Len(got) + NumLocal - 1

Offered == IF provider THEN Len(got) + NumFar ELSE nSent

\* How far the three parties are ahead of each other, and where their
\* positions point.
Counting ==
  /\ Moved \in Nat /\ Moved <= Given /\ Given <= Moved + NumLocal
  /\ ~provider => NumLocal <= Given
  /\ nextLocal = Given % NumLocal
  /\ head = (IF provider THEN Len(got) ELSE Moved) % NumFar
  /\ Moves => nextRemote = Moved % NumLocal /\ nextFar = Moved % NumFar
  /\ ~Moves => remote = Moved % NumLocal /\ credits = Given - Moved

\* Local buffers that are back, but whose flag is still under way.
Landed == IF Moves THEN {} ELSE flags

LocalRing ==
  /\ busy \subseteq {nextLocal}
  /\ localReady \cap busy = {} /\ Landed \cap (localReady \cup busy) = {}
  /\ Landed \cup localReady \cup busy = Arc(NumLocal, Given, Moved + NumLocal)
  /\ Moves => remoteReady = Arc(NumLocal, Moved, Given)

Cleared == IF pc = "cleared" THEN {nextFar} ELSE {}

FarRing ==
  /\ role = "ActiveMessage" =>
       /\ farReady \cap flags = {} /\ (farReady \cup flags) \cap Cleared = {}
       /\ farReady \cup flags \cup Cleared = Arc(NumFar, Moved, Offered)
  /\ role = "ActiveOnly" => flags = {} /\ nReady <= Offered - Moved

\* A move that has begun has a buffer on either side.
Thread ==
  /\ pc \in {"copied", "cleared"} =>
       /\ Moves /\ Moved < Given /\ Moved < Offered
       /\ role = "ActiveOnly" => nReady > 0
  /\ pc = "copied" /\ role = "ActiveMessage" => nextFar \in farReady
  /\ call = "flush" => provider
  /\ answer # "none" => provider /\ pc = "idle"
  /\ answer = "done" => Given = Moved

\* Transfer i carries message i + 1.
Contents ==
  /\ \A k \in 1 .. Len(got) : got[k] = k
  /\ provider =>
       /\ \A i \in Moved .. Given - 1 : localMsg[i % NumLocal] = i + 1
       /\ \A i \in Len(got) .. Moved - 1 : farMsg[i % NumFar] = i + 1
       /\ pc \in {"copied", "cleared"} => farMsg[Moved % NumFar] = Moved + 1
  /\ ~provider =>
       /\ \A i \in Moved .. nSent - 1 : farMsg[i % NumFar] = i + 1
       /\ \A i \in Given - NumLocal .. Moved - 1 : localMsg[i % NumLocal] = i + 1
       /\ pc \in {"copied", "cleared"} => localMsg[Moved % NumLocal] = Moved + 1

EInv == TypeOK /\ Counting /\ LocalRing /\ FarRing /\ Thread /\ Contents

-----------------------------------------------------------------------------
(* The start *)

\* A host that negotiated has one of the three active roles.
LEMMA HostRole ==
  ASSUME NEW p \in BOOLEAN, NEW r \in HostRoles(p)
  PROVE  r \in {"ActiveMessage", "ActiveFlowControl", "ActiveOnly"}
<1> DEFINE k == IF p THEN "external" ELSE "rpl"
           l == IF p THEN "rpl" ELSE "external"
<1>1. PICK a \in Wishes(k), b \in Wishes(l) :
        LET c == ChooseRoles(Prefer(NewPort(k), a), Prefer(NewPort(l), b))
        IN  r = IF p THEN c.user ELSE c.provider
  BY DEF HostRoles
<1> DEFINE u == Prefer(NewPort(k), a)
           q == Prefer(NewPort(l), b)
           c == ChooseRoles(u, q)
<1>2. k \in Kind /\ l \in Kind
  BY DEF Kind
<1>3. /\ u = [role |-> a, options |-> Options(k), mandated |-> FALSE]
      /\ q = [role |-> b, options |-> Options(l), mandated |-> FALSE]
      /\ u \in Descriptor /\ q \in Descriptor
  BY <1>2, WishedPort
<1>4. /\ InitialRole(k) = "NoRole" /\ InitialRole(l) = "NoRole"
      /\ a \in Options(k) \cup {"NoRole"} /\ b \in Options(l) \cup {"NoRole"}
      /\ {"ActiveMessage", "ActiveFlowControl"} \subseteq Options(k)
      /\ {"ActiveMessage", "ActiveFlowControl"} \subseteq Options(l)
  BY DEF InitialRole, Wishes, Options
<1>5. /\ p => Options(k) = {"ActiveFlowControl", "ActiveMessage", "ActiveOnly"}
      /\ ~p => Options(l) = {"ActiveFlowControl", "ActiveMessage", "ActiveOnly"}
  BY DEF Options
<1>6. r = IF p THEN c.user ELSE c.provider
  BY <1>1
<1> HIDE DEF k, l
<1>7. /\ Proper(u) /\ Proper(q) /\ u.role = a /\ q.role = b
      /\ u.options = Options(k) /\ q.options = Options(l)
      /\ u.mandated = FALSE /\ q.mandated = FALSE
  BY <1>3 DEF Proper
<1> HIDE DEF u, q
<1>8. c # Refused
  <2>1. Other("ActiveMessage") = "ActiveFlowControl"
    BY DEF Other
  <2>2. QED
    BY <1>4, <1>7, <2>1, RefusedOnlyIfIncompatible
<1>9. CASE ~Copied(u, q)
  <2>1. c.user \in u.options /\ c.provider \in q.options
    BY <1>4, <1>7, <1>8, <1>9, ChosenRolesSupported
  <2>2. QED
    BY <1>5, <1>6, <1>7, <2>1
<1>10. CASE Copied(u, q)
  <2>1. c = Preferred(u, q) /\ b = "ActiveFlowControl" /\ a # "NoRole"
    BY <1>7, <1>10 DEF ChooseRoles, Copied
  <2>2. \/ c = Pair("ActiveMessage", "ActiveFlowControl")
        \/ c = Pair("ActiveFlowControl", "ActiveMessage")
        \/ c = Pair("ActiveFlowControl", "ActiveFlowControl")
    <3>1. "ActiveMessage" \in u.options
      BY <1>10 DEF Copied
    <3>2. QED
      BY <1>4, <1>7, <2>1, <3>1
         DEF Preferred, ProviderFollows, ProviderCanFollow, Other
  <2>3. QED
    BY <1>6, <2>2 DEF Pair
<1>11. QED
  BY <1>9, <1>10

LEMMA InvInit == Init => EInv
<1> SUFFICES ASSUME Init PROVE EInv
  OBVIOUS
<1> USE ExternalPortAssumption
<1>1. /\ Arc(NumLocal, 0, 0) = {} /\ Arc(NumLocal, 0, NumLocal) = Locals
      /\ Arc(NumLocal, NumLocal, NumLocal) = {}
      /\ Arc(NumFar, 0, 0) = {} /\ Arc(NumFar, 0, NumFar) = Fars
  <2>1. /\ Arc(NumLocal, 0, 0 + NumLocal) = 0 .. NumLocal - 1
        /\ Arc(NumFar, 0, 0 + NumFar) = 0 .. NumFar - 1
    BY ArcFull
  <2>2. 0 + NumLocal = NumLocal /\ 0 + NumFar = NumFar
    OBVIOUS
  <2>3. QED
    BY <2>1, <2>2, ArcEmpty DEF Locals, Fars
<1>2. 0 % NumLocal = 0 /\ 0 % NumFar = 0 /\ NumLocal % NumLocal = 0
  OBVIOUS
<1>3. role \in {"ActiveMessage", "ActiveFlowControl", "ActiveOnly"}
  BY HostRole DEF Init
<1>4. /\ got = <<>> /\ Len(got) = 0 /\ full = 0 /\ nSent = 0 /\ busy = {}
      /\ pc = "idle" /\ call = "none" /\ answer = "none" /\ flags = {}
      /\ provider \in BOOLEAN
  BY DEF Init
<1>5. TypeOK
  <2>1. got \in Seq(Content)
    BY <1>4
  <2>2. /\ 0 \in Locals /\ 0 \in Fars /\ 0 \in Content /\ 0 \in 0 .. NumFar
        /\ 0 \in 0 .. NumLocal /\ NumLocal \in 0 .. NumLocal /\ 0 \in 0 .. MaxMessages
    BY DEF Locals, Fars, Content
  <2>3. credits \in 0 .. NumLocal
    BY <2>2 DEF Init
  <2>4. QED
    BY <1>3, <2>1, <2>2, <2>3 DEF Init, TypeOK
<1>6. CASE provider
  <2>1. Moved = 0 /\ Given = 0 /\ Offered = NumFar
    BY <1>4, <1>6 DEF Moved, Given, Offered
  <2>2. Counting
    BY <1>2, <1>4, <1>6, <2>1 DEF Init, Counting
  <2>3. LocalRing
    BY <1>1, <1>4, <1>6, <2>1 DEF Init, LocalRing, Landed
  <2>4. FarRing
    BY <1>1, <1>4, <1>6, <2>1 DEF Init, FarRing, Cleared
  <2>5. Thread /\ Contents
    BY <1>4, <1>6, <2>1 DEF Thread, Contents
  <2>6. QED
    BY <1>5, <2>2, <2>3, <2>4, <2>5 DEF EInv
<1>7. CASE ~provider
  <2>1. Moved = 0 /\ Given = NumLocal /\ Offered = 0
    BY <1>4, <1>7 DEF Moved, Given, Offered
  <2>2. Counting
    BY <1>2, <1>4, <1>7, <2>1 DEF Init, Counting
  <2>3. LocalRing
    BY <1>1, <1>4, <1>7, <2>1 DEF Init, LocalRing, Landed
  <2>4. FarRing
    BY <1>1, <1>4, <1>7, <2>1 DEF Init, FarRing, Cleared
  <2>5. Thread /\ Contents
    BY <1>4, <1>7, <2>1 DEF Thread, Contents
  <2>6. QED
    BY <1>5, <2>2, <2>3, <2>4, <2>5 DEF EInv
<1>8. QED
  BY <1>6, <1>7

-----------------------------------------------------------------------------
(* What every step uses *)

\* The counts and their bounds.
LEMMA Bounds ==
  ASSUME EInv
  PROVE  /\ NumLocal \in Nat \ {0} /\ NumFar \in Nat \ {0} /\ MaxMessages \in Nat
         /\ Moved \in Nat /\ Given \in Nat /\ Offered \in Nat
         /\ Len(got) \in Nat /\ nSent \in Nat /\ full \in 0 .. NumFar
         /\ Moved <= Given /\ Given <= Moved + NumLocal
         /\ Moved <= Offered /\ Offered <= Moved + NumFar
         /\ role \in {"ActiveMessage", "ActiveFlowControl", "ActiveOnly"}
         /\ provider \in BOOLEAN
<1>1. /\ NumLocal \in Nat \ {0} /\ NumFar \in Nat \ {0} /\ MaxMessages \in Nat
      /\ Len(got) \in Nat /\ nSent \in Nat /\ full \in 0 .. NumFar
      /\ role \in {"ActiveMessage", "ActiveFlowControl", "ActiveOnly"}
      /\ provider \in BOOLEAN
  BY ExternalPortAssumption DEF EInv, TypeOK
<1>2. /\ Moved \in Nat /\ Moved <= Given /\ Given <= Moved + NumLocal
      /\ ~provider => NumLocal <= Given
  BY DEF EInv, Counting
<1>3. Given \in Nat
  BY <1>1, <1>2 DEF Given
<1>4. Offered \in Nat /\ Moved <= Offered /\ Offered <= Moved + NumFar
  BY <1>1, <1>2 DEF Offered, Moved
<1>5. QED
  BY <1>1, <1>2, <1>3, <1>4

\* The positions that lie at the ends of the arcs.
LEMMA Ends ==
  ASSUME EInv
  PROVE  /\ (Moved + NumLocal) % NumLocal = Moved % NumLocal
         /\ Arc(NumLocal, Moved, Given) \cap Arc(NumLocal, Given, Moved + NumLocal) = {}
         /\ Arc(NumLocal, Moved, Given) \cup Arc(NumLocal, Given, Moved + NumLocal) = Locals
         /\ Arc(NumFar, Moved, Offered) \subseteq Fars
         /\ Given < Moved + NumLocal <=> Given % NumLocal \in Arc(NumLocal, Given, Moved + NumLocal)
         /\ Moved < Given <=> Moved % NumLocal \in Arc(NumLocal, Moved, Given)
<1> USE Bounds
<1> DEFINE g == Given
           m == Moved
           c == m + NumLocal
<1>1. /\ g \in Nat /\ m \in Nat /\ c \in Nat /\ NumLocal \in Nat \ {0}
      /\ m <= g /\ g <= c /\ c <= m + NumLocal
  OBVIOUS
<1>2. c % NumLocal = m % NumLocal /\ Arc(NumLocal, m, c) = 0 .. NumLocal - 1
  BY RoundTrip, ArcFull
<1> HIDE DEF g, m
<1>3. /\ Arc(NumLocal, m, c) = Arc(NumLocal, m, g) \cup Arc(NumLocal, g, c)
      /\ Arc(NumLocal, m, g) \cap Arc(NumLocal, g, c) = {}
  <2> HIDE DEF c
  <2>1. QED
    BY <1>1, ArcsApart
<1>4. g < c <=> g % NumLocal \in Arc(NumLocal, g, c)
  <2>1. CASE g < c
    <3>1. c <= g + NumLocal
      BY <1>1
    <3>2. QED
      BY <1>1, <2>1, <3>1, ArcShrinks
  <2>2. CASE ~(g < c)
    <3>1. g = c
      BY <1>1, <2>2
    <3>2. QED
      BY <1>1, <2>2, <3>1, ArcEmpty
  <2>3. QED
    BY <2>1, <2>2
<1>5. m < g <=> m % NumLocal \in Arc(NumLocal, m, g)
  <2>1. CASE m < g
    BY <1>1, <2>1, ArcShrinks
  <2>2. CASE ~(m < g)
    <3>1. g = m
      BY <1>1, <2>2
    <3>2. QED
      BY <1>1, <2>2, <3>1, ArcEmpty
  <2>3. QED
    BY <2>1, <2>2
<1>6. Arc(NumFar, Moved, Offered) \subseteq Fars
  BY ArcOnRing DEF Fars
<1>7. QED
  BY <1>2, <1>3, <1>4, <1>5, <1>6 DEF Locals, g, m, c

\* No step changes the direction or the roles.
LEMMA Settled ==
  ASSUME [Next]_vars
  PROVE  provider' = provider /\ role' = role
BY DEF vars, Next, HostNext, FarNext, HostStep, GetBuffer, TryFlush, Release, Copy,
       ClearFarReady, RingFar, FinishGet, FinishFlush, FinishRelease, FarTakes,
       FarGives, FarMoves, FlagArrives

-----------------------------------------------------------------------------
(* The steps that end no transfer and move no buffer *)

LEMMA EnterStep ==
  ASSUME EInv, GetBuffer \/ TryFlush
  PROVE  EInv'
<1> USE Bounds
<1>1. UNCHANGED <<provider, role, host, localReady, localMsg, farReady, farMsg,
                  fpga, nSent, got>>
  BY DEF GetBuffer, TryFlush
<1>2. /\ pc = "idle" /\ pc' = "move" /\ call' \in {"get", "flush"} /\ answer' = "none"
      /\ call' = "flush" => provider
      /\ nReady' = NReady \/ nReady' = 0
  BY DEF GetBuffer, TryFlush, Enter
<1>3. Moved' = Moved /\ Given' = Given /\ Offered' = Offered
  BY <1>1 DEF Moved, Given, Offered, host, fpga
<1>4. NReady = Offered - Moved /\ NReady \in 0 .. NumFar
  BY DEF NReady, Offered, Moved
<1>5. nReady' \in 0 .. NumFar /\ nReady' <= Offered - Moved
  BY <1>2, <1>4
<1>6. TypeOK'
  BY <1>1, <1>2, <1>5 DEF EInv, TypeOK, host, fpga
<1>7. Counting'
  BY <1>1, <1>3 DEF EInv, Counting, Moves, host, fpga
<1>8. LocalRing'
  BY <1>1, <1>3 DEF EInv, LocalRing, Landed, Moves, host, fpga
<1>9. FarRing'
  BY <1>1, <1>2, <1>3, <1>5 DEF EInv, FarRing, Cleared, host, fpga
<1>10. Thread'
  BY <1>1, <1>2, <1>3 DEF Thread
<1>11. Contents'
  BY <1>1, <1>2, <1>3 DEF EInv, Contents
<1>12. QED
  BY <1>6, <1>7, <1>8, <1>9, <1>10, <1>11 DEF EInv

LEMMA ClearFarReadyStep ==
  ASSUME EInv, ClearFarReady
  PROVE  EInv'
<1> USE Bounds
<1>1. /\ UNCHANGED <<provider, role, host, localReady, localMsg, call, nReady, answer,
                     farMsg, fpga, nSent, got>>
      /\ pc = "copied" /\ pc' = "cleared" /\ farReady' = farReady \ {nextFar}
  BY DEF ClearFarReady
<1>2. Moved' = Moved /\ Given' = Given /\ Offered' = Offered
  BY <1>1 DEF Moved, Given, Offered, host, fpga
<1>3. TypeOK'
  BY <1>1 DEF EInv, TypeOK, host, fpga
<1>4. Counting'
  BY <1>1, <1>2 DEF EInv, Counting, Moves, host, fpga
<1>5. LocalRing'
  BY <1>1, <1>2 DEF EInv, LocalRing, Landed, Moves, host, fpga
<1>6. role = "ActiveMessage" => nextFar \in farReady
  BY <1>1 DEF EInv, Thread
<1>7. FarRing'
  BY <1>1, <1>2, <1>6 DEF EInv, FarRing, Cleared, host, fpga
<1>8. Thread'
  BY <1>1, <1>2 DEF EInv, Thread, Moves, host, fpga
<1>9. Contents'
  BY <1>1, <1>2 DEF EInv, Contents
<1>10. QED
  BY <1>3, <1>4, <1>5, <1>7, <1>8, <1>9 DEF EInv

LEMMA FinishReleaseStep ==
  ASSUME EInv, FinishRelease
  PROVE  EInv'
<1> USE Bounds
<1>1. /\ UNCHANGED <<provider, role, host, localReady, localMsg, farReady, answer,
                     farMsg, fpga, nSent, got>>
      /\ pc = "move" /\ pc' = "idle" /\ call' = "none" /\ nReady' = 0
  BY DEF FinishRelease, Leave
<1>2. Moved' = Moved /\ Given' = Given /\ Offered' = Offered
  BY <1>1 DEF Moved, Given, Offered, host, fpga
<1>3. nReady' \in 0 .. NumFar /\ nReady' <= Offered - Moved
  BY <1>1
<1>4. TypeOK'
  BY <1>1, <1>3 DEF EInv, TypeOK, host, fpga
<1>5. Counting'
  BY <1>1, <1>2 DEF EInv, Counting, Moves, host, fpga
<1>6. LocalRing'
  BY <1>1, <1>2 DEF EInv, LocalRing, Landed, Moves, host, fpga
<1>7. FarRing'
  BY <1>1, <1>2, <1>3 DEF EInv, FarRing, Cleared, host, fpga
<1>8. Thread'
  BY <1>1, <1>2 DEF EInv, Thread
<1>9. Contents'
  BY <1>1, <1>2 DEF EInv, Contents
<1>10. QED
  BY <1>4, <1>5, <1>6, <1>7, <1>8, <1>9 DEF EInv

LEMMA FinishFlushStep ==
  ASSUME EInv, FinishFlush
  PROVE  EInv'
<1> USE Bounds
<1>1. /\ UNCHANGED <<provider, role, host, localReady, localMsg, farReady,
                     farMsg, fpga, nSent, got>>
      /\ pc = "move" /\ call = "flush" /\ pc' = "idle" /\ call' = "none" /\ nReady' = 0
      /\ answer' \in {"more", "done"}
  BY DEF FinishFlush, Leave
<1>12. answer' = "done" => ~More
  BY DEF FinishFlush
<1>2. Moved' = Moved /\ Given' = Given /\ Offered' = Offered
  BY <1>1 DEF Moved, Given, Offered, host, fpga
<1>3. nReady' \in 0 .. NumFar /\ nReady' <= Offered - Moved
  BY <1>1
<1>4. TypeOK'
  BY <1>1, <1>3 DEF EInv, TypeOK, host, fpga
<1>5. Counting'
  BY <1>1, <1>2 DEF EInv, Counting, Moves, host, fpga
<1>6. LocalRing'
  BY <1>1, <1>2 DEF EInv, LocalRing, Landed, Moves, host, fpga
<1>7. FarRing'
  BY <1>1, <1>2, <1>3 DEF EInv, FarRing, Cleared, host, fpga
<1>8. ASSUME ~More PROVE Given = Moved
  <2>1. CASE Moves
    <3>1. Moved % NumLocal \notin Arc(NumLocal, Moved, Given)
      BY <1>8, <2>1 DEF More, EInv, Counting, LocalRing
    <3>2. QED
      BY <3>1, Ends
  <2>2. CASE ~Moves
    <3>1. Locals \subseteq localReady
      BY <1>8, <2>2 DEF More
    <3>2. Arc(NumLocal, Moved, Given) = {}
      BY <3>1, Ends DEF EInv, LocalRing
    <3>3. QED
      BY <3>2, Ends
  <2>3. QED
    BY <2>1, <2>2
<1>9. Thread'
  BY <1>1, <1>2, <1>8, <1>12 DEF EInv, Thread
<1>10. Contents'
  BY <1>1, <1>2 DEF EInv, Contents
<1>11. QED
  BY <1>4, <1>5, <1>6, <1>7, <1>9, <1>10 DEF EInv

-----------------------------------------------------------------------------
(* The move of a message by the host *)

LEMMA MayMoveHas ==
  ASSUME EInv, MayMove
  PROVE  /\ Moves /\ Moved < Given /\ Moved < Offered
         /\ role = "ActiveOnly" => nReady > 0
         /\ role = "ActiveMessage" => nextFar \in farReady
<1> USE Bounds
<1>1. /\ nextRemote \in remoteReady
      /\ \/ role = "ActiveOnly" /\ nReady > 0
         \/ role = "ActiveMessage" /\ nextFar \in farReady
  BY DEF MayMove
<1>2. Moves
  BY <1>1 DEF Moves
<1>3. Moved < Given
  BY <1>1, <1>2, Ends DEF EInv, Counting, LocalRing
<1>4. CASE role = "ActiveOnly"
  <2>1. nReady > 0 /\ nReady <= Offered - Moved /\ nReady \in 0 .. NumFar
    BY <1>1, <1>4 DEF EInv, FarRing, TypeOK
  <2>2. QED
    BY <1>1, <1>2, <1>3, <1>4, <2>1
<1>5. CASE role = "ActiveMessage"
  <2>1. nextFar \in farReady /\ Arc(NumFar, Moved, Offered) # {}
    BY <1>1, <1>5 DEF EInv, FarRing
  <2>2. Moved # Offered
    BY <2>1, ArcEmpty
  <2>3. QED
    BY <1>2, <1>3, <1>5, <2>1, <2>2
<1>6. QED
  BY <1>1, <1>4, <1>5

\* Of the counts less than a round behind b, none is at the position of b.
LEMMA OtherPositions ==
  ASSUME NEW n \in Nat \ {0}, NEW b \in Nat
  PROVE  /\ b % n \in 0 .. n - 1
         /\ \A i \in Nat : i <= b /\ b < i + n /\ i # b =>
              i % n \in 0 .. n - 1 /\ i % n # b % n
BY OnRing, SamePosition

LEMMA CopyStep ==
  ASSUME EInv, Copy
  PROVE  EInv'
<1>14. /\ NumLocal \in Nat \ {0} /\ NumFar \in Nat \ {0} /\ MaxMessages \in Nat
       /\ Moved \in Nat /\ Given \in Nat /\ Len(got) \in Nat /\ nSent \in Nat
       /\ provider \in BOOLEAN /\ full \in 0 .. NumFar
       /\ Given <= Moved + NumLocal /\ Offered \in Nat
  BY Bounds
<1>1. /\ UNCHANGED <<provider, role, host, localReady, farReady, call, nReady, answer,
                     fpga, nSent, got>>
      /\ pc = "move" /\ pc' = "copied"
  BY DEF Copy
<1>2. Moved' = Moved /\ Given' = Given /\ Offered' = Offered
  BY <1>1 DEF Moved, Given, Offered, host, fpga
<1>3. /\ Moves /\ Moved < Given /\ Moved < Offered
      /\ role = "ActiveOnly" => nReady > 0
      /\ role = "ActiveMessage" => nextFar \in farReady
  BY MayMoveHas DEF Copy
<1>4. nextRemote = Moved % NumLocal /\ nextFar = Moved % NumFar
  BY <1>3 DEF EInv, Counting
<1>5. Counting'
  BY <1>1, <1>2 DEF EInv, Counting, Moves, host, fpga
<1>6. LocalRing'
  BY <1>1, <1>2 DEF EInv, LocalRing, Landed, Moves, host, fpga
<1>7. FarRing'
  BY <1>1, <1>2 DEF EInv, FarRing, Cleared, host, fpga
<1>8. Thread'
  BY <1>1, <1>2, <1>3 DEF EInv, Thread, Moves, host, fpga
<1>9. /\ localMsg \in [0 .. NumLocal - 1 -> Content]
      /\ farMsg \in [0 .. NumFar - 1 -> Content]
  BY DEF EInv, TypeOK, Locals, Fars
<1>10. \A k \in 1 .. Len(got') : got'[k] = k
  BY <1>1 DEF EInv, Contents
<1>11. CASE provider
  <2>1. /\ farMsg' = [farMsg EXCEPT ![Moved % NumFar] = localMsg[Moved % NumLocal]]
        /\ localMsg' = localMsg
    BY <1>4, <1>11 DEF Copy
  <2>2. /\ \A i \in Moved .. Given - 1 : localMsg[i % NumLocal] = i + 1
        /\ \A i \in Len(got) .. Moved - 1 : farMsg[i % NumFar] = i + 1
    BY <1>11 DEF EInv, Contents
  <2>3. localMsg[Moved % NumLocal] = Moved + 1
    <3>1. Moved \in Moved .. Given - 1
      BY <1>3, <1>14
    <3>2. QED
      BY <2>2, <3>1
  <2>4. Moved < Len(got) + NumFar /\ Len(got) <= Moved /\ Given = nSent
    BY <1>3, <1>11, <1>14 DEF Offered, Moved, Given
  <2>5. Moved + 1 \in Content
    BY <1>3, <1>11, <1>14, <2>4 DEF EInv, TypeOK, Content
  <2>6. /\ farMsg' \in [0 .. NumFar - 1 -> Content] /\ farMsg'[Moved % NumFar] = Moved + 1
        /\ \A i \in Nat : i <= Moved /\ Moved < i + NumFar /\ i # Moved =>
             farMsg'[i % NumFar] = farMsg[i % NumFar]
    <3> DEFINE v == Moved + 1
               m == Moved % NumFar
    <3>1. v \in Content /\ farMsg' = [farMsg EXCEPT ![m] = v]
      BY <2>1, <2>3, <2>5
    <3>2. /\ m \in 0 .. NumFar - 1
          /\ \A i \in Nat : i <= Moved /\ Moved < i + NumFar /\ i # Moved =>
               i % NumFar \in 0 .. NumFar - 1 /\ i % NumFar # m
      BY <1>14, OtherPositions
    <3> HIDE DEF v, m
    <3>3. /\ farMsg' \in [0 .. NumFar - 1 -> Content] /\ farMsg'[m] = v
          /\ \A i \in Nat : i <= Moved /\ Moved < i + NumFar /\ i # Moved =>
               farMsg'[i % NumFar] = farMsg[i % NumFar]
      BY <1>9, <3>1, <3>2
    <3>4. QED
      BY <3>3 DEF v, m
  <2>7. \A i \in Len(got) .. Moved - 1 : farMsg'[i % NumFar] = i + 1
    <3> TAKE i \in Len(got) .. Moved - 1
    <3>1. i \in Nat /\ i <= Moved /\ Moved < i + NumFar /\ i # Moved
      BY <1>14, <2>4
    <3>2. QED
      BY <2>2, <2>6, <3>1
  <2>8. TypeOK'
    BY <1>1, <2>1, <2>6 DEF EInv, TypeOK, Fars, host, fpga
  <2>9. Contents'
    BY <1>1, <1>2, <1>10, <1>11, <2>1, <2>2, <2>6, <2>7 DEF Contents
  <2>10. QED
    BY <1>5, <1>6, <1>7, <1>8, <2>8, <2>9 DEF EInv
<1>12. CASE ~provider
  <2>1. /\ localMsg' = [localMsg EXCEPT ![Moved % NumLocal] = farMsg[Moved % NumFar]]
        /\ farMsg' = farMsg
    BY <1>4, <1>12 DEF Copy
  <2>2. /\ \A i \in Moved .. nSent - 1 : farMsg[i % NumFar] = i + 1
        /\ \A i \in Given - NumLocal .. Moved - 1 : localMsg[i % NumLocal] = i + 1
    BY <1>12 DEF EInv, Contents
  <2>3. Moved < nSent
    BY <1>3, <1>12 DEF Offered
  <2>4. farMsg[Moved % NumFar] = Moved + 1
    <3>1. Moved \in Moved .. nSent - 1
      BY <1>14, <2>3
    <3>2. QED
      BY <2>2, <3>1
  <2>5. Moved + 1 \in Content
    BY <1>14, <2>3 DEF EInv, TypeOK, Content
  <2>6. /\ localMsg' \in [0 .. NumLocal - 1 -> Content]
        /\ localMsg'[Moved % NumLocal] = Moved + 1
        /\ \A i \in Nat : i <= Moved /\ Moved < i + NumLocal /\ i # Moved =>
             localMsg'[i % NumLocal] = localMsg[i % NumLocal]
    <3> DEFINE v == Moved + 1
               m == Moved % NumLocal
    <3>1. v \in Content /\ localMsg' = [localMsg EXCEPT ![m] = v]
      BY <2>1, <2>4, <2>5
    <3>2. /\ m \in 0 .. NumLocal - 1
          /\ \A i \in Nat : i <= Moved /\ Moved < i + NumLocal /\ i # Moved =>
               i % NumLocal \in 0 .. NumLocal - 1 /\ i % NumLocal # m
      BY <1>14, OtherPositions
    <3> HIDE DEF v, m
    <3>3. /\ localMsg' \in [0 .. NumLocal - 1 -> Content] /\ localMsg'[m] = v
          /\ \A i \in Nat : i <= Moved /\ Moved < i + NumLocal /\ i # Moved =>
               localMsg'[i % NumLocal] = localMsg[i % NumLocal]
      BY <1>9, <3>1, <3>2
    <3>4. QED
      BY <3>3 DEF v, m
  <2>7. NumLocal <= Given
    BY <1>12 DEF EInv, Counting
  <2>8. \A i \in Given - NumLocal .. Moved - 1 : localMsg'[i % NumLocal] = i + 1
    <3> TAKE i \in Given - NumLocal .. Moved - 1
    <3>1. i \in Nat /\ i <= Moved /\ Moved < i + NumLocal /\ i # Moved
      BY <1>3, <1>14, <2>7
    <3>2. QED
      BY <2>2, <2>6, <3>1
  <2>9. TypeOK'
    BY <1>1, <2>1, <2>6 DEF EInv, TypeOK, Locals, host, fpga
  <2>10. Contents'
    BY <1>1, <1>2, <1>10, <1>12, <2>1, <2>2, <2>6, <2>8 DEF Contents
  <2>11. QED
    BY <1>5, <1>6, <1>7, <1>8, <2>9, <2>10 DEF EInv
<1>13. QED
  BY <1>11, <1>12

LEMMA RingFarStep ==
  ASSUME EInv, RingFar
  PROVE  EInv'
<1>1. /\ UNCHANGED <<provider, role, nextLocal, busy, localMsg, farReady, call, answer,
                     farMsg, remote, credits, flags, nSent, got>>
      /\ pc = "cleared" /\ pc' = "move"
      /\ full' = (IF provider THEN full + 1 ELSE full - 1)
      /\ head' = (IF provider THEN head ELSE NextFar(head))
      /\ nextFar' = NextFar(nextFar)
      /\ localReady' = localReady \cup {nextRemote}
      /\ remoteReady' = remoteReady \ {nextRemote}
      /\ nextRemote' = NextLocal(nextRemote)
      /\ nReady' = (IF role = "ActiveOnly" THEN nReady - 1 ELSE nReady)
  BY DEF RingFar
<1>2. /\ NumLocal \in Nat \ {0} /\ NumFar \in Nat \ {0} /\ provider \in BOOLEAN
      /\ Moved \in Nat /\ Given \in Nat /\ Len(got) \in Nat /\ nSent \in Nat
      /\ full \in 0 .. NumFar /\ Offered \in Nat
      /\ Given <= Moved + NumLocal /\ Offered <= Moved + NumFar
  BY Bounds
<1>3. /\ Moves /\ Moved < Given /\ Moved < Offered
      /\ role = "ActiveOnly" => nReady > 0
      /\ answer = "none"
      /\ call = "flush" => provider
  BY <1>1 DEF EInv, Thread, TypeOK
<1>4. nextRemote = Moved % NumLocal /\ nextFar = Moved % NumFar
  BY <1>3 DEF EInv, Counting
<1>5. Moved' = Moved + 1 /\ Given' = Given /\ Offered' = Offered
  BY <1>1, <1>2 DEF Moved, Given, Offered
<1>6. full' \in 0 .. NumFar
  BY <1>1, <1>2, <1>3 DEF Moved, Offered
<1>7. nReady' \in 0 .. NumFar
  <2>1. nReady \in 0 .. NumFar
    BY DEF EInv, TypeOK
  <2>2. QED
    BY <1>1, <1>2, <1>3, <2>1
<1>8. /\ nextRemote' = (Moved + 1) % NumLocal /\ nextRemote' \in Locals
      /\ nextFar' = (Moved + 1) % NumFar /\ nextFar' \in Fars
  <2>1. /\ ((Moved % NumLocal) + 1) % NumLocal = (Moved + 1) % NumLocal
        /\ ((Moved % NumFar) + 1) % NumFar = (Moved + 1) % NumFar
    BY <1>2, StepOnRing
  <2>2. (Moved + 1) % NumLocal \in Locals /\ (Moved + 1) % NumFar \in Fars
    BY <1>2, OnRing DEF Locals, Fars
  <2>3. QED
    BY <1>1, <1>4, <2>1, <2>2 DEF NextLocal, NextFar
<1>9. head' = (IF provider THEN Len(got) ELSE Moved + 1) % NumFar /\ head' \in Fars
  <2>1. CASE provider
    BY <1>1, <2>1 DEF EInv, Counting, TypeOK
  <2>2. CASE ~provider
    <3>1. head = nextFar
      BY <1>4, <2>2 DEF EInv, Counting
    <3>2. QED
      BY <1>1, <1>8, <2>2, <3>1
  <2>3. QED
    BY <1>2, <2>1, <2>2
<1>10. TypeOK'
  <2>1. nextRemote \in Locals
    BY DEF EInv, TypeOK
  <2>2. QED
    BY <1>1, <1>6, <1>7, <1>8, <1>9, <2>1 DEF EInv, TypeOK
<1>11. Counting'
  <2>1. /\ Moved' \in Nat /\ Moved' <= Given' /\ Given' <= Moved' + NumLocal
    BY <1>2, <1>3, <1>5
  <2>2. /\ nextLocal' = Given' % NumLocal
        /\ ~provider' => NumLocal <= Given'
    BY <1>1, <1>5 DEF EInv, Counting
  <2>3. head' = (IF provider' THEN Len(got') ELSE Moved') % NumFar
    BY <1>1, <1>5, <1>9
  <2>4. Moves'
    BY <1>1, <1>3 DEF Moves
  <2>5. nextRemote' = Moved' % NumLocal /\ nextFar' = Moved' % NumFar
    BY <1>5, <1>8
  <2>6. QED
    BY <2>1, <2>2, <2>3, <2>4, <2>5 DEF Counting
<1>12. LocalRing'
  <2> DEFINE c == Moved + NumLocal
  <2>1. /\ Arc(NumLocal, Given, c + 1) = Arc(NumLocal, Given, c) \cup {c % NumLocal}
        /\ c % NumLocal \notin Arc(NumLocal, Given, c)
    <3>1. c \in Nat /\ Given <= c /\ c < Given + NumLocal
      BY <1>2, <1>3
    <3> HIDE DEF c
    <3>2. QED
      BY <1>2, <3>1, ArcGrows
  <2>2. c % NumLocal = nextRemote
    BY <1>4, Ends
  <2>3. c + 1 = Moved' + NumLocal
    BY <1>2, <1>5
  <2>4. /\ busy \subseteq {nextLocal} /\ localReady \cap busy = {}
        /\ localReady \cup busy = Arc(NumLocal, Given, c)
        /\ remoteReady = Arc(NumLocal, Moved, Given)
    BY <1>3 DEF EInv, LocalRing, Landed
  <2>5. Arc(NumLocal, Moved + 1, Given) = Arc(NumLocal, Moved, Given) \ {nextRemote}
    BY <1>2, <1>3, <1>4, ArcShrinks
  <2> HIDE DEF c
  <2>6. /\ busy' \subseteq {nextLocal'} /\ localReady' \cap busy' = {}
        /\ localReady' \cup busy' = Arc(NumLocal, Given', Moved' + NumLocal)
        /\ remoteReady' = Arc(NumLocal, Moved', Given')
    BY <1>1, <1>5, <2>1, <2>2, <2>3, <2>4, <2>5
  <2>7. Landed' = {}
    BY <1>1, <1>3 DEF Landed, Moves
  <2>8. QED
    BY <2>6, <2>7 DEF LocalRing
<1>13. FarRing'
  <2>1. CASE role = "ActiveMessage"
    <3>1. /\ farReady \cap flags = {} /\ (farReady \cup flags) \cap {nextFar} = {}
          /\ farReady \cup flags \cup {nextFar} = Arc(NumFar, Moved, Offered)
      BY <1>1, <2>1 DEF EInv, FarRing, Cleared
    <3>2. Arc(NumFar, Moved + 1, Offered) = Arc(NumFar, Moved, Offered) \ {nextFar}
      BY <1>2, <1>3, <1>4, ArcShrinks
    <3>3. Cleared' = {}
      BY <1>1 DEF Cleared
    <3>4. QED
      BY <1>1, <1>5, <2>1, <3>1, <3>2, <3>3 DEF FarRing
  <2>2. CASE role = "ActiveOnly"
    <3>1. flags = {} /\ nReady <= Offered - Moved /\ nReady \in 0 .. NumFar
      BY <2>2 DEF EInv, FarRing, TypeOK
    <3>2. nReady' <= Offered' - Moved'
      BY <1>1, <1>2, <1>5, <2>2, <3>1
    <3>3. QED
      BY <1>1, <2>2, <3>1, <3>2 DEF FarRing
  <2>3. QED
    BY <1>3, <2>1, <2>2 DEF Moves
<1>14. Thread'
  BY <1>1, <1>3 DEF Thread
<1>15. Contents'
  <2>1. \A k \in 1 .. Len(got') : got'[k] = k
    BY <1>1 DEF EInv, Contents
  <2>2. CASE provider
    <3>1. /\ \A i \in Moved .. Given - 1 : localMsg[i % NumLocal] = i + 1
          /\ \A i \in Len(got) .. Moved - 1 : farMsg[i % NumFar] = i + 1
          /\ farMsg[Moved % NumFar] = Moved + 1
      BY <1>1, <2>2 DEF EInv, Contents
    <3>2. \A i \in Moved + 1 .. Given - 1 : i \in Moved .. Given - 1
      BY <1>2
    <3>3. \A i \in Len(got) .. (Moved + 1) - 1 : i \in Len(got) .. Moved - 1 \/ i = Moved
      BY <1>2
    <3>4. /\ \A i \in Moved' .. Given' - 1 : localMsg'[i % NumLocal] = i + 1
          /\ \A i \in Len(got') .. Moved' - 1 : farMsg'[i % NumFar] = i + 1
      BY <1>1, <1>5, <3>1, <3>2, <3>3
    <3>5. QED
      BY <1>1, <2>1, <2>2, <3>4 DEF Contents
  <2>3. CASE ~provider
    <3>1. /\ \A i \in Moved .. nSent - 1 : farMsg[i % NumFar] = i + 1
          /\ \A i \in Given - NumLocal .. Moved - 1 : localMsg[i % NumLocal] = i + 1
          /\ localMsg[Moved % NumLocal] = Moved + 1
      BY <1>1, <2>3 DEF EInv, Contents
    <3>2. \A i \in Moved + 1 .. nSent - 1 : i \in Moved .. nSent - 1
      BY <1>2
    <3>3. \A i \in Given - NumLocal .. (Moved + 1) - 1 :
            i \in Given - NumLocal .. Moved - 1 \/ i = Moved
      BY <1>2
    <3>4. /\ \A i \in Moved' .. nSent' - 1 : farMsg'[i % NumFar] = i + 1
          /\ \A i \in Given' - NumLocal .. Moved' - 1 : localMsg'[i % NumLocal] = i + 1
      BY <1>1, <1>5, <3>1, <3>2, <3>3
    <3>5. QED
      BY <1>1, <2>1, <2>3, <3>4 DEF Contents
  <2>4. QED
    BY <2>2, <2>3
<1>16. QED
  BY <1>10, <1>11, <1>12, <1>13, <1>14, <1>15 DEF EInv

-----------------------------------------------------------------------------
(* The application takes a buffer, and gives it back *)

\* A buffer that is ready holds the consumer's next message.
LEMMA NextAtHand ==
  ASSUME EInv, ~provider, nextLocal \in localReady
  PROVE  /\ localMsg[nextLocal] = Len(got) + 1 /\ Len(got) < Moved
         /\ busy = {} /\ Given = Len(got) + NumLocal
<1> DEFINE n == Len(got)
<1>1. /\ NumLocal \in Nat \ {0} /\ n \in Nat /\ Moved \in Nat /\ Given \in Nat
  BY Bounds
<1>2. /\ busy = {} /\ nextLocal = Given % NumLocal
      /\ nextLocal \in Arc(NumLocal, Given, Moved + NumLocal)
  BY DEF EInv, LocalRing, Counting
<1>3. Given = n + NumLocal
  BY <1>2 DEF Given
<1>4. n < Moved
  <2>1. Given < Moved + NumLocal
    BY <1>2, Ends
  <2>2. QED
    BY <1>1, <1>3, <2>1
<1>5. nextLocal = n % NumLocal
  BY <1>1, <1>2, <1>3, RoundTrip
<1>6. localMsg[nextLocal] = n + 1
  <2>1. \A i \in Given - NumLocal .. Moved - 1 : localMsg[i % NumLocal] = i + 1
    BY DEF EInv, Contents
  <2>2. n \in Given - NumLocal .. Moved - 1
    BY <1>1, <1>3, <1>4
  <2>3. QED
    BY <1>5, <2>1, <2>2
<1>7. QED
  BY <1>2, <1>3, <1>4, <1>6

LEMMA FinishGetStep ==
  ASSUME EInv, FinishGet
  PROVE  EInv'
<1>1. /\ UNCHANGED <<provider, role, nextLocal, nextRemote, nextFar, remoteReady,
                     localMsg, farReady, answer, farMsg, head, full, remote, credits,
                     flags, nSent>>
      /\ pc = "move" /\ pc' = "idle" /\ call = "get" /\ call' = "none" /\ nReady' = 0
  BY DEF FinishGet, Leave, fpga
<1>2. /\ NumLocal \in Nat \ {0} /\ NumFar \in Nat \ {0} /\ provider \in BOOLEAN
      /\ Moved \in Nat /\ Given \in Nat /\ Len(got) \in Nat /\ nSent \in Nat
      /\ full \in 0 .. NumFar /\ Offered \in Nat /\ Moved <= Offered
      /\ Given <= Moved + NumLocal
  BY Bounds
<1>3. /\ localReady' \cup busy' = localReady \cup busy
      /\ localReady' \cap busy' = {} /\ busy' \subseteq {nextLocal}
      /\ got' \in Seq(Content) /\ Len(got') \in Nat
      /\ \A k \in 1 .. Len(got') : got'[k] = k
      /\ Moved' = Moved /\ Given' = Given /\ Offered' = Offered
      /\ provider => got' = got
  <2>1. /\ localReady \cap busy = {} /\ busy \subseteq {nextLocal}
        /\ localReady \subseteq Arc(NumLocal, Given, Moved + NumLocal)
        /\ got \in Seq(Content) /\ \A k \in 1 .. Len(got) : got[k] = k
        /\ nextLocal = Given % NumLocal
    BY DEF EInv, LocalRing, Contents, TypeOK, Counting
  <2>2. CASE nextLocal \notin localReady
    <3>1. UNCHANGED <<busy, localReady, got>>
      BY <2>2 DEF FinishGet
    <3>2. Moved' = Moved /\ Given' = Given /\ Offered' = Offered
      BY <1>1, <3>1 DEF Moved, Given, Offered
    <3>3. QED
      BY <1>2, <2>1, <3>1, <3>2
  <2>3. CASE nextLocal \in localReady
    <3>1. /\ busy' = busy \cup {nextLocal} /\ localReady' = localReady \ {nextLocal}
          /\ got' = (IF provider THEN got ELSE Append(got, localMsg[nextLocal]))
      BY <2>3 DEF FinishGet
    <3>2. busy = {} /\ busy' = {nextLocal}
      BY <2>1, <2>3, <3>1
    <3>3. CASE provider
      <4>1. Moved' = Moved /\ Given' = Given /\ Offered' = Offered /\ got' = got
        BY <1>1, <3>1, <3>3 DEF Moved, Given, Offered
      <4>2. QED
        BY <1>2, <2>1, <2>3, <3>1, <3>2, <4>1
    <3>4. CASE ~provider
      <4> DEFINE n == Len(got)
      <4>1. localMsg[nextLocal] = n + 1 /\ n < Moved /\ Given = n + NumLocal
        BY <2>3, <3>4, NextAtHand
      <4>2. n + 1 \in Content
        <5>1. Moved <= nSent /\ nSent \in 0 .. MaxMessages
          BY <1>2, <3>4 DEF Moved, EInv, TypeOK
        <5>2. QED
          BY <1>2, <4>1, <5>1, ExternalPortAssumption DEF Content
      <4>3. /\ got' = Append(got, n + 1) /\ Len(got') = n + 1
            /\ got' \in Seq(Content)
        BY <2>1, <3>1, <3>4, <4>1, <4>2
      <4>4. \A k \in 1 .. Len(got') : got'[k] = k
        BY <1>2, <2>1, <4>3
      <4>5. Moved' = Moved /\ Given' = Given /\ Offered' = Offered
        <5>1. Given' = (n + 1) + NumLocal - 1
          BY <1>1, <3>2, <3>4, <4>3 DEF Given
        <5>2. Moved' = Moved /\ Offered' = Offered
          BY <1>1, <3>4 DEF Moved, Offered
        <5>3. QED
          BY <1>2, <4>1, <5>1, <5>2
      <4>6. /\ localReady' \cup busy' = localReady \cup busy
            /\ localReady' \cap busy' = {} /\ busy' \subseteq {nextLocal}
        BY <2>3, <3>1, <3>2
      <4>7. Len(got') \in Nat
        BY <1>2, <4>3
      <4>8. QED
        BY <3>4, <4>3, <4>4, <4>5, <4>6, <4>7
    <3>5. QED
      BY <1>2, <3>3, <3>4
  <2>4. QED
    BY <2>2, <2>3
<1>4. nReady' \in 0 .. NumFar
  BY <1>1, <1>2
<1>5. TypeOK'
  BY <1>1, <1>3, <1>4 DEF EInv, TypeOK
<1>6. Counting'
  BY <1>1, <1>2, <1>3 DEF EInv, Counting, Moves
<1>7. LocalRing'
  BY <1>1, <1>3 DEF EInv, LocalRing, Landed, Moves
<1>8. FarRing'
  BY <1>1, <1>2, <1>3 DEF EInv, FarRing, Cleared
<1>9. Thread'
  BY <1>1, <1>3 DEF EInv, Thread
<1>10. Contents'
  BY <1>1, <1>3 DEF EInv, Contents
<1>11. QED
  BY <1>5, <1>6, <1>7, <1>8, <1>9, <1>10 DEF EInv

\* The application holds a buffer of its own.
LEMMA RoomToGive ==
  ASSUME EInv, nextLocal \in busy
  PROVE  Given < Moved + NumLocal
<1>1. /\ nextLocal \in Arc(NumLocal, Given, Moved + NumLocal)
      /\ nextLocal = Given % NumLocal
  BY DEF EInv, LocalRing, Counting
<1>2. QED
  BY <1>1, Ends

LEMMA ReleaseStep ==
  ASSUME EInv, Release
  PROVE  EInv'
<1>1. /\ UNCHANGED <<provider, role, nextRemote, nextFar, localReady, farReady,
                     farMsg, head, full, remote, flags, got>>
      /\ nextLocal \in busy
      /\ provider => nSent < MaxMessages
      /\ localMsg' = (IF provider THEN [localMsg EXCEPT ![nextLocal] = nSent + 1]
                                  ELSE localMsg)
      /\ nSent' = (IF provider THEN nSent + 1 ELSE nSent)
      /\ remoteReady' = remoteReady \cup {nextLocal}
      /\ busy' = busy \ {nextLocal}
      /\ credits' = (IF role = "ActiveFlowControl" THEN credits + 1 ELSE credits)
      /\ nextLocal' = NextLocal(nextLocal)
  BY DEF Release
<1>2. /\ pc = "idle" /\ pc' = "move" /\ call' = "release" /\ answer' = "none"
      /\ nReady' = NReady \/ nReady' = 0
  BY DEF Release, Enter
<1>3. /\ NumLocal \in Nat \ {0} /\ NumFar \in Nat \ {0} /\ MaxMessages \in Nat
      /\ provider \in BOOLEAN
      /\ Moved \in Nat /\ Given \in Nat /\ Len(got) \in Nat /\ nSent \in Nat
      /\ full \in 0 .. NumFar /\ Offered \in Nat
      /\ Moved <= Given /\ Moved <= Offered
      /\ role \in {"ActiveMessage", "ActiveFlowControl", "ActiveOnly"}
  BY Bounds
<1>4. /\ busy = {nextLocal} /\ busy' = {}
      /\ nextLocal = Given % NumLocal /\ nextLocal \in Locals
  BY <1>1 DEF EInv, LocalRing, Counting, TypeOK
<1>5. Given < Moved + NumLocal
  BY <1>1, RoomToGive
<1>6. Moved' = Moved /\ Given' = Given + 1
  <2>1. Moved' = Moved
    BY <1>1 DEF Moved
  <2>2. CASE provider
    BY <1>1, <2>1, <2>2 DEF Given
  <2>3. CASE ~provider
    <3>1. Given = Len(got) + NumLocal - 1 /\ Given' = Len(got) + NumLocal
      BY <1>1, <1>4, <2>3 DEF Given
    <3>2. QED
      BY <1>3, <2>1, <3>1
  <2>4. QED
    BY <2>2, <2>3
<1>8. nReady' \in 0 .. NumFar /\ nReady' <= Offered - Moved
  <2>1. NReady = Offered - Moved /\ NReady \in 0 .. NumFar
    BY <1>3 DEF NReady, Offered, Moved
  <2>2. QED
    BY <1>2, <1>3, <2>1
<1>10. Offered' = Offered
  BY <1>1 DEF Offered
<1>11. nextLocal' = Given' % NumLocal /\ nextLocal' \in Locals
  <2>1. nextLocal' = ((Given % NumLocal) + 1) % NumLocal
    BY <1>1, <1>4 DEF NextLocal
  <2>2. /\ ((Given % NumLocal) + 1) % NumLocal = (Given + 1) % NumLocal
        /\ (Given + 1) % NumLocal \in 0 .. NumLocal - 1
    <3>1. Given + 1 \in Nat
      BY <1>3
    <3>2. QED
      BY <1>3, <3>1, StepOnRing, OnRing
  <2>3. QED
    BY <1>6, <2>1, <2>2 DEF Locals
<1>13. nSent' \in 0 .. MaxMessages /\ nSent' \in Nat
  <2>1. nSent \in 0 .. MaxMessages
    BY DEF EInv, TypeOK
  <2>2. QED
    BY <1>1, <1>3, <2>1
<1>14. /\ credits' \in 0 .. NumLocal
       /\ ~Moves => credits' = Given' - Moved'
  <2>1. credits \in 0 .. NumLocal
    BY DEF EInv, TypeOK
  <2>2. CASE role = "ActiveFlowControl"
    <3>1. credits = Given - Moved
      BY <2>2 DEF EInv, Counting, Moves
    <3>2. QED
      BY <1>1, <1>3, <1>5, <1>6, <2>1, <2>2, <3>1
  <2>3. CASE role # "ActiveFlowControl"
    BY <1>1, <1>3, <2>1, <2>3 DEF Moves
  <2>4. QED
    BY <2>2, <2>3
<1>15. /\ localMsg' \in [Locals -> Content]
       /\ provider => localMsg'[Given % NumLocal] = Given + 1
       /\ provider => \A i \in Moved .. Given - 1 :
                        localMsg'[i % NumLocal] = localMsg[i % NumLocal]
  <2>1. localMsg \in [Locals -> Content]
    BY DEF EInv, TypeOK
  <2>2. CASE provider
    <3> DEFINE v == nSent + 1
               m == Given % NumLocal
    <3>1. v \in Content /\ localMsg' = [localMsg EXCEPT ![m] = v] /\ v = Given + 1
      BY <1>1, <1>3, <1>4, <2>2 DEF Content, Given
    <3>2. m \in Locals
      BY <1>4
    <3>3. ASSUME NEW i \in Moved .. Given - 1
          PROVE  i % NumLocal \in Locals /\ i % NumLocal # m
      <4>1. i \in Nat /\ i <= Given /\ Given < i + NumLocal /\ i # Given
        BY <1>3, <1>5
      <4>2. QED
        BY <1>3, <4>1, OtherPositions DEF Locals
    <3>4. v = Given + 1
      BY <3>1
    <3> HIDE DEF v, m
    <3>5. /\ localMsg' \in [Locals -> Content] /\ localMsg'[m] = v
          /\ \A i \in Moved .. Given - 1 :
               localMsg'[i % NumLocal] = localMsg[i % NumLocal]
      BY <2>1, <3>1, <3>2, <3>3
    <3>6. QED
      BY <3>4, <3>5 DEF m
  <2>3. CASE ~provider
    BY <1>1, <2>1, <2>3
  <2>4. QED
    BY <2>2, <2>3
<1>16. TypeOK'
  <2>1. role' \in {"ActiveMessage", "ActiveFlowControl", "ActiveOnly"}
    BY <1>1, <1>3
  <2>2. localReady' \cup remoteReady' \cup busy' \subseteq Locals
    BY <1>1, <1>4 DEF EInv, TypeOK
  <2>3. QED
    BY <1>1, <1>2, <1>8, <1>11, <1>13, <1>14, <1>15, <2>1, <2>2 DEF EInv, TypeOK
<1>17. Counting'
  <2>1. Moved' \in Nat /\ Moved' <= Given' /\ Given' <= Moved' + NumLocal
    BY <1>3, <1>5, <1>6
  <2>2. ~provider' => NumLocal <= Given'
    BY <1>1, <1>3, <1>6 DEF EInv, Counting
  <2>3. head' = (IF provider' THEN Len(got') ELSE Moved') % NumFar
    BY <1>1, <1>6 DEF EInv, Counting
  <2>4. Moves' = Moves
    BY <1>1 DEF Moves
  <2>5. Moves => nextRemote' = Moved' % NumLocal /\ nextFar' = Moved' % NumFar
    BY <1>1, <1>6 DEF EInv, Counting
  <2>6. ~Moves => remote' = Moved' % NumLocal /\ credits' = Given' - Moved'
    BY <1>1, <1>6, <1>14 DEF EInv, Counting
  <2>7. QED
    BY <1>11, <2>1, <2>2, <2>3, <2>4, <2>5, <2>6 DEF Counting
<1>18. LocalRing'
  <2> DEFINE c == Moved + NumLocal
  <2>1. /\ Arc(NumLocal, Given + 1, c) = Arc(NumLocal, Given, c) \ {Given % NumLocal}
    <3>1. c \in Nat /\ Given < c /\ c <= Given + NumLocal
      BY <1>3, <1>5
    <3> HIDE DEF c
    <3>2. QED
      BY <1>3, <3>1, ArcShrinks
  <2>2. Arc(NumLocal, Moved, Given + 1) =
          Arc(NumLocal, Moved, Given) \cup {Given % NumLocal}
    BY <1>3, <1>5, ArcGrows
  <2>3. /\ localReady \cap busy = {} /\ Landed \cap (localReady \cup busy) = {}
        /\ Landed \cup localReady \cup busy = Arc(NumLocal, Given, c)
        /\ Moves => remoteReady = Arc(NumLocal, Moved, Given)
    BY DEF EInv, LocalRing
  <2>4. Landed' = Landed /\ Moves' = Moves
    BY <1>1 DEF Landed, Moves
  <2>5. c = Moved' + NumLocal
    BY <1>6
  <2> HIDE DEF c
  <2>6. Landed \cup localReady = Arc(NumLocal, Given + 1, c)
    BY <1>4, <2>1, <2>3
  <2>7. Landed' \cup localReady' \cup busy' = Arc(NumLocal, Given', Moved' + NumLocal)
    BY <1>1, <1>4, <1>6, <2>4, <2>5, <2>6
  <2>8. Moves' => remoteReady' = Arc(NumLocal, Moved', Given')
    BY <1>1, <1>4, <1>6, <2>2, <2>3, <2>4
  <2>9. QED
    BY <1>1, <1>4, <2>3, <2>4, <2>7, <2>8 DEF LocalRing
<1>19. FarRing'
  BY <1>1, <1>2, <1>6, <1>8, <1>10 DEF EInv, FarRing, Cleared
<1>20. Thread'
  BY <1>1, <1>2 DEF EInv, Thread
<1>21. Contents'
  <2>1. \A k \in 1 .. Len(got') : got'[k] = k
    BY <1>1 DEF EInv, Contents
  <2>2. CASE provider
    <3>1. /\ \A i \in Moved .. Given - 1 : localMsg[i % NumLocal] = i + 1
          /\ \A i \in Len(got) .. Moved - 1 : farMsg[i % NumFar] = i + 1
      BY <2>2 DEF EInv, Contents
    <3>2. \A i \in Moved .. (Given + 1) - 1 : i \in Moved .. Given - 1 \/ i = Given
      BY <1>3
    <3>3. \A i \in Moved' .. Given' - 1 : localMsg'[i % NumLocal] = i + 1
      BY <1>6, <1>15, <2>2, <3>1, <3>2
    <3>4. QED
      BY <1>1, <1>2, <1>6, <2>1, <2>2, <3>1, <3>3 DEF Contents
  <2>3. CASE ~provider
    <3>1. /\ \A i \in Moved .. nSent - 1 : farMsg[i % NumFar] = i + 1
          /\ \A i \in Given - NumLocal .. Moved - 1 : localMsg[i % NumLocal] = i + 1
      BY <2>3 DEF EInv, Contents
    <3>2. \A i \in (Given + 1) - NumLocal .. Moved - 1 : i \in Given - NumLocal .. Moved - 1
      BY <1>3
    <3>3. \A i \in Given' - NumLocal .. Moved' - 1 : localMsg'[i % NumLocal] = i + 1
      BY <1>1, <1>6, <2>3, <3>1, <3>2
    <3>4. nSent' = nSent
      BY <1>1, <2>3
    <3>5. QED
      BY <1>1, <1>2, <1>6, <2>1, <2>3, <3>1, <3>3, <3>4 DEF Contents
  <2>4. QED
    BY <2>2, <2>3
<1>22. QED
  BY <1>16, <1>17, <1>18, <1>19, <1>20, <1>21 DEF EInv

-----------------------------------------------------------------------------
(* The FPGA's steps *)

\* The oldest full buffer of the far ring holds the consumer's next message.
LEMMA NextAtFar ==
  ASSUME EInv, provider, full > 0
  PROVE  farMsg[head] = Len(got) + 1
<1>1. /\ NumFar \in Nat \ {0} /\ Len(got) \in Nat /\ full \in 0 .. NumFar
      /\ Moved = Len(got) + full
  BY Bounds DEF Moved
<1>2. head = Len(got) % NumFar
  BY DEF EInv, Counting
<1>3. \A i \in Len(got) .. Moved - 1 : farMsg[i % NumFar] = i + 1
  BY DEF EInv, Contents
<1>4. Len(got) \in Len(got) .. Moved - 1
  BY <1>1
<1>5. QED
  BY <1>2, <1>3, <1>4

LEMMA FarTakesStep ==
  ASSUME EInv, FarTakes
  PROVE  EInv'
<1> DEFINE n == Len(got)
<1>1. /\ UNCHANGED <<provider, role, host, localReady, localMsg, farReady, thread,
                     farMsg, remote, credits, nSent>>
      /\ provider /\ full > 0
      /\ got' = Append(got, farMsg[head])
      /\ head' = NextFar(head) /\ full' = full - 1
  BY DEF FarTakes
<1>2. flags' = (IF role = "ActiveMessage" THEN flags \cup {head} ELSE flags)
  BY DEF FarTakes
<1>3. /\ NumLocal \in Nat \ {0} /\ NumFar \in Nat \ {0} /\ MaxMessages \in Nat
      /\ Moved \in Nat /\ Given \in Nat /\ n \in Nat /\ full \in 0 .. NumFar
      /\ nSent \in 0 .. MaxMessages /\ Offered \in Nat
      /\ Moved <= Given /\ Moved <= Offered
  BY Bounds DEF EInv, TypeOK
<1>4. Moved = n + full /\ Given = nSent /\ Offered = n + NumFar
  BY <1>1 DEF Moved, Given, Offered
<1>5. head = n % NumFar /\ head = Offered % NumFar /\ head \in Fars
  BY <1>1, <1>3, <1>4, RoundTrip DEF EInv, Counting, TypeOK
<1>6. farMsg[head] = n + 1
  BY <1>1, NextAtFar
<1>7. /\ got' \in Seq(Content) /\ Len(got') = n + 1
      /\ \A k \in 1 .. Len(got') : got'[k] = k
  <2>1. got \in Seq(Content) /\ \A k \in 1 .. n : got[k] = k
    BY DEF EInv, TypeOK, Contents
  <2>2. n + 1 \in Content
    BY <1>1, <1>3, <1>4 DEF Content
  <2>3. got' = Append(got, n + 1)
    BY <1>1, <1>6
  <2>4. got' \in Seq(Content) /\ Len(got') = n + 1
    BY <2>1, <2>2, <2>3
  <2>5. QED
    BY <1>3, <2>1, <2>3, <2>4
<1>8. Moved' = Moved /\ Given' = Given /\ Offered' = Offered + 1
  BY <1>1, <1>3, <1>4, <1>7 DEF Moved, Given, Offered
<1>9. head' = Len(got') % NumFar /\ head' \in Fars
  <2>1. ((n % NumFar) + 1) % NumFar = (n + 1) % NumFar
    BY <1>3, StepOnRing
  <2>2. (n + 1) % NumFar \in 0 .. NumFar - 1
    <3>1. n + 1 \in Nat
      BY <1>3
    <3>2. QED
      BY <1>3, <3>1, OnRing
  <2>3. QED
    BY <1>1, <1>5, <1>7, <2>1, <2>2 DEF NextFar, Fars
<1>10. full' \in 0 .. NumFar
  BY <1>1, <1>3
<1>11. TypeOK'
  BY <1>1, <1>2, <1>5, <1>7, <1>9, <1>10 DEF EInv, TypeOK, host, thread
<1>12. Counting'
  BY <1>1, <1>8, <1>9 DEF EInv, Counting, Moves, host
<1>13. LocalRing'
  BY <1>1, <1>2, <1>8 DEF EInv, LocalRing, Landed, Moves, host
<1>14. FarRing'
  <2>1. CASE role = "ActiveMessage"
    <3>1. /\ Arc(NumFar, Moved, Offered + 1) = Arc(NumFar, Moved, Offered) \cup {head}
          /\ head \notin Arc(NumFar, Moved, Offered)
      <4>1. Offered < Moved + NumFar
        BY <1>1, <1>3, <1>4
      <4>2. /\ Arc(NumFar, Moved, Offered + 1) =
                  Arc(NumFar, Moved, Offered) \cup {Offered % NumFar}
            /\ Offered % NumFar \notin Arc(NumFar, Moved, Offered)
        BY <1>3, <4>1, ArcGrows
      <4>3. QED
        BY <1>5, <4>2
    <3>2. QED
      BY <1>1, <1>2, <1>8, <2>1, <3>1 DEF EInv, FarRing, Cleared, host, thread
  <2>2. CASE role # "ActiveMessage"
    <3>1. role = "ActiveOnly" => nReady' <= Offered' - Moved'
      <4>1. role = "ActiveOnly" => nReady <= Offered - Moved
        BY DEF EInv, FarRing
      <4>2. nReady \in 0 .. NumFar /\ nReady' = nReady
        BY <1>1 DEF EInv, TypeOK, thread
      <4>3. QED
        BY <1>3, <1>8, <4>1, <4>2
    <3>2. QED
      BY <1>1, <1>2, <2>2, <3>1 DEF EInv, FarRing
  <2>3. QED
    BY <2>1, <2>2
<1>15. Thread'
  <2>1. Moved < Offered => Moved' < Offered'
    BY <1>3, <1>8
  <2>2. QED
    BY <1>1, <1>8, <2>1 DEF EInv, Thread, Moves, host, thread
<1>16. Contents'
  <2>1. /\ \A i \in Moved .. Given - 1 : localMsg[i % NumLocal] = i + 1
        /\ \A i \in n .. Moved - 1 : farMsg[i % NumFar] = i + 1
        /\ pc \in {"copied", "cleared"} => farMsg[Moved % NumFar] = Moved + 1
    BY <1>1 DEF EInv, Contents
  <2>2. \A i \in n + 1 .. Moved - 1 : i \in n .. Moved - 1
    BY <1>3
  <2>3. \A i \in Len(got') .. Moved' - 1 : farMsg'[i % NumFar] = i + 1
    BY <1>1, <1>7, <1>8, <2>1, <2>2
  <2>4. QED
    BY <1>1, <1>7, <1>8, <2>1, <2>3 DEF Contents, thread
<1>17. QED
  BY <1>11, <1>12, <1>13, <1>14, <1>15, <1>16 DEF EInv

LEMMA FarGivesStep ==
  ASSUME EInv, FarGives
  PROVE  EInv'
<1> DEFINE t == (head + full) % NumFar
<1>1. /\ UNCHANGED <<provider, role, host, localReady, localMsg, farReady, thread,
                     head, remote, credits, got>>
      /\ ~provider /\ full < NumFar /\ nSent < MaxMessages
      /\ nSent' = nSent + 1 /\ full' = full + 1
  BY DEF FarGives
<1>2. flags' = (IF role = "ActiveMessage" THEN flags \cup {t} ELSE flags)
  BY DEF FarGives
<1>3. farMsg' = [farMsg EXCEPT ![t] = nSent + 1]
  BY DEF FarGives
<1>4. /\ NumLocal \in Nat \ {0} /\ NumFar \in Nat \ {0} /\ MaxMessages \in Nat
      /\ Moved \in Nat /\ Given \in Nat /\ full \in 0 .. NumFar
      /\ nSent \in 0 .. MaxMessages /\ nSent \in Nat /\ Offered \in Nat
      /\ Moved <= Given /\ Moved <= Offered
  BY Bounds DEF EInv, TypeOK
<1>5. Moved = nSent - full /\ Offered = nSent
  BY <1>1 DEF Moved, Offered
<1>6. t = nSent % NumFar /\ t \in Fars
  <2>1. head = Moved % NumFar
    BY <1>1 DEF EInv, Counting
  <2>2. t = (Moved + full) % NumFar
    <3>1. full \in Nat
      BY <1>4
    <3>2. ((Moved % NumFar) + full) % NumFar = (Moved + full) % NumFar
      BY <1>4, <3>1, StepsOnRing
    <3>3. QED
      BY <2>1, <3>2
  <2>3. Moved + full = nSent
    BY <1>4, <1>5
  <2>4. QED
    BY <1>4, <2>2, <2>3, OnRing DEF Fars
<1> HIDE DEF t
<1>7. Moved' = Moved /\ Given' = Given /\ Offered' = Offered + 1
  BY <1>1, <1>4, <1>5 DEF Moved, Given, Offered, host
<1>8. /\ farMsg' \in [Fars -> Content] /\ farMsg'[nSent % NumFar] = nSent + 1
      /\ \A i \in Moved .. nSent - 1 : farMsg'[i % NumFar] = farMsg[i % NumFar]
  <2> DEFINE v == nSent + 1
  <2>1. v \in Content /\ farMsg' = [farMsg EXCEPT ![t] = v]
    BY <1>1, <1>3, <1>4 DEF Content
  <2>2. ASSUME NEW i \in Moved .. nSent - 1
        PROVE  i % NumFar \in Fars /\ i % NumFar # t
    <3>1. i \in Nat /\ i <= nSent /\ nSent < i + NumFar /\ i # nSent
      BY <1>1, <1>4, <1>5
    <3>2. QED
      BY <1>4, <1>6, <3>1, OtherPositions DEF Fars
  <2>3. farMsg \in [Fars -> Content]
    BY DEF EInv, TypeOK
  <2> HIDE DEF v
  <2>4. /\ farMsg' \in [Fars -> Content] /\ farMsg'[t] = v
        /\ \A i \in Moved .. nSent - 1 : farMsg'[i % NumFar] = farMsg[i % NumFar]
    BY <1>6, <2>1, <2>2, <2>3
  <2>5. QED
    BY <1>6, <2>4 DEF v
<1>9. full' \in 0 .. NumFar /\ nSent' \in 0 .. MaxMessages
  BY <1>1, <1>4
<1>10. TypeOK'
  <2>1. flags' \subseteq (IF role = "ActiveFlowControl" THEN Locals ELSE Fars)
    BY <1>2, <1>6 DEF EInv, TypeOK
  <2>2. QED
    BY <1>1, <1>8, <1>9, <2>1 DEF EInv, TypeOK, host, thread
<1>11. Counting'
  BY <1>1, <1>7 DEF EInv, Counting, Moves, host
<1>12. LocalRing'
  BY <1>1, <1>2, <1>7 DEF EInv, LocalRing, Landed, Moves, host
<1>13. FarRing'
  <2>1. CASE role = "ActiveMessage"
    <3>1. /\ Arc(NumFar, Moved, Offered + 1) = Arc(NumFar, Moved, Offered) \cup {t}
          /\ t \notin Arc(NumFar, Moved, Offered)
      <4>1. Offered < Moved + NumFar
        BY <1>1, <1>4, <1>5
      <4>2. QED
        BY <1>4, <1>5, <1>6, <4>1, ArcGrows
    <3>2. QED
      BY <1>1, <1>2, <1>7, <2>1, <3>1 DEF EInv, FarRing, Cleared, host, thread
  <2>2. CASE role # "ActiveMessage"
    <3>1. role = "ActiveOnly" => nReady' <= Offered' - Moved'
      <4>1. role = "ActiveOnly" => nReady <= Offered - Moved
        BY DEF EInv, FarRing
      <4>2. nReady \in 0 .. NumFar /\ nReady' = nReady
        BY <1>1 DEF EInv, TypeOK, thread
      <4>3. QED
        BY <1>4, <1>7, <4>1, <4>2
    <3>2. QED
      BY <1>1, <1>2, <2>2, <3>1 DEF EInv, FarRing
  <2>3. QED
    BY <2>1, <2>2
<1>14. Thread'
  <2>1. Moved < Offered => Moved' < Offered'
    BY <1>4, <1>7
  <2>2. QED
    BY <1>1, <1>7, <2>1 DEF EInv, Thread, Moves, host, thread
<1>15. Contents'
  <2>1. /\ \A i \in Moved .. nSent - 1 : farMsg[i % NumFar] = i + 1
        /\ \A i \in Given - NumLocal .. Moved - 1 : localMsg[i % NumLocal] = i + 1
        /\ pc \in {"copied", "cleared"} => localMsg[Moved % NumLocal] = Moved + 1
        /\ \A k \in 1 .. Len(got) : got[k] = k
    BY <1>1 DEF EInv, Contents
  <2>2. \A i \in Moved .. (nSent + 1) - 1 : i \in Moved .. nSent - 1 \/ i = nSent
    BY <1>4
  <2>3. \A i \in Moved' .. nSent' - 1 : farMsg'[i % NumFar] = i + 1
    BY <1>1, <1>7, <1>8, <2>1, <2>2
  <2>4. QED
    BY <1>1, <1>7, <2>1, <2>3 DEF Contents, thread
<1>16. QED
  BY <1>10, <1>11, <1>12, <1>13, <1>14, <1>15 DEF EInv

LEMMA FarMovesStep ==
  ASSUME EInv, FarMoves
  PROVE  EInv'
<1>1. /\ UNCHANGED <<provider, role, host, localReady, farReady, thread, nSent, got>>
      /\ role = "ActiveFlowControl" /\ credits > 0
      /\ credits' = credits - 1 /\ remote' = NextLocal(remote)
      /\ flags' = flags \cup {remote}
  BY DEF FarMoves
<1>2. /\ provider => /\ full < NumFar /\ full' = full + 1
                     /\ localMsg' = localMsg /\ head' = head
      /\ ~provider => /\ full > 0 /\ full' = full - 1
                      /\ farMsg' = farMsg /\ head' = NextFar(head)
  BY DEF FarMoves
<1>3. /\ provider =>
           farMsg' = [farMsg EXCEPT ![(head + full) % NumFar] = localMsg[remote]]
      /\ ~provider => localMsg' = [localMsg EXCEPT ![remote] = farMsg[head]]
  BY DEF FarMoves
<1>4. /\ NumLocal \in Nat \ {0} /\ NumFar \in Nat \ {0} /\ MaxMessages \in Nat
      /\ Moved \in Nat /\ Given \in Nat /\ Len(got) \in Nat /\ full \in 0 .. NumFar
      /\ nSent \in 0 .. MaxMessages /\ nSent \in Nat /\ provider \in BOOLEAN
      /\ Moved <= Given /\ Given <= Moved + NumLocal
      /\ credits \in 0 .. NumLocal
  BY Bounds DEF EInv, TypeOK
<1>5. ~Moves
  BY <1>1 DEF Moves
<1>6. remote = Moved % NumLocal /\ credits = Given - Moved /\ Moved < Given
  BY <1>1, <1>4, <1>5 DEF EInv, Counting
<1>7. Moved' = Moved + 1 /\ Given' = Given
  <2>1. Given' = Given
    BY <1>1 DEF Given, host
  <2>2. Moved' = Moved + 1
    BY <1>1, <1>2, <1>4 DEF Moved
  <2>3. QED
    BY <2>1, <2>2
<1>8. remote' = Moved' % NumLocal /\ remote' \in Locals /\ remote \in Locals
  <2>1. ((Moved % NumLocal) + 1) % NumLocal = (Moved + 1) % NumLocal
    BY <1>4, StepOnRing
  <2>2. (Moved + 1) % NumLocal \in 0 .. NumLocal - 1
    <3>1. Moved + 1 \in Nat
      BY <1>4
    <3>2. QED
      BY <1>4, <3>1, OnRing
  <2>3. remote \in Locals
    BY DEF EInv, TypeOK
  <2>4. QED
    BY <1>1, <1>6, <1>7, <2>1, <2>2, <2>3 DEF NextLocal, Locals
<1>9. pc \notin {"copied", "cleared"} /\ answer # "done"
  BY <1>4, <1>5, <1>6 DEF EInv, Thread
<1>10. full' \in 0 .. NumFar /\ credits' \in 0 .. NumLocal
  BY <1>1, <1>2, <1>4
<1>11. head' = (IF provider THEN Len(got) ELSE Moved') % NumFar /\ head' \in Fars
  <2>1. CASE provider
    BY <1>2, <2>1 DEF EInv, Counting, TypeOK
  <2>2. CASE ~provider
    <3>1. head = Moved % NumFar
      BY <2>2 DEF EInv, Counting
    <3>2. ((Moved % NumFar) + 1) % NumFar = (Moved + 1) % NumFar
      BY <1>4, StepOnRing
    <3>3. (Moved + 1) % NumFar \in 0 .. NumFar - 1
      <4>1. Moved + 1 \in Nat
        BY <1>4
      <4>2. QED
        BY <1>4, <4>1, OnRing
    <3>4. QED
      BY <1>2, <1>7, <2>2, <3>1, <3>2, <3>3 DEF NextFar, Fars
  <2>3. QED
    BY <1>4, <2>1, <2>2
<1>12. Counting'
  <2>1. Moved' \in Nat /\ Moved' <= Given' /\ Given' <= Moved' + NumLocal
    BY <1>4, <1>6, <1>7
  <2>2. /\ nextLocal' = Given' % NumLocal
        /\ ~provider' => NumLocal <= Given'
    BY <1>1, <1>7 DEF EInv, Counting, host
  <2>3. credits' = Given' - Moved'
    BY <1>1, <1>4, <1>6, <1>7
  <2>4. ~Moves'
    BY <1>1 DEF Moves
  <2>5. head' = (IF provider' THEN Len(got') ELSE Moved') % NumFar
    BY <1>1, <1>11
  <2>6. QED
    BY <1>8, <2>1, <2>2, <2>3, <2>4, <2>5 DEF Counting
<1>13. LocalRing'
  <2> DEFINE c == Moved + NumLocal
  <2>1. /\ Arc(NumLocal, Given, c + 1) = Arc(NumLocal, Given, c) \cup {c % NumLocal}
        /\ c % NumLocal \notin Arc(NumLocal, Given, c)
    <3>1. c \in Nat /\ Given <= c /\ c < Given + NumLocal
      BY <1>4, <1>6
    <3> HIDE DEF c
    <3>2. QED
      BY <1>4, <3>1, ArcGrows
  <2>2. c % NumLocal = remote
    BY <1>6, Ends
  <2>3. c + 1 = Moved' + NumLocal
    BY <1>4, <1>7
  <2>4. /\ busy \subseteq {nextLocal} /\ localReady \cap busy = {}
        /\ Landed \cap (localReady \cup busy) = {}
        /\ Landed \cup localReady \cup busy = Arc(NumLocal, Given, c)
    BY DEF EInv, LocalRing
  <2>5. Landed = flags /\ Landed' = flags' /\ ~Moves'
    BY <1>1, <1>5 DEF Landed, Moves
  <2> HIDE DEF c
  <2>6. /\ busy' \subseteq {nextLocal'} /\ localReady' \cap busy' = {}
        /\ Landed' \cap (localReady' \cup busy') = {}
        /\ Landed' \cup localReady' \cup busy' = Arc(NumLocal, Given', Moved' + NumLocal)
    BY <1>1, <1>7, <2>1, <2>2, <2>3, <2>4, <2>5 DEF host
  <2>7. QED
    BY <2>5, <2>6 DEF LocalRing
<1>14. FarRing'
  BY <1>1 DEF FarRing
<1>15. Thread'
  BY <1>1, <1>9 DEF EInv, Thread, thread
<1>16. (/\ localMsg' \in [Locals -> Content] /\ farMsg' \in [Fars -> Content]) /\ Contents'
  <2> DEFINE v == Moved + 1
  <2>1. \A k \in 1 .. Len(got') : got'[k] = k
    BY <1>1 DEF EInv, Contents
  <2>2. localMsg \in [Locals -> Content] /\ farMsg \in [Fars -> Content]
    BY DEF EInv, TypeOK
  <2>3. CASE provider
    <3> DEFINE m == Moved % NumFar
    <3>1. /\ \A i \in Moved .. Given - 1 : localMsg[i % NumLocal] = i + 1
          /\ \A i \in Len(got) .. Moved - 1 : farMsg[i % NumFar] = i + 1
      BY <2>3 DEF EInv, Contents
    <3>2. localMsg[remote] = v
      <4>1. Moved \in Moved .. Given - 1
        BY <1>4, <1>6
      <4>2. QED
        BY <1>6, <3>1, <4>1
    <3>3. (head + full) % NumFar = m
      <4>1. head = Len(got) % NumFar /\ full \in Nat /\ Moved = Len(got) + full
        BY <1>4, <2>3 DEF EInv, Counting, Moved
      <4>2. ((Len(got) % NumFar) + full) % NumFar = (Len(got) + full) % NumFar
        BY <1>4, <4>1, StepsOnRing
      <4>3. QED
        BY <4>1, <4>2
    <3>4. v \in Content
      <4>1. Given = nSent
        BY <2>3 DEF Given
      <4>2. QED
        BY <1>4, <1>6, <4>1 DEF Content
    <3>5. farMsg' = [farMsg EXCEPT ![m] = v] /\ localMsg' = localMsg
      BY <1>2, <1>3, <2>3, <3>2, <3>3
    <3>6. m \in Fars
      BY <1>4, OnRing DEF Fars
    <3>7. ASSUME NEW i \in Len(got) .. Moved - 1
          PROVE  i % NumFar \in Fars /\ i % NumFar # m
      <4>1. Moved = Len(got) + full /\ full < NumFar
        BY <1>2, <2>3 DEF Moved
      <4>2. i \in Nat /\ i <= Moved /\ Moved < i + NumFar /\ i # Moved
        BY <1>4, <4>1
      <4>3. QED
        BY <1>4, <4>2, OtherPositions DEF Fars
    <3> HIDE DEF v, m
    <3>8. /\ farMsg' \in [Fars -> Content] /\ farMsg'[m] = v
          /\ \A i \in Len(got) .. Moved - 1 : farMsg'[i % NumFar] = farMsg[i % NumFar]
      BY <2>2, <3>4, <3>5, <3>6, <3>7
    <3>9. \A i \in Len(got) .. (Moved + 1) - 1 : i \in Len(got) .. Moved - 1 \/ i = Moved
      BY <1>4
    <3>10. \A i \in Len(got') .. Moved' - 1 : farMsg'[i % NumFar] = i + 1
      BY <1>1, <1>7, <3>1, <3>8, <3>9 DEF v, m
    <3>11. \A i \in Moved + 1 .. Given - 1 : i \in Moved .. Given - 1
      BY <1>4
    <3>12. \A i \in Moved' .. Given' - 1 : localMsg'[i % NumLocal] = i + 1
      BY <1>7, <3>1, <3>5, <3>11
    <3>13. pc' \notin {"copied", "cleared"} /\ provider'
      BY <1>1, <1>9, <2>3 DEF thread
    <3>14. QED
      BY <2>1, <2>2, <3>5, <3>8, <3>10, <3>12, <3>13 DEF Contents
  <2>4. CASE ~provider
    <3> DEFINE m == Moved % NumLocal
    <3>1. /\ \A i \in Moved .. nSent - 1 : farMsg[i % NumFar] = i + 1
          /\ \A i \in Given - NumLocal .. Moved - 1 : localMsg[i % NumLocal] = i + 1
      BY <2>4 DEF EInv, Contents
    <3>2. head = Moved % NumFar /\ Moved = nSent - full /\ full > 0 /\ NumLocal <= Given
      BY <1>2, <2>4 DEF EInv, Counting, Moved
    <3>3. farMsg[head] = v /\ v \in Content
      <4>1. Moved \in Moved .. nSent - 1 /\ v \in Content
        BY <1>4, <3>2 DEF Content
      <4>2. QED
        BY <3>1, <3>2, <4>1
    <3>4. localMsg' = [localMsg EXCEPT ![m] = v] /\ farMsg' = farMsg
      BY <1>2, <1>3, <1>6, <2>4, <3>3
    <3>5. m \in Locals
      BY <1>6, <1>8
    <3>6. ASSUME NEW i \in Given - NumLocal .. Moved - 1
          PROVE  i % NumLocal \in Locals /\ i % NumLocal # m
      <4>1. i \in Nat /\ i <= Moved /\ Moved < i + NumLocal /\ i # Moved
        BY <1>4, <1>6, <3>2
      <4>2. QED
        BY <1>4, <4>1, OtherPositions DEF Locals
    <3> HIDE DEF v, m
    <3>7. /\ localMsg' \in [Locals -> Content] /\ localMsg'[m] = v
          /\ \A i \in Given - NumLocal .. Moved - 1 :
               localMsg'[i % NumLocal] = localMsg[i % NumLocal]
      BY <2>2, <3>3, <3>4, <3>5, <3>6
    <3>8. \A i \in Given - NumLocal .. (Moved + 1) - 1 :
            i \in Given - NumLocal .. Moved - 1 \/ i = Moved
      BY <1>4
    <3>9. \A i \in Given' - NumLocal .. Moved' - 1 : localMsg'[i % NumLocal] = i + 1
      BY <1>7, <3>1, <3>7, <3>8 DEF v, m
    <3>10. \A i \in Moved + 1 .. nSent - 1 : i \in Moved .. nSent - 1
      BY <1>4
    <3>11. \A i \in Moved' .. nSent' - 1 : farMsg'[i % NumFar] = i + 1
      BY <1>1, <1>7, <3>1, <3>4, <3>10
    <3>12. pc' \notin {"copied", "cleared"} /\ ~provider'
      BY <1>1, <1>9, <2>4 DEF thread
    <3>13. QED
      BY <2>1, <2>2, <3>4, <3>7, <3>9, <3>11, <3>12 DEF Contents
  <2>5. QED
    BY <1>4, <2>3, <2>4
<1>17. TypeOK'
  <2>1. flags' \subseteq (IF role' = "ActiveFlowControl" THEN Locals ELSE Fars)
    BY <1>1, <1>8 DEF EInv, TypeOK
  <2>2. QED
    BY <1>1, <1>8, <1>10, <1>11, <1>16, <2>1 DEF EInv, TypeOK, host, thread
<1>18. QED
  BY <1>12, <1>13, <1>14, <1>15, <1>16, <1>17 DEF EInv

LEMMA FlagArrivesStep ==
  ASSUME EInv, NEW i \in Locals \cup Fars, FlagArrives(i)
  PROVE  EInv'
<1>1. /\ UNCHANGED <<provider, role, host, localMsg, thread, farMsg, head, full,
                     remote, credits, nSent, got>>
      /\ i \in flags /\ flags' = flags \ {i}
  BY DEF FlagArrives
<1>2. IF role = "ActiveMessage"
        THEN farReady' = farReady \cup {i} /\ UNCHANGED localReady
        ELSE localReady' = localReady \cup {i} /\ UNCHANGED farReady
  BY DEF FlagArrives
<1>3. role \in {"ActiveMessage", "ActiveFlowControl"}
  BY <1>1, Bounds DEF EInv, FarRing
<1>4. Moved' = Moved /\ Given' = Given /\ Offered' = Offered
  BY <1>1 DEF Moved, Given, Offered, host
<1>5. TypeOK'
  <2>1. flags \subseteq (IF role = "ActiveFlowControl" THEN Locals ELSE Fars)
    BY DEF EInv, TypeOK
  <2>2. localReady' \cup remoteReady' \cup busy' \subseteq Locals /\ farReady' \subseteq Fars
    BY <1>1, <1>2, <1>3, <2>1 DEF EInv, TypeOK, host
  <2>3. QED
    BY <1>1, <2>1, <2>2 DEF EInv, TypeOK, host, thread
<1>6. Counting'
  BY <1>1, <1>4 DEF EInv, Counting, Moves, host
<1>7. LocalRing'
  <2>1. CASE role = "ActiveMessage"
    BY <1>1, <1>2, <1>4, <2>1 DEF EInv, LocalRing, Landed, Moves, host
  <2>2. CASE role = "ActiveFlowControl"
    BY <1>1, <1>2, <1>4, <2>2 DEF EInv, LocalRing, Landed, Moves, host
  <2>3. QED
    BY <1>3, <2>1, <2>2
<1>8. FarRing'
  <2>1. CASE role = "ActiveMessage"
    BY <1>1, <1>2, <1>4, <2>1 DEF EInv, FarRing, Cleared, host, thread
  <2>2. CASE role = "ActiveFlowControl"
    BY <1>1, <2>2 DEF FarRing
  <2>3. QED
    BY <1>3, <2>1, <2>2
<1>9. Thread'
  BY <1>1, <1>2, <1>3, <1>4 DEF EInv, Thread, Moves, host, thread
<1>10. Contents'
  BY <1>1, <1>4 DEF EInv, Contents, thread
<1>11. QED
  BY <1>5, <1>6, <1>7, <1>8, <1>9, <1>10 DEF EInv

-----------------------------------------------------------------------------
LEMMA InvNext == EInv /\ [Next]_vars => EInv'
<1> SUFFICES ASSUME EInv, [Next]_vars PROVE EInv'
  OBVIOUS
<1>1. CASE UNCHANGED vars
  <2>1. UNCHANGED <<provider, role, nextLocal, nextRemote, nextFar, remoteReady, busy,
                    localReady, localMsg, farReady, pc, call, nReady, answer, farMsg,
                    head, full, remote, credits, flags, nSent, got>>
    BY <1>1 DEF vars, host, thread, fpga
  <2>2. Moved' = Moved /\ Given' = Given /\ Offered' = Offered
    BY <2>1 DEF Moved, Given, Offered
  <2>3. TypeOK'
    BY <2>1 DEF EInv, TypeOK
  <2>4. Counting' /\ LocalRing'
    BY <2>1, <2>2 DEF EInv, Counting, LocalRing, Landed, Moves
  <2>5. FarRing' /\ Thread'
    BY <2>1, <2>2 DEF EInv, FarRing, Thread, Cleared, Moves
  <2>6. Contents'
    BY <2>1, <2>2 DEF EInv, Contents
  <2>7. QED
    BY <2>3, <2>4, <2>5, <2>6 DEF EInv
<1>2. CASE HostNext
  BY <1>2, EnterStep, ReleaseStep, CopyStep, ClearFarReadyStep, RingFarStep,
     FinishGetStep, FinishFlushStep, FinishReleaseStep DEF HostNext, HostStep
<1>3. CASE FarNext
  BY <1>3, FarTakesStep, FarGivesStep, FarMovesStep, FlagArrivesStep DEF FarNext
<1>4. QED
  BY <1>1, <1>2, <1>3 DEF Next

\* The counts and arcs describe every state of the link.
THEOREM ArcsInv == Spec => []EInv
BY InvInit, InvNext, PTL DEF Spec

\* Type correctness of the link to the FPGA.
THEOREM TypeCorrect == Spec => []TypeOK
<1>1. EInv => TypeOK
  BY DEF EInv
<1>2. QED
  BY <1>1, ArcsInv, PTL

\* No local buffer is ever in two hands, or in none: ready for the application,
\* held by it, with the FPGA, or on the way (the assertions of getLocal and
\* release).
THEOREM NoBufferShared == Spec => []OneOwner
<1>1. ASSUME EInv PROVE OneOwner
  <2>1. Away = (IF Moves THEN Arc(NumLocal, Moved, Given)
                         ELSE Arc(NumLocal, Moved, Given) \cup flags)
    <3>1. CASE Moves
      BY <1>1, <3>1 DEF Away, EInv, LocalRing
    <3>2. CASE ~Moves
      <4>1. remote = Moved % NumLocal /\ credits = Given - Moved
        BY <1>1, <3>2 DEF EInv, Counting
      <4>2. credits \in Nat /\ Moved + credits = Given
        BY <1>1, <4>1, Bounds
      <4>3. {((Moved % NumLocal) + k) % NumLocal : k \in 0 .. credits - 1}
              = Arc(NumLocal, Moved, Moved + credits)
        BY <1>1, <4>2, Bounds, ArcFrom
      <4>4. QED
        BY <3>2, <4>1, <4>2, <4>3 DEF Away
    <3>3. QED
      BY <3>1, <3>2
  <2>2. /\ busy \subseteq {nextLocal}
        /\ localReady \cap busy = {} /\ Landed \cap (localReady \cup busy) = {}
        /\ Landed \cup localReady \cup busy = Arc(NumLocal, Given, Moved + NumLocal)
    BY <1>1 DEF EInv, LocalRing
  <2>3. /\ Locals = localReady \cup busy \cup Away
        /\ localReady \cap busy = {} /\ localReady \cap Away = {} /\ busy \cap Away = {}
    <3>1. CASE Moves
      BY <1>1, <2>1, <2>2, <3>1, Ends DEF Landed
    <3>2. CASE ~Moves
      BY <1>1, <2>1, <2>2, <3>2, Ends DEF Landed
    <3>3. QED
      BY <3>1, <3>2
  <2>4. Partition(Locals, <<localReady, busy, Away>>)
    BY <2>3 DEF Partition
  <2>5. QED
    BY <2>2, <2>4 DEF OneOwner
<1>2. QED
  BY <1>1, ArcsInv, PTL

\* What the host believes of the far ring is true, and no credit of it is lost.
THEOREM FarRingKnown == Spec => []FarKnown
<1>1. ASSUME EInv PROVE FarKnown
  <2>1. role = "ActiveOnly" => nReady <= NReady
    <3>1. NReady = Offered - Moved
      BY <1>1, Bounds DEF NReady, Offered, Moved
    <3>2. QED
      BY <1>1, <3>1 DEF EInv, FarRing
  <2>2. (IF provider THEN Fars \ FullFars ELSE FullFars) = Arc(NumFar, Moved, Offered)
    <3> DEFINE a == IF provider THEN Len(got) ELSE Moved
    <3>1. /\ NumFar \in Nat \ {0} /\ a \in Nat /\ full \in Nat /\ a + full \in Nat
          /\ a + full <= a + NumFar /\ a <= a + full
      BY <1>1, Bounds
    <3>2. head = a % NumFar
      BY <1>1 DEF EInv, Counting
    <3>3. FullFars = {((a % NumFar) + k) % NumFar : k \in 0 .. full - 1}
      BY <3>2 DEF FullFars
    <3>4. provider => a + full = Moved /\ a + NumFar = Offered
      BY DEF Moved, Offered
    <3>5. ~provider => a = Moved /\ a + full = Offered
      BY <1>1, Bounds DEF Moved, Offered
    <3> HIDE DEF a
    <3>6. FullFars = Arc(NumFar, a, a + full)
      BY <3>1, <3>3, ArcFrom
    <3>7. Fars \ FullFars = Arc(NumFar, a + full, a + NumFar)
      <4> DEFINE b == a + full
      <4>1. b \in Nat /\ a <= b /\ b <= a + NumFar
        BY <3>1
      <4> HIDE DEF b
      <4>2. (0 .. NumFar - 1) \ Arc(NumFar, a, b) = Arc(NumFar, b, a + NumFar)
        BY <3>1, <4>1, ArcRest
      <4>3. QED
        BY <3>6, <4>2 DEF Fars, b
    <3>8. QED
      BY <3>4, <3>5, <3>6, <3>7
  <2>3. ASSUME role = "ActiveMessage"
        PROVE  Partition(Arc(NumFar, Moved, Offered), <<farReady, flags, Cleared>>)
    <3>1. /\ farReady \cap flags = {} /\ (farReady \cup flags) \cap Cleared = {}
          /\ farReady \cup flags \cup Cleared = Arc(NumFar, Moved, Offered)
      BY <1>1, <2>3 DEF EInv, FarRing
    <3>2. QED
      BY <3>1 DEF Partition
  <2>4. QED
    BY <2>1, <2>2, <2>3 DEF FarKnown, Cleared
<1>2. QED
  BY <1>1, ArcsInv, PTL

\* When tryFlush says that nothing is left, all that was put has left.
THEOREM FlushedIsGone == Spec => []FlushDone
<1>1. ASSUME EInv PROVE FlushDone
  <2>1. answer = "done" => provider /\ Given = Moved
    BY <1>1 DEF EInv, Thread
  <2>2. QED
    BY <2>1 DEF FlushDone, Given, Moved
<1>2. QED
  BY <1>1, ArcsInv, PTL

-----------------------------------------------------------------------------
(* What the application sees *)

\* A message that arrives goes to a buffer that the application does not hold.
LEMMA ArrivesElsewhere ==
  ASSUME EInv, ~provider, NEW m \in Locals, m = Moved % NumLocal, Moved < Given,
         localMsg' = [localMsg EXCEPT ![m] = farMsg[head]] \/
         localMsg' = [localMsg EXCEPT ![m] = farMsg[nextFar]]
  PROVE  \A i \in busy : localMsg'[i] = localMsg[i]
<1>1. m \in Arc(NumLocal, Moved, Given)
  BY Ends
<1>2. m \notin busy /\ busy \subseteq Locals
  BY <1>1, Ends DEF EInv, LocalRing, TypeOK
<1>3. localMsg \in [Locals -> Content]
  BY DEF EInv, TypeOK
<1>4. QED
  BY <1>2, <1>3

\* What the application reads in a buffer stays while it holds the buffer.
THEOREM HeldMessagesStay == Spec => HeldStable
<1>1. EInv /\ [Next]_vars => [~provider => \A i \in busy : localMsg'[i] = localMsg[i]]_vars
  <2> SUFFICES ASSUME EInv, [Next]_vars, ~provider
               PROVE  \A i \in busy : localMsg'[i] = localMsg[i]
    OBVIOUS
  <2>1. CASE Copy
    <3>1. Moves /\ Moved < Given
      BY <2>1, MayMoveHas DEF Copy
    <3>2. nextRemote = Moved % NumLocal /\ nextRemote \in Locals
      BY <3>1 DEF EInv, Counting, TypeOK
    <3>3. localMsg' = [localMsg EXCEPT ![nextRemote] = farMsg[nextFar]]
      BY <2>1 DEF Copy
    <3>4. QED
      BY <3>1, <3>2, <3>3, ArrivesElsewhere
  <2>2. CASE FarMoves
    <3>1. ~Moves /\ credits > 0
      BY <2>2 DEF FarMoves, Moves
    <3>2. remote = Moved % NumLocal /\ remote \in Locals /\ credits = Given - Moved
      BY <3>1 DEF EInv, Counting, TypeOK
    <3>3. Moved < Given
      BY <3>1, <3>2, Bounds
    <3>4. localMsg' = [localMsg EXCEPT ![remote] = farMsg[head]]
      BY <2>2 DEF FarMoves
    <3>5. QED
      BY <3>2, <3>3, <3>4, ArrivesElsewhere
  <2>3. CASE ~Copy /\ ~FarMoves
    <3>1. localMsg' = localMsg
      BY <2>3 DEF vars, Next, HostNext, FarNext, HostStep, GetBuffer, TryFlush, Release,
         ClearFarReady, RingFar, FinishGet, FinishFlush, FinishRelease, FarTakes,
         FarGives, FlagArrives
    <3>2. QED
      BY <3>1
  <2>4. QED
    BY <2>1, <2>2, <2>3
<1>2. QED
  BY <1>1, ArcsInv, PTL DEF Spec, HeldStable

Sent == [k \in 1 .. nSent |-> k]

\* A message is sent by one more count.
LEMMA SentGrows ==
  ASSUME EInv, nSent < MaxMessages, nSent' = nSent + 1
  PROVE  /\ Sent' = Append(Sent, nSent + 1) /\ nSent + 1 \in 1 .. MaxMessages
         /\ Len(Sent) = nSent
<1>1. nSent \in Nat /\ MaxMessages \in Nat
  BY Bounds
<1>2. Sent \in Seq(Nat) /\ Len(Sent) = nSent
  BY <1>1 DEF Sent
<1>3. Sent' = [k \in 1 .. nSent + 1 |-> k]
  BY DEF Sent
<1>4. Append(Sent, nSent + 1) = [k \in 1 .. nSent + 1 |-> k]
  BY <1>1, <1>2 DEF Sent
<1>5. nSent + 1 \in 1 .. MaxMessages
  BY <1>1
<1>6. QED
  BY <1>2, <1>3, <1>4, <1>5

\* The message that is delivered is the next one sent.
LEMMA Delivers ==
  ASSUME EInv, got' = Append(got, Len(got) + 1), Len(got) < nSent, nSent' = nSent
  PROVE  Promise!Deliver("port")
<1> DEFINE G == [p \in {"port"} |-> got]
           H == [p \in {"port"} |-> got']
           n == Len(got)
<1>1. nSent \in Nat /\ n \in Nat
  BY Bounds
<1>2. Len(Sent) = nSent /\ Sent[n + 1] = n + 1 /\ Sent' = Sent
  <2>1. n + 1 \in 1 .. nSent
    BY <1>1
  <2>2. QED
    BY <1>1, <2>1 DEF Sent
<1>3. G["port"] = got
  OBVIOUS
<1>4. H = [G EXCEPT !["port"] = Append(@, Sent[Len(@) + 1])]
  <2>1. [G EXCEPT !["port"] = Append(@, Sent[Len(@) + 1])]
          = [G EXCEPT !["port"] = Append(got, n + 1)]
    BY <1>2, <1>3
  <2>2. H = [G EXCEPT !["port"] = got']
    OBVIOUS
  <2>3. QED
    BY <2>1, <2>2
<1>5. Len(G["port"]) < Len(Sent)
  BY <1>2, <1>3
<1>6. QED
  BY <1>2, <1>4, <1>5 DEF Promise!Deliver, Sent

\* In every role and direction, for any rings, the link delivers each message
\* once, intact and in order, and no more are outstanding than it has buffers.
THEOREM Reliable == Spec => InOrder
<1>1. Init => Promise!Init
  <2> SUFFICES ASSUME Init
               PROVE  /\ Sent = <<>>
                      /\ [p \in {"port"} |-> got] = [p \in {"port"} |-> <<>>]
    BY DEF Promise!Init, Sent
  <2>1. nSent = 0 /\ got = <<>>
    BY DEF Init
  <2>2. QED
    BY <2>1 DEF Sent
<1>2. EInv /\ [Next]_vars => [Promise!Next]_(Promise!streamVars)
  <2> SUFFICES ASSUME EInv, [Next]_vars
               PROVE  \/ Promise!Next
                      \/ UNCHANGED <<Sent, [p \in {"port"} |-> got]>>
    BY DEF Promise!streamVars, Sent
  <2>1. ASSUME UNCHANGED <<nSent, got>>
        PROVE  UNCHANGED <<Sent, [p \in {"port"} |-> got]>>
    BY <2>1 DEF Sent
  <2>2. ASSUME nSent < MaxMessages, nSent' = nSent + 1, got' = got,
               nSent < Len(got) + NumLocal + NumFar
        PROVE  Promise!Next
    <3>1. /\ Sent' = Append(Sent, nSent + 1) /\ nSent + 1 \in 1 .. MaxMessages
          /\ Len(Sent) = nSent
      BY <2>2, SentGrows
    <3>2. nSent - Len(got) < NumLocal + NumFar
      BY <2>2, Bounds
    <3> DEFINE v == nSent + 1
    <3>3. /\ v \in 1 .. MaxMessages /\ Sent' = Append(Sent, v)
          /\ \A p \in {"port"} :
               Len(Sent) - Len([q \in {"port"} |-> got][p]) < NumLocal + NumFar
      BY <3>1, <3>2
    <3> HIDE DEF v
    <3>4. QED
      BY <2>2, <3>3 DEF Promise!Next, Promise!Send, Sent
  <2>3. CASE Release
    <3>1. CASE provider
      <4>1. Given < Moved + NumLocal /\ Moved = Len(got) + full /\ Given = nSent
        BY <2>3, <3>1, RoomToGive DEF Release, Given, Moved
      <4>2. nSent < Len(got) + NumLocal + NumFar
        <5>1. /\ nSent \in Nat /\ Len(got) \in Nat /\ NumLocal \in Nat /\ NumFar \in Nat
              /\ full \in 0 .. NumFar
          BY Bounds
        <5>2. QED
          BY <4>1, <5>1
      <4>3. nSent < MaxMessages /\ nSent' = nSent + 1 /\ got' = got
        BY <2>3, <3>1 DEF Release
      <4>4. QED
        BY <2>2, <4>2, <4>3
    <3>2. CASE ~provider
      BY <2>1, <2>3, <3>2 DEF Release
    <3>3. QED
      BY <3>1, <3>2
  <2>4. CASE FarGives
    <3>1. /\ ~provider /\ nSent < MaxMessages /\ nSent' = nSent + 1 /\ got' = got
          /\ full < NumFar
      BY <2>4 DEF FarGives
    <3>2. Moved = nSent - full /\ Given <= Len(got) + NumLocal
      <4>1. Len(got) \in Nat /\ NumLocal \in Nat
        BY Bounds
      <4>2. QED
        BY <3>1, <4>1 DEF Moved, Given
    <3>3. nSent < Len(got) + NumLocal + NumFar
      <4>1. /\ nSent \in Nat /\ Len(got) \in Nat /\ NumLocal \in Nat /\ NumFar \in Nat
            /\ full \in 0 .. NumFar /\ Given \in Nat
            /\ nSent - full <= Given
        BY <3>2, Bounds
      <4>2. full < NumFar /\ Given <= Len(got) + NumLocal
        BY <3>1, <3>2
      <4>3. QED
        BY <4>1, <4>2
    <3>4. QED
      BY <2>2, <3>1, <3>3
  <2>5. CASE FarTakes
    <3>1. provider /\ full > 0 /\ got' = Append(got, farMsg[head]) /\ nSent' = nSent
      BY <2>5 DEF FarTakes
    <3>2. Len(got) < nSent
      <4>1. Moved = Len(got) + full /\ Given = nSent
        BY <3>1 DEF Moved, Given
      <4>2. QED
        BY <3>1, <4>1, Bounds
    <3>3. QED
      BY <3>1, <3>2, NextAtFar, Delivers DEF Promise!Next
  <2>6. CASE FinishGet
    <3>1. nSent' = nSent
      BY <2>6 DEF FinishGet
    <3>2. CASE ~provider /\ nextLocal \in localReady
      <4>1. got' = Append(got, localMsg[nextLocal])
        BY <2>6, <3>2 DEF FinishGet
      <4>2. localMsg[nextLocal] = Len(got) + 1 /\ Len(got) < Moved
        BY <3>2, NextAtHand
      <4>3. Len(got) < nSent
        <5>1. Moved = nSent - full
          BY <3>2 DEF Moved
        <5>2. QED
          BY <4>2, <5>1, Bounds
      <4>4. QED
        BY <3>1, <4>1, <4>2, <4>3, Delivers DEF Promise!Next
    <3>3. CASE provider \/ nextLocal \notin localReady
      <4>1. got' = got
        BY <2>6, <3>3 DEF FinishGet
      <4>2. QED
        BY <2>1, <3>1, <4>1
    <3>4. QED
      BY <3>2, <3>3
  <2>7. CASE ~Release /\ ~FarGives /\ ~FarTakes /\ ~FinishGet
    <3>1. UNCHANGED <<nSent, got>>
      BY <2>7 DEF vars, Next, HostNext, FarNext, HostStep, GetBuffer, TryFlush, Copy,
         ClearFarReady, RingFar, FinishFlush, FinishRelease, FarMoves, FlagArrives
    <3>2. QED
      BY <2>1, <3>1
  <2>8. QED
    BY <2>3, <2>4, <2>5, <2>6, <2>7
<1>3. QED
  BY <1>1, <1>2, ArcsInv, PTL DEF Spec, InOrder, Promise!Safe
=============================================================================
