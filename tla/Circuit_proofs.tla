--------------------------- MODULE Circuit_proofs ---------------------------
(***************************************************************************)
(* Safety of the ActiveMessage circuit for any number of input ports and   *)
(* buffers: the inductive invariant below, and what follows from it.       *)
(*                                                                         *)
(* The argument: an input buffer leaves the hands of the output side when  *)
(* its shadow is marked full (Produce) and comes back when the reply marks *)
(* it empty (MoveReply).  In between it is accounted for by exactly one of *)
(* a transfer, the full flag and the reply.  A queued output buffer stays  *)
(* in use, so it has no transfer under way and starting one cannot disturb *)
(* another.  The second part proves the order: the circuit implements the  *)
(* safety half of Stream.                                                  *)
(***************************************************************************)
EXTENDS Circuit, Rings, FiniteSetTheorems, TLAPS

\* Queued buffers are in use, each is queued once.
Queued ==
  /\ \A i \in DOMAIN queuedTransfers : inUse[queuedTransfers[i]]
  /\ \A i, j \in DOMAIN queuedTransfers :
       queuedTransfers[i] = queuedTransfers[j] => i = j

\* Only a full buffer is in a consumer's hands.
HeldFull ==
  \A p \in InPorts, t \in InTids : inInUse[p][t] => bufferFull[p][t]

IInv == /\ TypeOK
        /\ Accounted
        /\ OneWriter
        /\ SourceStable
        /\ Queued
        /\ HeldFull

-----------------------------------------------------------------------------
(* Type correctness, one step per action *)

\* A ring position advances within the ring.
LEMMA RingSucc ==
  ASSUME NEW n \in Nat \ {0}, NEW i \in -1 .. n - 1
  PROVE  (i + 1) % n \in 0 .. n - 1
OBVIOUS

\* Taking the head of a queue of output buffers.
LEMMA QueueHead ==
  ASSUME NEW q \in Seq(OutTids), q # <<>>
  PROVE  /\ Head(q) \in OutTids
         /\ Tail(q) \in Seq(OutTids)
         /\ Len(Tail(q)) = Len(q) - 1
         /\ 1 \in DOMAIN q /\ q[1] = Head(q)
         /\ \A i \in DOMAIN Tail(q) : i + 1 \in DOMAIN q /\ Tail(q)[i] = q[i + 1]
OBVIOUS

\* Starting a transfer keeps the types of what it writes.
LEMMA ProduceType ==
  ASSUME TypeOK, NEW b \in OutTids, Produce(b)
  PROVE  /\ inUse' \in [OutTids -> BOOLEAN]
         /\ nextTid' \in InTids
         /\ shadowFull' \in [InPorts -> [InTids -> BOOLEAN]]
         /\ target' \in [OutTids -> InTids]
         /\ stage' \in [OutTids -> [InPorts -> Stage]]
  <1>1. nextTid' \in InTids
    BY CircuitAssumption DEF TypeOK, Produce, InTids
  <1>2. QED
    BY <1>1 DEF TypeOK, Produce, Stage

\* Every step of the circuit keeps the types.
LEMMA TypeStep ==
  ASSUME TypeOK, [Next]_vars
  PROVE  TypeOK'
<1> USE DEF TypeOK
<1>1. CASE GetNextEmptyOutputBuffer
  <2>1. lastBufferTid' \in OutTids
    BY <1>1, CircuitAssumption DEF GetNextEmptyOutputBuffer, OutTids
  <2>2. QED
    BY <1>1, <2>1 DEF GetNextEmptyOutputBuffer, ctlVars, inVars
<1>2. ASSUME NEW b \in OutTids, SendOutputBuffer(b)
      PROVE  TypeOK'
  <2>1. /\ nSent' \in 0 .. MaxMessages
        /\ outMsg' \in [OutTids -> Content]
    BY <1>2, CircuitAssumption DEF SendOutputBuffer, Content, Message
  <2>2. CASE Produce(b) /\ UNCHANGED queuedTransfers
    <3> HIDE DEF TypeOK
    <3>1. /\ inUse' \in [OutTids -> BOOLEAN]
          /\ nextTid' \in InTids
          /\ shadowFull' \in [InPorts -> [InTids -> BOOLEAN]]
          /\ target' \in [OutTids -> InTids]
          /\ stage' \in [OutTids -> [InPorts -> Stage]]
      BY <2>2, ProduceType
    <3>2. QED
      BY <1>2, <2>1, <2>2, <3>1 DEF TypeOK, SendOutputBuffer, inVars
  <2>3. CASE /\ queuedTransfers' = Append(queuedTransfers, b)
             /\ UNCHANGED <<inUse, ctlVars>>
    <3>1. queuedTransfers' \in Seq(OutTids)
      <4> HIDE DEF TypeOK
      <4>1. queuedTransfers \in Seq(OutTids)
        BY DEF TypeOK
      <4>2. QED
        BY <2>3, <4>1
    <3> HIDE DEF TypeOK
    <3>2. QED
      BY <1>2, <2>1, <2>3, <3>1 DEF TypeOK, SendOutputBuffer, inVars, ctlVars
  <2>4. QED
    BY <1>2, <2>2, <2>3 DEF SendOutputBuffer
<1>3. CASE CheckQueuedTransfers
  <2> DEFINE b == Head(queuedTransfers)
  <2>1. b \in OutTids /\ queuedTransfers' \in Seq(OutTids)
    BY <1>3, QueueHead DEF CheckQueuedTransfers
  <2>2. Produce(b)
    BY <1>3 DEF CheckQueuedTransfers
  <2> HIDE DEF b, TypeOK
  <2>3. /\ inUse' \in [OutTids -> BOOLEAN]
        /\ nextTid' \in InTids
        /\ shadowFull' \in [InPorts -> [InTids -> BOOLEAN]]
        /\ target' \in [OutTids -> InTids]
        /\ stage' \in [OutTids -> [InPorts -> Stage]]
    BY <2>1, <2>2, ProduceType
  <2>4. QED
    BY <1>3, <2>1, <2>3 DEF TypeOK, CheckQueuedTransfers, inVars
<1>4. ASSUME NEW b \in OutTids, NEW p \in InPorts, MoveData(b, p)
      PROVE  TypeOK'
  BY <1>4 DEF MoveData, outVars, Stage
<1>5. ASSUME NEW b \in OutTids, NEW p \in InPorts, MoveMeta(b, p)
      PROVE  TypeOK'
  BY <1>5 DEF MoveMeta, outVars, Stage
<1>6. ASSUME NEW b \in OutTids, NEW p \in InPorts, MoveFlag(b, p)
      PROVE  TypeOK'
  BY <1>6 DEF MoveFlag, outVars, Stage
<1>7. ASSUME NEW p \in InPorts, NEW t \in InTids, MoveReply(p, t)
      PROVE  TypeOK'
  BY <1>7 DEF MoveReply, outVars
<1>8. ASSUME NEW p \in InPorts, GetNextFullInputBuffer(p)
      PROVE  TypeOK'
  <2> DEFINE t == NextOrd(p)
  <2>1. t \in InTids
    BY CircuitAssumption, RingSucc DEF NextOrd, InTids
  <2>2. lastBufferOrd' \in [InPorts -> -1 .. NumIn - 1]
    BY <1>8, <2>1, CircuitAssumption DEF GetNextFullInputBuffer, InTids
  <2>3. inData[p][t] \in Content /\ inMeta[p][t] \in Content
    BY <2>1
  <2>4. got' \in [InPorts -> Seq([data : Content, meta : Content])]
    <3> DEFINE Entry == [data : Content, meta : Content]
               m == [data |-> inData[p][t], meta |-> inMeta[p][t]]
    <3>1. m \in Entry /\ got[p] \in Seq(Entry)
      BY <2>3
    <3>2. got' = [got EXCEPT ![p] = Append(got[p], m)]
      BY <1>8 DEF GetNextFullInputBuffer
    <3> HIDE DEF Entry, m
    <3>3. Append(got[p], m) \in Seq(Entry)
      BY <3>1
    <3>4. got \in [InPorts -> Seq(Entry)]
      BY DEF Entry
    <3>5. got' \in [InPorts -> Seq(Entry)]
      BY <3>2, <3>3, <3>4
    <3>6. QED
      BY <3>5 DEF Entry
  <2>5. inInUse' \in [InPorts -> [InTids -> BOOLEAN]]
    BY <1>8, <2>1 DEF GetNextFullInputBuffer
  <2>6. QED
    BY <1>8, <2>2, <2>4, <2>5 DEF GetNextFullInputBuffer, outVars, ctlVars
<1>9. ASSUME NEW p \in InPorts, NEW t \in InTids, InputAvailable(p, t)
      PROVE  TypeOK'
  BY <1>9 DEF InputAvailable, outVars, ctlVars
<1>10. CASE UNCHANGED vars
  BY <1>10 DEF vars, outVars, ctlVars, inVars
<1>11. QED
  BY <1>1, <1>2, <1>3, <1>4, <1>5, <1>6, <1>7, <1>8, <1>9, <1>10
  DEF Next, OutputNext, DriverNext, InputNext

\* Every variable keeps the range the code gives it, whatever the number of
\* ports and buffers.
THEOREM TypeCorrect == Spec => []TypeOK
<1>1. Init => TypeOK
  BY CircuitAssumption
  DEF Init, TypeOK, OutTids, InTids, Stage, Content, Message, NoMessage
<1>2. TypeOK /\ [Next]_vars => TypeOK'
  BY TypeStep
<1>3. QED
  BY <1>1, <1>2, PTL DEF Spec

-----------------------------------------------------------------------------
(* The inductive invariant, one lemma per action *)

\* What starting a transfer from buffer b, in use, does to the input buffers:
\* the free one at nextTid becomes b's to write, the others are untouched.
LEMMA ProduceStep ==
  ASSUME IInv, NEW b \in OutTids, inUse[b], CanProduce, Produce(b),
         UNCHANGED <<bufferFull, inInUse, reply>>
  PROVE  Accounted' /\ OneWriter' /\ SourceStable' /\ HeldFull'
<1>1. \A p \in InPorts : stage[b][p] = "done"
  BY DEF IInv, SourceStable
<1>2. ASSUME NEW c \in OutTids, NEW p \in InPorts, NEW t \in InTids
      PROVE  Writing(c, p, t)' <=> Writing(c, p, t) \/ (c = b /\ t = nextTid)
  BY <1>1 DEF IInv, TypeOK, Produce, Writing
<1>3. ASSUME NEW p \in InPorts, NEW t \in InTids
      PROVE  shadowFull'[p][t] <=> shadowFull[p][t] \/ t = nextTid
  BY DEF IInv, TypeOK, Produce
<1>4. ASSUME NEW p \in InPorts
      PROVE  /\ nextTid \in InTids
             /\ \A c \in OutTids : ~Writing(c, p, nextTid)
             /\ ~bufferFull[p][nextTid] /\ ~reply[p][nextTid]
  BY DEF IInv, TypeOK, CanProduce, Accounted
<1>5. Accounted'
  <2> SUFFICES ASSUME NEW p \in InPorts, NEW t \in InTids
               PROVE
                 /\ shadowFull'[p][t] <=>
                      \/ \E c \in OutTids : Writing(c, p, t)'
                      \/ bufferFull[p][t]
                      \/ reply[p][t]
                 /\ ~(bufferFull[p][t] /\ reply[p][t])
                 /\ \A c \in OutTids :
                      Writing(c, p, t)' => ~bufferFull[p][t] /\ ~reply[p][t]
    BY Zenon DEF Accounted
  <2>1. CASE t = nextTid
    BY <1>2, <1>3, <1>4, <2>1 DEF IInv, Accounted
  <2>2. CASE t # nextTid
    BY <1>2, <1>3, <2>2 DEF IInv, Accounted
  <2>3. QED
    BY <2>1, <2>2
<1>6. OneWriter'
  BY <1>2, <1>4 DEF IInv, OneWriter
<1>7. SourceStable'
  BY DEF IInv, TypeOK, SourceStable, Produce
<1>8. HeldFull'
  BY DEF IInv, HeldFull
<1>9. QED
  BY <1>5, <1>6, <1>7, <1>8

\* Handing out a free, empty output buffer disturbs no transfer and no queue entry.
LEMMA GetNextEmptyOutputBufferStep ==
  ASSUME IInv, GetNextEmptyOutputBuffer
  PROVE  Accounted' /\ OneWriter' /\ SourceStable' /\ Queued' /\ HeldFull'
<1>1. UNCHANGED <<ctlVars, inVars, queuedTransfers>>
  BY DEF GetNextEmptyOutputBuffer
<1>2. Accounted' /\ OneWriter' /\ HeldFull'
  BY <1>1 DEF IInv, ctlVars, inVars, Accounted, OneWriter, HeldFull, Writing
<1>3. SourceStable'
  BY DEF IInv, TypeOK, SourceStable, GetNextEmptyOutputBuffer, OutIsEmpty, ctlVars
<1>4. Queued'
  <2>1. \A i \in DOMAIN queuedTransfers : queuedTransfers[i] \in OutTids
    BY DEF IInv, TypeOK
  <2>2. QED
    BY <2>1 DEF IInv, TypeOK, Queued, GetNextEmptyOutputBuffer
<1>5. QED
  BY <1>2, <1>3, <1>4

\* A sent buffer goes to the free input buffer, or joins the queue once.
LEMMA SendOutputBufferStep ==
  ASSUME IInv, NEW b \in OutTids, SendOutputBuffer(b)
  PROVE  Accounted' /\ OneWriter' /\ SourceStable' /\ Queued' /\ HeldFull'
<1>1. /\ inUse[b]
      /\ \A i \in DOMAIN queuedTransfers : queuedTransfers[i] # b
      /\ UNCHANGED inVars
  BY DEF SendOutputBuffer, Held
<1>2. CASE CanTransferBuffer /\ Produce(b) /\ UNCHANGED queuedTransfers
  <2>1. CanProduce /\ queuedTransfers = <<>>
    BY <1>2 DEF CanTransferBuffer
  <2>2. Accounted' /\ OneWriter' /\ SourceStable' /\ HeldFull'
    BY <1>1, <1>2, <2>1, ProduceStep DEF inVars
  <2>3. Queued'
    BY <1>2, <2>1 DEF Queued
  <2>4. QED
    BY <2>2, <2>3
<1>3. CASE /\ queuedTransfers' = Append(queuedTransfers, b)
           /\ UNCHANGED <<inUse, ctlVars>>
  <2>1. Accounted' /\ OneWriter' /\ SourceStable' /\ HeldFull'
    BY <1>1, <1>3
    DEF IInv, ctlVars, inVars, Accounted, OneWriter, SourceStable, HeldFull, Writing
  <2>2. Queued'
    <3>1. queuedTransfers \in Seq(OutTids)
      BY DEF IInv, TypeOK
    <3>2. \A i \in DOMAIN queuedTransfers' :
            \/ /\ i \in DOMAIN queuedTransfers
               /\ queuedTransfers'[i] = queuedTransfers[i]
            \/ i = Len(queuedTransfers) + 1 /\ queuedTransfers'[i] = b
      BY <1>3, <3>1
    <3>3. QED
      BY <1>1, <1>3, <3>2 DEF IInv, Queued
  <2>3. QED
    BY <2>1, <2>2
<1>4. QED
  BY <1>2, <1>3 DEF SendOutputBuffer

\* The head of the queue goes to the free input buffer.
LEMMA CheckQueuedTransfersStep ==
  ASSUME IInv, CheckQueuedTransfers
  PROVE  Accounted' /\ OneWriter' /\ SourceStable' /\ Queued' /\ HeldFull'
<1> DEFINE b == Head(queuedTransfers)
<1>1. queuedTransfers \in Seq(OutTids) /\ queuedTransfers # <<>>
  BY DEF IInv, TypeOK, CheckQueuedTransfers
<1>2. /\ b \in OutTids
      /\ 1 \in DOMAIN queuedTransfers /\ queuedTransfers[1] = b
      /\ \A i \in DOMAIN Tail(queuedTransfers) :
           /\ i + 1 \in DOMAIN queuedTransfers
           /\ i + 1 # 1
           /\ Tail(queuedTransfers)[i] = queuedTransfers[i + 1]
  BY <1>1
<1>3. inUse[b]
  BY <1>2 DEF IInv, Queued
<1>4. /\ CanProduce /\ Produce(b)
      /\ queuedTransfers' = Tail(queuedTransfers)
      /\ UNCHANGED <<bufferFull, inInUse, reply>>
  BY DEF CheckQueuedTransfers, inVars
<1> HIDE DEF b
<1>5. Accounted' /\ OneWriter' /\ SourceStable' /\ HeldFull'
  BY <1>2, <1>3, <1>4, ProduceStep
<1>6. Queued'
  <2>1. ASSUME NEW i \in DOMAIN queuedTransfers'
        PROVE  inUse'[queuedTransfers'[i]]
    <3>1. queuedTransfers'[i] # b /\ inUse[queuedTransfers'[i]]
      BY <1>2, <1>4, <2>1 DEF IInv, Queued
    <3>2. queuedTransfers'[i] \in OutTids
      BY <1>1, <1>2, <1>4, <2>1
    <3>3. QED
      BY <1>4, <3>1, <3>2 DEF IInv, TypeOK, Produce
  <2>2. ASSUME NEW i \in DOMAIN queuedTransfers', NEW j \in DOMAIN queuedTransfers',
               queuedTransfers'[i] = queuedTransfers'[j]
        PROVE  i = j
    <3>1. i \in Nat /\ j \in Nat
      BY <1>1, <1>4
    <3>2. i + 1 = j + 1
      BY <1>2, <1>4, <2>2 DEF IInv, Queued
    <3>3. QED
      BY <3>1, <3>2
  <2>3. QED
    BY <2>1, <2>2 DEF Queued
<1>7. QED
  BY <1>5, <1>6

\* Moving data or metadata changes no buffer's owner.
LEMMA MoveContentStep ==
  ASSUME IInv, NEW b \in OutTids, NEW p \in InPorts,
         MoveData(b, p) \/ MoveMeta(b, p)
  PROVE  Accounted' /\ OneWriter' /\ SourceStable' /\ Queued' /\ HeldFull'
<1>1. /\ UNCHANGED <<inUse, queuedTransfers, target, shadowFull,
                     bufferFull, inInUse, reply>>
      /\ stage[b][p] # "done"
      /\ \E s \in {"meta", "flag"} : stage' = [stage EXCEPT ![b][p] = s]
  BY DEF MoveData, MoveMeta, outVars
<1>2. \A c \in OutTids, q \in InPorts :
        stage'[c][q] # "done" <=> stage[c][q] # "done"
  BY <1>1 DEF IInv, TypeOK
<1>3. \A c \in OutTids, q \in InPorts, t \in InTids :
        Writing(c, q, t)' <=> Writing(c, q, t)
  BY <1>1, <1>2 DEF Writing
<1>4. Accounted'
  BY <1>1, <1>3 DEF IInv, Accounted
<1>5. OneWriter' /\ SourceStable' /\ Queued' /\ HeldFull'
  BY <1>1, <1>2, <1>3 DEF IInv, OneWriter, SourceStable, Queued, HeldFull
<1>6. QED
  BY <1>4, <1>5

\* The full flag takes the buffer over from the transfer that ends.
LEMMA MoveFlagStep ==
  ASSUME IInv, NEW b \in OutTids, NEW p \in InPorts, MoveFlag(b, p)
  PROVE  Accounted' /\ OneWriter' /\ SourceStable' /\ Queued' /\ HeldFull'
<1>0. PICK u \in InTids : u = target[b]
  BY DEF IInv, TypeOK
<1>1. /\ UNCHANGED <<inUse, queuedTransfers, target, shadowFull, inInUse, reply>>
      /\ Writing(b, p, u)
  BY <1>0 DEF MoveFlag, outVars, Writing
<1>2. \A c \in OutTids, q \in InPorts :
        stage'[c][q] # "done" <=> stage[c][q] # "done" /\ ~(c = b /\ q = p)
  BY DEF MoveFlag, IInv, TypeOK
<1>3. \A c \in OutTids, q \in InPorts, t \in InTids :
        Writing(c, q, t)' <=> Writing(c, q, t) /\ ~(c = b /\ q = p)
  BY <1>1, <1>2 DEF Writing
<1>4. \A q \in InPorts, t \in InTids :
        bufferFull'[q][t] <=> bufferFull[q][t] \/ (q = p /\ t = u)
  BY <1>0 DEF MoveFlag, IInv, TypeOK
<1>5. \A c \in OutTids : ~Writing(c, p, u)'
  BY <1>1, <1>3 DEF IInv, OneWriter
<1>6. shadowFull[p][u] /\ ~reply[p][u]
  BY <1>1 DEF IInv, Accounted
<1>7. Accounted'
  <2> SUFFICES ASSUME NEW q \in InPorts, NEW t \in InTids
               PROVE
                 /\ shadowFull[q][t] <=>
                      \/ \E c \in OutTids : Writing(c, q, t)'
                      \/ bufferFull'[q][t]
                      \/ reply[q][t]
                 /\ ~(bufferFull'[q][t] /\ reply[q][t])
                 /\ \A c \in OutTids :
                      Writing(c, q, t)' => ~bufferFull'[q][t] /\ ~reply[q][t]
    BY <1>1, Zenon DEF Accounted
  <2>1. CASE q = p /\ t = u
    BY <1>4, <1>5, <1>6, <2>1
  <2>2. CASE q = p /\ t # u
    <3>1. \A c \in OutTids : Writing(c, q, t)' <=> Writing(c, q, t)
      BY <1>1, <1>3, <2>2 DEF Writing
    <3>2. QED
      BY <1>4, <2>2, <3>1 DEF IInv, Accounted
  <2>3. CASE q # p
    BY <1>3, <1>4, <2>3 DEF IInv, Accounted
  <2>4. QED
    BY <2>1, <2>2, <2>3
<1>8. OneWriter' /\ SourceStable' /\ Queued' /\ HeldFull'
  BY <1>1, <1>2, <1>3, <1>4 DEF IInv, OneWriter, SourceStable, Queued, HeldFull
<1>9. QED
  BY <1>7, <1>8

\* The reply hands the buffer back to the output side.
LEMMA MoveReplyStep ==
  ASSUME IInv, NEW p \in InPorts, NEW u \in InTids, MoveReply(p, u)
  PROVE  Accounted' /\ OneWriter' /\ SourceStable' /\ Queued' /\ HeldFull'
<1>1. /\ UNCHANGED <<inUse, queuedTransfers, target, stage, inInUse, bufferFull>>
      /\ reply[p][u]
  BY DEF MoveReply, outVars
<1>2. \A q \in InPorts, t \in InTids :
        /\ reply'[q][t] <=> reply[q][t] /\ ~(q = p /\ t = u)
        /\ shadowFull'[q][t] <=> shadowFull[q][t] /\ ~(q = p /\ t = u)
  BY DEF MoveReply, IInv, TypeOK
<1>3. \A c \in OutTids, q \in InPorts, t \in InTids :
        Writing(c, q, t)' <=> Writing(c, q, t)
  BY <1>1 DEF Writing
<1>4. Accounted'
  BY <1>1, <1>2, <1>3 DEF IInv, Accounted
<1>5. OneWriter' /\ SourceStable' /\ Queued' /\ HeldFull'
  BY <1>1, <1>3 DEF IInv, OneWriter, SourceStable, Queued, HeldFull
<1>6. QED
  BY <1>4, <1>5

\* A consumer takes a buffer that is full, which no transfer writes.
LEMMA GetNextFullInputBufferStep ==
  ASSUME IInv, NEW p \in InPorts, GetNextFullInputBuffer(p)
  PROVE  Accounted' /\ OneWriter' /\ SourceStable' /\ Queued' /\ HeldFull'
<1>1. UNCHANGED <<inUse, queuedTransfers, target, stage, shadowFull, bufferFull, reply>>
  BY DEF GetNextFullInputBuffer, outVars, ctlVars
<1>2. NextOrd(p) \in InTids
  BY CircuitAssumption, RingSucc DEF NextOrd, InTids, IInv, TypeOK
<1>3. \A q \in InPorts, t \in InTids :
        inInUse'[q][t] => inInUse[q][t] \/ bufferFull[q][t]
  BY <1>2 DEF GetNextFullInputBuffer, IInv, TypeOK
<1>4. Accounted' /\ OneWriter' /\ SourceStable' /\ Queued'
  BY <1>1 DEF IInv, Accounted, OneWriter, SourceStable, Queued, Writing
<1>5. HeldFull'
  BY <1>1, <1>3 DEF IInv, HeldFull
<1>6. QED
  BY <1>4, <1>5

\* The reply takes the buffer over from the full flag.
LEMMA InputAvailableStep ==
  ASSUME IInv, NEW p \in InPorts, NEW u \in InTids, InputAvailable(p, u)
  PROVE  Accounted' /\ OneWriter' /\ SourceStable' /\ Queued' /\ HeldFull'
<1>1. /\ UNCHANGED <<inUse, queuedTransfers, target, stage, shadowFull>>
      /\ inInUse[p][u] /\ bufferFull[p][u]
  BY DEF InputAvailable, outVars, ctlVars, IInv, HeldFull
<1>2. \A q \in InPorts, t \in InTids :
        /\ bufferFull'[q][t] <=> bufferFull[q][t] /\ ~(q = p /\ t = u)
        /\ inInUse'[q][t] <=> inInUse[q][t] /\ ~(q = p /\ t = u)
        /\ reply'[q][t] <=> reply[q][t] \/ (q = p /\ t = u)
  BY DEF InputAvailable, IInv, TypeOK
<1>3. \A c \in OutTids, q \in InPorts, t \in InTids :
        Writing(c, q, t)' <=> Writing(c, q, t)
  BY <1>1 DEF Writing
<1>4. Accounted'
  BY <1>1, <1>2, <1>3 DEF IInv, Accounted
<1>5. OneWriter' /\ SourceStable' /\ Queued' /\ HeldFull'
  BY <1>1, <1>2, <1>3 DEF IInv, OneWriter, SourceStable, Queued, HeldFull
<1>6. QED
  BY <1>4, <1>5

-----------------------------------------------------------------------------
\* At first no buffer is in anybody's hands.
LEMMA InductiveInit == Init => IInv
<1> SUFFICES ASSUME Init PROVE IInv
  OBVIOUS
<1>1. TypeOK
  BY CircuitAssumption
  DEF Init, TypeOK, OutTids, InTids, Stage, Content, Message, NoMessage
<1>2. Accounted /\ OneWriter /\ SourceStable /\ HeldFull
  BY DEF Init, Accounted, OneWriter, SourceStable, HeldFull, Writing
<1>3. Queued
  BY DEF Init, Queued
<1>4. QED
  BY <1>1, <1>2, <1>3 DEF IInv

\* Every step of the circuit keeps the invariant.
LEMMA InductiveStep ==
  ASSUME IInv, [Next]_vars
  PROVE  IInv'
<1>1. TypeOK'
  BY TypeStep DEF IInv
<1>2. CASE OutputNext
  BY <1>1, <1>2, GetNextEmptyOutputBufferStep, SendOutputBufferStep,
     CheckQueuedTransfersStep
  DEF OutputNext, IInv
<1>3. CASE DriverNext
  BY <1>1, <1>3, MoveContentStep, MoveFlagStep, MoveReplyStep
  DEF DriverNext, IInv
<1>4. CASE InputNext
  BY <1>1, <1>4, GetNextFullInputBufferStep, InputAvailableStep
  DEF InputNext, IInv
<1>5. CASE UNCHANGED vars
  <2>1. UNCHANGED <<queuedTransfers, inUse, target, stage, shadowFull,
                    bufferFull, inInUse, reply>>
    BY <1>5 DEF vars, outVars, ctlVars, inVars
  <2>2. QED
    BY <1>1, <2>1
    DEF IInv, Accounted, OneWriter, SourceStable, Queued, HeldFull, Writing
<1>6. QED
  BY <1>1, <1>2, <1>3, <1>4, <1>5 DEF Next, IInv

\* The strengthened invariant holds in every reachable state of the circuit.
THEOREM Inductive == Spec => []IInv
<1>1. Init => IInv
  BY InductiveInit
<1>2. IInv /\ [Next]_vars => IInv'
  BY InductiveStep
<1>3. QED
  BY <1>1, <1>2, PTL DEF Spec

\* Every input buffer is accounted for exactly once: no credit is lost or
\* doubled, whatever the number of ports and buffers.
THEOREM CreditsAccounted == Spec => []Accounted
<1>1. IInv => Accounted
  BY DEF IInv
<1>2. QED
  BY <1>1, Inductive, PTL

\* No transfer writes a full or held input buffer.
THEOREM NeverOverwritten == Spec => []NoOverwrite
<1>1. IInv => NoOverwrite
  BY DEF IInv, Accounted, HeldFull, NoOverwrite
<1>2. QED
  BY <1>1, Inductive, PTL

\* Two transfers never write the same input buffer.
THEOREM SingleWriter == Spec => []OneWriter
<1>1. IInv => OneWriter
  BY DEF IInv
<1>2. QED
  BY <1>1, Inductive, PTL

\* A buffer being transferred is in nobody else's hands.
THEOREM SourcesStable == Spec => []SourceStable
<1>1. IInv => SourceStable
  BY DEF IInv
<1>2. QED
  BY <1>1, Inductive, PTL

\* What a consumer holds does not change under it: only a transfer writes an
\* input buffer, and none writes a held one.
THEOREM ReadsStable == Spec => ReadStable
<1> DEFINE A == \A p \in InPorts, t \in InTids :
                  inInUse[p][t] => /\ inData'[p][t] = inData[p][t]
                                   /\ inMeta'[p][t] = inMeta[p][t]
<1>1. IInv /\ [Next]_vars => [A]_vars
  <2> SUFFICES ASSUME IInv, [Next]_vars, NEW p \in InPorts, NEW t \in InTids,
                      inInUse[p][t]
               PROVE  inData'[p][t] = inData[p][t] /\ inMeta'[p][t] = inMeta[p][t]
    OBVIOUS
  <2>1. \A b \in OutTids : ~Writing(b, p, t)
    BY DEF IInv, Accounted, HeldFull
  <2>2. ASSUME NEW b \in OutTids, NEW q \in InPorts, MoveData(b, q) \/ MoveMeta(b, q)
        PROVE  inData'[p][t] = inData[p][t] /\ inMeta'[p][t] = inMeta[p][t]
    <3>1. ~(q = p /\ target[b] = t)
      BY <2>1, <2>2 DEF MoveData, MoveMeta, Writing
    <3>2. target[b] \in InTids
      BY DEF IInv, TypeOK
    <3>3. CASE MoveData(b, q)
      BY <3>1, <3>2, <3>3 DEF MoveData, IInv, TypeOK
    <3>4. CASE MoveMeta(b, q)
      BY <3>1, <3>2, <3>4 DEF MoveMeta, IInv, TypeOK
    <3>5. QED
      BY <2>2, <3>3, <3>4
  <2>3. CASE UNCHANGED <<inData, inMeta>>
    BY <2>3
  <2>4. QED
    BY <2>2, <2>3
    DEF Next, OutputNext, DriverNext, InputNext, vars, inVars,
        GetNextEmptyOutputBuffer, SendOutputBuffer, CheckQueuedTransfers,
        MoveFlag, MoveReply, GetNextFullInputBuffer, InputAvailable
<1>2. QED
  BY <1>1, Inductive, PTL DEF Spec, ReadStable

-----------------------------------------------------------------------------
(***************************************************************************)
(* Order: the circuit implements the safety half of module Stream.         *)
(*                                                                         *)
(* Three rings are walked round separately: the output side's next target, *)
(* each port's next buffer, and the buffers themselves, which come back in *)
(* any order.  The invariant counts the messages whose transfer has been   *)
(* started and those each port has seen.  The ones in between are each in  *)
(* their own slot, on the way or arrived, and are never more than the ring *)
(* has slots, so that the next full buffer holds the next message.         *)
(***************************************************************************)

\* The messages whose transfer has been started, and those a port has seen.
Started == nSent - Len(queuedTransfers)
Seen(p) == Len(got[p])

\* Slot t of port p has a message that its consumer has not seen.
Pending(p, t) ==
  \/ \E b \in OutTids : Writing(b, p, t)
  \/ bufferFull[p][t] /\ ~inInUse[p][t]

\* The buffer of the ring that message k goes to.
Slot(k) == (k - 1) % NumIn

\* The messages whose transfer was started and which port p has not seen.
Unseen(p) == Seen(p) + 1 .. Started

\* The queue holds the messages after those, in order.
QueueOrder ==
  /\ Started \in Nat
  /\ \A i \in DOMAIN queuedTransfers : outMsg[queuedTransfers[i]] = Started + i

\* Both sides' positions are their counts, and less than a round apart.
Positions ==
  /\ nextTid = Started % NumIn
  /\ \A p \in InPorts : /\ NextOrd(p) = Seen(p) % NumIn
                        /\ Seen(p) <= Started
                        /\ Started <= Seen(p) + NumIn

\* A transfer under way carries an unseen message to its own slot, and what it
\* has written there so far is that message's.
UnderWay ==
  \A b \in OutTids, p \in InPorts :
    stage[b][p] # "done" =>
      /\ outMsg[b] \in Unseen(p)
      /\ target[b] = Slot(outMsg[b])
      /\ stage[b][p] # "data" => inData[p][target[b]] = outMsg[b]
      /\ stage[b][p] = "flag" => inMeta[p][target[b]] = outMsg[b]

\* A full buffer that nobody holds has an unseen message, in its own slot.
Arrived ==
  \A p \in InPorts, t \in InTids :
    bufferFull[p][t] /\ ~inInUse[p][t] =>
      /\ inData[p][t] \in Unseen(p)
      /\ inMeta[p][t] = inData[p][t]
      /\ t = Slot(inData[p][t])

\* Every unseen message is in its slot, or on its way there.
NoneMissing == \A p \in InPorts : \A k \in Unseen(p) : Pending(p, Slot(k))

OInv == QueueOrder /\ Positions /\ UnderWay /\ Arrived /\ NoneMissing

-----------------------------------------------------------------------------
(* What the types say of the counts *)

LEMMA Counts ==
  ASSUME TypeOK
  PROVE  /\ nSent \in Nat /\ Len(queuedTransfers) \in Nat
         /\ \A p \in InPorts : Seen(p) \in Nat
         /\ NumIn \in Nat \ {0} /\ NumOut \in Nat \ {0}
<1>1. \A p \in InPorts : got[p] \in Seq([data : Content, meta : Content])
  BY DEF TypeOK
<1>2. queuedTransfers \in Seq(OutTids) /\ nSent \in 0 .. MaxMessages
  BY DEF TypeOK
<1>3. QED
  BY <1>1, <1>2, CircuitAssumption DEF Seen

\* An unseen message has a slot on the ring.
LEMMA SlotOnRing ==
  ASSUME TypeOK, QueueOrder, NEW p \in InPorts, NEW k \in Unseen(p)
  PROVE  Slot(k) \in InTids
<1> DEFINE j == k - 1
<1>1. j \in Nat /\ NumIn \in Nat \ {0}
  BY Counts DEF Unseen, QueueOrder
<1>2. Slot(k) = j % NumIn
  BY DEF Slot
<1> HIDE DEF j
<1>3. QED
  BY <1>1, <1>2, OnRing DEF InTids

\* When the next slot is free at every port, no port is a whole round behind.
LEMMA RoomInRing ==
  ASSUME IInv, OInv, CanProduce, NEW p \in InPorts
  PROVE  Started < Seen(p) + NumIn
<1>1. /\ Seen(p) \in Nat /\ NumIn \in Nat \ {0} /\ Started \in Nat
  BY Counts DEF IInv, OInv, QueueOrder
<1>2. SUFFICES ASSUME Started = Seen(p) + NumIn
               PROVE  FALSE
  BY <1>1 DEF OInv, Positions
<1>3. Pending(p, Slot(Seen(p) + 1))
  BY <1>1, <1>2 DEF OInv, NoneMissing, Unseen
<1>4. Slot(Seen(p) + 1) = Seen(p) % NumIn
  BY <1>1 DEF Slot
<1>5. nextTid = Seen(p) % NumIn
  BY <1>1, <1>2, RoundTrip DEF OInv, Positions
<1>6. Pending(p, nextTid) /\ nextTid \in InTids
  BY <1>3, <1>4, <1>5 DEF IInv, TypeOK
<1>7. shadowFull[p][nextTid]
  BY <1>6 DEF IInv, Accounted, Pending
<1>8. QED
  BY <1>7 DEF CanProduce

\* The transfer of the message after the last one started.
LEMMA ProduceOrder ==
  ASSUME IInv, OInv, CanProduce, NEW b \in OutTids, Produce(b),
         \A p \in InPorts : stage[b][p] = "done",
         Started' = Started + 1,
         outMsg'[b] = Started + 1,
         \A c \in OutTids : c # b => outMsg'[c] = outMsg[c],
         UNCHANGED inVars
  PROVE  Positions' /\ UnderWay' /\ Arrived' /\ NoneMissing'
<1>1. /\ NumIn \in Nat \ {0} /\ Started \in Nat
      /\ \A p \in InPorts : Seen(p) \in Nat
  BY Counts DEF IInv, OInv, QueueOrder
<1>2. \A p \in InPorts : Seen(p)' = Seen(p)
  BY DEF inVars, Seen
<1>3. \A p \in InPorts : Unseen(p)' = Unseen(p) \cup {Started + 1}
  BY <1>1, <1>2 DEF Unseen, OInv, Positions
<1>4. Positions'
  <2>1. nextTid' = (Started + 1) % NumIn
    BY <1>1, StepOnRing DEF Produce, OInv, Positions
  <2>2. \A p \in InPorts : NextOrd(p)' = NextOrd(p)
    BY DEF inVars, NextOrd
  <2>3. \A p \in InPorts : /\ Seen(p) <= Started + 1
                           /\ Started + 1 <= Seen(p) + NumIn
    BY <1>1, RoomInRing DEF OInv, Positions
  <2>4. QED
    BY <1>2, <2>1, <2>2, <2>3 DEF OInv, Positions
<1>5. \A c \in OutTids, p \in InPorts :
        c # b => stage'[c][p] = stage[c][p] /\ target'[c] = target[c]
  BY DEF Produce, IInv, TypeOK
<1>6. target'[b] = Slot(Started + 1) /\ \A p \in InPorts : stage'[b][p] = "data"
  BY <1>1 DEF Produce, IInv, TypeOK, OInv, Positions, Slot
<1>7. UnderWay'
  <2> SUFFICES ASSUME NEW c \in OutTids, NEW p \in InPorts, stage'[c][p] # "done"
               PROVE  /\ outMsg'[c] \in Unseen(p)'
                      /\ target'[c] = Slot(outMsg'[c])
                      /\ stage'[c][p] # "data" => inData'[p][target'[c]] = outMsg'[c]
                      /\ stage'[c][p] = "flag" => inMeta'[p][target'[c]] = outMsg'[c]
    BY DEF UnderWay, Slot
  <2>1. CASE c = b
    BY <1>3, <1>6, <2>1
  <2>2. CASE c # b
    BY <1>3, <1>5, <2>2 DEF OInv, UnderWay, inVars
  <2>3. QED
    BY <2>1, <2>2
<1>8. Arrived'
  <2> SUFFICES ASSUME NEW p \in InPorts, NEW t \in InTids,
                      bufferFull'[p][t] /\ ~inInUse'[p][t]
               PROVE  /\ inData'[p][t] \in Unseen(p)'
                      /\ inMeta'[p][t] = inData'[p][t]
                      /\ t = Slot(inData'[p][t])
    BY DEF Arrived, Slot
  <2>1. QED
    BY <1>3 DEF OInv, Arrived, inVars
<1>9. NoneMissing'
  <2> SUFFICES ASSUME NEW p \in InPorts, NEW k \in Unseen(p)'
               PROVE  Pending(p, Slot(k))'
    BY DEF NoneMissing
  <2>1. Slot(k)' = Slot(k)
    BY DEF Slot
  <2>2. CASE k = Started + 1
    <3>1. Writing(b, p, Slot(k))'
      BY <1>6, <2>1, <2>2 DEF Writing
    <3>2. QED
      BY <2>1, <3>1 DEF Pending
  <2>3. CASE k # Started + 1
    <3>1. Pending(p, Slot(k))
      BY <1>3, <2>3 DEF OInv, NoneMissing
    <3>2. \A c \in OutTids : Writing(c, p, Slot(k)) => Writing(c, p, Slot(k))'
      BY <1>5, <2>1 DEF Writing
    <3>3. QED
      BY <2>1, <3>1, <3>2 DEF Pending, inVars
  <2>4. QED
    BY <2>2, <2>3
<1>10. QED
  BY <1>4, <1>7, <1>8, <1>9

-----------------------------------------------------------------------------
(* The order is kept, one lemma per action that can disturb it *)

\* A new message is started, or goes to the end of the queue.
LEMMA SendOrder ==
  ASSUME IInv, OInv, NEW b \in OutTids, SendOutputBuffer(b)
  PROVE  OInv'
<1>1. /\ Started \in Nat /\ nSent \in Nat /\ Len(queuedTransfers) \in Nat
      /\ queuedTransfers \in Seq(OutTids)
  BY Counts DEF IInv, TypeOK, OInv, QueueOrder
<1>2. /\ \A p \in InPorts : stage[b][p] = "done"
      /\ \A i \in DOMAIN queuedTransfers : queuedTransfers[i] # b
      /\ nSent' = nSent + 1 /\ outMsg'[b] = nSent + 1
      /\ \A c \in OutTids : c # b => outMsg'[c] = outMsg[c]
      /\ UNCHANGED inVars
  BY DEF SendOutputBuffer, Held, IInv, SourceStable, TypeOK
<1>3. CASE CanTransferBuffer /\ Produce(b) /\ UNCHANGED queuedTransfers
  <2>1. /\ CanProduce /\ queuedTransfers = <<>> /\ queuedTransfers' = <<>>
        /\ Started = nSent /\ Started' = Started + 1
    BY <1>1, <1>2, <1>3 DEF CanTransferBuffer, Started
  <2>2. Positions' /\ UnderWay' /\ Arrived' /\ NoneMissing'
    BY <1>2, <1>3, <2>1, ProduceOrder
  <2>3. QueueOrder'
    BY <1>1, <2>1 DEF QueueOrder
  <2>4. QED
    BY <2>2, <2>3 DEF OInv
<1>4. CASE /\ queuedTransfers' = Append(queuedTransfers, b)
           /\ UNCHANGED <<inUse, ctlVars>>
  <2>1. Len(queuedTransfers') = Len(queuedTransfers) + 1 /\ Started' = Started
    BY <1>1, <1>2, <1>4 DEF Started
  <2>2. QueueOrder'
    <3>1. \A i \in DOMAIN queuedTransfers' :
            \/ /\ i \in DOMAIN queuedTransfers
               /\ queuedTransfers'[i] = queuedTransfers[i]
               /\ queuedTransfers[i] \in OutTids
            \/ i = Len(queuedTransfers) + 1 /\ queuedTransfers'[i] = b
      BY <1>1, <1>4
    <3>2. nSent + 1 = Started + (Len(queuedTransfers) + 1)
      BY <1>1 DEF Started
    <3>3. QED
      BY <1>2, <2>1, <3>1, <3>2 DEF OInv, QueueOrder
  <2>3. \A p \in InPorts : Seen(p)' = Seen(p) /\ Unseen(p)' = Unseen(p)
    BY <1>2, <2>1 DEF Seen, Unseen, inVars
  <2>4. Positions'
    BY <1>2, <1>4, <2>1, <2>3 DEF OInv, Positions, NextOrd, inVars, ctlVars
  <2>5. UnderWay'
    BY <1>2, <1>4, <2>3 DEF OInv, UnderWay, Slot, inVars, ctlVars
  <2>6. Arrived'
    BY <1>2, <2>3 DEF OInv, Arrived, Slot, inVars
  <2>7. NoneMissing'
    BY <1>2, <1>4, <2>3 DEF OInv, NoneMissing, Pending, Writing, Slot, inVars, ctlVars
  <2>8. QED
    BY <2>2, <2>4, <2>5, <2>6, <2>7 DEF OInv
<1>5. QED
  BY <1>3, <1>4 DEF SendOutputBuffer

\* The queue's head is the next message to be started.
LEMMA CheckQueuedOrder ==
  ASSUME IInv, OInv, CheckQueuedTransfers
  PROVE  OInv'
<1> DEFINE b == Head(queuedTransfers)
<1>1. /\ Started \in Nat /\ nSent \in Nat /\ Len(queuedTransfers) \in Nat
      /\ queuedTransfers \in Seq(OutTids) /\ queuedTransfers # <<>>
  BY Counts DEF IInv, TypeOK, OInv, QueueOrder, CheckQueuedTransfers
<1>2. /\ b \in OutTids
      /\ 1 \in DOMAIN queuedTransfers /\ queuedTransfers[1] = b
      /\ Len(Tail(queuedTransfers)) = Len(queuedTransfers) - 1
      /\ \A i \in DOMAIN Tail(queuedTransfers) :
           /\ i \in Nat
           /\ i + 1 \in DOMAIN queuedTransfers
           /\ Tail(queuedTransfers)[i] = queuedTransfers[i + 1]
  BY <1>1
<1>3. /\ CanProduce /\ Produce(b)
      /\ queuedTransfers' = Tail(queuedTransfers)
      /\ UNCHANGED <<nSent, outMsg, inVars>>
  BY DEF CheckQueuedTransfers
<1> HIDE DEF b
<1>4. Started' = Started + 1
  BY <1>1, <1>2, <1>3 DEF Started
<1>5. \A p \in InPorts : stage[b][p] = "done"
  BY <1>2 DEF IInv, Queued, SourceStable
<1>6. outMsg'[b] = Started + 1
  BY <1>2, <1>3 DEF OInv, QueueOrder
<1>7. Positions' /\ UnderWay' /\ Arrived' /\ NoneMissing'
  BY <1>2, <1>3, <1>4, <1>5, <1>6, ProduceOrder
<1>8. QueueOrder'
  BY <1>1, <1>2, <1>3, <1>4 DEF OInv, QueueOrder
<1>9. QED
  BY <1>7, <1>8 DEF OInv

\* What a transfer writes goes to its own slot, which nothing else uses.
LEMMA MoveOrder ==
  ASSUME IInv, OInv, NEW b \in OutTids, NEW p \in InPorts,
         MoveData(b, p) \/ MoveMeta(b, p) \/ MoveFlag(b, p)
  PROVE  OInv'
<1> DEFINE t == target[b]
<1>1. /\ UNCHANGED <<nSent, queuedTransfers, outMsg, nextTid, target,
                     lastBufferOrd, inInUse, got>>
      /\ stage[b][p] # "done" /\ t \in InTids
  BY DEF MoveData, MoveMeta, MoveFlag, outVars, IInv, TypeOK
<1>2. /\ Started' = Started
      /\ \A q \in InPorts : Seen(q)' = Seen(q) /\ Unseen(q)' = Unseen(q)
  BY <1>1 DEF Started, Seen, Unseen
<1>3. QueueOrder' /\ Positions'
  BY <1>1, <1>2 DEF OInv, QueueOrder, Positions, NextOrd
<1>4. /\ ~bufferFull[p][t] /\ ~inInUse[p][t]
      /\ \A c \in OutTids : c # b /\ stage[c][p] # "done" => target[c] # t
  BY <1>1 DEF IInv, Accounted, OneWriter, HeldFull, Writing
<1>5. \A c \in OutTids, q \in InPorts :
        c # b \/ q # p => stage'[c][q] = stage[c][q]
  BY DEF MoveData, MoveMeta, MoveFlag, IInv, TypeOK
<1>6. \A q \in InPorts, u \in InTids :
        q # p \/ u # t => /\ inData'[q][u] = inData[q][u]
                          /\ inMeta'[q][u] = inMeta[q][u]
                          /\ bufferFull'[q][u] = bufferFull[q][u]
  BY DEF MoveData, MoveMeta, MoveFlag, IInv, TypeOK
<1>7. outMsg[b] \in Unseen(p) /\ t = Slot(outMsg[b])
  BY <1>1 DEF OInv, UnderWay
<1>8. \/ /\ stage'[b][p] = "meta" /\ inData'[p][t] = outMsg[b]
         /\ ~bufferFull'[p][t]
      \/ /\ stage'[b][p] = "flag" /\ inData'[p][t] = outMsg[b]
         /\ inMeta'[p][t] = outMsg[b] /\ ~bufferFull'[p][t]
      \/ /\ stage'[b][p] = "done" /\ inData'[p][t] = outMsg[b]
         /\ inMeta'[p][t] = outMsg[b] /\ bufferFull'[p][t]
  <2>1. CASE MoveData(b, p)
    BY <1>1, <1>4, <2>1 DEF MoveData, IInv, TypeOK
  <2>2. CASE MoveMeta(b, p)
    BY <1>1, <1>4, <2>2 DEF MoveMeta, IInv, TypeOK, OInv, UnderWay
  <2>3. CASE MoveFlag(b, p)
    BY <1>1, <1>4, <2>3 DEF MoveFlag, IInv, TypeOK, OInv, UnderWay
  <2>4. QED
    BY <2>1, <2>2, <2>3
<1> HIDE DEF t
<1>9. UnderWay'
  <2> SUFFICES ASSUME NEW c \in OutTids, NEW q \in InPorts, stage'[c][q] # "done"
               PROVE  /\ outMsg'[c] \in Unseen(q)'
                      /\ target'[c] = Slot(outMsg'[c])
                      /\ stage'[c][q] # "data" => inData'[q][target'[c]] = outMsg'[c]
                      /\ stage'[c][q] = "flag" => inMeta'[q][target'[c]] = outMsg'[c]
    BY DEF UnderWay, Slot
  <2>1. CASE c = b /\ q = p
    BY <1>1, <1>2, <1>7, <1>8, <2>1 DEF t
  <2>2. CASE c # b \/ q # p
    <3>1. stage'[c][q] = stage[c][q] /\ target[c] \in InTids
      BY <1>5, <2>2 DEF IInv, TypeOK
    <3>2. q # p \/ target[c] # t
      BY <1>4, <2>2, <3>1
    <3>3. QED
      BY <1>1, <1>2, <1>6, <3>1, <3>2 DEF OInv, UnderWay
  <2>3. QED
    BY <2>1, <2>2
<1>10. Arrived'
  <2> SUFFICES ASSUME NEW q \in InPorts, NEW u \in InTids,
                      bufferFull'[q][u] /\ ~inInUse'[q][u]
               PROVE  /\ inData'[q][u] \in Unseen(q)'
                      /\ inMeta'[q][u] = inData'[q][u]
                      /\ u = Slot(inData'[q][u])
    BY DEF Arrived, Slot
  <2>1. CASE q = p /\ u = t
    BY <1>2, <1>7, <1>8, <2>1
  <2>2. CASE q # p \/ u # t
    BY <1>1, <1>2, <1>6, <2>2 DEF OInv, Arrived
  <2>3. QED
    BY <2>1, <2>2
<1>11. NoneMissing'
  <2> SUFFICES ASSUME NEW q \in InPorts, NEW k \in Unseen(q)
               PROVE  Pending(q, Slot(k))'
    BY <1>2 DEF NoneMissing
  <2> DEFINE u == Slot(k)
  <2>1. u' = u /\ Pending(q, u)
    BY DEF Slot, OInv, NoneMissing
  <2>2. u \in InTids
    BY SlotOnRing DEF IInv, OInv
  <2> HIDE DEF u
  <2>3. CASE q = p /\ u = t
    <3>1. Writing(b, q, u)' \/ (bufferFull'[q][u] /\ ~inInUse'[q][u])
      BY <1>1, <1>4, <1>8, <2>1, <2>3 DEF Writing, t
    <3>2. QED
      BY <2>1, <3>1 DEF Pending, u
  <2>4. CASE ~(q = p /\ u = t)
    <3>1. \A c \in OutTids : Writing(c, q, u) => Writing(c, q, u)'
      BY <1>1, <1>5, <2>1, <2>4 DEF Writing, t
    <3>2. bufferFull'[q][u] = bufferFull[q][u] /\ inInUse'[q][u] = inInUse[q][u]
      BY <1>1, <1>6, <2>2, <2>4
    <3>3. QED
      BY <2>1, <3>1, <3>2 DEF Pending, u
  <2>5. QED
    BY <2>3, <2>4
<1>12. QED
  BY <1>3, <1>9, <1>10, <1>11 DEF OInv

\* The next full buffer holds the next message.
LEMMA NextFull ==
  ASSUME IInv, OInv, NEW p \in InPorts, GetNextFullInputBuffer(p)
  PROVE  /\ Seen(p) + 1 \in Unseen(p)
         /\ NextOrd(p) \in InTids
         /\ Slot(Seen(p) + 1) = NextOrd(p)
         /\ inData[p][NextOrd(p)] = Seen(p) + 1
         /\ inMeta[p][NextOrd(p)] = Seen(p) + 1
<1> DEFINE t == NextOrd(p)
           k == inData[p][t]
           j == k - 1
           g == Seen(p)
<1>1. g \in Nat /\ Started \in Nat /\ NumIn \in Nat \ {0}
  BY Counts DEF IInv, OInv, QueueOrder
<1>2. t = g % NumIn /\ Started <= g + NumIn
  BY DEF OInv, Positions
<1>3. t \in InTids
  BY <1>1, <1>2, OnRing DEF InTids
<1>4. k \in Unseen(p) /\ inMeta[p][t] = k /\ t = Slot(k)
  BY <1>3 DEF GetNextFullInputBuffer, OInv, Arrived
<1>5. j \in Nat /\ g <= j /\ j < g + NumIn /\ k = j + 1
  BY <1>1, <1>2, <1>4 DEF Unseen
<1>6. g % NumIn = j % NumIn
  BY <1>2, <1>4 DEF Slot
<1> HIDE DEF j, g
<1>7. g = j
  BY <1>1, <1>5, <1>6, SamePosition
<1>8. k = Seen(p) + 1
  BY <1>5, <1>7 DEF g
<1>9. QED
  BY <1>3, <1>4, <1>8

\* Taking the next full buffer shows its message.
LEMMA GetNextFullOrder ==
  ASSUME IInv, OInv, NEW p \in InPorts, GetNextFullInputBuffer(p)
  PROVE  OInv'
<1> DEFINE t == NextOrd(p)
<1>1. /\ Started \in Nat /\ NumIn \in Nat \ {0} /\ \A q \in InPorts : Seen(q) \in Nat
      /\ got[p] \in Seq([data : Content, meta : Content])
  BY Counts DEF IInv, TypeOK, OInv, QueueOrder
<1>2. /\ Seen(p) + 1 \in Unseen(p) /\ t \in InTids /\ Slot(Seen(p) + 1) = t
      /\ inData[p][t] = Seen(p) + 1
  BY NextFull
<1>3. /\ UNCHANGED <<outVars, ctlVars, inData, inMeta, bufferFull>>
      /\ bufferFull[p][t]
      /\ \A q \in InPorts, u \in InTids :
           inInUse'[q][u] = IF q = p /\ u = t THEN TRUE ELSE inInUse[q][u]
      /\ \A q \in InPorts : lastBufferOrd'[q] = IF q = p THEN t ELSE lastBufferOrd[q]
  BY <1>2 DEF GetNextFullInputBuffer, IInv, TypeOK
<1>4. /\ Started' = Started
      /\ Seen(p)' = Seen(p) + 1
      /\ \A q \in InPorts : q # p => Seen(q)' = Seen(q)
  <2>1. Started' = Started
    BY <1>3 DEF Started, outVars
  <2>2. got'[p] = Append(got[p], [data |-> inData[p][t], meta |-> inMeta[p][t]])
    BY DEF GetNextFullInputBuffer, IInv, TypeOK
  <2>3. \A q \in InPorts : q # p => got'[q] = got[q]
    BY DEF GetNextFullInputBuffer, IInv, TypeOK
  <2>4. QED
    BY <1>1, <2>1, <2>2, <2>3 DEF Seen
<1>5. /\ \A q \in InPorts : q # p => Unseen(q)' = Unseen(q)
      /\ Unseen(p)' = Unseen(p) \ {Seen(p) + 1}
  BY <1>1, <1>2, <1>4 DEF Unseen
<1>6. \A b \in OutTids : ~Writing(b, p, t)
  BY <1>2, <1>3 DEF IInv, Accounted
<1> HIDE DEF t
<1>7. QueueOrder'
  BY <1>3, <1>4 DEF OInv, QueueOrder, outVars
<1>8. Positions'
  <2>1. NextOrd(p)' = (Seen(p) + 1) % NumIn
    <3>1. NextOrd(p)' = (t + 1) % NumIn
      BY <1>3 DEF NextOrd
    <3>2. t = Seen(p) % NumIn
      BY DEF t, OInv, Positions
    <3>3. QED
      BY <1>1, <3>1, <3>2, StepOnRing
  <2>2. Seen(p) + 1 <= Started /\ Started <= Seen(p) + 1 + NumIn
    BY <1>1, <1>2 DEF Unseen, OInv, Positions
  <2>3. \A q \in InPorts : q # p => NextOrd(q)' = NextOrd(q)
    BY <1>3 DEF NextOrd
  <2>4. nextTid' = nextTid
    BY <1>3 DEF ctlVars
  <2>5. ASSUME NEW q \in InPorts
        PROVE  /\ NextOrd(q)' = Seen(q)' % NumIn
               /\ Seen(q)' <= Started' /\ Started' <= Seen(q)' + NumIn
    BY <1>4, <2>1, <2>2, <2>3, <2>5 DEF OInv, Positions
  <2>6. QED
    BY <1>4, <2>4, <2>5 DEF OInv, Positions
<1>9. UnderWay'
  <2> SUFFICES ASSUME NEW b \in OutTids, NEW q \in InPorts, stage[b][q] # "done"
               PROVE  outMsg[b] \in Unseen(q)'
    BY <1>3 DEF OInv, UnderWay, Slot, outVars, ctlVars
  <2>1. outMsg[b] \in Unseen(q) /\ target[b] = Slot(outMsg[b])
    BY DEF OInv, UnderWay
  <2>2. q = p => outMsg[b] # Seen(p) + 1
    BY <1>2, <1>6, <2>1 DEF Writing
  <2>3. QED
    BY <1>5, <2>1, <2>2
<1>10. Arrived'
  <2> SUFFICES ASSUME NEW q \in InPorts, NEW u \in InTids,
                      bufferFull[q][u], ~inInUse'[q][u]
               PROVE  /\ inData[q][u] \in Unseen(q)'
                      /\ inMeta[q][u] = inData[q][u]
                      /\ u = Slot(inData[q][u])
    BY <1>3 DEF Arrived, Slot
  <2>1. /\ ~inInUse[q][u] /\ (q # p \/ u # t)
    BY <1>3
  <2>2. /\ inData[q][u] \in Unseen(q)
        /\ inMeta[q][u] = inData[q][u]
        /\ u = Slot(inData[q][u])
    BY <2>1 DEF OInv, Arrived
  <2>3. q = p => inData[q][u] # Seen(p) + 1
    BY <1>2, <2>1, <2>2
  <2>4. QED
    BY <1>5, <2>2, <2>3
<1>11. NoneMissing'
  <2> SUFFICES ASSUME NEW q \in InPorts, NEW k \in Unseen(q)'
               PROVE  Pending(q, Slot(k))'
    BY DEF NoneMissing
  <2>1. /\ k \in Unseen(q) /\ (q = p => k # Seen(p) + 1)
        /\ Slot(k)' = Slot(k)
    BY <1>5 DEF Slot
  <2>2. Slot(k) \in InTids
    BY <2>1, SlotOnRing DEF IInv, OInv
  <2>3. q = p => Slot(k) # t
    <3> SUFFICES ASSUME q = p, Slot(k) = t
                 PROVE  FALSE
      OBVIOUS
    <3> DEFINE g == Seen(p)
               j == k - 1
    <3>0. k \in Unseen(p) /\ Seen(p) \in Nat /\ Started <= Seen(p) + NumIn
      BY <1>1, <2>1 DEF OInv, Positions
    <3>1. /\ g \in Nat /\ j \in Nat /\ g <= j /\ j < g + NumIn /\ k = j + 1
      BY <1>1, <3>0 DEF Unseen
    <3>2. g % NumIn = j % NumIn
      BY DEF t, Slot, OInv, Positions
    <3> HIDE DEF g, j
    <3>3. g = j
      BY <1>1, <3>1, <3>2, SamePosition
    <3>4. QED
      BY <2>1, <3>1, <3>3 DEF g
  <2>4. Pending(q, Slot(k))
    BY <2>1 DEF OInv, NoneMissing
  <2>5. \A b \in OutTids : Writing(b, q, Slot(k)) => Writing(b, q, Slot(k))'
    BY <1>3, <2>1 DEF Writing, ctlVars
  <2>6. QED
    BY <1>3, <2>1, <2>2, <2>3, <2>4, <2>5 DEF Pending
<1>12. QED
  BY <1>7, <1>8, <1>9, <1>10, <1>11 DEF OInv

\* Releasing a buffer shows nothing and takes nothing away.
LEMMA InputAvailableOrder ==
  ASSUME IInv, OInv, NEW p \in InPorts, NEW t \in InTids, InputAvailable(p, t)
  PROVE  OInv'
<1>1. /\ UNCHANGED <<outVars, ctlVars, lastBufferOrd, inData, inMeta, got>>
      /\ bufferFull[p][t] /\ inInUse[p][t]
      /\ \A q \in InPorts, u \in InTids :
           /\ bufferFull'[q][u] = IF q = p /\ u = t THEN FALSE ELSE bufferFull[q][u]
           /\ inInUse'[q][u] = IF q = p /\ u = t THEN FALSE ELSE inInUse[q][u]
  BY DEF InputAvailable, IInv, TypeOK, HeldFull
<1>2. Started' = Started /\ \A q \in InPorts : Seen(q)' = Seen(q) /\ Unseen(q)' = Unseen(q)
  BY <1>1 DEF Started, Seen, Unseen, outVars
<1>3. QueueOrder' /\ Positions' /\ UnderWay'
  BY <1>1, <1>2
  DEF OInv, QueueOrder, Positions, UnderWay, NextOrd, Slot, outVars, ctlVars
<1>4. Arrived'
  BY <1>1, <1>2 DEF OInv, Arrived, Slot
<1>5. NoneMissing'
  <2> SUFFICES ASSUME NEW q \in InPorts, NEW k \in Unseen(q)
               PROVE  Pending(q, Slot(k))'
    BY <1>2 DEF NoneMissing
  <2>1. Pending(q, Slot(k)) /\ Slot(k)' = Slot(k) /\ Slot(k) \in InTids
    BY SlotOnRing DEF IInv, OInv, NoneMissing, Slot
  <2>2. \A b \in OutTids : Writing(b, q, Slot(k)) => Writing(b, q, Slot(k))'
    BY <1>1, <2>1 DEF Writing, ctlVars
  <2>3. QED
    BY <1>1, <2>1, <2>2 DEF Pending
<1>6. QED
  BY <1>3, <1>4, <1>5 DEF OInv

\* The other steps do not touch what the order depends on.
LEMMA OtherOrder ==
  ASSUME IInv, OInv,
         \/ GetNextEmptyOutputBuffer
         \/ \E p \in InPorts, t \in InTids : MoveReply(p, t)
         \/ UNCHANGED vars
  PROVE  OInv'
<1>1. UNCHANGED <<nSent, queuedTransfers, outMsg, nextTid, target, stage, lastBufferOrd,
                  inData, inMeta, bufferFull, inInUse, got>>
  BY DEF GetNextEmptyOutputBuffer, MoveReply, vars, outVars, ctlVars, inVars
<1>2. Started' = Started /\ \A q \in InPorts : Seen(q)' = Seen(q) /\ Unseen(q)' = Unseen(q)
  BY <1>1 DEF Started, Seen, Unseen
<1>3. QueueOrder' /\ Positions' /\ UnderWay' /\ Arrived'
  BY <1>1, <1>2 DEF OInv, QueueOrder, Positions, UnderWay, Arrived, NextOrd, Slot
<1>4. NoneMissing'
  BY <1>1, <1>2 DEF OInv, NoneMissing, Pending, Writing, Slot
<1>5. QED
  BY <1>3, <1>4 DEF OInv

\* Nothing was sent at the start.
LEMMA OrderInit == Init => OInv
<1> SUFFICES ASSUME Init
             PROVE  OInv
  OBVIOUS
<1>1. /\ Started = 0 /\ NumIn \in Nat \ {0}
      /\ \A p \in InPorts : Seen(p) = 0 /\ Unseen(p) = {}
  <2>1. nSent = 0 /\ queuedTransfers = <<>> /\ \A p \in InPorts : got[p] = <<>>
    BY DEF Init
  <2>2. Len(queuedTransfers) = 0 /\ \A p \in InPorts : Len(got[p]) = 0
    BY <2>1
  <2>3. Started = 0
    <3> DEFINE queued == Len(queuedTransfers)
    <3>1. nSent = 0 /\ queued = 0
      BY <2>1, <2>2
    <3>2. Started = nSent - queued
      BY DEF Started
    <3> HIDE DEF queued
    <3>3. QED
      BY <3>1, <3>2
  <2>4. \A p \in InPorts : Seen(p) = 0
    BY <2>2 DEF Seen
  <2>5. \A p \in InPorts : Unseen(p) = 1 .. 0
    BY <2>3, <2>4 DEF Unseen
  <2>6. NumIn \in Nat \ {0}
    BY CircuitAssumption
  <2>7. 1 .. 0 = {}
    OBVIOUS
  <2>8. QED
    BY <2>3, <2>4, <2>5, <2>6, <2>7
<1>2. 0 % NumIn = 0
  BY <1>1, PositionIs
<1>3. Positions
  BY <1>1, <1>2 DEF Init, Positions, NextOrd
<1>4. QED
  BY <1>1, <1>3 DEF Init, OInv, QueueOrder, UnderWay, Arrived, NoneMissing

\* Every step keeps the order.
LEMMA OrderStep ==
  ASSUME IInv, OInv, [Next]_vars
  PROVE  OInv'
<1>1. CASE OutputNext
  BY <1>1, OtherOrder, SendOrder, CheckQueuedOrder DEF OutputNext
<1>2. CASE DriverNext
  BY <1>2, MoveOrder, OtherOrder DEF DriverNext
<1>3. CASE InputNext
  BY <1>3, GetNextFullOrder, InputAvailableOrder DEF InputNext
<1>4. QED
  BY <1>1, <1>2, <1>3, OtherOrder DEF Next

\* Every message whose transfer was started, and which a port has not seen, is
\* in its own slot there, with its own content.
THEOREM InSlots == Spec => []OInv
<1>1. Init => IInv /\ OInv
  BY InductiveInit, OrderInit
<1>2. (IInv /\ OInv) /\ [Next]_vars => (IInv /\ OInv)'
  BY InductiveStep, OrderStep
<1>3. QED
  BY <1>1, <1>2, PTL DEF Spec

-----------------------------------------------------------------------------
(* The refinement *)

\* What has been sent, as the promise sees it.
Sent == [k \in 1 .. nSent |-> [data |-> k, meta |-> k]]

\* A producer that holds a buffer cannot have queued all of them.
LEMMA QueueHasRoom ==
  ASSUME IInv, NEW b \in OutTids, Held(b)
  PROVE  Len(queuedTransfers) < NumOut
<1> DEFINE n == Len(queuedTransfers)
           T == OutTids \ {b}
<1>1. /\ queuedTransfers \in Seq(OutTids) /\ n \in Nat /\ NumOut \in Nat \ {0}
  BY Counts DEF IInv, TypeOK
<1>2. /\ IsFiniteSet(OutTids) /\ Cardinality(OutTids) = NumOut
  <2>1. NumOut - 1 \in Int /\ 0 \in Int
    BY <1>1
  <2>2. QED
    BY <1>1, <2>1, FS_Interval DEF OutTids
<1>3. IsFiniteSet(T) /\ Cardinality(T) = NumOut - 1
  BY <1>2, FS_RemoveElement
<1>4. IsFiniteSet(1 .. n) /\ Cardinality(1 .. n) = n
  BY <1>1, FS_Interval
<1>5. queuedTransfers \in Injection(1 .. n, T)
  <2>1. queuedTransfers \in [1 .. n -> T]
    BY <1>1 DEF Held
  <2>2. \A i, j \in 1 .. n : queuedTransfers[i] = queuedTransfers[j] => i = j
    BY <1>1 DEF IInv, Queued
  <2>3. QED
    BY <2>1, <2>2 DEF Injection, IsInjective
<1>6. n <= NumOut - 1
  <2> HIDE DEF n, T
  <2>1. Cardinality(1 .. n) <= Cardinality(T)
    BY <1>3, <1>5, FS_Injection
  <2>2. QED
    BY <1>3, <1>4, <2>1
<1>7. QED
  BY <1>1, <1>6

\* SendOutputBuffer appends one message to the stream.
LEMMA SendRefines ==
  ASSUME IInv, OInv, NEW b \in OutTids, SendOutputBuffer(b)
  PROVE  \E m \in [data : Message, meta : Message] :
           /\ \A p \in InPorts : Len(Sent) - Len(got[p]) < NumOut + NumIn
           /\ Sent' = Append(Sent, m)
           /\ UNCHANGED got
<1> DEFINE k == nSent + 1
           m == [data |-> k, meta |-> k]
<1>1. /\ nSent \in Nat /\ k \in Message /\ nSent' = k /\ UNCHANGED got
  BY Counts, CircuitAssumption DEF SendOutputBuffer, inVars, IInv, Message
<1>2. m \in [data : Message, meta : Message]
  BY <1>1
<1>3. Len(Sent) = nSent
  BY <1>1 DEF Sent
<1>4. Sent' = Append(Sent, m)
  <2>1. Sent \in Seq([data : Nat, meta : Nat])
    BY <1>1 DEF Sent
  <2>2. Sent' = [i \in 1 .. nSent + 1 |-> IF i <= nSent THEN Sent[i] ELSE m]
    BY <1>1 DEF Sent
  <2>3. Append(Sent, m) = [i \in 1 .. nSent + 1 |-> IF i <= nSent THEN Sent[i] ELSE m]
    BY <1>1, <1>3, <2>1
  <2>4. QED
    BY <2>2, <2>3
<1>5. ASSUME NEW p \in InPorts
      PROVE  Len(Sent) - Len(got[p]) < NumOut + NumIn
  <2>1. /\ Len(queuedTransfers) < NumOut
        /\ Len(queuedTransfers) \in Nat /\ NumOut \in Nat /\ NumIn \in Nat
        /\ Seen(p) \in Nat
    BY QueueHasRoom, Counts DEF SendOutputBuffer, IInv
  <2>2. Started <= Seen(p) + NumIn /\ Started = nSent - Len(queuedTransfers)
    BY DEF OInv, Positions, Started
  <2>3. QED
    BY <1>1, <1>3, <2>1, <2>2 DEF Seen
<1>6. QED
  BY <1>1, <1>2, <1>4, <1>5

\* GetNextFullInputBuffer delivers the stream's next message to one port.
LEMMA DeliverRefines ==
  ASSUME IInv, OInv, NEW p \in InPorts, GetNextFullInputBuffer(p)
  PROVE  /\ Len(got[p]) < Len(Sent)
         /\ got' = [got EXCEPT ![p] = Append(@, Sent[Len(@) + 1])]
         /\ UNCHANGED Sent
<1>1. /\ nSent \in Nat /\ Len(queuedTransfers) \in Nat /\ Seen(p) \in Nat
      /\ Seen(p) + 1 \in Unseen(p)
      /\ inData[p][NextOrd(p)] = Seen(p) + 1
      /\ inMeta[p][NextOrd(p)] = Seen(p) + 1
  BY Counts, NextFull DEF IInv
<1>2. Len(Sent) = nSent /\ Seen(p) + 1 \in 1 .. nSent
  BY <1>1 DEF Sent, Unseen, Started
<1>3. Sent[Seen(p) + 1] = [data |-> Seen(p) + 1, meta |-> Seen(p) + 1]
  BY <1>2 DEF Sent
<1>4. /\ got' = [got EXCEPT ![p] =
                   Append(@, [data |-> inData[p][NextOrd(p)], meta |-> inMeta[p][NextOrd(p)]])]
      /\ nSent' = nSent
  BY DEF GetNextFullInputBuffer, outVars
<1>5. got' = [got EXCEPT ![p] = Append(@, Sent[Len(@) + 1])]
  BY <1>1, <1>3, <1>4 DEF Seen
<1>6. Len(got[p]) < Len(Sent)
  BY <1>1, <1>2 DEF Seen
<1>7. Sent' = Sent
  BY <1>4 DEF Sent
<1>8. QED
  BY <1>5, <1>6, <1>7

\* The circuit implements the stream: every port is handed the messages sent,
\* intact, once each and in order, and no more are outstanding than there are
\* buffers.
THEOREM Ordered == Spec => InOrder
<1>1. Init => Promise!Init
  <2> SUFFICES ASSUME Init
               PROVE  Sent = <<>> /\ got = [p \in InPorts |-> <<>>]
    BY DEF Promise!Init, Sent
  <2>1. nSent = 0 /\ got = [p \in InPorts |-> <<>>]
    BY DEF Init
  <2>2. QED
    BY <2>1 DEF Sent
<1>2. IInv /\ OInv /\ [Next]_vars => [Promise!Next]_(Promise!streamVars)
  <2> SUFFICES ASSUME IInv, OInv, [Next]_vars
               PROVE  Promise!Next \/ UNCHANGED <<Sent, got>>
    BY DEF Promise!streamVars, Sent
  <2>1. ASSUME NEW b \in OutTids, SendOutputBuffer(b)
        PROVE  Promise!Next
    BY <2>1, SendRefines DEF Promise!Next, Promise!Send, Sent
  <2>2. ASSUME NEW p \in InPorts, GetNextFullInputBuffer(p)
        PROVE  Promise!Next
    BY <2>2, DeliverRefines DEF Promise!Next, Promise!Deliver, Sent
  <2>3. CASE GetNextEmptyOutputBuffer \/ CheckQueuedTransfers
    BY <2>3 DEF GetNextEmptyOutputBuffer, CheckQueuedTransfers, inVars, Sent
  <2>4. CASE DriverNext
    BY <2>4 DEF DriverNext, MoveData, MoveMeta, MoveFlag, MoveReply, outVars, Sent
  <2>5. ASSUME NEW p \in InPorts, NEW t \in InTids, InputAvailable(p, t)
        PROVE  UNCHANGED <<Sent, got>>
    BY <2>5 DEF InputAvailable, outVars, Sent
  <2>6. CASE UNCHANGED vars
    BY <2>6 DEF vars, outVars, inVars, Sent
  <2>7. QED
    BY <2>1, <2>2, <2>3, <2>4, <2>5, <2>6 DEF Next, OutputNext, InputNext
<1>3. QED
  BY <1>1, <1>2, Inductive, InSlots, PTL DEF Spec, InOrder, Promise!Safe
=============================================================================
