------------------------------- MODULE Circuit -------------------------------
(***************************************************************************)
(* One data-transport circuit between a container that owns the output     *)
(* port and the containers that own its input ports, all of them remote:   *)
(* pattern 1 (whole to whole) with the ActiveMessage role on both sides,   *)
(* after the connection handshake.                                         *)
(*                                                                         *)
(* The output side keeps, per input buffer, a local "shadow" of its state: *)
(* it pushes into buffer nextTid only when the shadow says empty at every  *)
(* input port, and marks the shadow full itself.  A transfer moves the     *)
(* data, then the metadata, then the full flag, with the transfer driver,  *)
(* at its own pace.  The input side frees a buffer by clearing its flags   *)
(* and transferring an "empty" flag back onto the shadow.                  *)
(*                                                                         *)
(* Each handler of the output container runs under one mutex, hence is one *)
(* action; the drivers' moves and the input containers interleave freely.  *)
(***************************************************************************)
EXTENDS Integers, Sequences, FiniteSets

CONSTANTS
  InPorts,        \* the input ports of the circuit's input port set
  NumOut,         \* buffers of the output port
  NumIn,          \* buffers of each input port
  MaxMessages     \* bound on the messages sent, for model checking

ASSUME CircuitAssumption ==
  /\ IsFiniteSet(InPorts) /\ InPorts # {}
  /\ NumOut \in Nat \ {0}
  /\ NumIn \in Nat \ {0}
  /\ MaxMessages \in Nat

OutTids == 0 .. NumOut - 1
InTids == 0 .. NumIn - 1
Message == 1 .. MaxMessages        \* the k-th message sent is message k
NoMessage == 0

\* What is left of a transfer to one input port.
Stage == {"data", "meta", "flag", "done"}

VARIABLES
  \* output port
  lastBufferTid,      \* position of the next output buffer to hand out
  inUse,              \* inUse[b]: held by the producer, or queued
  outMsg,             \* outMsg[b]: the content of output buffer b
  queuedTransfers,    \* output buffers sent that could not yet be transferred
  nSent,              \* messages sent so far
  \* transfer controller
  nextTid,            \* the input buffer the next message goes to
  shadowFull,         \* shadowFull[p][t]: the shadow of input buffer t of p
  target,             \* target[b]: the input buffer of b's last transfer
  stage,              \* stage[b][p]: progress of b's transfer to p
  \* input ports
  lastBufferOrd,      \* lastBufferOrd[p]: the last buffer handed out, or -1
  inData, inMeta,     \* content of the input buffers
  bufferFull,         \* bufferFull[p][t]: the flag the output side writes
  inInUse,            \* inInUse[p][t]: held by the consumer
  reply,              \* reply[p][t]: the "empty" flag is on its way back
  got                 \* got[p]: what the consumer of p has been handed

outVars == <<lastBufferTid, inUse, outMsg, queuedTransfers, nSent>>
ctlVars == <<nextTid, shadowFull, target, stage>>
inVars  == <<lastBufferOrd, inData, inMeta, bufferFull, inInUse, reply, got>>
vars == <<outVars, ctlVars, inVars>>

-----------------------------------------------------------------------------
(* Queries of the code *)

\* Mutant: the pending list is given up at its first completed transfer.
OutIsEmptySomePort(b) == \E p \in InPorts : stage[b][p] = "done"

\* OutputBuffer::isEmpty: no transfer of the buffer is pending.
OutIsEmpty(b) == \A p \in InPorts : stage[b][p] = "done"

\* Mutant: one free input port is enough.
CanProduceSomePort == \E p \in InPorts : ~shadowFull[p][nextTid]

\* TransferController1::canProduce: the next input buffer is free everywhere.
CanProduce == \A p \in InPorts : ~shadowFull[p][nextTid]

\* Mutant: a buffer is sent past the queued ones.
CanTransferOvertaking == CanProduce

\* Circuit::canTransferBuffer for a buffer that is just being sent: never
\* overtake a queued one.
CanTransferBuffer == queuedTransfers = <<>> /\ CanProduce

\* The input buffer a port hands out next.
NextOrd(p) == (lastBufferOrd[p] + 1) % NumIn

Held(b) == inUse[b] /\ \A i \in DOMAIN queuedTransfers : queuedTransfers[i] # b

-----------------------------------------------------------------------------
Init ==
  /\ lastBufferTid = 0
  /\ inUse = [b \in OutTids |-> FALSE]
  /\ outMsg = [b \in OutTids |-> NoMessage]
  /\ queuedTransfers = <<>>
  /\ nSent = 0
  /\ nextTid = 0
  /\ shadowFull = [p \in InPorts |-> [t \in InTids |-> FALSE]]
  /\ target = [b \in OutTids |-> 0]
  /\ stage = [b \in OutTids |-> [p \in InPorts |-> "done"]]
  /\ lastBufferOrd = [p \in InPorts |-> -1]
  /\ inData = [p \in InPorts |-> [t \in InTids |-> NoMessage]]
  /\ inMeta = [p \in InPorts |-> [t \in InTids |-> NoMessage]]
  /\ bufferFull = [p \in InPorts |-> [t \in InTids |-> FALSE]]
  /\ inInUse = [p \in InPorts |-> [t \in InTids |-> FALSE]]
  /\ reply = [p \in InPorts |-> [t \in InTids |-> FALSE]]
  /\ got = [p \in InPorts |-> <<>>]

-----------------------------------------------------------------------------
(* Output side *)

\* Port::getNextEmptyOutputBuffer: only the buffer at the ring position is
\* considered.
GetNextEmptyOutputBuffer ==
  LET b == lastBufferTid IN
  /\ OutIsEmpty(b) /\ ~inUse[b]
  /\ inUse' = [inUse EXCEPT ![b] = TRUE]
  /\ lastBufferTid' = (b + 1) % NumOut
  /\ UNCHANGED <<outMsg, queuedTransfers, nSent, ctlVars, inVars>>

\* Mutant: the shadows are not marked full.
ProduceUnmarked(b) ==
  /\ target' = [target EXCEPT ![b] = nextTid]
  /\ stage' = [stage EXCEPT ![b] = [p \in InPorts |-> "data"]]
  /\ inUse' = [inUse EXCEPT ![b] = FALSE]
  /\ nextTid' = (nextTid + 1) % NumIn
  /\ UNCHANGED shadowFull

\* Mutant: the ring position wraps one too late.
ProduceWrapsLate(b) ==
  /\ shadowFull' = [p \in InPorts |-> [shadowFull[p] EXCEPT ![nextTid] = TRUE]]
  /\ target' = [target EXCEPT ![b] = nextTid]
  /\ stage' = [stage EXCEPT ![b] = [p \in InPorts |-> "data"]]
  /\ inUse' = [inUse EXCEPT ![b] = FALSE]
  /\ nextTid' = (nextTid + 1) % (NumIn + 1)

\* Circuit::startBufferTransfer and TransferController1::produce: mark every
\* shadow full, start the transfers, let go of the buffer, advance the ring.
Produce(b) ==
  /\ shadowFull' = [p \in InPorts |-> [shadowFull[p] EXCEPT ![nextTid] = TRUE]]
  /\ target' = [target EXCEPT ![b] = nextTid]
  /\ stage' = [stage EXCEPT ![b] = [p \in InPorts |-> "data"]]
  /\ inUse' = [inUse EXCEPT ![b] = FALSE]
  /\ nextTid' = (nextTid + 1) % NumIn

\* Port::sendOutputBuffer: the producer fills a buffer it holds, in any order
\* of the buffers, and sends it: transferred at once or queued.
SendOutputBuffer(b) ==
  /\ Held(b)
  /\ nSent < MaxMessages
  /\ nSent' = nSent + 1
  /\ outMsg' = [outMsg EXCEPT ![b] = nSent + 1]
  /\ \/ CanTransferBuffer /\ Produce(b) /\ UNCHANGED queuedTransfers
     \/ /\ ~CanTransferBuffer
        /\ queuedTransfers' = Append(queuedTransfers, b)
        /\ UNCHANGED <<inUse, ctlVars>>
  /\ UNCHANGED <<lastBufferTid, inVars>>

\* Circuit::checkQueuedTransfers, from every dispatch of the transport: starts
\* at most the oldest queued transfer.
CheckQueuedTransfers ==
  /\ queuedTransfers # <<>> /\ CanProduce
  /\ Produce(Head(queuedTransfers))
  /\ queuedTransfers' = Tail(queuedTransfers)
  /\ UNCHANGED <<lastBufferTid, outMsg, nSent, inVars>>

-----------------------------------------------------------------------------
(* The transfer driver: the three parts of a grouped request, in order *)

MoveData(b, p) ==
  /\ stage[b][p] = "data"
  /\ inData' = [inData EXCEPT ![p][target[b]] = outMsg[b]]
  /\ stage' = [stage EXCEPT ![b][p] = "meta"]
  /\ UNCHANGED <<outVars, nextTid, shadowFull, target,
                 lastBufferOrd, inMeta, bufferFull, inInUse, reply, got>>

MoveMeta(b, p) ==
  /\ stage[b][p] = "meta"
  /\ inMeta' = [inMeta EXCEPT ![p][target[b]] = outMsg[b]]
  /\ stage' = [stage EXCEPT ![b][p] = "flag"]
  /\ UNCHANGED <<outVars, nextTid, shadowFull, target,
                 lastBufferOrd, inData, bufferFull, inInUse, reply, got>>

MoveFlag(b, p) ==
  /\ stage[b][p] = "flag"
  /\ bufferFull' = [bufferFull EXCEPT ![p][target[b]] = TRUE]
  /\ stage' = [stage EXCEPT ![b][p] = "done"]
  /\ UNCHANGED <<outVars, nextTid, shadowFull, target,
                 lastBufferOrd, inData, inMeta, inInUse, reply, got>>

\* The "empty" flag arrives on the output side's shadow.
MoveReply(p, t) ==
  /\ reply[p][t]
  /\ shadowFull' = [shadowFull EXCEPT ![p][t] = FALSE]
  /\ reply' = [reply EXCEPT ![p][t] = FALSE]
  /\ UNCHANGED <<outVars, nextTid, target, stage,
                 lastBufferOrd, inData, inMeta, bufferFull, inInUse, got>>

-----------------------------------------------------------------------------
(* Input side *)

\* Mutant: the buffer is reported empty when it is handed out.
GetNextFullRepliesEarly(p) ==
  LET t == NextOrd(p) IN
  /\ bufferFull[p][t] /\ ~inInUse[p][t]
  /\ inInUse' = [inInUse EXCEPT ![p][t] = TRUE]
  /\ lastBufferOrd' = [lastBufferOrd EXCEPT ![p] = t]
  /\ got' = [got EXCEPT ![p] =
               Append(@, [data |-> inData[p][t], meta |-> inMeta[p][t]])]
  /\ reply' = [reply EXCEPT ![p][t] = TRUE]
  /\ UNCHANGED <<outVars, ctlVars, inData, inMeta, bufferFull>>

\* Port::getNextFullInputBuffer: only the buffer after the last one handed out
\* is considered, whatever the others hold.
GetNextFullInputBuffer(p) ==
  LET t == NextOrd(p) IN
  /\ bufferFull[p][t] /\ ~inInUse[p][t]
  /\ inInUse' = [inInUse EXCEPT ![p][t] = TRUE]
  /\ lastBufferOrd' = [lastBufferOrd EXCEPT ![p] = t]
  /\ got' = [got EXCEPT ![p] =
               Append(@, [data |-> inData[p][t], meta |-> inMeta[p][t]])]
  /\ UNCHANGED <<outVars, ctlVars, inData, inMeta, bufferFull, reply>>

\* Mutant: the buffer is freed here, but no reply goes to the output side.
InputAvailableNoReply(p, t) ==
  /\ inInUse[p][t]
  /\ bufferFull' = [bufferFull EXCEPT ![p][t] = FALSE]
  /\ inInUse' = [inInUse EXCEPT ![p][t] = FALSE]
  /\ UNCHANGED <<outVars, ctlVars, lastBufferOrd, inData, inMeta, reply, got>>

\* Mutant: the local full flag is not cleared.
InputAvailableStaysFull(p, t) ==
  /\ inInUse[p][t]
  /\ reply' = [reply EXCEPT ![p][t] = TRUE]
  /\ inInUse' = [inInUse EXCEPT ![p][t] = FALSE]
  /\ UNCHANGED <<outVars, ctlVars, lastBufferOrd, inData, inMeta, bufferFull, got>>

\* Port::inputAvailable: the consumer gives back a buffer it holds, in any
\* order of the buffers.  The code clears the in-use flag last, after the reply
\* is under way; only this container reads that flag.
InputAvailable(p, t) ==
  /\ inInUse[p][t]
  /\ bufferFull' = [bufferFull EXCEPT ![p][t] = FALSE]
  /\ reply' = [reply EXCEPT ![p][t] = TRUE]
  /\ inInUse' = [inInUse EXCEPT ![p][t] = FALSE]
  /\ UNCHANGED <<outVars, ctlVars, lastBufferOrd, inData, inMeta, got>>

-----------------------------------------------------------------------------
OutputNext ==
  \/ GetNextEmptyOutputBuffer
  \/ \E b \in OutTids : SendOutputBuffer(b)
  \/ CheckQueuedTransfers

DriverNext ==
  \/ \E b \in OutTids, p \in InPorts :
       MoveData(b, p) \/ MoveMeta(b, p) \/ MoveFlag(b, p)
  \/ \E p \in InPorts, t \in InTids : MoveReply(p, t)

InputNext ==
  \E p \in InPorts : \/ GetNextFullInputBuffer(p)
                     \/ \E t \in InTids : InputAvailable(p, t)

Next == OutputNext \/ DriverNext \/ InputNext

Spec == Init /\ [][Next]_vars

\* The dispatch thread keeps calling the transport, a started transfer
\* completes, and a consumer keeps taking and giving back buffers.  The
\* producer owes nothing.
Fairness ==
  /\ WF_vars(CheckQueuedTransfers)
  /\ \A b \in OutTids, p \in InPorts :
       WF_vars(MoveData(b, p) \/ MoveMeta(b, p) \/ MoveFlag(b, p))
  /\ \A p \in InPorts, t \in InTids :
       WF_vars(MoveReply(p, t)) /\ WF_vars(InputAvailable(p, t))
  /\ \A p \in InPorts : WF_vars(GetNextFullInputBuffer(p))

FairSpec == Spec /\ Fairness
-----------------------------------------------------------------------------
(* Properties *)

Content == Message \cup {NoMessage}

\* Every variable keeps the range the code gives it.
TypeOK ==
  /\ lastBufferTid \in OutTids
  /\ inUse \in [OutTids -> BOOLEAN]
  /\ outMsg \in [OutTids -> Content]
  /\ queuedTransfers \in Seq(OutTids)
  /\ nSent \in 0 .. MaxMessages
  /\ nextTid \in InTids
  /\ shadowFull \in [InPorts -> [InTids -> BOOLEAN]]
  /\ target \in [OutTids -> InTids]
  /\ stage \in [OutTids -> [InPorts -> Stage]]
  /\ lastBufferOrd \in [InPorts -> -1 .. NumIn - 1]
  /\ inData \in [InPorts -> [InTids -> Content]]
  /\ inMeta \in [InPorts -> [InTids -> Content]]
  /\ bufferFull \in [InPorts -> [InTids -> BOOLEAN]]
  /\ inInUse \in [InPorts -> [InTids -> BOOLEAN]]
  /\ reply \in [InPorts -> [InTids -> BOOLEAN]]
  /\ got \in [InPorts -> Seq([data : Content, meta : Content])]

\* Transfer b to p is still writing input buffer t.
Writing(b, p, t) == stage[b][p] # "done" /\ target[b] = t

\* A transfer never writes an input buffer whose full flag is still up or that
\* a consumer holds: the shadow kept by the output side is never too
\* optimistic (produce, markBufferFull, consume).
NoOverwrite ==
  \A b \in OutTids, p \in InPorts, t \in InTids :
    Writing(b, p, t) => ~bufferFull[p][t] /\ ~inInUse[p][t]

\* Two output buffers never write the same input buffer of a port at once.
OneWriter ==
  \A b, c \in OutTids, p \in InPorts, t \in InTids :
    Writing(b, p, t) /\ Writing(c, p, t) => b = c

\* An input buffer is accounted for exactly once: its shadow is full while a
\* transfer writes it, or it is full, or its reply is under way, and only then.
\* A shadow full for no reason would be a buffer lost for ever.
Accounted ==
  \A p \in InPorts, t \in InTids :
    /\ shadowFull[p][t] <=> \/ \E b \in OutTids : Writing(b, p, t)
                           \/ bufferFull[p][t]
                           \/ reply[p][t]
    /\ ~(bufferFull[p][t] /\ reply[p][t])
    /\ \A b \in OutTids : Writing(b, p, t) => ~bufferFull[p][t] /\ ~reply[p][t]

\* The producer is never handed, and never refills, an output buffer that a
\* transfer still reads (the pending list of OutputBuffer::isEmpty).
SourceStable ==
  \A b \in OutTids, p \in InPorts : stage[b][p] # "done" => ~inUse[b]

\* What the consumer sees in a buffer it holds does not change under it.
ReadStable ==
  [][\A p \in InPorts, t \in InTids :
       inInUse[p][t] => /\ inData'[p][t] = inData[p][t]
                        /\ inMeta'[p][t] = inMeta[p][t]]_vars

\* The circuit implements the stream: order, integrity, no duplicate, and no
\* more messages outstanding than it has buffers.
Promise == INSTANCE Stream WITH
  Messages <- [data : Message, meta : Message],
  Capacity <- NumOut + NumIn,
  sent <- [k \in 1 .. nSent |-> [data |-> k, meta |-> k]]

InOrder == Promise!Safe

\* With dispatching, drivers and consumers that keep going, every message sent
\* reaches every consumer.
Delivered == Promise!Spec
=============================================================================
