----------------------------- MODULE LocalLinks -----------------------------
(***************************************************************************)
(* Circuits between workers of one RCC container, where no data moves: a   *)
(* message stays in the output buffer that it was written to, and is       *)
(* handed over by attaching the next input buffer to it.  A worker that    *)
(* sends an input buffer on attaches an output buffer of the next circuit  *)
(* to that input buffer in turn, so a message can travel down a line of    *)
(* workers along a chain of attached buffers that leads back to the only   *)
(* copy of it; giving back the last buffer frees the whole chain.          *)
(*                                                                         *)
(* Operators on a sequence ls of links: link l is the circuit from worker  *)
(* l-1 to worker l, with one input port, and the container's view of its   *)
(* two ports.  Everything happens in the container's dispatch thread.      *)
(***************************************************************************)
EXTENDS Integers, Sequences

CONSTANTS
  NumLinks,     \* circuits in the line
  NumBufs       \* NumBufs[l]: buffers of either port of link l

ASSUME LocalLinksAssumption ==
  /\ NumLinks \in Nat \ {0}
  /\ NumBufs \in [1 .. NumLinks -> Nat \ {0}]

Links == 1 .. NumLinks
Tids(l) == 0 .. NumBufs[l] - 1
None == -1
Later(l, t) == (t + 1) % NumBufs[l]

\* OpaquePortData and RCCPort.current: the buffer the container took last for
\* the port, whether the worker has it, and whether it may take the next.
UnusedPort == [data |-> FALSE, buffer |-> None, ready |-> TRUE]

NewLink(l) ==
  [out |-> UnusedPort, in |-> UnusedPort,
   lastTid |-> 0,                          \* output buffer to hand out next
   lastOrd |-> -1,                         \* input buffer handed out last
   nextTid |-> 0,                          \* input buffer of the next message
   outInUse |-> [b \in Tids(l) |-> FALSE],
   inInUse |-> [t \in Tids(l) |-> FALSE],
   from |-> [t \in Tids(l) |-> None],         \* the output buffer t is attached to
   zfrom |-> [b \in Tids(l) |-> None],        \* the input buffer of the link before
   msg |-> [b \in Tids(l) |-> 0],             \* what was written to output buffer b
   queued |-> <<>>,                        \* sent, not yet started
   waiting |-> <<>>]                       \* input buffers sent on, no output yet

-----------------------------------------------------------------------------
(* Queries *)

\* Mutant: a buffer that is still attached counts as empty.
OutputEmptyWhenAttached(ls, l, b) == ls[l].zfrom[b] = None

\* OutputBuffer::isEmpty: nothing hangs on it, and it hangs on nothing.
OutputEmpty(ls, l, b) ==
  ls[l].zfrom[b] = None /\ \A t \in Tids(l) : ls[l].from[t] # b

\* InputBuffer::isEmpty: an attached buffer asks the output buffer, which is
\* not empty while something is attached to it.
InputEmpty(ls, l, t) ==
  /\ ls[l].from[t] = None
  /\ l < NumLinks => \A b \in Tids(l + 1) : ls[l + 1].zfrom[b] # t

\* Port::hasEmptyOutputBuffer
HasEmptyOutput(ls, l) ==
  LET b == ls[l].lastTid IN OutputEmpty(ls, l, b) /\ ~ls[l].outInUse[b]

\* Port::hasFullInputBuffer
HasFullInput(ls, l) ==
  LET t == Later(l, ls[l].lastOrd) IN ~InputEmpty(ls, l, t) /\ ~ls[l].inInUse[t]

\* TransferController1::canProduce
CanProduce(ls, l) == InputEmpty(ls, l, ls[l].nextTid)

\* Behind(ls, l, t)[k]: the input buffer of link k in the chain that input
\* buffer t of link l ends, or None.
Behind(ls, l, t) ==
  LET back[i \in 0 .. l - 1] ==
        IF i = 0 THEN t
        ELSE LET x == back[i - 1]
                 k == l - i + 1
             IN IF x = None \/ ls[k].from[x] = None THEN None
                ELSE ls[k].zfrom[ls[k].from[x]]
  IN [k \in Links |-> IF k > l THEN None ELSE back[l - k]]

\* Buffer::getBuffer: what a reader finds in input buffer t of link l.
Content(ls, l, t) ==
  LET chain == Behind(ls, l, t)
      first == CHOOSE k \in 1 .. l :
                 chain[k] # None /\ (k = 1 \/ chain[k - 1] = None)
  IN ls[first].msg[ls[first].from[chain[first]]]

-----------------------------------------------------------------------------
(* The transport *)

\* TransferController::getNextEmptyOutputBuffer
GetNextEmptyOutput(ls, l) ==
  LET b == ls[l].lastTid
  IN [ls EXCEPT ![l].outInUse[b] = TRUE, ![l].lastTid = Later(l, b)]

\* Mutant: the position in the ring is not kept.
GetNextFullInputStays(ls, l) ==
  [ls EXCEPT ![l].inInUse[Later(l, ls[l].lastOrd)] = TRUE]

\* TransferController1::getNextFullInputBuffer
GetNextFullInput(ls, l) ==
  LET t == Later(l, ls[l].lastOrd)
  IN [ls EXCEPT ![l].inInUse[t] = TRUE, ![l].lastOrd = t]

\* Mutant: the ring position wraps one too late.
StartWrapsLate(ls, l, b) ==
  [ls EXCEPT ![l].from[ls[l].nextTid] = b,
             ![l].nextTid = (ls[l].nextTid + 1) % (NumBufs[l] + 1),
             ![l].outInUse[b] = FALSE]

\* Circuit::startBufferTransfer: attaches the next input buffer.
Start(ls, l, b) ==
  [ls EXCEPT ![l].from[ls[l].nextTid] = b,
             ![l].nextTid = Later(l, ls[l].nextTid),
             ![l].outInUse[b] = FALSE]

\* Port::sendOutputBuffer
SendOutput(ls, l, b) ==
  IF ls[l].queued = <<>> /\ CanProduce(ls, l)
    THEN Start(ls, l, b)
    ELSE [ls EXCEPT ![l].queued = Append(@, b)]

\* Mutant: only the last link of the chain is freed.
InputAvailableShort(ls, l, t) ==
  LET b == ls[l].from[t]
  IN [ls EXCEPT ![l].from[t] = None, ![l].inInUse[t] = FALSE,
                ![l].zfrom[b] = None, ![l].outInUse[b] = FALSE]

\* Port::inputAvailable: detaches the buffer, and with it everything in the
\* chain behind it.
InputAvailable(ls, l, t) ==
  LET chain == Behind(ls, l, t)
      Read(k, b) == chain[k] # None /\ ls[k].from[chain[k]] = b
  IN [k \in Links |->
        [ls[k] EXCEPT
           !.from = [x \in Tids(k) |-> IF x = chain[k] THEN None ELSE @[x]],
           !.inInUse = [x \in Tids(k) |-> @[x] /\ x # chain[k]],
           !.zfrom = [b \in Tids(k) |-> IF Read(k, b) THEN None ELSE @[b]],
           !.outInUse = [b \in Tids(k) |-> @[b] /\ ~Read(k, b)]]]

\* Circuit::checkQueuedTransfers for one circuit: at most one transfer.
CheckQueued(ls, l) ==
  IF ls[l].queued # <<>> /\ CanProduce(ls, l)
    THEN LET s == Start(ls, l, Head(ls[l].queued))
         IN [s EXCEPT ![l].queued = Tail(@)]
    ELSE ls

\* Mutant: the input buffer is attached, but its message is not sent.
CheckWaitingUnsent(ls, l) ==
  IF ls[l].waiting # <<>> /\ HasEmptyOutput(ls, l)
    THEN LET b == ls[l].lastTid
             s == GetNextEmptyOutput(ls, l)
         IN [s EXCEPT ![l].zfrom[b] = Head(ls[l].waiting),
                      ![l].waiting = Tail(@)]
    ELSE ls

\* Circuit::checkIOZCopyQ: the oldest input buffer that was sent on gets an
\* output buffer, when there is one, and goes out.
CheckWaiting(ls, l) ==
  IF ls[l].waiting # <<>> /\ HasEmptyOutput(ls, l)
    THEN LET b == ls[l].lastTid
             s == GetNextEmptyOutput(ls, l)
         IN SendOutput([s EXCEPT ![l].zfrom[b] = Head(ls[l].waiting),
                                 ![l].waiting = Tail(@)], l, b)
    ELSE ls

\* Transport::dispatch
Dispatched(ls) ==
  LET served[l \in 0 .. NumLinks] ==
        IF l = 0 THEN ls ELSE CheckWaiting(CheckQueued(served[l - 1], l), l)
  IN served[NumLinks]

-----------------------------------------------------------------------------
(* The container: what it does to a port for the dispatch loop, and what a  *)
(* worker asks for                                                           *)

\* Controller::markWorkersPolled, CP289Request: takes the next output buffer.
TakeOutput(ls, l) ==
  IF ~ls[l].out.data /\ ls[l].out.ready /\ HasEmptyOutput(ls, l)
    THEN LET b == ls[l].lastTid
         IN [GetNextEmptyOutput(ls, l) EXCEPT
               ![l].out = [data |-> TRUE, buffer |-> b, ready |-> FALSE]]
    ELSE ls

\* The same for an input port.
TakeInput(ls, l) ==
  IF ~ls[l].in.data /\ ls[l].in.ready /\ HasFullInput(ls, l)
    THEN LET t == Later(l, ls[l].lastOrd)
         IN [GetNextFullInput(ls, l) EXCEPT
               ![l].in = [data |-> TRUE, buffer |-> t, ready |-> FALSE]]
    ELSE ls

\* CP289Send of the port's output buffer, CP289Advance, advanceAll: m is what
\* the worker wrote.
SendCurrent(ls, l, m) ==
  LET b == ls[l].out.buffer
  IN SendOutput([ls EXCEPT ![l].msg[b] = m, ![l].out.data = FALSE,
                           ![l].out.ready = TRUE], l, b)

\* CP289Send of an input buffer: the port of link l hands its buffer to the
\* output port of the next link.  That port's own buffer is let go.
SendOn(ls, l) ==
  [ls EXCEPT ![l].in.data = FALSE, ![l].in.ready = TRUE,
             ![l + 1].waiting = Append(@, ls[l].in.buffer),
             ![l + 1].out.data = FALSE, ![l + 1].out.ready = TRUE]

\* Mutant: the port does not become ready for the next buffer.
ReleaseStaysBusy(ls, l, t) ==
  [InputAvailable(ls, l, t) EXCEPT
     ![l].in.data = @ /\ ls[l].in.buffer # t]

\* CP289Release, of the current buffer or of one taken earlier; CP289Advance
\* and advanceAll of the current one.
Release(ls, l, t) ==
  [InputAvailable(ls, l, t) EXCEPT
     ![l].in.ready = TRUE, ![l].in.data = @ /\ ls[l].in.buffer # t]

\* CP289Take up to its request: the current buffer is the worker's, and an old
\* one is given back.
Keep(ls, l, old) ==
  LET s == [ls EXCEPT ![l].in = UnusedPort]
  IN IF old = None THEN s ELSE Release(s, l, old)
=============================================================================
