# OpenCPI: the RCC container and the data transport in TLA+

This directory models parts of the OpenCPI tree (`src/opencpi`) that decide
whether data and control get where they should: the circuits that carry
messages between workers, the choice of who moves the data, the application's
port to an FPGA, the control of an RCC worker, the loop that runs the workers, and
a line of workers that pass buffers on without copying them. The models are
checked with TLC on small instances, and their safety properties are proved with
TLAPS for every value of the constants.

Paths below are relative to `src/opencpi/core/` unless they say otherwise.

## 1. The system and its parts

An *application* is a set of *workers* (components) in *containers*. A container
creates workers, gives each its *ports*, connects ports (its own or with other
containers) and, for RCC workers, runs the worker's methods from a dispatch loop.
Data flows over *circuits* of the data transport: buffers in shared memory that a
transfer driver copies from the output side to the input sides, with flags that
say which buffer is full.

| Part | Where | State | Operations | Interacts with |
|---|---|---|---|---|
| Circuit, ports, buffers, transfer controller | `dataplane/transport/impl` | rings of output and input buffers, shadow flags, pending transfers, queue of transfers | get empty/full buffer, send, give back, retry the queue | drivers (transfers, flags), the dispatch loop |
| Transfer drivers | `dataplane/rdma_drivers/*`, `rdma_driver_interface` | transfer requests, endpoints, memory segments | create, group, start and poll a transfer | circuit (called), shared memory |
| RCC worker | `container/cp289_container` (`Worker`) | control state, enabled flag, run timer, ports, last status | control operations, read/write of properties, creation of ports | the worker's methods (call-backs), the loop |
| Dispatch loop, applications | `container/cp289_container` (`Controller`, `Application`, `Container`) | linked lists of applications and workers, cursors, mutex, started flag | a pass; create and delete; start, stop | client threads, with and without the mutex; the transport |
| RCC ports | `container/cp289_container` (`Port`) | role, circuit, current buffer | advance, request, take, send, release, connect, disconnect | circuit, container API |
| Container API | `container/interfaces/api` | port roles, connection data, control state of a worker | control operations, `connect`, role negotiation | both containers |
| Application's port to an FPGA | `container/rpl_container` (`ExternalPort`) | local buffers with two flags each, the flags of the FPGA's buffers, positions in both rings | get, put, release, flush; each moves what it can | the FPGA (doorbells, ready flags, a count register), the negotiated roles |
| RPL (FPGA) container | `container/rpl_container` | worker registers, DMA setup | WCI operations over registers | hardware |
| Message circuits | `dataplane/transport/client_server` | two circuits per connection | send, receive, connect | transport |
| WCI control API | `control/wci_api` | handles | open, control, status, read, write | containers |
| Local utilities | `local/util` | child lists, memory allocator, XML, exceptions | add, release, alloc, free | everything |
| OS adaption | `../adapt/os/ocpios` | mutexes, events, timers, sockets | as named | everything |
| SCA and CORBA | `sca`, `corba` | CORBA objects | CF::ExecutableDevice etc. | container API |
| Tools | `../tools` | none at run time | code generation | XML descriptions |
| Components, demo applications | `../components`, `../../canny`, ... | image lines, properties | a run method each | RCC container |
| Vendored code, tests | Tcl, test drivers | | | |

What makes this code hard: the output and input sides of a circuit share no lock,
only flags that drivers copy; the output side acts on a *shadow* of the input's
flag; the FPGA goes on between any two instructions of a call on the host; a
message that is passed on without a copy is read far from where it lies, so giving
back one buffer frees a chain of others; the two ends of a connection settle their
roles separately; several threads create and delete what the dispatch loop walks over; a
worker's methods may return anything; the application API, the container and the
worker each keep their own idea of the worker's state.

What makes each part correct:

- circuit: no buffer overwritten, lost or given twice; every message once, intact
  and in order; nothing stays in the queue;
- worker: its methods run only in the states that allow it, only when its run
  condition holds, and again and again when it does; the run timer is used legally;
- dispatch loop: it never walks over what is gone, every pass ends, nobody starves;
- ports and negotiation: both ends choose roles that fit, every connection either
  ends connected or reports a failure; a disconnected port is never used;
- the application's port to an FPGA: no buffer is lost, shared or changed under its
  holder in any role; a flush that says "done" is right; order and delivery;
- lines of workers in one container: buffers along a chain are freed when, and only
  when, the last reader gives the message back; order and delivery;
- message circuits: the properties of two circuits, and a close that both ends see;
- allocator: blocks never overlap, and freed memory can be allocated again.

## 2. The modules

| Module | What it is | Models |
|---|---|---|
| `Stream` | abstract specification: a reliable, bounded, ordered fan-out | the promise of a connection |
| `Circuit` | one circuit, remote input ports, push transfers; implements `Stream` | `OcpiCircuit`, `OcpiPort`, `OcpiOutputBuffer`, `OcpiTransferController`, `OcpiTemplateGenerators`, the start of a PIO transfer |
| `Roles` | who moves the data: an algorithm, as operators | `Container::Port::chooseRoles` and the options of each kind of port |
| `Negotiation` | the protocols around `Roles` | `connectExternal`, the exchange of packed descriptors |
| `ExternalPort` | the application's port to an FPGA; implements `Stream` | `ExternalPort` and `ExternalBuffer` of `RplContainer.cxx`, the roles from `Roles` |
| `LocalLinks` | circuits inside one container, as operators on their state | zero-copy attachment in `OcpiCircuit`, `OcpiPort`, the buffers; request, advance, send, take, release of `OcpiCP289Controller.cxx` |
| `Pipeline` | a line of workers over `LocalLinks`, run by the loop; implements `Stream` | the pass of `Controller::run` over them with `markWorkersPolled` and `Transport::dispatch` |
| `RCCWorker` | one worker in its container | `OcpiCP289Worker`, the per-worker part of `Controller::run`, the application API's control state |
| `Dispatch` | the pass over the lists of applications and workers, and the clients that change them | `Controller::run`, `Container::dispatch`, `createApplication`, `Application`, `~Worker`, `OcpiParentChild.h` |
| `Rings` | lemmas: positions modulo a ring's size, arcs of positions, least numbers and induction over a set | |
| `Circuit_proofs` | theorems of `Circuit`: buffers, and order | |
| `Pipeline_proofs` | theorems of `Pipeline` and lemmas about every operation of `LocalLinks` | |
| `Roles_proofs`, `Negotiation_proofs` | theorems of `Roles` and `Negotiation` | |
| `ExternalPort_proofs`, `RCCWorker_proofs`, `Dispatch_proofs` | theorems of those modules | |
| `MCCircuit`, `MCNegotiation`, `MCExternalPort`, `MCPipeline`, `MCRCCWorker`, `MCDispatch` | constants for TLC | |

`Circuit`, `ExternalPort` and `Pipeline` state their order and delivery as
`INSTANCE Stream WITH ...`. `Negotiation` and `ExternalPort` share `Roles`: the
roles in which the link is checked are those that negotiation can produce.
`Pipeline` composes the links, the ports of the workers and the dispatch loop.
Definitions marked "Mutant" are variants with a plausible mistake; they are used by
no specification and show that the properties can fail.

### Circuit

The circuit of pattern 1 (whole output to whole inputs), both sides in the
ActiveMessage role, after the connection handshake.

| In the module | In the code |
|---|---|
| `lastBufferTid`, `inUse`, `GetNextEmptyOutputBuffer` | `Port::getLastBufferTidProcessed`, `Buffer::inUse`, `TransferController::getNextEmptyOutputBuffer` |
| `stage[b][p]` | the pending transfer template of output buffer b: what its request to port p has still to move; `done` is `isComplete` |
| `queuedTransfers`, `CanTransferBuffer`, `CheckQueuedTransfers` | `m_queuedTransfers`, `Circuit::canTransferBuffer`, `checkQueuedTransfers` |
| `nextTid`, `shadowFull`, `CanProduce`, `Produce` | `m_nextTid`, the shadow input ports' buffers, `TransferController1::canProduce`, `produce` with `Circuit::startBufferTransfer` |
| `MoveData`, `MoveMeta`, `MoveFlag` | the three parts of a grouped request made by `TransferTemplateGeneratorPattern1::createOutputTransfers` |
| `lastBufferOrd`, `bufferFull`, `inInUse`, `GetNextFullInputBuffer` | `m_lastBufferOrd`, the input buffer's state, `TransferController1::getNextFullInputBuffer` |
| `InputAvailable`, `MoveReply` | `Port::inputAvailable`, `consume`, and the flag transfer to the shadow made by `createInputTransfers` |
| `got`, `nSent` | history: what consumers were handed, how many messages were sent |

Message k of the run is the number k, in the data part and in the metadata part
separately, so a mixture of two messages is visible. The output side's calls run
under the container's mutex, so each is one action; an action of a driver or of
another container can come between any two of them. PIO copies synchronously and
other drivers asynchronously; the model leaves any time between start and
completion, which covers both.

### Roles and Negotiation

A port has a set of supported roles (`options`), a `role` (a preference, or none)
and whether it is mandated: the three fields that `chooseRoles` packs in bits.
`ChooseRoles` follows the order of its rules; `Refused` stands for the two
exceptions it throws. `Kind` has the three sorts of ports that negotiate, with the
options their constructors set.

`Negotiation` has the two ways in which the code connects ports. `ConnectDirect` is
`connectExternal`: an FPGA worker's port and the application's are both at hand, and
one call settles both. Two FPGA workers in different containers take the handshake
too: the `connectLike` of `RplContainer.cxx` (line 945) has its parameters in another
order than the virtual function of `OcpiContainerPort.h` (line 143), so it overrides
nothing and is never called.
The other three actions are the handshake over packed descriptors
(`getInitialProviderInfo`, `setInitialProviderInfo`, `setInitialUserInfo`): each
side calls `chooseRoles` by itself, the user's result reaches the provider as a
mandate. An RCC input asserts its role when it creates its circuit, whatever was
wished; an RCC output answers with a descriptor whose options nobody set, so
`InitialUserInfo` allows any.

### ExternalPort

| In the module | In the code (`RplContainer.cxx`) |
|---|---|
| `localReady`, `remoteReady` | the flags `readyForLocal`, `readyForRemote` of the local buffers |
| `farReady`, `nReady` | the far buffers' flags in host memory; what was read of the FPGA's `nReady` register |
| `nextLocal`, `nextRemote`, `nextFar` | `m_nextLocal`, `m_nextRemote`, `m_nextFar` |
| `Enter`, `MayMove`, `Copy`, `ClearFarReady`, `RingFar` | `tryMove` and `moveData`: the copy, the flag, the doorbell, as separate steps |
| `GetBuffer` ... `FinishGet`, `Release`, `TryFlush` ... `FinishFlush` | `getBuffer` and `getLocal`, `put` and `release`, `tryFlush` |
| `FarTakes`, `FarGives`, `FarMoves`, `FlagArrives` | external: the FPGA, as its registers are used by the C++ code |

A call is split where the FPGA's progress can be seen: each read of a flag or
register and each write that the FPGA may act on is a step of its own. `provider`
says which way the data goes; the initial states have both and every role that
`ChooseRoles` can give the host where the two roles fit. Message k is the number k.

### LocalLinks and Pipeline

Inside one container no data moves: `Circuit::startBufferTransfer` attaches an
input buffer to the output buffer (`from`), and a worker that sends its input buffer
attaches an output buffer of its next circuit to it (`zfrom`), when
`checkIOZCopyQ` finds one. `Content` follows the chain back to the only copy, as
`Buffer::getBuffer` does; `InputAvailable` frees the chain, as
`Port::inputAvailable` with `detachZeroCopy` does. `UnusedPort`, `TakeInput`,
`TakeOutput`, `SendCurrent`, `SendOn`, `Release` and `Keep` are what the container
does to a port for the loop and for `CP289Request`, `CP289Send`, `CP289Advance`,
`CP289Release` and `CP289Take`.

`Pipeline` is one dispatch thread: the transport is served when a pass starts and
before each worker (`ServeTransport`), the worker's ports are polled and its run
condition checked (`Poll`), and its run method does what its kind does. `kind` is
chosen once: whether the run condition of a filter names its output, and whether it
sends its input buffer or copies. `mixes` says whether the consumer gives back
newer buffers while it keeps older ones. `window` holds what the consumer took with
`CP289Take`. All links and workers are in line order; circuits are served in that
order too.

### RCCWorker

`Control(op)` is `Worker::control` with its legality checks, the call of the
worker's method with *any* result, and the effect of that result. `WciControl`
is the use of it by a WCI client; `ApiControl` is the `CONTROL_OP` macro, which
has a control state of its own (`myState`) and does not look at the outcome.
`RunIdle`, `RunCallBacks` and `RunMethod` are the three outcomes of a visit by
`Controller::run`, after `markWorkersPolled` has taken buffers for the watched
ports (`Taken`). A worker without a run condition of its own is the case of one
mask with all the ports, which is what the constructor builds. A method that the
dispatch table lacks counts as one that returns `RCC_OK`, as in
`RCCWorkerInterface`. `ConnectPort` is the point where the connection protocol
closes the circuit of a port. `called` and `sinceRun` are history variables.

`portCount` is counted as the code counts it, before the creation can fail.

### Dispatch

| In the module | In the code |
|---|---|
| `first`, `next`, `life` | `myChildren` of a parent, `next` of a child (`OcpiParentChild.h`), whether the object is constructed, destroyed, freed |
| `mutex`, `m_start` | `m_threadSafeMutex`, which the container and its applications share; the started flag |
| `AddChild`, `Link`, `Build` | `addChild`, which reads the first child and then replaces it, called by the base class's constructor; the rest of the constructor |
| `CreateApplication`, `CreateWorker`, `CreateWorkerOfArtifact` | `createApplication`, `createWorker` with an URL (both under the mutex); `createWorker` with an artifact (without) |
| `DeleteApplication`, `ClearWorker`, `Unlock` | `~Application`: its body under the mutex, each worker in turn, the end of the body |
| `DeleteWorker` | `~Worker` on its own (`Cp289GenericProxy.cxx:130`, `Application::removeWorker`), without the mutex |
| `Walk`, `Unlink` | `releaseChild`: one pointer of the list read at a time, then the write |
| `BeginPass`, `EnterApplication`, `Visit`, `NextApplication` | `Controller::run`, with `app` and `worker` its cursors |
| `call[c]` | where client c is in its call: the child, the pointer `cp` it looks at, the link it read |
| `listed` | history: the children linked and not yet unlinked, newest first |

Each access to a pointer that another thread may use is a step of its own, so the
accesses of the loop and of any number of clients interleave. What is read from an
object that was freed, or not yet made, is any pointer of its type (`FirstChild`,
`NextChild`). Under the mutex a client's steps interleave only with those that do not
take it. `~Application` on its way through `ClearWorker` frees each worker in one step:
its list is then touched by no one else, given the first rule below.

No call on these lists is safe without some care of the caller, so the clients keep
two rules. None uses an object that another call creates or deletes (no worker is made
in, or deleted from, an application that is being deleted). And the two calls on
workers that do not take the mutex are made while no other thread is in the container
(`Alone`, `Quiet`, `Exclusive`), unless the constant `Unlocked` says that they are made
beside other threads: "create" is `createWorker` with an artifact, "delete" is `~Worker`
on its own. What may happen then is the matter of `visited_freed`. The end of
`~Application` has no such rule: the code takes the mutex for what it believes to be
all of it.

An object is created once. A worker is just `ready` or not; a visit that runs it may
set `anyone_run` or not, because a call-back does not.

## 3. The runs

| Run | Constants | Result |
|---|---|---|
| `circuit` | 2 input ports, 2 output and 2 input buffers, 5 messages | `NoOverwrite`, `OneWriter`, `Accounted`, `SourceStable`, `ReadStable`; implements `Stream`: safety (`InOrder`) and liveness (`Delivered`) |
| `roles` | every pair of kinds that the containers connect, every wish of either side | `RolesFit`, `RolesSupported`, `NeverRefused`, `WishComesTrue`, unless `connectExternal` is asked for flow control at the provider |
| `external` | 3 local and 2 far buffers, 7 messages, both directions, all three roles | `OneOwner`, `FarKnown`, `FlushDone`, `HeldStable`; implements `Stream`: `InOrder`, `Delivered` |
| `pipeline` | 3 links with 3, 2 and 3 buffers, a window of 1, 5 messages, every mix of filters without the combination of `zero_copy_leak` | `PortsReady`, `BuffersOwned`, `HeldStable`; implements `Stream`: `InOrder`; `Delivered`; no deadlock |
| `wci` | input `in`, optional output `out`, one mask of both, timeout 1, no release method | `EnabledTimed`, `EnabledOperational`, `RunsOperational`, `StartsStoppedTimer`, `RunsReady`, `TimedRun` |
| `api` | both ports required, masks {in} and {out}, call-back on `in`, no timeout, API operations | `ApiQuiet`, `ReadyRun` |
| `dispatch` | 1 client, 3 applications with 2, 1 and 0 workers, 2 applications per pass, `Unlocked` empty | `LockedOut`, `ListsWhole`, `PassEnds`, `FirstServed`; no deadlock |
| `roles_mismatch`, `zero_copy_leak`, `released_runs`, `advance_timeout`, `visited_freed` | smallest instance that shows it | a disagreement between the code and what it says of itself, section 6 |

Each module's `TypeOK` is checked with the passing run of its own.

**Bounds.** In `circuit`, five messages take the ring of two buffers round more
than twice, so every buffer is reused, and a stale flag or content of the previous
round is visible. Two output buffers are enough for one transfer under way and
one queued, or two queued. Two input ports are the least with which one can be
behind the other. In `external` the rings have different sizes, so they come round
at different times, and seven messages take both round more than twice. In
`pipeline` a narrow link stands between two wider ones, so input buffers that were
sent on have to wait for an output buffer; a window of one is the least with which
a consumer keeps what it was handed. `roles` has no bound: its instance is the whole
set of kinds and wishes. `MaxElapsed` is one tick more than the timeout: longer
times do not differ for the code, which only compares. `dispatch` has three
applications and `MAX_RUNS_PER_CALL` = 2 (10 in the code), so that the limit cuts
a pass short; an application with two workers, so that one can be unlinked behind
another; and each object is made and deleted once, in any order. Several clients at
once are the matter of `LoopLockedOut`, proved for any number. `portCount` stops one past the table, where the code throws.

**Deadlock** is not checked where the system may really stop: a producer that
has sent everything, a negotiation that has ended, or a worker that was deleted.
`dispatch` and `pipeline`, whose loops never end, check it.

**Fairness.**
- `Circuit`: the dispatch thread calls `Transport::dispatch` for ever (a loop of the
  container's user, as `DThread::run` in `container/tests/bin/src/test_utilities.cxx`;
  the one in `Cp289ExecutableDevice.cxx` is compiled out), a started transfer
  completes, and consumers take and give back buffers. The producer has no
  fairness: it may stop sending at any time. Consumers' fairness is an assumption
  about the workers behind the inputs.
- `ExternalPort`: a call that was begun ends; the application keeps calling
  `getBuffer` or `tryFlush`, because nothing else moves data in the roles where the
  host does; a consumer gives back what it read (strong fairness, since other calls
  come between); the FPGA's worker and its engine go on and a flag that was written
  arrives. A producer owes nothing.
- `Pipeline`: the dispatch thread goes on and run methods return. Filters and the
  consumer deal with the message of a run before they return, except a filter that
  finds no output buffer; the source owes nothing. `Delivered` is claimed for
  consumers that give buffers back in the order they got them, see section 6.
- `RCCWorker`: the dispatch loop visits the worker again and again and time
  passes. No fairness on control operations, connections or arriving buffers.
- `Dispatch`: the dispatch thread goes on (`Loop`), and a call that has begun goes on
  (`Step(c)`), so a mutex that is held is released. Clients need not begin any call.
  A worker's method that does not return is outside the model, as the code
  requires (`OcpiCP289Controller.h`: a run method must not block).

## 4. What is proved

**`Circuit_proofs`**, for any finite non-empty set of input ports and any positive
numbers of buffers (`CircuitAssumption`), theorems about `Spec`:

- `TypeCorrect`;
- `Inductive`: the inductive invariant. `Accounted` alone is not inductive: a send
  overwrites a buffer's `target` and `stage`, so one has to know that the buffer it
  sends has no transfer under way (`SourceStable` and that queued buffers are in
  use, once each); and a consumer's return sets the reply, so a held buffer must be
  full. With these, each action moves a buffer from one situation to the next of
  free, written, full, held, replying, and the shadow is full in all but the first;
- `CreditsAccounted`, `NeverOverwritten`, `SingleWriter`, `SourcesStable`,
  `ReadsStable`: consequences of it.

It goes on, under the same assumption, to prove that the circuit implements the
safety half of `Stream` (`Ordered`). The invariant `OInv` counts the messages whose
transfer was started (`Started`) and those that each port has seen (`Seen`): the
queue holds the messages after `Started`, in order (`QueueOrder`); both sides'
positions are these counts modulo the ring and less than a round apart
(`Positions`); each message in between is on its way to its own slot (`UnderWay`),
or in it (`Arrived`), and none is missing (`NoneMissing`). So the next full buffer
of a port holds its next message.

**`Roles_proofs`**, for any two descriptors: `ChosenRolesFit` and
`ChosenRolesSupported`, each with the two exceptions in the order of the rules named
in its statement, and `RefusedOnlyIfIncompatible`; and `ChosenRolesReal`.
**`Negotiation_proofs`**, for the containers' ports and both protocols:
`TypeCorrect`, and `RolesAlwaysFit`, `RolesAlwaysSupported`, `LoneWishComesTrue` (a
wish that only one side has is granted) and `NeverEverRefused`, assuming that
`connectExternal` is not asked for flow control at the provider. Without this assumption
`roles_mismatch` is the counterexample. The invariant carries from phase to phase
which descriptor each side holds; that the user's choice travels as a mandate is
what makes two separate choices agree.

**`ExternalPort_proofs`**, for rings of any two sizes (`ExternalPortAssumption`), in
each direction and role: `TypeCorrect`, `NoBufferShared`, `FarRingKnown`,
`FlushedIsGone`, `HeldMessagesStay`, and `Reliable`, that the link implements the
safety half of `Stream`. One picture serves both directions: the transfers are
numbered, `Moved` of them are done, the application has given its buffers for those
below `Given`, the FPGA its own for those below `Offered`. The invariant `EInv` says
that each set of buffers in the model is an *arc* of these counts on its ring
(`LocalRing`, `FarRing`), that positions are counts modulo the ring (`Counting`),
that a move that has begun has a buffer on both sides (`Thread`), and that transfer
i carries message i + 1 (`Contents`). `Rings` has the arithmetic: arcs side by side
are disjoint if they are a round at most together, and how they grow and shrink.
That the host's role is one of three follows from `Roles_proofs`.

**`Dispatch_proofs`**, for any applications, workers, clients and limit:

- `TypeCorrect` without further assumptions;
- `ListsStayWhole` and `ChildNeverMissing`, for one client, whatever it does beside the
  loop (`OneClient`, any `Unlocked`): the pointers are the lists, and the assertion of
  `OcpiParentChild.h` (line 123) never fails. With two clients both are false (section 6);
- `LoopLockedOut`, for any number of clients if `Unlocked` is empty. With "delete" or
  "create" in it TLC finds a counterexample (section 6).

Their common invariant is `DInv`: what a call may assume of its child's life (`Lives`),
who holds the mutex and who is alone (`Mutual`), and, for every list on which two calls
cannot work at once (`Tame`), that the pointers are the list (`Sound`) and that each
call is where its step says, so that a walk stays before its child (`Placed`). That two
calls are never on one such list is the lemma `OneAtATime`; the list of the
applications is not among them if there are two clients, so `LoopLockedOut` does without
it. What linking and unlinking do to a chain of pointers are the lemmas `ChainPush` and
`ChainCut`. `LoopLockedOut` adds that the loop's cursor is in the list of its
application, unless that was freed (`Cursor`), which is why `AppExists` fails and
`LockedOut` holds.

**`RCCWorker_proofs`**, for any ports, masks, timeout and dispatch table
(`RCCWorkerAssumption`), theorems about `Spec` and `ApiSpec` together:

- `TypeCorrect` and `EnabledIsTimed` without further assumptions;
- for workers without a release method: `EnabledIsOperational`,
  `RunsAreOperational`, `TimerStartsStopped`, `SuspendedIsQuiet`. The assumption is
  needed: `released_runs` is the counterexample with one. The strengthening is that
  the run timer runs only in an operational worker, or in one that a method made
  unusable (`TimedOperational`). `UnusableIsQuiet`, that no method of an unusable
  worker is called while it lives, follows from it step by step;
- `RunsAreReady`, that a worker runs only when its run condition holds, for workers
  none of whose inputs is optional: a connected optional input is not in
  `connectedPorts` and counts as ready whatever it holds.

**`Pipeline_proofs`**, for any number of links, any numbers of buffers, any kinds of
filters and any window shorter than every ring (`LocalLinksAssumption`,
`PipelineAssumption`):

- `InvHolds`, the inductive invariant;
- `TypeCorrect`, with the bounds of both queues of a link;
- `ReadyPorts`, the container's assertion;
- `HeldBuffersStable`: what a worker has or keeps does not change under it, although
  the only copy may lie many links up the line;
- `NoBufferLost`, if no filter that sends its input buffer on names its output port
  in its run condition (`Frugal`). The assumption is needed, and `zero_copy_leak` is
  what happens without it: the buffer that the container took for such a worker is
  in use, with nobody. Nothing else in the list assumes it;
- `StreamImplemented`, the safety half of `Stream`, with all the buffers of the line
  as its capacity.

The last three are not inductive, because they are about chains whose length is that
of the line, while an operation touches one link or two. The invariant makes them
local. It labels each output buffer with the number of the message that a reader
finds in it, wherever that message lies (`M`), and counts for each link the messages
that were sent to it, attached, and handed over (`p`, `st`, `n`). Then a link by
itself is a ring like that of `Circuit` (`LinkInv`: `Sides`, `Ring`, `Queue`), two
links meet only at the input buffers that were sent on (`Joint`: each such buffer is
read by one output buffer at most and is with nobody else, `Shared`, and the labels
on both sides agree, `Tallied`), and the consumer keeps a window of distinct buffers (`Kept`). The
labels and counts are no variables of the model: `Sound` says that there are some.
What a reader finds (`ContentIs`) and that freeing a chain frees on each link the
one buffer that leads to it (`FreeLink`, `FreeJoint`) are then inductions along the
line, done with sets of numbers (`Rings.Induction`), and the recursive functions of
the model (`Behind`, `Dispatched`, `Buffers`) are unfolded by lemmas that first show
that they exist. That no queue outgrows its ring, and the capacity of the line,
follow by counting: messages with different labels are in different buffers.

Only model-checked: all liveness (`Delivered` three times, `TimedRun`, `ReadyRun`,
`PassEnds`, `FirstServed`), since fairness and ENABLED are outside the prover. Every
other property of a passing run is stated by a theorem.

## 5. What the checks do not cover

- Most of the tree by size. The tree has hundreds of files of command-line tools,
  parsers, code generators, archives (zlib, zip), protocol clients and test drivers:
  sequential text processing or vendored code, with no state of the running system.
  The models are about the part that moves data and runs workers, and the mapped
  lines are a small share of the whole.
- Circuits: active flow control between containers (the input pulls), broadcast of an
  end of stream, several input port sets with a sequential distribution, the
  connection handshake over mailboxes, circuits that open and close under traffic,
  zero copy to another process.
- Ports of RCC workers: disconnect, and a worker that advances a port which has no
  buffer.
- `ExternalPort`: one thread calls a port, as the code requires. The FPGA is external;
  its steps are what the host's side and the registers require of it.
- The control state of a worker (`RCCWorker`), its data (`Pipeline`) and the lists
  (`Dispatch`) are modelled separately.
- Memory ordering of the processor between the writes of a transfer: they are
  assumed to become visible in the order in which the code makes them. In `moveData`
  the write barrier is a comment.
- Negotiation of buffer sizes and counts, the packing of descriptors, and a connection
  whose last step fails.
- Message circuits, the socket driver, the memory allocator, and everything else
  with status `not_modelled` in `PROJECT.json`.

## 6. Where the code and its own words disagree

Each of these has a run that ends in a counterexample.

- `roles_mismatch`: when the provider prefers flow control and no earlier rule
  decides, `chooseRoles` gives the user flow control as well, so neither side moves
  the data (`OcpiContainerPort.cxx:317`). It shows through `connectExternal`, when an
  FPGA worker's output is asked to be passive and the application's port for flow
  control. In the handshake the provider is asked again with the user's role as a
  mandate, which repairs it.
- `zero_copy_leak`: a worker whose run condition names its output port, and that sends
  its input buffer, abandons the output buffer that the container took for the port. A
  send that waits takes one more until its message is read, so the line stops within
  as many sends as the port has output buffers.
- `released_runs`: RELEASE of an operational worker leaves it enabled; the loop
  runs it in state Exists. `wci.h` says a released worker goes back into reset. A
  further consequence: the next START starts a run timer that is running, against
  the precondition in `OcpiOsTimer.h`.
- `advance_timeout`: a run method that returns `RCC_ADVANCE` does not reset the
  run timer, so once the timeout has passed the worker is told at every visit
  that it timed out, until some run returns `RCC_OK`.
- `visited_freed`: `~Application` keeps the dispatch loop out only until its body ends;
  the loop can then hold an application that is being freed, which is the shortest
  counterexample. `~Worker` alone, as `~Cp289GenericProxy` and `removeWorker` call it,
  unlinks and frees the worker without the mutex that `~Application` takes to "lock out
  the dispatch loop"; the loop can be at that worker. To see that one, check
  `LockedOut`, which excuses a freed application, with `Unlocked = {"delete"}`.

Observations without a run, each of one or two lines or of a case that the models
leave out:

- A worker that has a release method is not released when it is destroyed, because the
  destructor's condition is inverted (`OcpiCP289Worker.cxx:246`).
- Of two clients, one at the unlocked end of `~Application` and the other in
  `createApplication`, one can overwrite what the other wrote to the list. The new
  application is in no list, and its deletion comes to the assertion "child missing
  from parent". With a second client in `MCDispatch`, TLC finds `ChildPresent` violated
  in 14 steps.
- `Container::dispatch` reads `m_start` before it takes the mutex, so a pass can begin
  after `stop` has returned; nothing says that it cannot.
- The loop goes on to a later application only if a run method executed in an earlier
  one, so an idle first application, or one that works through call-backs only,
  starves the others; `FirstServed` says what remains.
- RELEASE of a worker without a release method reports success and changes no state,
  so the worker cannot be initialized again. The API's test operation is mapped to
  RELEASE.
- Only output ports enter `connectedPorts` (`OcpiCP289Worker.cxx:556`): a connected
  optional input counts as ready whatever it holds. A refused creation of a port
  counts towards the ports that START asks for (`OcpiCP289Worker.cxx:407`).
- In the flow-control role `tryFlush` answers that there is more as long as the
  application holds a buffer, sent or not (compare `OcpiContainerPort.h:267`).
  `ExternalPort::tryFlush` of the RCC container always answers that there is nothing.
- The rule of `chooseRoles` for a passive provider looks for `ActiveOnly` in the
  provider's own options, where the user's seem meant.
- A zero-copy send waits until the transport is served again, so an ordinary send of
  the same run overtakes it.
- A consumer that keeps one buffer while it gives back newer ones blocks the ring at
  that buffer; where buffers are passed on without a copy, every link up the line is
  blocked with it. `Delivered` therefore leaves these consumers out (`mixes`).
- A worker that advances a port again before the loop has taken its next buffer gives
  the same buffer back, or sends it, twice.
- The memory allocator rounds an address down (`OcpiAlloc.cxx:88`) and hands out the
  rounded one, with a block that starts at the unrounded one. Ports ask for an
  alignment of 7 (`OcpiPort.cxx:69`), which as a mask clears bits 1 and 2: after a
  block whose length is not a multiple of 8, the next one begins inside it. `free`
  then puts the block back at the rounded address. The buffers of a port are
  disjoint, as `Circuit` takes them to be, when the lengths asked for are multiples
  of 8, as the default length is.
- The image workers test the length of the input (`sobel.c`) after they have taken
  the buffer, when the port may already show the next message.

## 7. Plan

What a next stage would add, in this order.

1. **Pull transfers and broadcast** in a `Circuit` with active flow control on the
   input side, against `Stream`; the end-of-stream broadcast, and the several input
   port sets of a sequential distribution.
2. **Disconnect**: the port of a worker after its circuit is gone, with `LocalLinks`.
3. **Connection handshake** of circuits: the exchange of ports' offsets over
   mailboxes; a connection that fails half way; circuits that close under traffic.
4. **Composition** of `RCCWorker` and `Pipeline`: control operations under traffic.
5. **Socket framing**, message circuits and the memory allocator.
6. **Proofs** about what these add; of the present modules only liveness is unproved.
