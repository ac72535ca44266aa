------------------------------ MODULE Pipeline ------------------------------
(***************************************************************************)
(* A line of workers in one RCC container, connected by LocalLinks: worker *)
(* 0 is a source, the last one a consumer that may hold a window of        *)
(* buffers, and those in between pass every message on, by copying it or   *)
(* by sending their input buffer.  The dispatch thread serves the          *)
(* transport and visits one worker after the other.                        *)
(***************************************************************************)
EXTENDS LocalLinks, SequencesExt

CONSTANTS
  FilterKinds,   \* what the workers in between can be: see Kind
  Window,        \* buffers the consumer keeps while it waits for the next
  MaxMessages    \* bound on the messages sent

\* A worker that passes messages on: does its run condition name its output
\* port, and does it send its input buffer instead of a copy?
Kind == [polls : BOOLEAN, sendsInput : BOOLEAN]

ASSUME PipelineAssumption ==
  /\ FilterKinds \subseteq Kind
  /\ Window \in Nat /\ \A l \in Links : Window < NumBufs[l]
  /\ MaxMessages \in Nat

Workers == 0 .. NumLinks
Filters == 1 .. NumLinks - 1
Sink == NumLinks

VARIABLES
  kind,          \* kind[w]: how filter w works
  mixes,         \* the consumer gives buffers back while it keeps older ones
  ls,            \* the links
  phase,         \* what the dispatch thread does next
  worker,        \* the worker it is at
  window,        \* buffers the consumer keeps, oldest first, and their messages
  sent,          \* the messages sent by the source
  got            \* got[l]: the messages handed to the worker behind link l

vars == <<kind, mixes, ls, phase, worker, window, sent, got>>

Init ==
  /\ kind \in [Filters -> FilterKinds] /\ mixes \in BOOLEAN
  /\ ls = [l \in Links |-> NewLink(l)]
  /\ phase = "start" /\ worker = 0
  /\ window = <<>>
  /\ sent = <<>>
  /\ got = [l \in Links |-> <<>>]

-----------------------------------------------------------------------------
(* The dispatch thread *)

\* The next worker, or the next call of Controller::run.
NextWorker ==
  /\ worker' = (worker + 1) % (NumLinks + 1)
  /\ phase' = IF worker = Sink THEN "start" ELSE "transport"

\* Controller::run gives the transport time when it starts, and before it
\* looks at each worker.
ServeTransport ==
  /\ phase \in {"start", "transport"}
  /\ ls' = Dispatched(ls)
  /\ phase' = IF phase = "start" THEN "transport" ELSE "poll"
  /\ UNCHANGED <<kind, mixes, worker, window, sent, got>>

\* runConditionSS and the one mask of the run condition.
WatchesOutput(w) == w = 0 \/ (w \in Filters /\ kind[w].polls)
WatchesInput(w) == w > 0

\* Whether s handed the worker behind link l a buffer that r had not.
HandOver(r, s, l) ==
  got' = IF r[l].in.data \/ ~s[l].in.data THEN got
         ELSE [got EXCEPT ![l] = Append(@, Content(s, l, s[l].in.buffer))]

\* markWorkersPolled, and the check of the run condition.
Poll ==
  LET w == worker
      s == IF WatchesInput(w) THEN TakeInput(ls, w) ELSE ls
      polled == IF WatchesOutput(w) THEN TakeOutput(s, w + 1) ELSE s
      met == /\ WatchesInput(w) => polled[w].in.data
             /\ WatchesOutput(w) => polled[w + 1].out.data \/ HasEmptyOutput(s, w + 1)
  IN /\ phase = "poll"
     /\ ls' = polled
     /\ IF w = 0 THEN UNCHANGED got ELSE HandOver(ls, polled, w)
     /\ IF met THEN phase' = "run" /\ UNCHANGED worker ELSE NextWorker
     /\ UNCHANGED <<kind, mixes, window, sent>>

Running(w) == phase = "run" /\ worker = w

-----------------------------------------------------------------------------
(* The source *)

Sends(s) ==
  /\ Len(sent) < MaxMessages
  /\ s[1].out.data
  /\ sent' = Append(sent, Len(sent) + 1)
  /\ ls' = SendCurrent(s, 1, Len(sent) + 1)

\* The source sends its buffer and goes on, with CP289Send or CP289Advance.
SourceSends ==
  /\ Running(0) /\ Sends(ls)
  /\ UNCHANGED <<kind, mixes, phase, worker, window, got>>

\* CP289Request
SourceRequests ==
  /\ Running(0) /\ TakeOutput(ls, 1) # ls
  /\ ls' = TakeOutput(ls, 1)
  /\ UNCHANGED <<kind, mixes, phase, worker, window, sent, got>>

\* Its run method returns RCC_OK, or RCC_ADVANCE to send the buffer.
SourceReturns ==
  /\ Running(0) /\ NextWorker
  /\ Sends(ls) \/ UNCHANGED <<sent, ls>>
  /\ UNCHANGED <<kind, mixes, window, got>>

-----------------------------------------------------------------------------
(* The workers in between *)

\* The input buffer goes on as it is.
FilterSendsInput(w) ==
  /\ kind[w].sendsInput
  /\ ls' = SendOn(ls, w)

\* The message is copied to an output buffer, requested if there is none, and
\* both ports are advanced, by the worker or by RCC_ADVANCE.
FilterCopies(w) ==
  LET s == TakeOutput(ls, w + 1)
      t == ls[w].in.buffer
  IN /\ ~kind[w].sendsInput
     /\ ls' = IF s[w + 1].out.data
                THEN Release(SendCurrent(s, w + 1, Content(s, w, t)), w, t)
                ELSE s

FilterRuns(w) ==
  /\ Running(w) /\ NextWorker
  /\ FilterSendsInput(w) \/ FilterCopies(w)
  /\ UNCHANGED <<kind, mixes, window, sent, got>>

-----------------------------------------------------------------------------
(* The consumer *)

\* CP289Release, CP289Advance or RCC_ADVANCE
SinkReleases ==
  /\ Running(Sink) /\ NextWorker
  /\ window = <<>> \/ mixes
  /\ ls' = Release(ls, Sink, ls[Sink].in.buffer)
  /\ UNCHANGED <<kind, mixes, window, sent, got>>

\* CP289Release of a buffer it kept.
SinkReleasesKept ==
  /\ Running(Sink)
  /\ \E i \in DOMAIN window :
       /\ i = 1 \/ mixes
       /\ ls' = Release(ls, Sink, window[i].buffer)
       /\ window' = RemoveAt(window, i)
  /\ UNCHANGED <<kind, mixes, phase, worker, sent, got>>

\* CP289Take: the window moves on by one buffer.
SinkTakes ==
  LET full == Len(window) = Window
      old == IF full THEN Head(window).buffer ELSE None
      kept == Keep(ls, Sink, old)
      new == [buffer |-> ls[Sink].in.buffer, message |-> Last(got[Sink])]
  IN /\ Running(Sink) /\ Window > 0
     /\ window' = Append(IF full THEN Tail(window) ELSE window, new)
     /\ ls' = TakeInput(kept, Sink)
     /\ HandOver(kept, ls', Sink)
     /\ NextWorker
     /\ UNCHANGED <<kind, mixes, sent>>

-----------------------------------------------------------------------------
Source == SourceSends \/ SourceRequests \/ SourceReturns
Consumer == SinkReleases \/ SinkReleasesKept \/ SinkTakes

Next ==
  \/ ServeTransport \/ Poll
  \/ Source \/ Consumer
  \/ \E w \in Filters : FilterRuns(w)

Spec == Init /\ [][Next]_vars

\* The dispatch thread goes on, and run methods return.  The source owes no
\* message; the others never return without having dealt with theirs, except a
\* filter that finds no output buffer.
Fairness ==
  /\ WF_vars(ServeTransport) /\ WF_vars(Poll) /\ WF_vars(SourceReturns)
  /\ WF_vars(\E w \in Filters : FilterRuns(w))
  /\ WF_vars(SinkReleases \/ SinkTakes)

FairSpec == Spec /\ Fairness
-----------------------------------------------------------------------------
(* Properties *)

TidOrNone(l) == Tids(l) \cup {None}
PortState(l) == [data : BOOLEAN, buffer : TidOrNone(l), ready : BOOLEAN]

\* Every variable keeps its range; no queue holds more than the buffers.
TypeOK ==
  /\ kind \in [Filters -> FilterKinds] /\ mixes \in BOOLEAN
  /\ phase \in {"start", "transport", "poll", "run"} /\ worker \in Workers
  /\ Len(window) <= Window
  /\ \A l \in Links :
       /\ ls[l].out \in PortState(l) /\ ls[l].in \in PortState(l)
       /\ ls[l].lastTid \in Tids(l) /\ ls[l].nextTid \in Tids(l)
       /\ ls[l].lastOrd \in Tids(l) \cup {-1}
       /\ ls[l].from \in [Tids(l) -> TidOrNone(l)]
       /\ IF l = 1 THEN ls[1].zfrom = [b \in Tids(1) |-> None] /\ ls[1].waiting = <<>>
          ELSE /\ ls[l].zfrom \in [Tids(l) -> TidOrNone(l - 1)]
               /\ Len(ls[l].waiting) <= NumBufs[l - 1]
       /\ Len(ls[l].queued) <= NumBufs[l]

\* The container's assertion: a port whose worker has no buffer is ready for
\* the next (OcpiCP289Controller.cxx:155), whatever the worker did with the
\* last one.
PortsReady ==
  \A l \in Links : /\ ~ls[l].in.data => ls[l].in.ready
                   /\ ~ls[l].out.data => ls[l].out.ready

OutputHeld(l, b) ==
  \/ ls[l].out.data /\ ls[l].out.buffer = b
  \/ \E i \in DOMAIN ls[l].queued : ls[l].queued[i] = b

InputHeld(l, t) ==
  \/ ls[l].in.data /\ ls[l].in.buffer = t
  \/ l = Sink /\ \E i \in DOMAIN window : window[i].buffer = t
  \/ /\ l < NumLinks
     /\ \/ \E i \in DOMAIN ls[l + 1].waiting : ls[l + 1].waiting[i] = t
        \/ \E b \in Tids(l + 1) : ls[l + 1].zfrom[b] = t

\* No buffer is lost: one that is marked in use is with a worker, waits to go
\* out, or is being read further down the line, and one that is with them is
\* marked in use.
BuffersOwned ==
  \A l \in Links : \A x \in Tids(l) :
    /\ ls[l].outInUse[x] <=> OutputHeld(l, x)
    /\ ls[l].inInUse[x] <=> InputHeld(l, x)

\* What a worker reads in a buffer that it has, or keeps, does not change under
\* it, however far up the line the message really is.
HeldStable ==
  /\ \A l \in Links : ls[l].in.data =>
       Content(ls, l, ls[l].in.buffer) = Last(got[l])
  /\ \A i \in DOMAIN window :
       Content(ls, Sink, window[i].buffer) = window[i].message

\* Every worker is handed every message once, intact and in the order of the
\* source's sends.
Buffers ==
  LET upTo[l \in 0 .. NumLinks] == IF l = 0 THEN 0 ELSE upTo[l - 1] + NumBufs[l]
  IN upTo[NumLinks]
Line == INSTANCE Stream WITH InPorts <- Links, Messages <- 1 .. MaxMessages,
                             Capacity <- Buffers
InOrder == Line!Safe

\* Nothing that the source sent stays in the line.
Delivered ==
  \A n \in 1 .. MaxMessages :
    (Len(sent) >= n /\ ~mixes) ~> (\A l \in Links : Len(got[l]) >= n)
=============================================================================
