------------------------------ MODULE Dispatch ------------------------------
(***************************************************************************)
(* The dispatch loop of the RCC container and its clients.  One thread     *)
(* calls Container::dispatch again and again; the clients, other threads,  *)
(* create and delete applications and workers, start and stop.  What a     *)
(* visit does to one worker is the matter of RCCWorker; here a worker is   *)
(* ready when a visit would run it.                                        *)
(*                                                                         *)
(* The children of a parent are a linked list without a lock of its own.   *)
(* A pass, createApplication, createWorker with an URL and the body of     *)
(* ~Application hold the container's mutex.  The end of ~Application,      *)
(* createWorker with an artifact and ~Worker on its own do not.            *)
(*                                                                         *)
(* Clients keep two rules, without which no call is safe: none uses an     *)
(* application or a worker that a call creates or deletes, and the calls   *)
(* without the mutex that Unlocked does not name are made while no other   *)
(* thread is in the container, as in a program of one thread.              *)
(***************************************************************************)
EXTENDS Naturals, SequencesExt, Functions

CONSTANTS
  Applications,
  Workers,
  Clients,
  Owner,                 \* the application of each worker
  MAX_RUNS_PER_CALL,     \* applications visited in a pass, at most
  Unlocked,              \* calls without the mutex made beside other threads
  Container,             \* the parent of the applications
  None                   \* the null pointer

Children == Applications \cup Workers
Parents == Applications \cup {Container}

ASSUME DispatchAssumption ==
  /\ Owner \in [Workers -> Applications]
  /\ MAX_RUNS_PER_CALL \in Nat \ {0}
  /\ Unlocked \subseteq {"create", "delete"}
  /\ Applications \cap Workers = {}
  /\ None \notin Children /\ Container \notin Children \cup {None}
  /\ {"free", "loop"} \cap Clients = {}

VARIABLES
  m_start,      \* the container is started
  mutex,        \* its mutex: "free", "loop", or the client that holds it
  first,        \* first[p]: myChildren of a parent
  next,         \* next[x]: the link of a child
  life,         \* life[x]: "none", "bare" (in its constructor), "live",
                \*   "dying" (in its destructor), "freed"
  listed,       \* listed[p]: the children linked to p, newest first (history)
  ready,        \* workers that a visit would run
  call,         \* call[c]: the call that client c is in
  pc,           \* the dispatch thread: "idle", "started", "enter", "pass"
  app, worker,  \* the two cursors of Controller::run
  anyone_run,
  run_count

listVars == <<first, next, life, listed>>
loopVars == <<pc, app, worker, anyone_run, run_count>>
vars == <<m_start, mutex, listVars, ready, call, loopVars>>

NoCall == [step |-> "none", child |-> None, cp |-> None, after |-> None]

Init ==
  /\ m_start = TRUE /\ mutex = "free"
  /\ first = [p \in Parents |-> None] /\ next = [x \in Children |-> None]
  /\ life = [x \in Children |-> "none"] /\ listed = [p \in Parents |-> <<>>]
  /\ ready = {} /\ call = [c \in Clients |-> NoCall]
  /\ pc = "idle" /\ app = None /\ worker = None
  /\ anyone_run = FALSE /\ run_count = 0
-----------------------------------------------------------------------------
(* The lists *)

Parent(x) == IF x \in Workers THEN Owner[x] ELSE Container
Kind(p) == IF p = Container THEN Applications ELSE Workers
Exists(x) == life[x] \in {"bare", "live", "dying"}

\* What a read of a pointer may give: memory that is no object's holds any.
FirstChild(p) ==
  IF p = Container THEN {first[p]}
  ELSE IF Exists(p) THEN {first[p]} ELSE Kind(p) \cup {None}
NextChild(x) == IF Exists(x) THEN {next[x]} ELSE Kind(Parent(x)) \cup {None}

Without(list, x) ==
  IF x \in ToSet(list) THEN RemoveAt(list, CHOOSE i \in DOMAIN list : list[i] = x)
                       ELSE list
-----------------------------------------------------------------------------
(* Calls of the clients, a step for each access to a list *)

\* A call without the mutex, in a program that makes it beside no other thread.
Exclusive(c) ==
  \/ /\ "create" \notin Unlocked
     /\ call[c].step \in {"link", "build"} /\ mutex # c
  \/ /\ "delete" \notin Unlocked
     /\ call[c].step \in {"walk", "unlink", "missing"} /\ call[c].child \in Workers

Quiet == \A c \in Clients : ~Exclusive(c)
MayBegin(c) == call[c] = NoCall /\ Quiet
Alone == pc = "idle" /\ \A c \in Clients : call[c] = NoCall

\* Mutant: addChild does not link the new child to the others.
AddChildAlone(c, x) ==
  /\ MayBegin(c) /\ life[x] = "none"
  /\ next' = [next EXCEPT ![x] = None]
  /\ life' = [life EXCEPT ![x] = "bare"]
  /\ call' = [call EXCEPT ![c] = [NoCall EXCEPT !.step = "link", !.child = x]]
  /\ UNCHANGED <<m_start, first, listed, ready, loopVars>>

\* The base class's constructor calls addChild, which reads the first child ...
AddChild(c, x) ==
  /\ MayBegin(c) /\ life[x] = "none"
  /\ next' = [next EXCEPT ![x] = first[Parent(x)]]
  /\ life' = [life EXCEPT ![x] = "bare"]
  /\ call' = [call EXCEPT ![c] = [NoCall EXCEPT !.step = "link", !.child = x]]
  /\ UNCHANGED <<m_start, first, listed, ready, loopVars>>

\* ... and replaces it.
Link(c) ==
  LET x == call[c].child IN
  /\ call[c].step = "link"
  /\ first' = [first EXCEPT ![Parent(x)] = x]
  /\ listed' = [listed EXCEPT ![Parent(x)] = <<x>> \o @]
  /\ call' = [call EXCEPT ![c].step = "build"]
  /\ UNCHANGED <<m_start, mutex, next, life, ready, loopVars>>

\* The rest of the constructor, and of the call.
Build(c) ==
  /\ call[c].step = "build"
  /\ life' = [life EXCEPT ![call[c].child] = "live"]
  /\ mutex' = IF mutex = c THEN "free" ELSE mutex
  /\ call' = [call EXCEPT ![c] = NoCall]
  /\ UNCHANGED <<m_start, first, next, listed, ready, loopVars>>

\* Container::createApplication.
CreateApplication(c, a) ==
  /\ mutex = "free" /\ mutex' = c
  /\ AddChild(c, a)

\* Application::createWorker with an URL.
CreateWorker(c, w) ==
  /\ mutex = "free" /\ mutex' = c
  /\ life[Owner[w]] = "live"
  /\ AddChild(c, w)

\* Application::createWorker with an artifact, of the base class.
CreateWorkerOfArtifact(c, w) ==
  /\ "create" \in Unlocked \/ Alone
  /\ life[Owner[w]] = "live"
  /\ AddChild(c, w)
  /\ UNCHANGED mutex

\* Mutant: ~Application does not take the mutex.
DeleteApplicationUnlocked(c, a) ==
  /\ MayBegin(c) /\ life[a] = "live"
  /\ \A d \in Clients : call[d].child \in Workers => Owner[call[d].child] # a
  /\ life' = [life EXCEPT ![a] = "dying"]
  /\ call' = [call EXCEPT ![c] = [NoCall EXCEPT !.step = "clear", !.child = a]]
  /\ UNCHANGED <<m_start, mutex, first, next, listed, ready, loopVars>>

\* ~Application, whose body takes the mutex ...
DeleteApplication(c, a) ==
  /\ MayBegin(c) /\ life[a] = "live"
  /\ \A d \in Clients : call[d].child \in Workers => Owner[call[d].child] # a
  /\ mutex = "free" /\ mutex' = c
  /\ life' = [life EXCEPT ![a] = "dying"]
  /\ call' = [call EXCEPT ![c] = [NoCall EXCEPT !.step = "clear", !.child = a]]
  /\ UNCHANGED <<m_start, first, next, listed, ready, loopVars>>

\* ... deletes the workers one by one, each time the first ...
ClearWorker(c) ==
  LET a == call[c].child
      w == first[a]
  IN /\ call[c].step = "clear" /\ w # None
     /\ \E n \in NextChild(w) : first' = [first EXCEPT ![a] = n]
     /\ listed' = [listed EXCEPT ![a] = Without(@, w)]
     /\ life' = [life EXCEPT ![w] = "freed"]
     /\ ready' = ready \ {w}
     /\ UNCHANGED <<m_start, mutex, next, call, loopVars>>

\* ... and releases the mutex; the base class goes on with releaseChild.
Unlock(c) ==
  /\ call[c].step = "clear" /\ first[call[c].child] = None
  /\ mutex' = "free"
  /\ call' = [call EXCEPT ![c].step = "walk", ![c].cp = Container]
  /\ UNCHANGED <<m_start, listVars, ready, loopVars>>

\* ~Worker on its own: the worker is disabled and its base class goes on with
\* releaseChild.
DeleteWorker(c, w) ==
  /\ MayBegin(c)
  /\ life[w] = "live" /\ life[Owner[w]] = "live"
  /\ "delete" \in Unlocked \/ Alone
  /\ life' = [life EXCEPT ![w] = "dying"]
  /\ ready' = ready \ {w}
  /\ call' = [call EXCEPT ![c] =
                [NoCall EXCEPT !.step = "walk", !.child = w, !.cp = Owner[w]]]
  /\ UNCHANGED <<m_start, mutex, first, next, listed, loopVars>>

\* A step of releaseChild along the list.  cp is the address of the pointer it
\* looks at: of the parent's first child, or of the link of a child.
Walk(c) ==
  LET child == call[c].child
      cp == call[c].cp
  IN /\ call[c].step = "walk"
     /\ \E x \in IF cp = Parent(child) THEN FirstChild(cp) ELSE NextChild(cp) :
          call' = [call EXCEPT ![c] =
            IF x = child THEN [@ EXCEPT !.step = "unlink", !.after = next[child]]
            ELSE IF x = None THEN [@ EXCEPT !.step = "missing"]
            ELSE [@ EXCEPT !.cp = x]]
     /\ UNCHANGED <<m_start, mutex, listVars, ready, loopVars>>

\* The child is found: what points to it is replaced, and it is freed.
Unlink(c) ==
  LET child == call[c].child
      p == Parent(child)
      cp == call[c].cp
  IN /\ call[c].step = "unlink"
     /\ IF cp = p
          THEN first' = [first EXCEPT ![p] = call[c].after] /\ UNCHANGED next
          ELSE next' = [next EXCEPT ![cp] = call[c].after] /\ UNCHANGED first
     /\ listed' = [listed EXCEPT ![p] = Without(@, child)]
     /\ life' = [life EXCEPT ![child] = "freed"]
     /\ call' = [call EXCEPT ![c] = NoCall]
     /\ UNCHANGED <<m_start, mutex, ready, loopVars>>

\* A worker is started, or its run condition becomes true.
BecomeReady(w) ==
  /\ life[w] = "live" /\ w \notin ready
  /\ ready' = ready \cup {w}
  /\ UNCHANGED <<m_start, mutex, listVars, call, loopVars>>

\* Worker::control with WCI_CONTROL_STOP.
StopWorker(w) ==
  /\ mutex = "free" /\ w \in ready
  /\ ready' = ready \ {w}
  /\ UNCHANGED <<m_start, mutex, listVars, call, loopVars>>

\* Container::start and stop set the flag without the mutex.
StartStop ==
  /\ m_start' \in BOOLEAN
  /\ UNCHANGED <<mutex, listVars, ready, call, loopVars>>
-----------------------------------------------------------------------------
(* The dispatch thread *)

\* Container::dispatch reads the flag before it takes the mutex.
CheckStarted ==
  /\ pc = "idle" /\ m_start
  /\ Quiet
  /\ pc' = "started"
  /\ UNCHANGED <<m_start, mutex, listVars, ready, call, app, worker, anyone_run, run_count>>

\* Controller::run, up to the loop.
BeginPass ==
  /\ pc = "started" /\ mutex = "free"
  /\ app' = first[Container]
  /\ IF app' = None THEN pc' = "idle" /\ UNCHANGED mutex
                    ELSE pc' = "enter" /\ mutex' = "loop"
  /\ UNCHANGED <<m_start, listVars, ready, call, worker, anyone_run, run_count>>

\* Mutant: the cursor is moved before the first visit.
EnterApplicationLate ==
  /\ pc = "enter"
  /\ pc' = "pass"
  /\ \E w \in FirstChild(app) :
       worker' \in IF w = None THEN {None} ELSE NextChild(w)
  /\ UNCHANGED <<m_start, mutex, listVars, ready, call, app, anyone_run, run_count>>

\* The cursor to the first worker of an application.
EnterApplication ==
  /\ pc = "enter"
  /\ pc' = "pass"
  /\ worker' \in FirstChild(app)
  /\ UNCHANGED <<m_start, mutex, listVars, ready, call, app, anyone_run, run_count>>

\* A ready worker runs, by its run method or by a port's call-back (which does
\* not count in anyone_run).  Memory that is no worker's may look ready.
RunIfReady ==
  \/ /\ worker \in ready \/ life[worker] \notin {"live", "dying"}
     /\ ready' \in {ready, ready \ {worker}}
     /\ anyone_run' \in {anyone_run, TRUE}
  \/ /\ worker \notin ready
     /\ UNCHANGED <<ready, anyone_run>>

\* Mutant: after a run the visits begin again with the first worker.
VisitFromFirst ==
  /\ pc = "pass" /\ worker # None
  /\ RunIfReady
  /\ worker' \in IF worker \in ready THEN FirstChild(app) ELSE NextChild(worker)
  /\ UNCHANGED <<m_start, mutex, listVars, call, pc, app, run_count>>

\* A visit, and the cursor to the next worker.
Visit ==
  /\ pc = "pass" /\ worker # None
  /\ RunIfReady
  /\ worker' \in NextChild(worker)
  /\ UNCHANGED <<m_start, mutex, listVars, call, pc, app, run_count>>

\* Mutant: the limit on the applications of a pass is one too high.
GoOnOneMore(n) == n # None /\ anyone_run /\ run_count + 1 <= MAX_RUNS_PER_CALL

\* The condition of the loop, for the next application n.
GoOn(n) == n # None /\ anyone_run /\ run_count + 1 < MAX_RUNS_PER_CALL

\* The end of an application's workers.
NextApplication ==
  /\ pc = "pass" /\ worker = None
  /\ \E n \in NextChild(app) :
       IF GoOn(n)
         THEN /\ pc' = "enter" /\ app' = n /\ run_count' = run_count + 1
              /\ UNCHANGED <<mutex, anyone_run>>
         ELSE /\ pc' = "idle" /\ app' = None /\ mutex' = "free"
              /\ run_count' = 0 /\ anyone_run' = FALSE
  /\ UNCHANGED <<m_start, listVars, ready, call, worker>>

Loop == CheckStarted \/ BeginPass \/ EnterApplication \/ Visit \/ NextApplication

Step(c) == \/ Link(c) \/ Build(c)
           \/ ClearWorker(c) \/ Unlock(c)
           \/ Walk(c) \/ Unlink(c)

Begin(c) ==
  \/ \E a \in Applications : CreateApplication(c, a) \/ DeleteApplication(c, a)
  \/ \E w \in Workers :
       CreateWorker(c, w) \/ CreateWorkerOfArtifact(c, w) \/ DeleteWorker(c, w)

Others ==
  \/ \E w \in Workers : BecomeReady(w) \/ StopWorker(w)
  \/ StartStop

Next == Loop \/ (\E c \in Clients : Begin(c) \/ Step(c)) \/ Others

Spec == Init /\ [][Next]_vars

\* The dispatch thread runs, and a call that has begun ends.
FairSpec == /\ Spec
            /\ WF_vars(Loop)
            /\ \A c \in Clients : WF_vars(Step(c))
-----------------------------------------------------------------------------
(* Properties *)

Steps == {"none", "link", "build", "clear", "walk", "unlink", "missing"}
Calls == [step : Steps, child : Children \cup {None},
          cp : Children \cup {Container, None}, after : Children \cup {None}]

TypeOK ==
  /\ m_start \in BOOLEAN /\ anyone_run \in BOOLEAN
  /\ mutex \in {"free", "loop"} \cup Clients
  /\ first \in [Parents -> Children \cup {None}]
  /\ next \in [Children -> Children \cup {None}]
  /\ life \in [Children -> {"none", "bare", "live", "dying", "freed"}]
  /\ listed \in [Parents -> Seq(Children)]
  /\ ready \subseteq Workers
  /\ call \in [Clients -> Calls]
  /\ pc \in {"idle", "started", "enter", "pass"}
  /\ app \in Applications \cup {None} /\ worker \in Workers \cup {None}
  /\ run_count \in 0 .. MAX_RUNS_PER_CALL - 1

\* ~Application locks the loop out until the workers are gone: the worker that
\* the loop is about to visit has been constructed and not freed, and is one of
\* the application's that it visits (unless that application was freed under it).
LockedOut ==
  worker # None =>
    \/ ~Exists(app)
    \/ life[worker] \in {"live", "dying"} /\ Owner[worker] = app

\* The application that the loop visits exists.
AppExists == pc \in {"enter", "pass"} => Exists(app)

\* What the loop visits exists, the application and the worker: no deletion
\* frees them under it.
VisitedExist == AppExists /\ (worker # None => Exists(worker))

\* No call is at the assertion of releaseChild, "child missing from parent".
ChildPresent == \A c \in Clients : call[c].step # "missing"

\* From head along the links one meets the elements of the list, each once.
IsChain(list, head, link) ==
  /\ IsInjective(list)
  /\ head = IF list = <<>> THEN None ELSE list[1]
  /\ \A i \in DOMAIN list :
       link[list[i]] = IF i = Len(list) THEN None ELSE list[i + 1]

\* No child is lost, none is left behind in a list: the pointers are the list of
\* the children linked and not yet unlinked, newest first, whatever call is at
\* which step of its walk.
ListsWhole == \A p \in Parents : IsChain(listed[p], first[p], next)

\* A pass comes to its end, whatever the workers do (unless its application is
\* freed under it).
PassEnds == pc \in {"enter", "pass"} ~> pc \notin {"enter", "pass"} \/ ~AppExists

\* While the container is started, the loop comes to each ready worker of the
\* application that remains the first, and so runs it (the escapes: it is
\* stopped, deleted, no more first, or the loop's application is freed under it).
FirstServed ==
  \A w \in Workers :
    w \in ready ~> \/ pc = "pass" /\ worker = w
                   \/ w \notin ready \/ ~m_start
                   \/ first[Container] # Owner[w]
                   \/ ~AppExists
=============================================================================
