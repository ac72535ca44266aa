----------------------------- MODULE RCCWorker -----------------------------
(***************************************************************************)
(* The life of one RCC worker in its container: the creation of its ports, *)
(* the control operations of the WCI interface and of the application API, *)
(* and the visits of the container's dispatch loop that decide whether the *)
(* worker's run method, or its ports' call-backs, execute.                 *)
(*                                                                         *)
(* A control operation and a pass of the dispatch loop hold the container's*)
(* mutex, hence each is one action.  The worker's own methods are code the *)
(* container calls: they return any result, and the run method may release *)
(* the buffers it has and request others.  Ports are not disconnected.     *)
(***************************************************************************)
EXTENDS Integers, FiniteSets

CONSTANTS
  Inputs, Outputs,   \* the ports of the worker's dispatch table
  Optional,          \* the ports that may be left unconnected
  Masks,             \* the port masks of the run condition, up to the first 0
  Timeout,           \* the run condition's timeout in ticks, 0 when it has none
  CallBacks,         \* the ports for which the worker has set a call-back
  Implemented,       \* the methods the dispatch table has
  MaxElapsed         \* bound on the ticks counted, for model checking

Ports == Inputs \cup Outputs
ControlOps == {"initialize", "start", "stop", "release", "test",
               "afterConfigure", "beforeQuery"}
Methods == ControlOps \cup {"run", "callBack"}

ASSUME RCCWorkerAssumption ==
  /\ IsFiniteSet(Inputs) /\ IsFiniteSet(Outputs) /\ Inputs \cap Outputs = {}
  /\ Optional \subseteq Ports
  /\ CallBacks \subseteq Ports
  /\ Masks \subseteq SUBSET Ports /\ {} \notin Masks
  /\ Implemented \subseteq Methods /\ "run" \in Implemented
  /\ Timeout \in Nat /\ MaxElapsed \in Nat /\ Timeout < MaxElapsed

Results == {"RCC_OK", "RCC_ERROR", "RCC_FATAL", "RCC_DONE", "RCC_ADVANCE"}
WorkerState == {"Exists", "Initialized", "Operational", "Suspended", "Unusable"}
WciError == {"success", "unknown", "unusable", "invalidSequence",
             "testNotImplemented", "propertyOverrun"}

VARIABLES
  m_state,          \* the state the container keeps for the worker
  enabled,          \* the dispatch loop visits the worker
  alive,            \* the worker object exists
  wciStatus,        \* the last operation and its error
  myState,          \* the control state the application API keeps
  runTimer,         \* "running" or "stopped"
  elapsed,          \* the time the run timer has accumulated
  portCount,        \* targetPortCount and sourcePortCount
  created,          \* the port objects that exist
  closed,           \* the ports whose circuit is closed, that is, connected
  connectedPorts,   \* the mask the container keeps of connected ports
  avail,            \* the ports for which the transport has a buffer
  current,          \* the ports for which the worker has a buffer
  called,           \* the method the last step called, if any (history)
  sinceRun          \* time since the run method last returned (history)

ctlVars  == <<m_state, enabled, alive, wciStatus>>
timeVars == <<runTimer, elapsed, sinceRun>>
portVars == <<portCount, created, closed, connectedPorts, avail, current>>
vars == <<ctlVars, myState, timeVars, portVars, called>>

Side(p) == IF p \in Inputs THEN "target" ELSE "source"
Table(d) == IF d = "target" THEN Inputs ELSE Outputs

Call(m, timedOut) ==
  [method |-> IF m \in Implemented \cup {"callBack"} THEN m ELSE "none",
   timedOut |-> timedOut]
NoCall == [method |-> "none", timedOut |-> FALSE]

\* What a method can return: one the worker leaves out counts as RCC_OK.
ResultsOf(m) == IF m \in Implemented THEN Results ELSE {"RCC_OK"}

-----------------------------------------------------------------------------
Init ==
  /\ m_state = "Exists" /\ enabled = FALSE /\ alive = TRUE
  /\ wciStatus = [op |-> "none", error |-> "success"]
  /\ myState = "EXISTS"
  /\ runTimer = "stopped" /\ elapsed = 0 /\ sinceRun = 0
  /\ portCount = [d \in {"target", "source"} |-> 0]
  /\ created = {} /\ closed = {} /\ connectedPorts = {}
  /\ avail = {} /\ current = {}
  /\ called = NoCall

-----------------------------------------------------------------------------
(* Ports *)

\* Worker::createInputPort and createOutputPort.  The port is counted first,
\* whatever becomes of it.
CreatePort(p) ==
  /\ alive /\ p \notin created
  /\ portCount[Side(p)] <= Cardinality(Table(Side(p)))      \* bound
  /\ portCount' = [portCount EXCEPT ![Side(p)] = @ + 1]
  /\ created' \in {created} \cup
       (IF portCount[Side(p)] < Cardinality(Table(Side(p)))
          THEN {created \cup {p}} ELSE {})
  /\ called' = NoCall
  /\ UNCHANGED <<ctlVars, myState, timeVars, closed, connectedPorts, avail, current>>

\* The connection protocol closes the circuit of a port.  Only an output port
\* goes through Worker::updatePort.
ConnectPort(p) ==
  /\ alive /\ p \in created \ closed
  /\ closed' = closed \cup {p}
  /\ IF p \in Outputs
       THEN connectedPorts' = connectedPorts \cup {p} /\ current' = current \ {p}
       ELSE UNCHANGED <<connectedPorts, current>>
  /\ called' = NoCall
  /\ UNCHANGED <<ctlVars, myState, timeVars, portCount, created, avail>>

\* The transport has a buffer for a connected port.
BufferArrives(p) ==
  /\ alive /\ p \in closed \ avail
  /\ avail' = avail \cup {p}
  /\ called' = NoCall
  /\ UNCHANGED <<ctlVars, myState, timeVars,
                 portCount, created, closed, connectedPorts, current>>

-----------------------------------------------------------------------------
(* Control operations: Worker::control *)

\* RCCWorkerInterface: the state after a method that leads to s returned rc.
After(rc, s) == CASE rc = "RCC_OK" -> s
                  [] rc = "RCC_ERROR" -> m_state
                  [] OTHER -> "Unusable"

\* Mutant: the result of the method is passed on as the error of the operation.
ErrorOfRaw(rc) == IF rc = "RCC_OK" THEN "success" ELSE rc

ErrorOf(rc) == CASE rc = "RCC_OK" -> "success"
                 [] rc = "RCC_ERROR" -> "unknown"
                 [] OTHER -> "unusable"

Report(op, error) == wciStatus' = [op |-> op, error |-> error]

\* Some required port is not connected: the loop over the existing ports.
RequiredMissing == \E p \in created : p \notin Optional /\ p \notin closed

PortsCounted == portCount["target"] + portCount["source"]
                  = Cardinality(Inputs) + Cardinality(Outputs)

Legal(op) ==
  CASE op = "initialize" -> m_state = "Exists"
    [] op = "start" -> /\ m_state \in {"Initialized", "Suspended"}
                       /\ PortsCounted /\ ~RequiredMissing
    [] op = "stop" -> m_state = "Operational"
    [] OTHER -> TRUE

ControlRefused(op) ==
  /\ m_state = "Unusable" \/ ~Legal(op)
  /\ Report(op, IF m_state = "Unusable" THEN "unusable" ELSE "invalidSequence")
  /\ called' = NoCall
  /\ UNCHANGED <<m_state, enabled, timeVars>>

ControlInitialize ==
  \E rc \in ResultsOf("initialize") :
    /\ m_state' = After(rc, "Initialized")
    /\ Report("initialize", ErrorOf(rc))
    /\ called' = Call("initialize", FALSE)
    /\ UNCHANGED <<enabled, timeVars>>

\* Mutant: the run timer is not started.
ControlStartNoTimer ==
  \E rc \in ResultsOf("start") :
    /\ m_state' = After(rc, "Operational")
    /\ enabled' = (enabled \/ rc = "RCC_OK")
    /\ Report("start", ErrorOf(rc))
    /\ called' = Call("start", FALSE)
    /\ UNCHANGED timeVars

ControlStart ==
  \E rc \in ResultsOf("start") :
    /\ m_state' = After(rc, "Operational")
    /\ enabled' = (enabled \/ rc = "RCC_OK")
    /\ runTimer' = IF rc = "RCC_OK" THEN "running" ELSE runTimer
    /\ sinceRun' = IF rc = "RCC_OK" THEN 0 ELSE sinceRun
    /\ Report("start", ErrorOf(rc))
    /\ called' = Call("start", FALSE)
    /\ UNCHANGED elapsed

\* Mutant: the worker is disabled only when its stop method succeeds.
ControlStopOnSuccess ==
  \E rc \in ResultsOf("stop") :
    /\ enabled' = (enabled /\ rc # "RCC_OK")
    /\ m_state' = After(rc, "Suspended")
    /\ runTimer' = IF rc = "RCC_OK" THEN "stopped" ELSE runTimer
    /\ elapsed' = IF rc = "RCC_OK" THEN 0 ELSE elapsed
    /\ Report("stop", ErrorOf(rc))
    /\ called' = Call("stop", FALSE)
    /\ UNCHANGED sinceRun

\* Mutant: the run timer is reset and goes on.
ControlStopTimerRuns ==
  \E rc \in ResultsOf("stop") :
    /\ enabled' = FALSE
    /\ m_state' = After(rc, "Suspended")
    /\ elapsed' = IF rc = "RCC_OK" THEN 0 ELSE elapsed
    /\ Report("stop", ErrorOf(rc))
    /\ called' = Call("stop", FALSE)
    /\ UNCHANGED <<runTimer, sinceRun>>

\* The worker is disabled whatever its stop method says.
ControlStop ==
  \E rc \in ResultsOf("stop") :
    /\ enabled' = FALSE
    /\ m_state' = After(rc, "Suspended")
    /\ runTimer' = IF rc = "RCC_OK" THEN "stopped" ELSE runTimer
    /\ elapsed' = IF rc = "RCC_OK" THEN 0 ELSE elapsed
    /\ Report("stop", ErrorOf(rc))
    /\ called' = Call("stop", FALSE)
    /\ UNCHANGED sinceRun

\* A worker without a release method: success, and nothing happens.
ControlRelease ==
  /\ \/ /\ "release" \in Implemented
        /\ \E rc \in Results :
             m_state' = After(rc, "Exists") /\ Report("release", ErrorOf(rc))
     \/ /\ "release" \notin Implemented
        /\ Report("release", "success") /\ UNCHANGED m_state
  /\ called' = Call("release", FALSE)
  /\ UNCHANGED <<enabled, timeVars>>

\* test, afterConfigure, beforeQuery: no state changes.
ControlOther(op) ==
  /\ \/ /\ op = "test" /\ op \notin Implemented
        /\ Report(op, "testNotImplemented")
     \/ /\ op = "test" => op \in Implemented
        /\ \E rc \in ResultsOf(op) :
             Report(op, IF rc = "RCC_OK" THEN "success" ELSE "unknown")
  /\ called' = Call(op, FALSE)
  /\ UNCHANGED <<m_state, enabled, timeVars>>

Control(op) ==
  /\ alive
  /\ \/ ControlRefused(op)
     \/ /\ m_state # "Unusable" /\ Legal(op)
        /\ \/ op = "initialize" /\ ControlInitialize
           \/ op = "start" /\ ControlStart
           \/ op = "stop" /\ ControlStop
           \/ op = "release" /\ ControlRelease
           \/ op \in {"test", "afterConfigure", "beforeQuery"} /\ ControlOther(op)
  /\ UNCHANGED <<alive, portVars>>

\* A WCI client uses the operations directly.
WciControl(op) == Control(op) /\ UNCHANGED myState

\* Worker::read and write of the properties.
WciAccess ==
  /\ alive
  /\ \E e \in {"success", "propertyOverrun"} : Report("access", e)
  /\ called' = NoCall
  /\ UNCHANGED <<m_state, enabled, alive, myState, timeVars, portVars>>

\* The table of the application API: where an operation is legal, where it
\* leads, and the WCI operation wciControls maps it to.
From == [initialize |-> {"EXISTS"}, start |-> {"SUSPENDED", "INITIALIZED"},
         stop |-> {"OPERATING"},
         release |-> {"INITIALIZED", "OPERATING", "SUSPENDED"},
         beforeQuery |-> {"INITIALIZED", "OPERATING", "SUSPENDED"},
         afterConfigure |-> {"INITIALIZED", "OPERATING", "SUSPENDED"},
         test |-> {"INITIALIZED"}]
To == [initialize |-> "INITIALIZED", start |-> "OPERATING",
       stop |-> "SUSPENDED", release |-> "EXISTS",
       beforeQuery |-> "NONE", afterConfigure |-> "NONE", test |-> "NONE"]
WciControls(op) == IF op = "test" THEN "release" ELSE op

\* CONTROL_OP: the outcome of the WCI operation is not looked at.  An illegal
\* call throws and changes nothing.
ApiControl(op) ==
  /\ myState \in From[op]
  /\ Control(WciControls(op))
  /\ myState' = IF To[op] = "NONE" THEN myState ELSE To[op]

-----------------------------------------------------------------------------
(* Dispatch: Controller::run for this worker *)

\* runConditionSS: the ports the run condition mentions.
Watched == UNION Masks

\* markWorkersPolled takes a buffer for each watched port that has none.
Taken == {p \in Watched \cap avail : p \notin current}
Active == Watched \cap (current \cup Taken)

TimedOut == Timeout > 0 /\ elapsed > Timeout

\* Mutant: one port of a mask is enough.
RunConditionAnyPort ==
  \E m \in Masks : m \cap (Active \cup (Optional \ connectedPorts)) # {}

\* Mutant: every mask has to be satisfied.
RunConditionAllMasks ==
  \A m \in Masks : m \subseteq Active \cup (Optional \ connectedPorts)

\* Optional ports that are not connected count as ready.
RunConditionMet ==
  LET ready == Active \cup (Optional \ connectedPorts)
  IN \E m \in Masks : m \subseteq ready

Visit == alive /\ enabled

\* Mutant: a visit resets the run timer instead of reading it.
RunIdleResets ==
  /\ Visit /\ ~TimedOut /\ ~RunConditionMet
  /\ current' = current \cup Taken
  /\ avail' = avail \ Taken
  /\ elapsed' = 0
  /\ called' = NoCall
  /\ UNCHANGED <<ctlVars, myState, runTimer, sinceRun,
                 portCount, created, closed, connectedPorts>>

RunIdle ==
  /\ Visit /\ ~TimedOut /\ ~RunConditionMet
  /\ current' = current \cup Taken
  /\ avail' = avail \ Taken
  /\ called' = NoCall
  /\ UNCHANGED <<ctlVars, myState, timeVars,
                 portCount, created, closed, connectedPorts>>

\* Any active port with a call-back replaces the run method.
RunCallBacks ==
  /\ Visit /\ (TimedOut \/ RunConditionMet)
  /\ Active \cap CallBacks # {}
  /\ \E held \in SUBSET (current \cup avail) :
       current' = held /\ avail' = avail \ (Taken \cup held)
  /\ \E failed \in BOOLEAN :
       /\ enabled' = (enabled /\ ~failed)
       /\ m_state' = IF failed THEN "Unusable" ELSE m_state
  /\ called' = Call("callBack", FALSE)
  /\ UNCHANGED <<alive, wciStatus, myState, timeVars,
                 portCount, created, closed, connectedPorts>>

\* Mutant: a worker that fails keeps being visited.
RunMethodStaysEnabled ==
  /\ Visit /\ (TimedOut \/ RunConditionMet)
  /\ Active \cap CallBacks = {}
  /\ called' = Call("run", TimedOut)
  /\ sinceRun' = 0
  /\ current' = {} /\ avail' = avail \ Taken
  /\ \E rc \in ResultsOf("run") :
       m_state' = IF rc \in {"RCC_ERROR", "RCC_FATAL"} THEN "Unusable" ELSE m_state
  /\ UNCHANGED <<enabled, runTimer, elapsed, alive, wciStatus, myState,
                 portCount, created, closed, connectedPorts>>

RunMethod ==
  /\ Visit /\ (TimedOut \/ RunConditionMet)
  /\ Active \cap CallBacks = {}
  /\ called' = Call("run", TimedOut)
  /\ sinceRun' = 0
  /\ \E rc \in ResultsOf("run"), held \in SUBSET (current \cup avail) :
       /\ current' = IF rc = "RCC_ADVANCE" THEN {} ELSE held
       /\ avail' = avail \ (Taken \cup held)
       /\ \/ rc = "RCC_ADVANCE" /\ UNCHANGED <<m_state, enabled, runTimer, elapsed>>
          \/ /\ rc = "RCC_DONE" /\ enabled' = FALSE
             /\ UNCHANGED <<m_state, runTimer, elapsed>>
          \/ /\ rc \in {"RCC_ERROR", "RCC_FATAL"}
             /\ enabled' = FALSE /\ m_state' = "Unusable" /\ runTimer' = "stopped"
             /\ UNCHANGED elapsed
          \/ /\ rc = "RCC_OK" /\ runTimer' = "running" /\ elapsed' = 0
             /\ UNCHANGED <<m_state, enabled>>
  /\ UNCHANGED <<alive, wciStatus, myState,
                 portCount, created, closed, connectedPorts>>

RunWorker == RunIdle \/ RunCallBacks \/ RunMethod

\* Time passes.
Tick ==
  /\ alive
  /\ elapsed' = IF runTimer = "running" /\ elapsed < MaxElapsed
                  THEN elapsed + 1 ELSE elapsed
  /\ sinceRun' = IF sinceRun < MaxElapsed THEN sinceRun + 1 ELSE sinceRun
  /\ called' = NoCall
  /\ UNCHANGED <<ctlVars, myState, runTimer, portVars>>

\* ~Worker, within ~Application's hold of the mutex: stop(true) in whatever
\* state, then the release that is there only when it is not implemented.
Destroy ==
  /\ alive /\ alive' = FALSE
  /\ enabled' = FALSE
  /\ \E rc \in ResultsOf("stop") :
       m_state' = IF "release" \in Implemented THEN After(rc, "Suspended") ELSE "Exists"
  /\ called' = Call("stop", FALSE)
  /\ UNCHANGED <<wciStatus, myState, timeVars, portVars>>

-----------------------------------------------------------------------------
Container == \/ \E p \in Ports : CreatePort(p) \/ ConnectPort(p) \/ BufferArrives(p)
             \/ RunWorker
             \/ Tick
             \/ Destroy

Next == Container \/ WciAccess \/ \E op \in ControlOps : WciControl(op)

\* An application that uses nothing but the API.
ApiNext == Container \/ WciAccess \/ \E op \in ControlOps : ApiControl(op)

Spec == Init /\ [][Next]_vars
ApiSpec == Init /\ [][ApiNext]_vars

\* The container keeps dispatching, and time passes.
Fairness == WF_vars(RunWorker) /\ WF_vars(Tick)
FairSpec == Spec /\ Fairness
FairApiSpec == ApiSpec /\ Fairness
-----------------------------------------------------------------------------
(* Properties *)

TypeOK ==
  /\ m_state \in WorkerState /\ enabled \in BOOLEAN /\ alive \in BOOLEAN
  /\ wciStatus \in [op : ControlOps \cup {"none", "access"}, error : WciError]
  /\ myState \in {"EXISTS", "INITIALIZED", "OPERATING", "SUSPENDED"}
  /\ runTimer \in {"running", "stopped"}
  /\ elapsed \in 0 .. MaxElapsed /\ sinceRun \in 0 .. MaxElapsed
  /\ portCount \in [{"target", "source"} -> Nat]
  /\ created \subseteq Ports /\ closed \subseteq Ports
  /\ connectedPorts \subseteq Outputs
  /\ avail \subseteq Ports /\ current \subseteq Ports
  /\ called \in [method : Methods \cup {"none"}, timedOut : BOOLEAN]

\* A visit stops the run timer before it reads it, which is legal for a running
\* timer only: whatever the methods return, an enabled worker's timer runs.
EnabledTimed == enabled => runTimer = "running"

\* A worker that is not operational, or not any more, is never visited.
EnabledOperational == enabled => m_state = "Operational"

\* The run method and the call-backs execute only in an operational worker.
RunsOperational ==
  [][called'.method \in {"run", "callBack"} => m_state = "Operational"]_vars

\* Nothing but its destruction calls a method of an unusable worker.
UnusableQuiet ==
  [][m_state = "Unusable" /\ alive' => called'.method = "none"]_vars

\* START, the one step that makes a worker operational, starts a run timer
\* that is stopped.
StartsStoppedTimer ==
  [][m_state # "Operational" /\ m_state' = "Operational"
       => runTimer = "stopped"]_vars

\* Without a time-out, the worker runs only when some mask of its run condition
\* is satisfied: a buffer at every port of it that is connected.
RunsReady ==
  [][called'.method = "run" /\ ~called'.timedOut
       => \E m \in Masks : m \cap closed \subseteq current \cup Taken]_vars

\* A worker is told that it timed out only when it has not run for longer than
\* its timeout.
TimedOutIdle ==
  [][called'.method = "run" /\ called'.timedOut => sinceRun > Timeout]_vars

\* A worker that an application has suspended is not visited, although the API
\* goes on to SUSPENDED whatever the stop operation of the container reports.
ApiQuiet == myState = "SUSPENDED" => ~enabled

\* An enabled worker with a timeout is run again and again, whatever its ports.
TimedRun == Timeout > 0 =>
  (enabled ~> \/ called.method \in {"run", "callBack"}
              \/ ~enabled)

\* A worker whose run condition is satisfied runs.
ReadyRun == \A m \in Masks :
  enabled /\ m \subseteq current \cup avail
    ~> \/ called.method \in {"run", "callBack"}
       \/ ~enabled
=============================================================================
