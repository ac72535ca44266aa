--------------------------- MODULE RCCWorker_proofs ---------------------------
(***************************************************************************)
(* Theorems of RCCWorker, for every set of ports, run condition, timeout   *)
(* and dispatch table.  Both ways to control a worker are covered: the WCI *)
(* operations (Spec) and the application API (ApiSpec).                    *)
(*                                                                         *)
(* EnabledTimed is inductive.  The others need the dispatch table to have  *)
(* no release method: with one, RELEASE takes an operational worker back   *)
(* to Exists and leaves it enabled with its timer running (the runs        *)
(* released_runs shows the first half).                                    *)
(***************************************************************************)
EXTENDS RCCWorker, TLAPS

\* The steps of both specifications: whatever becomes of myState.
AnyNext == \/ Container
           \/ WciAccess
           \/ \E op \in ControlOps : Control(op)

\* The run timer runs in an operational worker, or is left running in one that
\* a method made unusable.
TimedOperational ==
  alive /\ runTimer = "running" => m_state \in {"Operational", "Unusable"}

IInv == EnabledTimed /\ EnabledOperational /\ TimedOperational

-----------------------------------------------------------------------------
\* A step of either specification is one of AnyNext.
LEMMA NextIsAny == Next \/ ApiNext => AnyNext
<1>1. \A op \in ControlOps : WciControls(op) \in ControlOps
  BY DEF WciControls, ControlOps
<1>2. QED
  BY <1>1 DEF Next, ApiNext, AnyNext, WciControl, ApiControl

\* The range of every variable is kept by a step that keeps myState's.
LEMMA TypeStep ==
  ASSUME TypeOK, [AnyNext]_vars,
         myState' \in {"EXISTS", "INITIALIZED", "OPERATING", "SUSPENDED"}
  PROVE  TypeOK'
<1>1. CASE UNCHANGED vars
  BY <1>1 DEF TypeOK, vars, ctlVars, timeVars, portVars
<1>2. ASSUME NEW p \in Ports, CreatePort(p) \/ ConnectPort(p) \/ BufferArrives(p)
      PROVE  TypeOK'
  <2>1. CASE CreatePort(p)
    BY <2>1 DEF TypeOK, CreatePort, Side, NoCall, ctlVars, timeVars
  <2>2. CASE ConnectPort(p)
    BY <2>2 DEF TypeOK, ConnectPort, NoCall, ctlVars, timeVars
  <2>3. CASE BufferArrives(p)
    BY <2>3 DEF TypeOK, BufferArrives, NoCall, ctlVars, timeVars
  <2>4. QED
    BY <1>2, <2>1, <2>2, <2>3
<1>3. Watched \subseteq Ports /\ Taken \subseteq Ports
  BY RCCWorkerAssumption DEF Watched, Taken
<1>4. CASE RunIdle
  BY <1>3, <1>4 DEF TypeOK, RunIdle, NoCall, ctlVars, timeVars
<1>5. CASE RunCallBacks
  BY <1>3, <1>5 DEF TypeOK, RunCallBacks, Call, Methods, timeVars, WorkerState
<1>6. CASE RunMethod
  <2>1. current' \subseteq Ports /\ avail' \subseteq Ports
    BY <1>3, <1>6 DEF TypeOK, RunMethod
  <2>2. TimedOut \in BOOLEAN
    BY DEF TimedOut
  <2>3. called' \in [method : Methods \cup {"none"}, timedOut : BOOLEAN]
    BY <1>6, <2>2 DEF RunMethod, Call, Methods
  <2>4. /\ m_state' \in WorkerState /\ enabled' \in BOOLEAN
        /\ runTimer' \in {"running", "stopped"} /\ elapsed' \in 0 .. MaxElapsed
    <3>1. m_state' \in {m_state, "Unusable"} /\ enabled' \in {enabled, FALSE}
      BY <1>6 DEF RunMethod
    <3>2. runTimer' \in {runTimer, "running", "stopped"} /\ elapsed' \in {elapsed, 0}
      BY <1>6 DEF RunMethod
    <3>3. 0 \in 0 .. MaxElapsed
      BY RCCWorkerAssumption
    <3>4. QED
      BY <3>1, <3>2, <3>3 DEF TypeOK, WorkerState
  <2>5. sinceRun' \in 0 .. MaxElapsed
    BY <1>6, RCCWorkerAssumption DEF RunMethod
  <2>6. QED
    BY <1>6, <2>1, <2>3, <2>4, <2>5 DEF TypeOK, RunMethod
<1>7. CASE Tick
  <2>1. elapsed' \in 0 .. MaxElapsed /\ sinceRun' \in 0 .. MaxElapsed
    BY <1>7, RCCWorkerAssumption DEF TypeOK, Tick
  <2>2. QED
    BY <1>7, <2>1 DEF TypeOK, Tick, NoCall, ctlVars, portVars
<1>8. CASE Destroy
  <2>1. m_state' \in WorkerState
    BY <1>8 DEF TypeOK, Destroy, After, WorkerState
  <2>2. QED
    BY <1>8, <2>1 DEF TypeOK, Destroy, Call, Methods, ControlOps, timeVars, portVars
<1>9. CASE WciAccess
  BY <1>9 DEF TypeOK, WciAccess, Report, NoCall, WciError, timeVars, portVars
<1>10. ASSUME NEW op \in ControlOps, Control(op)
       PROVE  TypeOK'
  <2> DEFINE Status == [op : ControlOps \cup {"none", "access"}, error : WciError]
             Calls == [method : Methods \cup {"none"}, timedOut : BOOLEAN]
  <2>1. \A rc, s : s \in WorkerState => After(rc, s) \in WorkerState
    BY DEF TypeOK, After, WorkerState
  <2>2. \A rc : ErrorOf(rc) \in WciError
    BY DEF ErrorOf, WciError
  <2>3. \A m \in ControlOps : Call(m, FALSE) \in Calls
    BY DEF Call, Methods
  <2>4. NoCall \in Calls /\ m_state \in WorkerState
    BY DEF NoCall, TypeOK
  <2>5. SUFFICES /\ m_state' \in WorkerState /\ enabled' \in BOOLEAN
                 /\ wciStatus' \in Status /\ called' \in Calls
                 /\ runTimer' \in {"running", "stopped"}
                 /\ elapsed' \in 0 .. MaxElapsed /\ sinceRun' \in 0 .. MaxElapsed
    BY <1>10 DEF Control, TypeOK, portVars
  <2> HIDE DEF Calls
  <2>6. CASE ControlRefused(op)
    BY <2>4, <2>6 DEF ControlRefused, Report, TypeOK, WciError, timeVars
  <2>7. CASE ControlInitialize
    <3>1. m_state' \in WorkerState /\ wciStatus' \in Status
      BY <2>1, <2>2, <2>7 DEF ControlInitialize, Report, WorkerState, ControlOps
    <3>2. called' \in Calls
      BY <2>3, <2>7 DEF ControlInitialize, ControlOps
    <3>3. QED
      BY <2>7, <3>1, <3>2 DEF ControlInitialize, TypeOK, timeVars
  <2>8. CASE ControlStart
    <3>1. PICK rc : /\ m_state' = After(rc, "Operational")
                    /\ enabled' = (enabled \/ rc = "RCC_OK")
                    /\ runTimer' = IF rc = "RCC_OK" THEN "running" ELSE runTimer
                    /\ sinceRun' = IF rc = "RCC_OK" THEN 0 ELSE sinceRun
                    /\ wciStatus' = [op |-> "start", error |-> ErrorOf(rc)]
      BY <2>8 DEF ControlStart, Report
    <3>2. m_state' \in WorkerState /\ wciStatus' \in Status
      BY <3>1, <2>1, <2>2 DEF WorkerState, ControlOps
    <3>3. called' \in Calls /\ elapsed' = elapsed
      BY <2>8, <2>3 DEF ControlStart, ControlOps
    <3>4. sinceRun' \in 0 .. MaxElapsed /\ runTimer' \in {"running", "stopped"}
      BY <3>1, RCCWorkerAssumption DEF TypeOK
    <3>5. QED
      BY <3>1, <3>2, <3>3, <3>4 DEF TypeOK
  <2>9. CASE ControlStop
    <3>1. PICK rc : /\ enabled' = FALSE
                    /\ m_state' = After(rc, "Suspended")
                    /\ runTimer' = IF rc = "RCC_OK" THEN "stopped" ELSE runTimer
                    /\ elapsed' = IF rc = "RCC_OK" THEN 0 ELSE elapsed
                    /\ wciStatus' = [op |-> "stop", error |-> ErrorOf(rc)]
      BY <2>9 DEF ControlStop, Report
    <3>2. m_state' \in WorkerState /\ wciStatus' \in Status
      BY <3>1, <2>1, <2>2 DEF WorkerState, ControlOps
    <3>3. called' \in Calls /\ sinceRun' = sinceRun
      BY <2>9, <2>3 DEF ControlStop, ControlOps
    <3>4. elapsed' \in 0 .. MaxElapsed /\ runTimer' \in {"running", "stopped"}
      BY <3>1, RCCWorkerAssumption DEF TypeOK
    <3>5. QED
      BY <3>1, <3>2, <3>3, <3>4 DEF TypeOK
  <2>10. CASE ControlRelease
    <3>1. m_state' \in WorkerState /\ wciStatus' \in Status
      BY <2>1, <2>2, <2>4, <2>10 DEF ControlRelease, Report, WorkerState, WciError, ControlOps
    <3>2. QED
      BY <2>3, <2>10, <3>1 DEF ControlRelease, TypeOK, timeVars, ControlOps
  <2>11. CASE ControlOther(op)
    <3>1. wciStatus' \in Status
      BY <2>11 DEF ControlOther, Report, WciError
    <3>2. QED
      BY <2>3, <2>4, <2>11, <3>1 DEF ControlOther, TypeOK, timeVars
  <2>12. QED
    BY <1>10, <2>6, <2>7, <2>8, <2>9, <2>10, <2>11 DEF Control
<1>11. QED
  BY <1>1, <1>2, <1>4, <1>5, <1>6, <1>7, <1>8, <1>9, <1>10
     DEF AnyNext, Container, RunWorker

\* The application's control state stays in its range.
LEMMA MyStateType ==
  ASSUME TypeOK, [Next]_vars \/ [ApiNext]_vars
  PROVE  myState' \in {"EXISTS", "INITIALIZED", "OPERATING", "SUSPENDED"}
<1>1. CASE UNCHANGED vars
  BY <1>1 DEF TypeOK, vars
<1>2. CASE Container
  BY <1>2 DEF TypeOK, Container, CreatePort, ConnectPort, BufferArrives, RunWorker,
              RunIdle, RunCallBacks, RunMethod, Tick, Destroy
<1>3. CASE WciAccess
  BY <1>3 DEF TypeOK, WciAccess
<1>4. ASSUME NEW op \in ControlOps, WciControl(op)
      PROVE  myState' \in {"EXISTS", "INITIALIZED", "OPERATING", "SUSPENDED"}
  BY <1>4 DEF TypeOK, WciControl
<1>5. ASSUME NEW op \in ControlOps, ApiControl(op)
      PROVE  myState' \in {"EXISTS", "INITIALIZED", "OPERATING", "SUSPENDED"}
  BY <1>5 DEF TypeOK, ApiControl, To, ControlOps
<1>6. QED
  BY <1>1, <1>2, <1>3, <1>4, <1>5 DEF Next, ApiNext

\* The timer of an enabled worker keeps running.
LEMMA EnabledTimedStep ==
  ASSUME EnabledTimed, [AnyNext]_vars
  PROVE  EnabledTimed'
<1>1. CASE UNCHANGED vars
  BY <1>1 DEF EnabledTimed, vars, ctlVars, timeVars
<1>2. ASSUME NEW p \in Ports, CreatePort(p) \/ ConnectPort(p) \/ BufferArrives(p)
      PROVE  EnabledTimed'
  BY <1>2 DEF EnabledTimed, CreatePort, ConnectPort, BufferArrives, ctlVars, timeVars
<1>3. CASE RunIdle
  BY <1>3 DEF EnabledTimed, RunIdle, ctlVars, timeVars
<1>4. CASE RunCallBacks
  BY <1>4 DEF EnabledTimed, RunCallBacks, timeVars
<1>5. CASE RunMethod
  BY <1>5 DEF EnabledTimed, RunMethod
<1>6. CASE Tick \/ Destroy
  BY <1>6 DEF EnabledTimed, Tick, Destroy, ctlVars, timeVars
<1>7. CASE WciAccess
  BY <1>7 DEF EnabledTimed, WciAccess, timeVars
<1>8. ASSUME NEW op \in ControlOps, Control(op)
      PROVE  EnabledTimed'
  <2>1. CASE ControlRefused(op)
    BY <2>1 DEF EnabledTimed, ControlRefused, timeVars
  <2>2. CASE ControlInitialize \/ ControlRelease \/ ControlOther(op)
    BY <2>2 DEF EnabledTimed, ControlInitialize, ControlRelease, ControlOther, timeVars
  <2>3. CASE ControlStart
    BY <2>3 DEF EnabledTimed, ControlStart
  <2>4. CASE ControlStop
    BY <2>4 DEF EnabledTimed, ControlStop
  <2>5. QED
    BY <1>8, <2>1, <2>2, <2>3, <2>4 DEF Control
<1>9. QED
  BY <1>1, <1>2, <1>3, <1>4, <1>5, <1>6, <1>7, <1>8
     DEF AnyNext, Container, RunWorker

\* Without a release method, no step leaves an enabled worker, or a running
\* timer, outside the operational state.
LEMMA OperationalStep ==
  ASSUME "release" \notin Implemented, IInv, [AnyNext]_vars
  PROVE  EnabledOperational' /\ TimedOperational'
<1> USE DEF IInv, EnabledOperational, TimedOperational
<1>1. CASE UNCHANGED vars
  BY <1>1 DEF vars, ctlVars, timeVars
<1>2. ASSUME NEW p \in Ports, CreatePort(p) \/ ConnectPort(p) \/ BufferArrives(p)
      PROVE  EnabledOperational' /\ TimedOperational'
  BY <1>2 DEF CreatePort, ConnectPort, BufferArrives, ctlVars, timeVars
<1>3. CASE RunIdle
  BY <1>3 DEF RunIdle, ctlVars, timeVars
<1>4. CASE RunCallBacks
  BY <1>4 DEF RunCallBacks, timeVars, Visit
<1>5. CASE RunMethod
  BY <1>5 DEF RunMethod, Visit
<1>6. CASE Tick
  BY <1>6 DEF Tick, ctlVars
<1>7. CASE Destroy
  BY <1>7 DEF Destroy, timeVars
<1>8. CASE WciAccess
  BY <1>8 DEF WciAccess, timeVars
<1>9. ASSUME NEW op \in ControlOps, Control(op)
      PROVE  EnabledOperational' /\ TimedOperational'
  <2>0. alive /\ alive' = alive
    BY <1>9 DEF Control
  <2>1. CASE ControlRefused(op)
    BY <2>0, <2>1 DEF ControlRefused, timeVars
  <2>2. CASE op = "initialize" /\ ControlInitialize /\ Legal(op)
    BY <2>0, <2>2 DEF ControlInitialize, Legal, timeVars, After, EnabledTimed
  <2>3. CASE op = "start" /\ ControlStart /\ Legal(op)
    BY <2>0, <2>3 DEF ControlStart, Legal, After
  <2>4. CASE op = "stop" /\ ControlStop /\ Legal(op)
    BY <2>0, <2>4 DEF ControlStop, Legal, After
  <2>5. CASE ControlRelease
    BY <2>0, <2>5 DEF ControlRelease, timeVars
  <2>6. CASE ControlOther(op)
    BY <2>0, <2>6 DEF ControlOther, timeVars
  <2>7. QED
    BY <1>9, <2>1, <2>2, <2>3, <2>4, <2>5, <2>6 DEF Control
<1>10. QED
  BY <1>1, <1>2, <1>3, <1>4, <1>5, <1>6, <1>7, <1>8, <1>9
     DEF AnyNext, Container, RunWorker

\* The strengthened invariant holds at first and after every step.
LEMMA Inductive ==
  ASSUME "release" \notin Implemented
  PROVE  /\ Init => IInv
         /\ IInv /\ [AnyNext]_vars => IInv'
<1>1. Init => IInv
  BY DEF Init, IInv, EnabledTimed, EnabledOperational, TimedOperational
<1>2. IInv /\ [AnyNext]_vars => IInv'
  BY EnabledTimedStep, OperationalStep DEF IInv
<1>3. QED
  BY <1>1, <1>2
\* The run method and call-backs are called by visits alone.
LEMMA RunsAreVisits ==
  ASSUME AnyNext, called'.method \in {"run", "callBack"}
  PROVE  RunMethod \/ RunCallBacks
<1>1. \A m, t : called' = Call(m, t) /\ m \in ControlOps
                  => called'.method \notin {"run", "callBack"}
  BY DEF Call, ControlOps
<1>2. called' # NoCall
  BY DEF NoCall
<1>3. ASSUME NEW p \in Ports PROVE ~(CreatePort(p) \/ ConnectPort(p) \/ BufferArrives(p))
  BY <1>2 DEF CreatePort, ConnectPort, BufferArrives
<1>4. ~RunIdle /\ ~Tick /\ ~WciAccess
  BY <1>2 DEF RunIdle, Tick, WciAccess
<1>5. ~Destroy
  BY <1>1 DEF Destroy, ControlOps
<1>6. ASSUME NEW op \in ControlOps PROVE ~Control(op)
  BY <1>1, <1>2 DEF Control, ControlRefused, ControlInitialize, ControlStart,
       ControlStop, ControlRelease, ControlOther, ControlOps
<1>7. QED
  BY <1>3, <1>4, <1>5, <1>6 DEF AnyNext, Container, RunWorker

-----------------------------------------------------------------------------
\* Every variable keeps its range, under both specifications.
THEOREM TypeCorrect == (Spec \/ ApiSpec) => []TypeOK
<1>1. Init => TypeOK
  <2>1. 0 \in 0 .. MaxElapsed
    BY RCCWorkerAssumption
  <2>2. ASSUME Init
        PROVE  /\ called \in [method : Methods \cup {"none"}, timedOut : BOOLEAN]
               /\ wciStatus \in [op : ControlOps \cup {"none", "access"}, error : WciError]
               /\ portCount \in [{"target", "source"} -> Nat]
    BY <2>2 DEF Init, NoCall, WciError
  <2>3. QED
    BY <2>1, <2>2 DEF Init, TypeOK, WorkerState
<1>2. TypeOK /\ [Next]_vars => TypeOK'
  BY NextIsAny, TypeStep, MyStateType
<1>3. TypeOK /\ [ApiNext]_vars => TypeOK'
  BY NextIsAny, TypeStep, MyStateType
<1>4. Spec => []TypeOK
  BY <1>1, <1>2, PTL DEF Spec
<1>5. ApiSpec => []TypeOK
  BY <1>1, <1>3, PTL DEF ApiSpec
<1>6. QED
  BY <1>4, <1>5

\* The run timer of every enabled worker runs: a visit of the dispatch loop may
\* stop it, whatever the methods return and whichever operations are used.
THEOREM EnabledIsTimed == (Spec \/ ApiSpec) => []EnabledTimed
<1>1. Init => EnabledTimed
  BY DEF Init, EnabledTimed
<1>2. EnabledTimed /\ [Next]_vars => EnabledTimed'
  BY NextIsAny, EnabledTimedStep
<1>3. EnabledTimed /\ [ApiNext]_vars => EnabledTimed'
  BY NextIsAny, EnabledTimedStep
<1>4. Spec => []EnabledTimed
  BY <1>1, <1>2, PTL DEF Spec
<1>5. ApiSpec => []EnabledTimed
  BY <1>1, <1>3, PTL DEF ApiSpec
<1>6. QED
  BY <1>4, <1>5

\* The dispatch loop visits operational workers only (Controller::run tests
\* the enabled flag alone), when the worker has no release method.
THEOREM EnabledIsOperational ==
  ASSUME "release" \notin Implemented
  PROVE  Spec => []EnabledOperational
<1>1. Init => IInv
  BY Inductive
<1>2. IInv /\ [Next]_vars => IInv'
  BY Inductive, NextIsAny
<1>3. IInv => EnabledOperational
  BY DEF IInv
<1>4. QED
  BY <1>1, <1>2, <1>3, PTL DEF Spec

\* Run methods and call-backs execute in operational workers only, when the
\* worker has no release method.
THEOREM RunsAreOperational ==
  ASSUME "release" \notin Implemented
  PROVE  Spec => RunsOperational
<1>1. EnabledOperational /\ [Next]_vars
        => [called'.method \in {"run", "callBack"} => m_state = "Operational"]_vars
  <2> SUFFICES ASSUME EnabledOperational, Next,
                      called'.method \in {"run", "callBack"}
               PROVE  m_state = "Operational"
    BY DEF EnabledOperational
  <2>1. RunMethod \/ RunCallBacks
    BY RunsAreVisits, NextIsAny
  <2>2. QED
    BY <2>1 DEF RunMethod, RunCallBacks, Visit, EnabledOperational
<1>2. Spec => []EnabledOperational
  BY EnabledIsOperational
<1>3. Spec => [][Next]_vars
  BY DEF Spec
<1>4. QED
  BY <1>1, <1>2, <1>3, PTL DEF RunsOperational

\* START always finds the run timer stopped, when the worker has no release
\* method: Timer::start requires it.
THEOREM TimerStartsStopped ==
  ASSUME "release" \notin Implemented
  PROVE  Spec => StartsStoppedTimer
<1>1. TypeOK /\ IInv /\ [Next]_vars
        => [m_state # "Operational" /\ m_state' = "Operational"
              => runTimer = "stopped"]_vars
  <2> SUFFICES ASSUME TypeOK, IInv, Next,
                      m_state # "Operational", m_state' = "Operational"
               PROVE  runTimer = "stopped"
    OBVIOUS
  <2>1. runTimer # "running" => runTimer = "stopped"
    BY DEF TypeOK
  <2>2. ~Container /\ ~WciAccess
    BY DEF Container, CreatePort, ConnectPort, BufferArrives, RunWorker, RunIdle,
           RunCallBacks, RunMethod, Tick, Destroy, WciAccess, ctlVars
  <2>3. PICK op \in ControlOps : Control(op)
    BY <2>2 DEF Next, WciControl
  <2>4. alive /\ m_state # "Unusable"
    BY <2>3 DEF Control, ControlRefused
  <2>5. QED
    BY <2>1, <2>4 DEF IInv, TimedOperational
<1>2. Init => IInv
  BY Inductive
<1>3. IInv /\ [Next]_vars => IInv'
  BY Inductive, NextIsAny
<1>4. Spec => []TypeOK
  BY TypeCorrect
<1>5. QED
  BY <1>1, <1>2, <1>3, <1>4, PTL DEF Spec, StartsStoppedTimer

\* Whatever its methods answer to a STOP, a worker that the application has
\* suspended is not visited, when it has no release method.
THEOREM SuspendedIsQuiet ==
  ASSUME "release" \notin Implemented
  PROVE  ApiSpec => []ApiQuiet
<1>1. Init => IInv /\ ApiQuiet
  BY Inductive DEF Init, ApiQuiet
<1>2. IInv /\ ApiQuiet /\ [ApiNext]_vars => IInv' /\ ApiQuiet'
  <2> SUFFICES ASSUME IInv, ApiQuiet, [ApiNext]_vars
               PROVE  IInv' /\ ApiQuiet'
    OBVIOUS
  <2>1. IInv'
    BY Inductive, NextIsAny
  <2>2. CASE UNCHANGED vars
    BY <2>1, <2>2 DEF ApiQuiet, vars, ctlVars
  <2>3. CASE Container
    <3>1. ASSUME NEW p \in Ports, CreatePort(p) \/ ConnectPort(p) \/ BufferArrives(p)
          PROVE  ApiQuiet'
      BY <3>1 DEF ApiQuiet, CreatePort, ConnectPort, BufferArrives, ctlVars
    <3>2. CASE RunIdle \/ Tick
      <4>1. enabled' = enabled /\ myState' = myState
        BY <3>2 DEF RunIdle, Tick, ctlVars
      <4>2. QED
        BY <2>1, <4>1 DEF ApiQuiet
    <3>3. CASE RunCallBacks
      BY <2>1, <3>3 DEF ApiQuiet, RunCallBacks
    <3>4. CASE RunMethod
      BY <2>1, <3>4 DEF ApiQuiet, RunMethod
    <3>5. CASE Destroy
      BY <2>1, <3>5 DEF ApiQuiet, Destroy
    <3>6. QED
      BY <2>1, <2>3, <3>1, <3>2, <3>3, <3>4, <3>5 DEF Container, RunWorker
  <2>4. CASE WciAccess
    BY <2>1, <2>4 DEF ApiQuiet, WciAccess
  <2>5. ASSUME NEW op \in ControlOps, ApiControl(op)
        PROVE  ApiQuiet'
    <3>1. SUFFICES ASSUME myState' = "SUSPENDED", enabled'
                   PROVE  FALSE
      BY DEF ApiQuiet
    <3>2. op = "stop" \/ (myState = "SUSPENDED" /\ op \in {"beforeQuery", "afterConfigure"})
      BY <2>5, <3>1 DEF ApiControl, To, From, ControlOps
    <3>3. CASE op = "stop"
      <4>1. Control("stop")
        BY <2>5, <3>3 DEF ApiControl, WciControls
      <4>2. ControlRefused("stop") \/ ControlStop
        BY <4>1 DEF Control
      <4>3. CASE ControlStop
        BY <4>3, <3>1 DEF ControlStop
      <4>4. CASE ControlRefused("stop")
        BY <4>4, <3>1 DEF ControlRefused, Legal, IInv, EnabledOperational
      <4>5. QED
        BY <4>2, <4>3, <4>4
    <3>4. CASE myState = "SUSPENDED" /\ op \in {"beforeQuery", "afterConfigure"}
      <4>1. Control(op)
        BY <2>5, <3>4 DEF ApiControl, WciControls
      <4>2. ControlRefused(op) \/ ControlOther(op)
        BY <4>1, <3>4 DEF Control
      <4>3. QED
        BY <4>2, <3>1, <3>4 DEF ControlRefused, ControlOther, ApiQuiet
    <3>5. QED
      BY <3>2, <3>3, <3>4
  <2>6. QED
    BY <2>1, <2>2, <2>3, <2>4, <2>5 DEF ApiNext
<1>3. QED
  BY <1>1, <1>2, PTL DEF ApiSpec

\* No method of an unusable worker is called while it lives, when it has no
\* release method: operations are refused, and it is disabled.
THEOREM UnusableIsQuiet ==
  ASSUME "release" \notin Implemented
  PROVE  Spec => UnusableQuiet
<1>1. EnabledOperational /\ [Next]_vars
        => [m_state = "Unusable" /\ alive' => called'.method = "none"]_vars
  <2> SUFFICES ASSUME EnabledOperational, Next, m_state = "Unusable", alive'
               PROVE  called'.method = "none"
    OBVIOUS
  <2>1. ~Visit
    BY DEF Visit, EnabledOperational
  <2>2. SUFFICES called' = NoCall
    BY DEF NoCall
  <2>3. ASSUME NEW p \in Ports, CreatePort(p) \/ ConnectPort(p) \/ BufferArrives(p)
        PROVE  called' = NoCall
    BY <2>3 DEF CreatePort, ConnectPort, BufferArrives
  <2>4. CASE Tick \/ WciAccess
    BY <2>4 DEF Tick, WciAccess
  <2>5. ~RunWorker /\ ~Destroy
    BY <2>1 DEF RunWorker, RunIdle, RunCallBacks, RunMethod, Destroy
  <2>6. ASSUME NEW op \in ControlOps, WciControl(op)
        PROVE  called' = NoCall
    BY <2>6 DEF WciControl, Control, ControlRefused
  <2>7. QED
    BY <2>3, <2>4, <2>5, <2>6 DEF Next, Container
<1>2. Spec => []EnabledOperational
  BY EnabledIsOperational
<1>3. Spec => [][Next]_vars
  BY DEF Spec
<1>4. QED
  BY <1>1, <1>2, <1>3, PTL DEF UnusableQuiet

\* The container's mask knows every output port that is connected.
OutputsKnown == closed \cap Outputs \subseteq connectedPorts

\* The mask follows the ports: a port is connected in one step with its bit.
LEMMA OutputsKnownStep ==
  ASSUME OutputsKnown, [AnyNext]_vars
  PROVE  OutputsKnown'
<1>1. CASE UNCHANGED <<closed, connectedPorts>>
  BY <1>1 DEF OutputsKnown
<1>2. CASE UNCHANGED vars
  BY <1>1, <1>2 DEF vars, portVars
<1>3. ASSUME NEW p \in Ports, CreatePort(p) \/ BufferArrives(p)
      PROVE  OutputsKnown'
  BY <1>1, <1>3 DEF CreatePort, BufferArrives
<1>4. ASSUME NEW p \in Ports, ConnectPort(p)
      PROVE  OutputsKnown'
  BY <1>4 DEF OutputsKnown, ConnectPort
<1>5. CASE RunIdle \/ RunCallBacks \/ RunMethod
  BY <1>1, <1>5 DEF RunIdle, RunCallBacks, RunMethod
<1>6. CASE Tick \/ Destroy \/ WciAccess
  BY <1>1, <1>6 DEF Tick, Destroy, WciAccess, portVars
<1>7. ASSUME NEW op \in ControlOps, Control(op)
      PROVE  OutputsKnown'
  BY <1>1, <1>7 DEF Control, portVars
<1>8. QED
  BY <1>2, <1>3, <1>4, <1>5, <1>6, <1>7 DEF AnyNext, Container, RunWorker

\* Unless it timed out, a worker runs only with a buffer at every connected port
\* of some mask, when none of its inputs is optional: the mask of connected
\* ports, which the run condition consults, leaves inputs out.
THEOREM RunsAreReady ==
  ASSUME Optional \cap Inputs = {}
  PROVE  (Spec \/ ApiSpec) => RunsReady
<1>1. OutputsKnown /\ [AnyNext]_vars
        => [called'.method = "run" /\ ~called'.timedOut
              => \E m \in Masks : m \cap closed \subseteq current \cup Taken]_vars
  <2> SUFFICES ASSUME OutputsKnown, AnyNext, called'.method = "run", ~called'.timedOut
               PROVE  \E m \in Masks : m \cap closed \subseteq current \cup Taken
    OBVIOUS
  <2>1. RunMethod
    <3>1. RunMethod \/ RunCallBacks
      BY RunsAreVisits
    <3>2. Call("callBack", FALSE).method # "run"
      BY DEF Call
    <3>3. QED
      BY <3>1, <3>2 DEF RunCallBacks
  <2>2. RunConditionMet
    <3>1. called' = Call("run", TimedOut)
      BY <2>1 DEF RunMethod
    <3>2. called'.timedOut = TimedOut
      BY <3>1 DEF Call
    <3>3. QED
      BY <2>1, <3>2 DEF RunMethod
  <2>3. PICK m \in Masks : m \subseteq Active \cup (Optional \ connectedPorts)
    BY <2>2 DEF RunConditionMet
  <2>4. Optional \subseteq Outputs
    BY RCCWorkerAssumption DEF Ports
  <2>5. (Optional \ connectedPorts) \cap closed = {}
    BY <2>4 DEF OutputsKnown
  <2>6. m \cap closed \subseteq current \cup Taken
    BY <2>3, <2>5 DEF Active
  <2>7. QED
    BY <2>6
<1>2. Init => OutputsKnown
  BY DEF Init, OutputsKnown
<1>3. OutputsKnown /\ [Next]_vars => OutputsKnown' /\ [AnyNext]_vars
  BY OutputsKnownStep, NextIsAny
<1>4. OutputsKnown /\ [ApiNext]_vars => OutputsKnown' /\ [AnyNext]_vars
  BY OutputsKnownStep, NextIsAny
<1>5. Spec => RunsReady
  BY <1>1, <1>2, <1>3, PTL DEF Spec, RunsReady
<1>6. ApiSpec => RunsReady
  BY <1>1, <1>2, <1>4, PTL DEF ApiSpec, RunsReady
<1>7. QED
  BY <1>5, <1>6
=============================================================================
