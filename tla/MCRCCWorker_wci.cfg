CONSTANTS
  Inputs <- InPort
  Outputs <- OutPort
  Optional <- OutPort
  Masks <- AllReady
  Timeout = 1
  CallBacks <- NoPorts
  Implemented <- NoRelease
  MaxElapsed = 2
SPECIFICATION FairSpec
INVARIANTS TypeOK EnabledTimed EnabledOperational
PROPERTIES RunsOperational StartsStoppedTimer RunsReady TimedRun
CHECK_DEADLOCK FALSE
