CONSTANTS
  Inputs <- InPort
  Outputs <- OutPort
  Optional <- NoPorts
  Masks <- EitherReady
  Timeout = 0
  CallBacks <- InPort
  Implemented <- NoRelease
  MaxElapsed = 1
SPECIFICATION FairApiSpec
INVARIANTS ApiQuiet
PROPERTIES ReadyRun
CHECK_DEADLOCK FALSE
