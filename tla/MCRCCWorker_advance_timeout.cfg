CONSTANTS
  Inputs <- InPort
  Outputs <- NoPorts
  Optional <- NoPorts
  Masks <- InputReady
  Timeout = 1
  CallBacks <- NoPorts
  Implemented <- NoRelease
  MaxElapsed = 2
SPECIFICATION Spec
PROPERTIES TimedOutIdle
CHECK_DEADLOCK FALSE
