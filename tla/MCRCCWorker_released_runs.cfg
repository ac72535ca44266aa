CONSTANTS
  Inputs <- InPort
  Outputs <- NoPorts
  Optional <- NoPorts
  Masks <- InputReady
  Timeout = 1
  CallBacks <- NoPorts
  Implemented <- WithRelease
  MaxElapsed = 2
SPECIFICATION Spec
PROPERTIES RunsOperational
CHECK_DEADLOCK FALSE
