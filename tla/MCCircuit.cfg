CONSTANTS
  p1 = p1
  p2 = p2
  InPorts <- FanOut
  NumOut = 2
  NumIn = 2
  MaxMessages = 5
SPECIFICATION FairSpec
INVARIANTS TypeOK NoOverwrite OneWriter Accounted SourceStable
PROPERTIES ReadStable InOrder Delivered
CHECK_DEADLOCK FALSE
