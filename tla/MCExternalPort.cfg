CONSTANTS
  NumLocal = 3
  NumFar = 2
  MaxMessages = 7
SPECIFICATION FairSpec
INVARIANTS TypeOK OneOwner FarKnown FlushDone
PROPERTIES HeldStable InOrder Delivered
CHECK_DEADLOCK FALSE
