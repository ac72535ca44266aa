SPECIFICATION FairSpec
CONSTANTS
  NumLinks = 3
  NumBufs <- Bufs
  FilterKinds <- Careful
  Window = 1
  MaxMessages = 5
INVARIANTS TypeOK PortsReady BuffersOwned HeldStable
PROPERTIES InOrder Delivered
