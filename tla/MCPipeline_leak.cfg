SPECIFICATION FairSpec
CONSTANTS
  NumLinks = 3
  NumBufs <- Bufs
  FilterKinds <- Polling
  Window = 1
  MaxMessages = 5
PROPERTY Delivered
