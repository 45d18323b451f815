CONSTANTS
  Sizes <- AllSizes
  bufferSize = 3
  Room = 2
  PeerMayClose = TRUE
SPECIFICATION FairSpec
INVARIANTS TypeOK SentIsPrefix TrueMeansSent WritesLiveBuffer
PROPERTY StopReturns
CHECK_DEADLOCK FALSE
