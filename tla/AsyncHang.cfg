CONSTANTS
  Sizes <- LargeSizes
  bufferSize = 3
  Room = 2
  PeerMayClose = FALSE
SPECIFICATION FairSpec
PROPERTY RestIsSent
CHECK_DEADLOCK FALSE
