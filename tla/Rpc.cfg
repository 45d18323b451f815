CONSTANTS
  NotUtf8 = {"x"}
  MaxCalls = 2
  MaxChanges = 2
  MaxFaults = 1
  Paths <- FourPaths
  InitialTrees <- Trees
  Directories <- OneDirectory
  Requests <- ManyRequests
  Size <- ByteSizeLong
  Serialize <- InternalSerialize
  Parse <- ParseFromString
SPECIFICATION FairSpec
INVARIANTS TypeOK ListingTrue MetaTrue FalseJustified CodecFaithful
PROPERTY CallReturns
CHECK_DEADLOCK FALSE
