CONSTANTS
  NoFile = NoFile EmptyFile = EmptyFile
  Hole = 0
  ChunkSize = 3
  BufferSize = 2
  LargeThreshold = 5
  PathHasSpace = FALSE
  MaxCrashes = 1
  MaxErrors = 2
  MaxChanges = 1
  Unit <- Units
  Sources <- Mixed
  OldFiles <- NewOrOld
  Strategies <- AllStrategies
SPECIFICATION FairSpec
INVARIANTS TypeOK SuccessExact FailureHarmless ProgressBacked LargeAllOrNothing
PROPERTIES ProgressNeverAhead CallReturns Heals
CHECK_DEADLOCK FALSE
