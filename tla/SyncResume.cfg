CONSTANTS
  NoFile = NoFile EmptyFile = EmptyFile
  Hole = 0
  ChunkSize = 3
  BufferSize = 2
  LargeThreshold = 5
  PathHasSpace = FALSE
  MaxCrashes = 1
  MaxErrors = 1
  MaxChanges = 0
  Unit <- Units
  Sources <- TwoBlocks
  OldFiles <- NewFile
  Strategies <- Overwrite
SPECIFICATION FairSpec
PROPERTY BreakPointKept
CHECK_DEADLOCK FALSE
