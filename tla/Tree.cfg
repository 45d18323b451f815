CONSTANTS
  w1 = w1 w2 = w2 None = None Dir = Dir
  Paths <- TreePaths
  Trees <- AllVersions
  OldTrees <- AnyOld
  Workers <- TwoWorkers
  Strategies <- AllStrategies
  MaxErrors = 1
  MaxChanges = 1
SPECIFICATION FairSpec
INVARIANTS TypeOK TasksSuffice
PROPERTIES SkipKeeps EventuallyMirrored
CHECK_DEADLOCK FALSE
