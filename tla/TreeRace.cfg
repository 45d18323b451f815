CONSTANTS
  w1 = w1 w2 = w2 None = None Dir = Dir
  Paths <- TreePaths
  Trees <- OneVersion
  OldTrees <- OnlyAbsent
  Workers <- TwoWorkers
  Strategies <- Overwrite
  MaxErrors = 0
  MaxChanges = 0
SPECIFICATION Spec
INVARIANT TrueMeansMirrored
CHECK_DEADLOCK FALSE
