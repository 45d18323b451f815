CONSTANTS
  w1 = w1 w2 = w2 t1 = t1 t2 = t2 t3 = t3
  main = main accept = accept
  NoOne = NoOne
  Owner = main
  Workers <- TwoWorkers
  Tasks <- TwoTasks
  Submitters <- MainOnly
  ThreadCounts <- Two
SPECIFICATION FairSpec
PROPERTY StopReturns
CHECK_DEADLOCK FALSE
