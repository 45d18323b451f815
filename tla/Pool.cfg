CONSTANTS
  w1 = w1 w2 = w2 t1 = t1 t2 = t2 t3 = t3
  main = main accept = accept
  NoOne = NoOne
  Owner = main
  Workers <- TwoWorkers
  Tasks <- ThreeTasks
  Submitters <- MainAndAccept
  ThreadCounts <- ZeroToTwo
SPECIFICATION FairSpec
INVARIANTS TypeOK CompletionSound TasksKept NoEmptyPop
PROPERTIES ImplementsTaskPool TasksProgress WaitReturns
CHECK_DEADLOCK FALSE
