SPECIFICATION FairSpec
CONSTANTS
  i1 = i1
  i2 = i2
  i3 = i3
  t1 = t1
  t2 = t2
  t3 = t3
  h1 = h1
  h2 = h2
  Items <- MCItems
  ZeroNet <- NoItems
  Leavers <- NoItems
  Tasks <- MCTwoTasks
  Handlers <- MCOneHandler
  MaxAttempt = 2
  MaxRetry = 1
  Overlap <- AllOverlap
CHECK_DEADLOCK FALSE
PROPERTIES LineLeavesBank
