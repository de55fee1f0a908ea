SPECIFICATION WorkFairSpec
CONSTANTS
  Grants = {"g1", "g2"}
  Amount <- TwoEach
  Deposits = 3
  Coverage = TRUE
  MaxRetry = 1
  Lines = {"l1", "l2"}
  BatchTasks = {"t1", "t2"}
  BatchRetry = 1
  MaxReleases = 2
  BVNRetry = 5
  ErrorPages = TRUE
  Advances = {"a1"}
  Debt <- OneEach
  MaxAttempts = 2
  MaxRows = 3
  MaxLinks = 1
  Sweepers = {"s1"}
CHECK_DEADLOCK FALSE
INVARIANTS GrantInv
PROPERTIES WorkIsKept GrantSettles WorkIsTakenUp AdvanceIsResolved
