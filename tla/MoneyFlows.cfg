SPECIFICATION FlowSpec
CONSTANTS
  Advances = {"a1", "a2"}
  Amount <- OneEach
  MaxAttempts = 2
  MaxRows = 2
  MaxLinks = 2
  Sweepers = {"s1"}
  LostAnswers = FALSE
  Items = {"i1", "i2", "i3"}
  ZeroNet = {"i3"}
  Leavers = {"i2"}
  BatchTasks = {"t1", "t2", "t3"}
  Handlers = {"h1"}
  MaxAttempt = 2
  MaxRetry = 1
  Workers = {"w1", "w2"}
  MaxAdvance = 2
  Owner <- MCOwner
  Amounts = {1, 2}
  Cap = 3
  MaxDraws = 1
  Coverage = TRUE
  Pay <- MCPay
  MaxPeriod = 1
  Deposits = {"d1", "d2"}
  DepositAmount = 1
  PayoutTasks = {"k1"}
CHECK_DEADLOCK FALSE
INVARIANTS SentAtMostOnce CompletedBatchPaidEveryone PoolCovered DebitedAtMostOnce MandateIsAuthorized
