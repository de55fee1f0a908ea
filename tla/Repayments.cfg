SPECIFICATION RepaymentsSpec
CONSTANTS
  Workers = {"w1"}
  MaxAdvance = 2
  Owner <- OneOwner
  Amounts = {1, 2}
  Cap = 3
  MaxDraws = 2
  Coverage = FALSE
  Pay <- PayOfTwo
  MaxPeriod = 2
  Deposits = {}
  DepositAmount = 1
  Tasks = {"k1"}
  Advances = {"a1"}
  Debt <- OneEach
  MaxAttempts = 2
  MaxRows = 3
  MaxLinks = 1
  Sweepers = {"s1", "s2"}
CHECK_DEADLOCK FALSE
INVARIANTS RecoveryNeedsPayment BooksMatch OutstandingWithinCap DebitBooksMatch RecoveredMeansLanded
