SPECIFICATION Spec
CONSTANTS
  w1 = w1
  w2 = w2
  d1 = d1
  d2 = d2
  k1 = k1
  k2 = k2
  Workers <- OneWorker
  MaxAdvance = 1
  Owner <- OneOwner
  Amounts <- MCAmounts
  Cap = 3
  MaxDraws = 2
  Coverage = FALSE
  Pay <- MCPay
  MaxPeriod = 1
  Deposits <- NoDeposits
  DepositAmount = 1
  Tasks <- OneTask
SYMMETRY Symmetric
CHECK_DEADLOCK FALSE
INVARIANTS CancelledNeverPaid
