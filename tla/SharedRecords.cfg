SPECIFICATION SharedFairSpec
CONSTANTS
  Txns = {"deposit", "redelivery", "advance", "grant"}
  Requests <- MCRequests
  Charts <- MCCharts
  Normal <- MCNormal
  Currencies = {"NGN", "USD"}
  MaxCrashes = 1
  Callers = {"q1", "q2", "q3"}
  Body <- MCBody
  Phones = {"r1", "r2"}
  Codes = {"c"}
  MaxAttempts = 1
  MaxIssues = 1
  Employees = {"w"}
  Entries = {"e1", "e2", "e3"}
  Owner <- MCOwner
  WorkDay <- MCWorkDay
  Minutes <- MCMinutes
  Legacy = {"e1", "e2"}
  MaxMinutesPerDay = 3
  Days = {1, 2}
  WeekOf <- MCWeekOf
  Periods = {1, 2}
  PeriodEnd <- MCPeriodEnd
  Thresholds = {3}
  Clients = {"r"}
CHECK_DEADLOCK FALSE
INVARIANTS LedgerInv
PROPERTIES KeyHasOneEffect LocksAndCapsLift ApprovedIsPaid CallersAreServed
