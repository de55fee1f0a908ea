SPECIFICATION RulesSpec
CONSTANTS
  Half = 112
  Amounts <- MCAmounts
  Scalars = {0, 1, 2, 3, 5, 7, 10, 31}
  Denominators = {1, 2, 3, 4, 7, 10}
  Columns <- MCColumns
  Majors <- MCAmounts
  Exponent <- MCExponent
  Texts <- MCTexts
  Days = 3
  LastDay = 6
  Salary = 12
  MaxAccrualPct = 75
  AbsoluteCap = 7
  MinDraw = 2
  EmergencyFloor = 2
  CoolingOff = 1
  MaxDraws = 2
  Draws = {2, 3}
  MaxAdvance = 2
  ProtectedFloors = {0, 9}
  Savings <- MCSavings
  Habits <- MCHabits
  HeavyHabits <- MCHeavyHabits
  Revoked = {1, 2, 3, 4}
  Caps = {3, 7, 8}
  Floors = {0, 4}
  Lengths <- MCLengths
  Recordable <- MCRecordable
  MaxAvailable = 3
  SweepDays = {0, 5, 9, 10, 15}
  Postings = {0, 5, 9, 10, 15}
  Movements <- MCMovements
  MaxMoves = 3
  Lookback = 12
  MinInterval = 5
  MaxInterval = 8
  Employees = {"w"}
  Entries = {"e1", "e2", "e3"}
  Owner <- MCOwner
  WorkDay <- MCWorkDay
  Minutes <- MCMinutes
  Legacy = {"e1", "e2"}
  MaxMinutesPerDay = 3
  WorkDates = {1, 2}
  WeekOf <- MCWeekOf
  Periods = {1, 2}
  PeriodEnd <- MCPeriodEnd
  Thresholds = {1, 3}
  Clients = {"r1", "r2"}
CHECK_DEADLOCK FALSE
INVARIANTS DrawsLeavePay AmountsExact
PROPERTIES PaydayLands ScoreTellsHabits BillPlanHolds PredictionIsSound HoursPaidOnce
