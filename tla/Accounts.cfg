SPECIFICATION AccountSpec
CONSTANTS
  Employees = {"e1", "e2"}
  Editors = {"a1", "a2"}
  Terminators = {"t1", "t2"}
  Phones = {"ph1", "ph2"}
  Banks = {"b1", "b2"}
  MaxEdits = 2
  People = {"p1", "p2"}
  First = "p1"
  TTL = 2
  MaxAge = 6
  Horizon = 9
  MaxOpen = 2
  Txns = {"u1", "u2"}
  Fields <- MCFields
  Cooling = "cooling"
  Valid <- MCValid
  Offered = {0, 1, 2}
  Default <- MCDefault
  Amounts = {1, 2}
  MaxTime = 2
  Requests = {"r1", "r2"}
  Codes = {"c1", "c2"}
  MaxAttempts = 2
  MaxIssues = 2
  Orgs = {"o1", "o2"}
  Threshold = 1
  MaxMovements = 3
  MaxRuns = 3
CHECK_DEADLOCK FALSE
INVARIANTS AdminRemains SessionInv TerminationStands CodeWithinLimits
PROPERTIES ChangesAreTold PolicyChangesStand ReportsTellStrays
