SPECIFICATION Spec
CONSTANTS
  Txns = {"u1", "u2"}
  Fields <- MCFields
  Cooling = "cooling"
  Valid <- MCValid
  Offered = {0, 1, 2}
  Default <- MCDefault
  Amounts = {1, 2}
  MaxTime = 2
CHECK_DEADLOCK FALSE
PROPERTIES NilLeavesAsIs
