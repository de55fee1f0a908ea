SPECIFICATION Spec
CONSTANTS
  a1 = a1
  s1 = s1
  Advances <- OneAdvance
  Amount <- MCAmount
  MaxAttempts = 2
  MaxRows = 2
  MaxLinks = 2
  Sweepers <- OneSweeper
  LostAnswers = TRUE
CHECK_DEADLOCK FALSE
INVARIANTS FailedDidNotLand
