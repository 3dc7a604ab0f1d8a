CONSTANTS
  Number <- Numbers
  Begins <- Prefixes
  Text <- Texts
  Size <- SizeOf
  Status = {0, 1}
  NULL = NULL
  Junk = Junk
  subdevname <- Names
  Description <- Values
  Messages <- Some
  Budgets <- Loads
  Fix = {1, 2}
SPECIFICATION Spec
CHECK_DEADLOCK FALSE
INVARIANTS ReportsHoldValues
