CONSTANTS
  d1 = d1
  d2 = d2
  i1 = i1
  i2 = i2
  NoId = NoId
  Junk = Junk
  RegTopic = RegTopic
  Id = {i1, i2}
  InboxCap = 2
  Device = {d1}
  Budgets <- LiveBudgets
  SlowReply = TRUE
SPECIFICATION FairSpec
PROPERTIES FleetSettles
CHECK_DEADLOCK FALSE
