CONSTANTS
  d1 = d1
  d2 = d2
  i1 = i1
  i2 = i2
  NoId = NoId
  Junk = Junk
  RegTopic = RegTopic
  Id = {i1, i2}
  InboxCap = 2
  Device = {d1}
  Budgets <- RaceBudgets
  SlowReply = FALSE
SPECIFICATION Spec
SYMMETRY Fleet
INVARIANTS RegisteredTopicSubscribed
CHECK_DEADLOCK FALSE
