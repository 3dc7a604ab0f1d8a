CONSTANTS
  d1 = d1
  d2 = d2
  i1 = i1
  i2 = i2
  NoId = NoId
  Junk = Junk
  RegTopic = RegTopic
  Id = {i1, i2}
  InboxCap = 2
  Device = {d1, d2}
  Budgets <- FleetBudgets
  SlowReply = FALSE
SPECIFICATION Spec
SYMMETRY Fleet
INVARIANTS OneReplyPerRequest
PROPERTIES ImplementsSession
CHECK_DEADLOCK FALSE
