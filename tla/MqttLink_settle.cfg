CONSTANTS
  MaxHandle = 5
  Budget <- LinkBudget
  RegTopic = RegTopic
  OwnTopic = OwnTopic
  Junk = Junk
SPECIFICATION FairSpec
INVARIANTS TypeOK ReplyTopicHeard StaleHandleDeaf
PROPERTIES ImplementsSession LinkSettles KnownDeviceReports
CHECK_DEADLOCK FALSE
