CONSTANTS
  MaxHandle = 5
  Budget <- LinkBudget
  RegTopic = RegTopic
  OwnTopic = OwnTopic
  Junk = Junk
SPECIFICATION FairSpec
PROPERTIES RegisteredDeviceReports
CHECK_DEADLOCK FALSE
