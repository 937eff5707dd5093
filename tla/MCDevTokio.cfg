SPECIFICATION FairSpec
CONSTANTS
  Runs <- MCRuns
  SessionCapacity = 1
  OutCapacity = 1
  DispatcherCapacity = 1
INVARIANTS OkDelivered HangsExplained
PROPERTY EndsOk
CHECK_DEADLOCK FALSE
