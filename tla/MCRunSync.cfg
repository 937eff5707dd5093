SPECIFICATION FairSpec
CONSTANTS
  Any = Any
  NodeCount = 3
  Rounds = 2
  Quorum = 1
  Kinds = {"direct", "broadcast"}
  MayReport = {2}
  RuleSets <- AtMostTwo
INVARIANTS TerminatedWhenIdle UnblockedSucceed
PROPERTY Ends
CHECK_DEADLOCK FALSE
