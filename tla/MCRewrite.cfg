SPECIFICATION Spec
CONSTANTS
  Kinds <- FiveKinds
  Caller <- TwoNodes
  Signature = {1, 2}
  MaxKids = 2
  Calls = TRUE
  Targets = {"ComputeScalar", "ComputeMapping"}
INVARIANTS NothingLeftBehind SharingKept ArgumentsBound OnlyTargetModified
CHECK_DEADLOCK FALSE
