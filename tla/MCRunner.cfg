SPECIFICATION FairSpec
CONSTANTS
  m1 = m1
  m2 = m2
  send = send
  compute = compute
  check1 = check1
  check2 = check2
  out = out
  None = None
  Messages <- GraphMessages
  Tasks <- GraphTasks
  Needs <- GraphNeeds
  Sends <- GraphSends
  Outcomes <- GraphOutcomes
  InCapacity = 1
  OutCapacity = 1
  Faults = {"cancel", "close_input", "close_output", "panic", "task"}
INVARIANTS UpdatesConserved NoDanglingTasks DrainedBeforeError
PROPERTIES KeepsPromises CancelReturns Completes
CHECK_DEADLOCK FALSE
