SPECIFICATION Spec
CONSTANTS
  w1 = w1
  w2 = w2
  Workloads <- OneWorkload
  Capacity = 1
  QueueCap = 1
  AdminStates = {"Enabled"}
  MaxGen = 2
  FaultKinds <- Faults
  MaxFaults = 1
CHECK_DEADLOCK FALSE
INVARIANTS TypeOK ReadyBelongsToOpenSession ReadyWorkloadRan
PROPERTIES NoResurrection
