SPECIFICATION Spec
CONSTANTS
  m1 = m1
  m2 = m2
  c1 = c1
  c2 = c2
  Input = {m1, m2}
  Call = {c1, c2}
  Request <- ToolRequests
  MaxTurn = 2
  MaxLog = 2
  MaxEviction = 1
  Page = 100
  Deployment = {"same", "other", "missing"}
  Steerable = TRUE
  EnvReport = {"failed"}
INVARIANTS StatusTruthful EventsInOrder RecordCurrent
PROPERTIES OutcomesStand
CHECK_DEADLOCK FALSE
