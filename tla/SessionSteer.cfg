SPECIFICATION FairSpec
CONSTANTS
  m1 = m1
  m2 = m2
  c1 = c1
  c2 = c2
  Input = {m1, m2}
  Call = {}
  Request <- SteerRequests
  MaxTurn = 2
  MaxLog = 1
  MaxEviction = 1
  Page = 100
  Deployment = {"same"}
  Steerable = TRUE
  EnvReport = {}
INVARIANTS WakeupPersists InputOnce CheckpointOfLastCompleted
PROPERTIES SealedTruthfully EveryTurnSealed
CHECK_DEADLOCK FALSE
