SPECIFICATION Spec
CONSTANTS
  q1 = q1
  q2 = q2
  Request = {q1, q2}
  IdleMs = {2}
  TouchInterval = 1
  RecoveryDelay = 1
  RetryDelay = 1
  MaxFirings = 2
  MaxTime = 3
  MaxEpoch = 3
  MaxEviction = 1
  MaxCrash = 1
SYMMETRY Symmetric
INVARIANTS ContainerOwned TimersPending
PROPERTIES EndsRightly
CHECK_DEADLOCK FALSE
