SPECIFICATION Spec
CONSTANTS
  call = call
  call2 = call2
  child = child
  MaxTurn = 1
  Call <- TurnCalls
  Child = {child}
  ChildCall <- ChildCalls
  Command <- TurnCommands
  MaxLog = 3
  Page = 1
  MaxConcurrentSubagents = 1
INVARIANTS OutcomeTruthful AppliedOnce
CHECK_DEADLOCK FALSE
