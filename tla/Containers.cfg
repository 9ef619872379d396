SPECIFICATION ContainersSpec
CONSTANTS
  Parts = {"harness", "delegation", "commands", "code"}
  \* The harness and its sandbox
  MaxTurn = 2
  MaxUpload = 1
  MaxFault = 2
  \* Children
  a1 = a1
  a2 = a2
  Agents = {a1, a2}
  Limits = {1}
  MaxEvents <- MCMaxEvents
  \* Commands
  Requests = {r1, r2}
  \* Code
  ToolCalls = {c1, c2, c3}
  ClientCalls = {c1}
  MaxCalls = 3
  MaxActive = 2
INVARIANTS NothingRunTwice  ChildrenSettleFirst ChildrenBounded  NoHiddenEffects
PROPERTIES WorkspaceContinues
CHECK_DEADLOCK FALSE
