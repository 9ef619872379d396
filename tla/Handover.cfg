SPECIFICATION HandoverSpec
CONSTANTS
  \* The supervisor and its turns
  call = call
  call2 = call2
  child = child
  MaxTurn = 2
  Call = {}
  Child = {}
  ChildCall = {}
  Command <- HandoverCommands
  MaxLog = 1
  Page = 1
  MaxConcurrentSubagents = 1
  \* Codex
  Root = root
  SubThread = {c1, c2}
  CodexCall = {k1}
  MaxChildTurn = 2
  MaxInbox = 2
  MaxMove = 2
INVARIANTS RuntimeAlone CompletesQuiet EveryMessageAccounted
PROPERTIES WaitsEnd CancelSettles
CHECK_DEADLOCK FALSE
