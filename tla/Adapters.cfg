SPECIFICATION Spec
CONSTANTS
  Parts = {"claude_code", "opencode", "job", "gateway", "wire"}
  \* Claude Code
  MaxSub = 2
  Shape <- MCShape
  MaxChildren = 2
  MaxMessage = 2
  MaxMail = 1
  MaxWork = 3
  \* OpenCode
  MaxUser = 3
  MaxAssistant = 3
  MaxFeed = 3
  \* The job
  McpServers = {s1, s2}
  McpTools = {t1, t2}
  Cursors = {u1}
  McpCalls = {k1}
  MaxTools = 3
  \* One request of the model gateway
  Models = 2
  Id = {"a", "b"}
  MaxParts = 4
  ByteLimit = 3
  \* A conversation of several
  WireProtocol = {"responses", "anthropic", "chat-completions"}
  Declarable <- MCDeclarable
  Found <- MCFound
  MaxDeclared = 2
  MaxSaid = 6
INVARIANTS SteersWorkedOn  JobContained StreamMakesDocument FailuresContained ConversationCarried
CHECK_DEADLOCK FALSE
