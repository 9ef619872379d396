SPECIFICATION StreamsSpec
CONSTANTS
  \* Event streams
  Client = {c1, c2}
  LISTENER_LIMIT = 1
  EVENT_PAGE = 2
  MaxEvent = 4
  MaxFault = 1
  \* The vault
  Credential = {d1, d2}
  Caller = {r1, r2}
  MaxGrant = 2
  MaxRotation = 1
  MaxEvict = 1
INVARIANT CreationStreamCoversTurn
PROPERTIES ImplementsFeed TokenAnswered GrantsHold
CHECK_DEADLOCK FALSE
