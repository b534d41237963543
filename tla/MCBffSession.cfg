CHECK_DEADLOCK FALSE
SPECIFICATION Spec
CONSTANTS
  Handlers = {h1, h2}
  Processes = {p1, p2}
  Sessions = {s1, s2}
  Sids = {o1}
  MaxTokens = 2
  MaxEvents = 1
  None = None
INVARIANTS
  TypeOK
  IndexedByUser
  DeletedStaysDeleted
PROPERTIES
  TokenUsedOnce
  LogoutTakesEffect
