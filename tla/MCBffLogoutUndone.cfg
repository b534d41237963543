CHECK_DEADLOCK FALSE
SPECIFICATION Spec
CONSTANTS
  Handlers = {h1, h2}
  Processes = {p1}
  Sessions = {s1}
  Sids = {o1}
  MaxTokens = 2
  MaxEvents = 1
  None = None
INVARIANT LogoutIsFinal
