\* The keeper's side: an agent that is moved and one that is not, and every kind
\* of failure and outside event that the database can see.
CONSTANTS
  a = a
  b = b
  c = c
  d = d
  None = None
  Agent = {a, b}
  Movable = {b}
  Hub = {}
  Client = {c, d}
  Threshold = 3
  CacheTTL = 1
  Freshness = 3
  Events = {"stop", "start", "assign", "unassign", "write", "beat", "register", "status", "prune", "delete", "cache"}
  MaxEvents = 3
SPECIFICATION FairSpec
INVARIANTS TypeOK DeadIsNotRunning
PROPERTIES PruneNeedsSilence LiveIsRegistered
