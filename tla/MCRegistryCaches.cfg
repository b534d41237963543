\* The caches: one agent that is never moved, two hubs that share the keeper's
\* list of cards, and any two failures.
CONSTANTS
  a = a
  h1 = h1
  h2 = h2
  None = None
  Agent = {a}
  Movable = {}
  Hub = {h1, h2}
  Client = {}
  Threshold = 3
  CacheTTL = 1
  Freshness = 3
  Events = {"stop", "start", "beat", "prune", "cache", "request"}
  MaxEvents = 2
SPECIFICATION FairSpec
INVARIANTS StalenessBounded
PROPERTIES LiveIsKnown
