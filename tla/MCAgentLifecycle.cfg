CHECK_DEADLOCK FALSE
SPECIFICATION Spec
CONSTANTS
  Agents = {a1}
  Communities = {c1, c2}
  Requests = {r1, r2}
  MaxEvents = 2
  MaxEdits = 1
  None = None
INVARIANTS
  TypeOK
  NoMissedWakeup
PROPERTIES
  LostUpdateNeedsOverlap
  Converges
  RetriesRepair
