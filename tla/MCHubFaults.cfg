\* Two user messages, two replicas on the response subjects, every kind of failure
\* and one failure per behaviour, a handoff target and a name nobody has.
CONSTANTS
  None = None
  a = a
  b = b
  hub = hub
  h1 = h1
  r1 = r1
  r2 = r2
  g = g
  u1 = u1
  u2 = u2
  User = {u1, u2}
  Spoke = {a, b}
  Hub = hub
  Ghost = {g}
  Cards = {a, b}
  Delegations <- AOrGhost
  Handoff = {b}
  HubLoop = {h1}
  RespLoop = {r1, r2}
  LoopSlack = 1
  MaxDeliver = 2
  Overrun = FALSE
  Faults = {"lock", "load", "save", "reply", "clear", "unlock", "cards", "brain", "publish", "ack", "slow", "crash", "spoke"}
  MaxFaults = 1
  MaxTasks = 2
SPECIFICATION Spec
INVARIANTS FlowNotOverwritten DuplicateNeedsFailure
PROPERTIES ImplementsScatterGather
SYMMETRY Symmetry
