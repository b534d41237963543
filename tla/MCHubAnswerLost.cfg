\* One user message and one failure, of a publish among others.
CONSTANTS
  None = None
  a = a
  b = b
  g = g
  hub = hub
  h1 = h1
  r1 = r1
  u1 = u1
  u2 = u2
  User = {u1}
  Spoke = {a, b}
  Hub = hub
  Ghost = {}
  Cards = {a, b}
  Delegations <- OneOrBoth
  Handoff = {}
  HubLoop = {h1}
  RespLoop = {r1}
  LoopSlack = 1
  MaxDeliver = 2
  Overrun = FALSE
  Faults = {"lock", "load", "save", "unlock", "cards", "brain", "publish"}
  MaxFaults = 1
  MaxTasks = 6
SPECIFICATION Spec
INVARIANTS NothingLost
