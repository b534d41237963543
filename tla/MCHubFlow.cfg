\* One user message, one or two spokes, two failures that the hub reports with
\* a negative acknowledgement.
CONSTANTS
  None = None
  a = a
  b = b
  g = g
  hub = hub
  h1 = h1
  r1 = r1
  u1 = u1
  u2 = u2
  User = {u1}
  Spoke = {a, b}
  Hub = hub
  Ghost = {}
  Cards = {a, b}
  Delegations <- OneOrBoth
  Handoff = {}
  HubLoop = {h1}
  RespLoop = {r1}
  LoopSlack = 1
  MaxDeliver = 2
  Overrun = FALSE
  Faults = {"lock", "load", "save", "unlock", "cards", "brain"}
  MaxFaults = 2
  MaxTasks = 6
SPECIFICATION FairSpec
INVARIANTS TypeOK FanInComplete NothingLost WaitingIsServed
PROPERTIES EventuallyAnswered
