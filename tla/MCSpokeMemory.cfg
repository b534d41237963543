\* Four events on two subjects, two deliveries of each, two failures, and a brain that
\* is shown one turn.
CONSTANTS
  None = None
  start = start
  hello = hello
  task = task
  end = end
  Loops = {"own", "all"}
  Events = {start, hello, task, end}
  Schema <- MCSchema
  Serves <- MCServes
  Context <- MCContext
  Limit = 1
  MaxSteps = 2
  MaxDeliver = 2
  MaxFaults = 2
SPECIFICATION Spec
CHECK_DEADLOCK FALSE
INVARIANTS TypeOK TurnsPaired ForgottenIsHanded
PROPERTIES NothingForgotten
