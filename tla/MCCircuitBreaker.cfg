CONSTANTS
  c1 = c1
  c2 = c2
  c3 = c3
  Caller = {c1, c2, c3}
  Threshold = 3
  Recovery = 2
SPECIFICATION FairSpec
INVARIANTS TypeOK ClosedBelowThreshold RejectionsAreJustified
PROPERTIES Recovers
