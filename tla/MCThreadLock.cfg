\* Three handlers, work that may outlast the lease.  No symmetry: liveness.
CONSTANTS
  h1 = h1
  h2 = h2
  h3 = h3
  t1 = t1
  t2 = t2
  t3 = t3
  t4 = t4
  NoToken = NoToken
  Handler = {h1, h2, h3}
  Token = {t1, t2, t3, t4}
  LockTTL = 3
  LockTimeout = 2
  MaxWork = 4
SPECIFICATION FairSpec
INVARIANTS TypeOK LeaseExclusive
PROPERTIES LockIsFreed
