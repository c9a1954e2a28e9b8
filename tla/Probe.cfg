CONSTANTS
  Nodes = {a, b, t}
  Pingers = {a,b}
  Pinged = {t}
  Helping = {b}
  Mortal = {a,t}
  K = 1
  MaxSeq = 2
  MaxPeriods = 2
  MaxRestarts = 1
  MaxProxies = 2
  None = None
SPECIFICATION Spec
INVARIANTS TypeOK NoOrphans AcksAreFresh
PROPERTY ImplementsOutcomes
CHECK_DEADLOCK FALSE
