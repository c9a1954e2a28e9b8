CONSTANTS
  Nodes = {n1, n2, n3}
  Suspicions = {TRUE, FALSE}
  MaxIncarnation = 1
  Bounds <- ClusterBounds
  None = None
SPECIFICATION Spec
INVARIANT OnlyStaleHeartbeatsAreIgnored
SYMMETRY Symmetry
CHECK_DEADLOCK FALSE
