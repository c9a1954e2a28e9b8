SPECIFICATION Spec
CONSTANTS
  LocalNode = n1
  Nodes = {n2}
  Reporters = {n1, n3}
  Callers = {handler, detector}
  RequireReports = 2
  MaxIncarnation = 0
  MaxOutstanding = 2
  MaxCopies = 1
PROPERTY
  AggregatesReports
