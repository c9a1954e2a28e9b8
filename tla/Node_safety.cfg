SPECIFICATION NodeSpec
CONSTANTS
  LocalNode = n1
  Nodes = {n1, n2}
  Reporters = {n1, n3}
  Callers = {handler, detector}
  Handler = handler
  Detector = detector
  Modes = {"pingack", "gossip"}
  AddressOf <- OwnAddress
  RequireReports = 1
  MaxIncarnation = 1
  MaxOutstanding = 1
  MaxCopies = 1
INVARIANTS
  NodeTypeOK
PROPERTIES
  OnlyCallbacksAndJoinsLowerIncarnation
