SPECIFICATION FairNodeSpec
CONSTANTS
  LocalNode = n1
  Nodes = {n1, n2}
  Reporters = {n1, n3}
  Callers = {handler, detector}
  Handler = handler
  Detector = detector
  Modes = {"pingack"}
  AddressOf <- OwnAddress
  RequireReports = 1
  MaxIncarnation = 0
  MaxOutstanding = 2
  MaxCopies = 1
PROPERTIES
  FailedIsTemporary
