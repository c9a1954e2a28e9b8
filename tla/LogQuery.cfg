CONSTANTS
  Hosts = {a, b}
  Faulty = {a}
  MaxLines = 2
  PipeRoom = 1
  WireRoom = 1
  None = None
SPECIFICATION Spec
INVARIANTS TypeOK NothingLostOnTheWay MissingLinesAreReported
PROPERTIES EveryStepIsWork QueryReturns AnswersAreShown GrepsEnd
CHECK_DEADLOCK FALSE
