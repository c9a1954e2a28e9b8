CONSTANTS
  Clients = {1, 2}
  Main = Main
  MaxRequests = 4
  MaxOverlap = 2
  Suspicions = {TRUE}
  Types = {"Join"}
  Kinds = {"gossipLoop"}
  Nil = Nil
SPECIFICATION Spec
INVARIANTS TypeOK WhatSwitchesLeave StopsCanEnd
PROPERTIES GossipClosesOnce StopsEnd ShutdownEnds
CHECK_DEADLOCK FALSE
