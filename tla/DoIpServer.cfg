CONSTANTS
  Connections = {c1, c2}
  Testers = {t1, t2}
  Groups = {g}
  MaxConnections = 1
  NumSendJobs = 1
  NumProtocolJobs = 1
  NumMessageJobs = 1
  Messages = {m}
  None = None
  MaxAccepts = 2
SPECIFICATION FairSpec
INVARIANTS RoutingWithinLimit AliveChecksAwaited RoutesKnown SenderKeepsConnection ClosedHoldsNothing
PROPERTIES ClosedIsReleased ActivationDecided
CHECK_DEADLOCK FALSE
