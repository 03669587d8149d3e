CONSTANTS
  Connections = {c1, c2, c3}
  Testers = {t1}
  Groups = {g}
  MaxConnections = 2
  NumSendJobs = 2
  NumProtocolJobs = 1
  NumMessageJobs = 1
  Messages = {}
  None = None
  MaxAccepts = 3
SPECIFICATION Spec
INVARIANTS OneRoutePerAddress
CHECK_DEADLOCK FALSE
