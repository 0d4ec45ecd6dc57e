SPECIFICATION FairSpec
CONSTANTS
  TunnelIds = {f1, t1}
  Keys = {k1}
  KeyOf <- OneServer
  Forwards = {f1}
  AutoStart = {t1}
  Dynamic = {f1}
  Unsupported = {}
  Clients = {c1}
  Session = session
  MaxStarts = 2
  MaxBridges = 1
  MaxDrops = 0
INVARIANTS
  ClosedSessionsLeaveNothing
PROPERTIES
  CallsReturn
  CancelledListenersEnd
