SPECIFICATION Spec
CONSTANTS
  TunnelIds = {t1}
  Keys = {k1}
  KeyOf <- OneServer
  Forwards = {}
  AutoStart = {}
  Dynamic = {}
  Unsupported = {}
  Clients = {c1, c2}
  Session = session
  MaxStarts = 2
  MaxBridges = 0
  MaxDrops = 0
INVARIANTS
  StopReachesTheListener
