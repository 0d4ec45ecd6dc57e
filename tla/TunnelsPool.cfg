SPECIFICATION Spec
CONSTANTS
  TunnelIds = {t1, t2}
  Keys = {k1}
  KeyOf <- OneServer
  Forwards = {}
  AutoStart = {t1}
  Dynamic = {}
  Unsupported = {t2}
  Clients = {c1, c2}
  Session = session
  MaxStarts = 3
  MaxBridges = 0
  MaxDrops = 1
SYMMETRY ClientSymmetry
INVARIANTS
  TypeOK
  PoolHoldsNoStrays
