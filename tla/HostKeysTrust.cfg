SPECIFICATION PartsSpec
CONSTANTS
  Handshakes = {h1, h2}
  Unattended = {h2}
  Revocations = {r1}
  Hosts = {a, b}
  Keys = {k1, k2}
  NoKey = NoKey
  MaxRestarts = 1
  LsInstalls = {i1}
  LsSlots = {s1, s2}
  LsMaxEffects = 2
  LsMaxAttempts = 1
  LsMaxRestarts = 1
  TfTasks = {t1}
  TfSlots = {f1, f2, f3}
  TfMaxSubs = 1
  TfMaxQueue = 2
  Workspaces = {w1, w2}
  WkOps = {o1, o2}
INVARIANTS
  TypesOK
  KeysAreVouchedFor
  OneConnectionPerRun
  GoneStaysGone
  EndsAreShown
PROPERTIES
  HandshakesEnd
  FirstConnectSettles
  DeletedComesBackByItsCreateOnly
CHECK_DEADLOCK FALSE
