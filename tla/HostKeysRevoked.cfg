SPECIFICATION Spec
CONSTANTS
  Handshakes = {h1, h2}
  Unattended = {}
  Revocations = {r1}
  Hosts = {a, b}
  Keys = {k1}
  NoKey = NoKey
  MaxRestarts = 0
INVARIANTS
  RevokedKeysStayRevoked
CHECK_DEADLOCK FALSE
