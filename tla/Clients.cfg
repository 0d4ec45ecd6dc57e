SPECIFICATION PartsSpec
CONSTANTS
  Calls = {c1, c2, c3, c4}
  NoCall = NoCall
  Cuttable = {c1, c2}
  AuCalls = {"a"}
  MaxLogins = 1
  MaxOpen = 2
  MaxTokens = 2
  MaxSockets = 4
  EsSlots = {s1, s2, s3, s4}
  JtSlots = {s1, s2, s3}
  Loops = {l1, l2}
  MaxTools = 2
  MaxMessages = 2
  MaxLine = 2
INVARIANTS
  TypesOK
  FailedHandlesAreNotReused
  NobodyWaitsInVain
  OneLiveSocket
  OneSession
  JumpFollowsItsSocket
  CommandsWereShown
  ResultsFollowTheirCall
  TypedRisksAreAsked
PROPERTIES
  CallsReturn
  RequestsSettle
  LostIsRetried
  StoppedLoopsRunNoCommand
  StoppedLoopsEnd
