SPECIFICATION PartsSpec
CONSTANTS
  Tasks = {t1}
  Clients = {c1}
  MaxConcurrent = 1
  MaxIterations = 2
  MaxBlocks = 1
  MaxRestarts = 1
  MaxStoreErrors = 1
  NDevices = 2
  Phases = {"change"}
  MaxExecs = 2
  MaxRows = 3
  MaxCalls = 2
  MaxStepOps = 1
INVARIANTS
  TypesOK
  MutationsWereApproved
  RunningHasARunner
  ResultsAreTheRunners
  PermitsConserved
  RunningHasItsPlan
PROPERTIES
  CancelledRunnersEnd
  OnlyPhasesRunAhead
  RunsEnd
