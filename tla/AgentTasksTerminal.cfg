SPECIFICATION Spec
CONSTANTS
  Tasks = {t1}
  Clients = {c1}
  MaxConcurrent = 1
  MaxIterations = 1
  MaxBlocks = 0
  MaxRestarts = 0
  MaxStoreErrors = 0
PROPERTIES
  TerminalRowsAreFinal
