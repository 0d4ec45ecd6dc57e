SPECIFICATION TlSpec
CONSTANTS
  MaxLine = 2
INVARIANTS
  ConfirmedCommandRuns
