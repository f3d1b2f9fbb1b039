SPECIFICATION ExamplesSpec
CONSTANTS
  Size <- MCSize
  Window = 1
  Faults = FALSE
  MaxMsgs = 3
  None = None
  Memory = 2
  MaxTransfers = 1
  Null = Null
INVARIANT NoError
