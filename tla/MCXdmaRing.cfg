SPECIFICATION ExamplesSpec
CONSTANTS
  Size <- MCSize
  Window = 3
  Faults = TRUE
  MaxMsgs = 6
  None = None
  Memory = 3
  MaxTransfers = 2
  Null = Null
INVARIANTS RingIsQueue SenderApart ReceiverApart OwnCompletion OwnData
PROPERTIES PollHolds StopReturns
