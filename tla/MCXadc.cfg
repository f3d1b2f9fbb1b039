SPECIFICATION Spec
CONSTANTS
  Channels <- MCChannels
  Top = 1
  MaxCalls = 2
  EventChannels = {3}
  Kids <- MCKids
  Garbage = {1}
  ScanMasks <- MCScanMasks
  Clock = 100000000
  Rates = {1000, 150000}
  MaxOps = 2
INVARIANTS ScanPushed   AxiConfig
PROPERTIES  AlarmServed
