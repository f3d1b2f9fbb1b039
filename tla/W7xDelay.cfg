SPECIFICATION SchedSpec
CONSTANTS
  Calls <- MCCalls
  ReinitDelays = {2}
  DefaultDelay = 3
  MaxTime = 9
  MaxSamples = 2
  None = None
PROPERTY UnconfiguredRearms
