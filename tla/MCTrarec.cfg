SPECIFICATION FrameSpec
CONSTANTS
  CbufSize = 6
  WordSize = 4
  Configs <- MCConfigs
  MaxSamples = 8
  None = None
INVARIANTS FrameComplete NoTruncation
PROPERTIES FrameContents FrameLength TimeWords
