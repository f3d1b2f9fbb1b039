SPECIFICATION FairSpec
CONSTANTS
  Readers = {r1}
  FifoLen = 2
  ProgFull = 2
  BufSize = 2
  BufSizes = {}
  ReadLens = {2}
  MaxSamples = 2
  Modes = {FALSE}
  NonBlock = FALSE
  Junk = Junk
PROPERTIES Delivery StopReleases
