SPECIFICATION DriverSpec
CONSTANTS
  Readers = {r1}
  FifoLen = 1
  ProgFull = 1
  BufSize = 2
  BufSizes = {2}
  ReadLens = {1,2}
  MaxSamples = 2
  Modes = {TRUE, FALSE}
  NonBlock = FALSE
  Junk = Junk
  TimeLen = 4
  MaxTriggers = 3
  Byte = 8
  Short = 64
  Requests <- MCRequests
INVARIANTS TypeOK RingBounds EdgeLatched  ConfigRead
