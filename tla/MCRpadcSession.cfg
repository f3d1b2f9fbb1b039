SPECIFICATION SessionSpec
CONSTANTS
  Readers = {r1}
  FifoLen = 2
  ProgFull = 2
  BufSize = 2
  BufSizes = {}
  ReadLens = {2}
  MaxSamples = 3
  Modes = {TRUE, FALSE}
  NonBlock = FALSE
  Junk = Junk
INVARIANTS NoUnderflow NoLostWakeup
PROPERTY StreamSpec
