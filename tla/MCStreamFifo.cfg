SPECIFICATION FairSpec
CONSTANTS
  FifoLen = 2
  ProgFull = 2
  BufSize = 2
  BufSizes = {1}
  Careful = TRUE
  ReadLens = {1, 2}
  MaxSamples = 3
  Junk = Junk
INVARIANTS  OverflowTold
PROPERTY Delivery
