SPECIFICATION Spec
CONSTANTS
  BufSize = 16
  CHUNK_LOW = 4
  RESERVE = 3
  PREFIX = 2
  TRAILER = 3
  HeaderSizes = {2}
  Blocks = {7}
  Lengths = {}
  BodyMax = 14
  Fails = FALSE
INVARIANTS
  CompleteMeansWritten
CHECK_DEADLOCK FALSE
