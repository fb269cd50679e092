SPECIFICATION FairSpec
CONSTANTS
  BufSize = 16
  CHUNK_LOW = 4
  RESERVE = 3
  PREFIX = 2
  TRAILER = 3
  HeaderSizes = {2, 12}
  Blocks = {4, 17}
  Lengths = {0, 21}
  BodyMax = 21
  Fails = TRUE
INVARIANTS
  TypeOK
  WellFormed
  ReadInOnePiece
  EndMeansAll
  ChunksWhole
PROPERTIES
  Finishes
CHECK_DEADLOCK FALSE
