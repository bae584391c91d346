CONSTANTS
  Worker = {w1}
  Chunk = {c1, c2}
  NoChunk = NoChunk
  NumUrls = 2
  Hangs <- HangsButClose
SPECIFICATION FairSpec
PROPERTY ChunkEnds
CHECK_DEADLOCK FALSE
