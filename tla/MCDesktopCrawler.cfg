CONSTANTS
  Worker = {w1, w2}
  Chunk = {c1, c2}
  NoChunk = NoChunk
  NumUrls = 2
  Hangs <- HangsButClose
SPECIFICATION Spec
INVARIANTS TypeOK SignalsQuiet TimersNest
PROPERTY ImplementsChunkPool
SYMMETRY Symmetry
CHECK_DEADLOCK FALSE
