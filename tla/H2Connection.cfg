CONSTANTS
  Stream = {s1, s2}
  Zero = zero
  Upload = {s1}
  Noisy = {zero, s1}
  Leaving = {"eof", "gone"}
  MaxData = 1
  MaxBody = 2
  MaxFrameSize = 3
  Window = 3
  MaxOthers = 1
  MaxBatch = 2
SPECIFICATION FairSpec
INVARIANTS TypeOK NoThreadForgotten WholeRequest CutOnlyByOverlap
PROPERTIES ConnectionEnds
CHECK_DEADLOCK FALSE
