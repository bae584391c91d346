CONSTANTS
  Stream = {s1}
  Zero = zero
  Upload = {s1}
  Noisy = {zero}
  Leaving = {"eof", "gone"}
  MaxData = 1
  MaxBody = 2
  MaxFrameSize = 3
  Window = 3
  MaxOthers = 1
  MaxBatch = 2
SPECIFICATION FairSpec
PROPERTIES EofEndsConnection
CHECK_DEADLOCK FALSE
