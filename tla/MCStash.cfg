CONSTANTS
  Thread = {"a", "b", "c"}
  Process = {"http", "https"}
  processOf <- MCProcessOf
  Value = {v1, v2}
SPECIFICATION StashSpec
INVARIANTS StashTypeOK EachValueOnce NotTakenAgain
CHECK_DEADLOCK FALSE
