CONSTANTS
  MaxId = 4
  RespIdsBound = 3
  PopupsBound = 5
  NumOrigins = 2
  NumPlain = 1
  NumWithPopup = 1
  NumPopups = 2
SPECIFICATION Spec
INVARIANTS SplitsPartition ExactlyOnce FewPopups
CHECK_DEADLOCK FALSE
