CONSTANTS
  NumBrowsers = 2
  NumTests = 1
  RepeatTimes = 1
  NumDevices = 1
  RestartAfter = 100
  AutoRestart = FALSE
SPECIFICATION Spec
INVARIANT StoredUnderOwnBrowser
CHECK_DEADLOCK FALSE
