CONSTANTS
  NumBrowsers = 1
  NumTests = 3
  RepeatTimes = 1
  NumDevices = 2
  RestartAfter = 2
  AutoRestart = TRUE
SPECIFICATION FairSpec
INVARIANTS TypeOK EndedByOwnPage NotificationArrives EveryEntryRun
PROPERTY WorkersEnd
CHECK_DEADLOCK FALSE
