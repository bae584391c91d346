CONSTANTS
  desktop = desktop
  android = android
  Browser = {desktop, android}
  Page <- MCPage
  PagesOf <- MCPagesOf
  NumPopups <- MCNumPopups
  Wanted = 2
  MaxLosses = 3
SPECIFICATION FairSpec
PROPERTIES CoversMissing RepeatEnds
CHECK_DEADLOCK FALSE
