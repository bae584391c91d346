CONSTANTS
  Port = {p1, p2}
  MaxRetries = 3
  MaxFaults = 3
  Asked = {p1}
SPECIFICATION SpecWithCaches
INVARIANTS CachesTypeOK GivesUpForCause PortsAreFree ExistingServed
PROPERTIES RestartComes DeadServerNoticed NothingLeftBehind StaleEnds
CHECK_DEADLOCK FALSE
