SPECIFICATION ServiceSpec
CONSTANTS
  SelfStops = {FALSE}
  MaxReports = 4
INVARIANTS StoppedAfterTeardown
CHECK_DEADLOCK FALSE
