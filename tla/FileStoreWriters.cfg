SPECIFICATION StoreSpec
CONSTANTS
  Processes = {p1, p2}
  MaxPuts = 2
  MaxRemovals = 0
  MaxCuts = 0
  Disks = {"posix"}
  ReplaceTries = 2
  Olds = {"none"}
INVARIANTS WritersDoNotFail
CHECK_DEADLOCK FALSE
