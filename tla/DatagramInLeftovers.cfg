SPECIFICATION DatagramInSpec
CONSTANTS
  MaxSent = 9
  Empties = {3}
  BATCH_FIRST = 2
  BATCH_MOST = 4
  MaxFailures = 2
  Caps = {3, 5}
  MaxTroubles = 2
INVARIANT LeftoversComeRound
CHECK_DEADLOCK FALSE
