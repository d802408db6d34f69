SPECIFICATION PipeSpec
CONSTANTS
  PipeBuffer = 6
  Chunk = 2
  Frame = 6
  MaxQueued = 4
  MaxEvents = 3
  Hostings = {{}, {"client"}, {"listener"}}
PROPERTIES SentArrives ClientsTakeTurns
CHECK_DEADLOCK FALSE
