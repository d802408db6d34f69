SPECIFICATION PoolSpec
CONSTANTS
  Workers = {w1, w2}
  Clients = {c1, c2}
  Tasks = {j1, j2}
  MaxShutdowns = 3
  Token = Token
INVARIANTS SubmittedAreRun
CHECK_DEADLOCK FALSE
