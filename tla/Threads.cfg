SPECIFICATION ThreadsFairSpec
CONSTANTS
  Holders = {h1, h2}
  Drivers = {"DEFAULT", "POLL", "HOST"}
  MaxFailures = 1
  Workers = {w1, w2}
  Clients = {c1, c2}
  Tasks = {j1}
  MaxShutdowns = 2
  Token = Token
  Runtimes = {p, a, b}
  Primordial = p
  Plain = {}
  None = None
INVARIANTS ThreadsTypeOK
PROPERTIES
  HeldGoesOutFirst FlushedOncePerAsk FramesComeRound ShutdownFinishes AllEnd
CHECK_DEADLOCK FALSE
