SPECIFICATION RuntimeSpec
CONSTANTS
  Threads = {t1, t2}
  Loop = loop
  LoopTypes = {"DEFAULT", "POLL"}
  MaxPosts = 3
  SocketBuffer = 2
  DrainSize = 1
  Own = own
  Pool = pool
  Others = {o1}
  Handlers = {h1, h2}
INVARIANTS NoLostWake HeardOnceAtHome
PROPERTIES ImplementsPostQueue WorkIsServed EndReachesAll
