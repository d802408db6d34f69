SPECIFICATION NetSpec
CONSTANTS
  Builds = {"linux", "macos", "windows"}
  IntMax = 7
  BufferSizes = {0, 1, 3}
  MaxAgain = 2
  MaxSent = 9
  Empties = {3}
  BATCH_FIRST = 2
  BATCH_MOST = 4
  MaxFailures = 2
  Caps = {3, 5}
  MaxTroubles = 2
  Peers = {"p", "q"}
  Lengths = {0, 1, 2}
  CHUNK_SIZE = 7
  MaxRun = 3
  MaxRunBytes = 5
  BATCH = 2
  MaxGathered = 4
  Kernels = {"linux", "other"}
  Genuine = {{"client", "server"}, {"client"}}
  Strays = {"client"}
  TableThreads = {t1, t2}
  Addresses = {a1, a2}
  MaxHandles = 3
  Null = Null
  Sockets = {s1, s2}
  Accepted = {c1}
  Lists = {h2, h1, long}
  RefusedLists = {long}
  Places = {p1, p2, p3, p4}
  Nowhere = Nowhere
  Owners = {"o1", "o2"}
  Watchers = {"w"}
  Candidates <- PathOrder
  Loadable = {"b", "c"}
  MaxOpens = 3
  Top = 15
  MaxValues = 2
  MaxCells = 5
  MaxDigits = 6
  Workers = {w1, w2}
  Clients = {k1}
  Tasks = {j1, j2}
  MaxShutdowns = 3
  Token = Token
  Runtimes = {p, a, b}
  Primordial = p
  Plain = {t}
  None = None
INVARIANTS
  NetTypeOK ConnectedIsCurrent HandshakeEnds HandlesAreRight ListsAreKeptOnce
  HandleLivesWithItsCalls BlocksAreExact CallIsSound SentAsAsked StoppedWithParent
PROPERTIES NoDatagramLost BooksAgree
CHECK_DEADLOCK FALSE
