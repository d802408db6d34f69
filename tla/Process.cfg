SPECIFICATION ProcessSpec
CONSTANTS
  ChildSystems = {"linux", "macos", "windows"}
  Pollers = {t1, t2}
  Runtimes = {t1, t2}
  MainThread = t1
  NoThread = NoThread
  Callbacks = {c1}
  HoldRounds = 3
  SelfStops = {TRUE, FALSE}
  MaxReports = 4
  KeyUsers = {u1, u2, u3}
  NoUser = NoUser
INVARIANTS ProcessTypeOK CleansUp EachCallbackOnce KeyLivesWithItsCalls
PROPERTIES
  StartAndEndAreTold ShutsDownWhenAsked StopIsReported CollectionRuns
CHECK_DEADLOCK FALSE
