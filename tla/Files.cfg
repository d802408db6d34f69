SPECIFICATION FilesSpec
CONSTANTS
  Procs = {p1, p2}
  Clients = {c1, c2}
  Forever = {c1}
  Files = {f1, f2, f3}
  Attempts = 2
  Backlog = 1
  CleanAge = 2
  CleanerRaces = FALSE
  None = None
  Users = {u1, u2}
  Systems = {"linux", "macos", "windows"}
  Regions = {r1, r2, r3}
  LockFiles = {f1, f2, f3}
  Room = 2
  LockAttempts = 2
  MaxEvents = 1
  RegionCleanerRaces = FALSE
  Absent = Absent
  Processes = {p1, p2}
  MaxPuts = 2
  MaxRemovals = 1
  MaxCuts = 1
  Disks = {"posix", "unsynced", "windows"}
  ReplaceTries = 2
  Olds = {"none", "part", "whole"}
INVARIANTS
  FilesTypeOK NameIsItsListeners HeaderIsSound NeverTorn AcknowledgedStays
PROPERTIES  LockServes
CHECK_DEADLOCK FALSE
