SPECIFICATION ChildSpec
CONSTANTS
  ChildSystems = {"linux"}
INVARIANTS KillsOnlyTheChild
CHECK_DEADLOCK FALSE
