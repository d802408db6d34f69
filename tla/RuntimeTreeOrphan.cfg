SPECIFICATION Spec
CONSTANTS
  Runtimes = {p, a, b}
  Primordial = p
  Plain = {t}
  None = None
INVARIANTS NoneLeftBehind
CHECK_DEADLOCK FALSE
