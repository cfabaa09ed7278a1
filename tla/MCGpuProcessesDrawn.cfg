CONSTANTS
  Devices = {d1, d2}
  Pids = {p1, p2}
  Entries = {e1, e2}
  NULL = NULL
  MaxIncarnation = 2
SPECIFICATION Spec
CHECK_DEADLOCK FALSE
SYMMETRY Alike
INVARIANTS DrawnRowsLive
