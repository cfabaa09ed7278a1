SPECIFICATION Spec
CONSTANTS
  p1 = p1
  p2 = p2
  Pids = {p1, p2}
  NoPid = NoPid
  Heights = {0, 1, 2, 3}
  FieldCounts = {0, 1}
  NumSignals = 2
  Base = 2
  MaxRow = 3
SYMMETRY Symmetry
\* The program may exit.
CHECK_DEADLOCK FALSE
INVARIANT
  SystemTargetKept
