\* Two views, one of which mounts a service and ends.
CONSTANTS
  Proc = {p1, p2}
  Svc = {s1}
  MAXDEPTH = 3
  MaxNode = 3
  MaxEpoch = 6
SPECIFICATION Spec
SYMMETRY ProcSymmetry
CHECK_DEADLOCK FALSE
INVARIANT ViewIsolation
