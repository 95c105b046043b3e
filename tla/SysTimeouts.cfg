\* Three timeouts at a time, two callers and the waits, up to three waits deep.
SPECIFICATION Spec
CONSTANTS
  n1 = n1  n2 = n2  n3 = n3  n4 = n4  a = a  b = b
  Node = {n1, n2, n3}
  Handler = {a, b}
  Msecs = {0, 1, 2}
  NULL = NULL
  MaxNow = 3
  MaxArm = 4
  MaxDepth = 3
SYMMETRY Symmetry
CHECK_DEADLOCK FALSE
INVARIANTS EarliestFirst NoDangling
PROPERTY OnTime
