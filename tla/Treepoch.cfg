\* Four processes, three view forks and a service, strings of three bits.
CONSTANTS
  Proc = {p1, p2, p3, p4}
  Svc = {s1}
  MAXDEPTH = 3
  MaxNode = 7
  MaxEpoch = 6
SPECIFICATION Spec
SYMMETRY ProcSymmetry
CHECK_DEADLOCK FALSE
INVARIANTS TreeShape ProcsAtLeaves NprocCounts CollapseOnlyLeaf DepthAndHeight MatchStaysInTree VisibleWhileViewsLast
