\* The same processes and strings of two bits, so that forks are refused,
\* with the fairness of a program that goes on.
CONSTANTS
  Proc = {p1, p2, p3, p4}
  Svc = {s1}
  MAXDEPTH = 2
  MaxNode = 7
  MaxEpoch = 6
SPECIFICATION FairSpec
CHECK_DEADLOCK FALSE
INVARIANT DepthBound
PROPERTY WalksEnd
