\* One tracer that may be killed and started again, two tasks that come and
\* go, every answer a wrap function can give, SIGKILL from outside.
SPECIFICATION FairSpec
CONSTANTS
  a = a  b = b  p0 = p0  p1 = p1  k1 = k1
  Thread = {a, b}
  Kmpid = {p0, p1}
  Tracer = {k1}
  NULL = NULL
  Victims = {a}
  OldKernel = TRUE
  MagicCnt = 1
  Mortal = {k1}
  Behaviours <- AllBehaviours
INVARIANTS UmpidKnown OneAnswer VerdictKept NobodyLeft ZeroMeansEnded
PROPERTY Answered
