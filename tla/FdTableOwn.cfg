\* Two processes with tables of their own, that fork and end outside calls, in umview.
SPECIFICATION Spec
CONSTANTS
  Thread = {t1, t2}
  First = t1
  Table = {p1, p2}
  NFd = 2
  NLfd = 2
  NOpen = 2
  NCount = 3
  Kinds = {"virtual", "rewritten", "real"}
  Sharing = FALSE
  Killing = FALSE
  Km = FALSE
  CloseOnExec = FALSE
SYMMETRY Sym
CHECK_DEADLOCK FALSE
INVARIANTS
  CountExact
  ClosedIsUnused
  RegisteredMatchesKernel
