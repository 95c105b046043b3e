\* Two threads that share a table, in kmview, with kills and execve.
SPECIFICATION Spec
CONSTANTS
  Thread = {t1, t2}
  First = t1
  Table = {p1}
  NFd = 2
  NLfd = 2
  NOpen = 2
  NCount = 2
  Kinds = {"virtual"}
  Sharing = TRUE
  Killing = TRUE
  Km = TRUE
  CloseOnExec = TRUE
SYMMETRY Sym
CHECK_DEADLOCK FALSE
INVARIANTS
  CountCovers
  FreeListRight
  ServiceClosesOnce
