SPECIFICATION Spec
CONSTANTS
  t1 = t1  t2 = t2  t3 = t3  t4 = t4  t5 = t5
  Thread = {t1, t2, t3, t4, t5}
  NULL = NULL
  GARBAGE = GARBAGE
  ALLOCUNIT = 2
  MaxKmpid = 6
SYMMETRY Symmetry
INVARIANTS SearchRight InPages
PROPERTIES GrowsWhenFull Implements
