\* Strings shorter than an int has bits (31 levels of views in the code).
CONSTANTS
  WORDSIZE = 8
  INTSIZE = 4
  MaxLen = 3
SPECIFICATION Spec
INVARIANTS GetReadsBack DiffUpToLen
