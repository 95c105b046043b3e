\* A module like viewfs (here with an element of its own), one like umdev, one like umnet.
CONSTANTS
  Module = {fs, dev, net}
  Elem = {e1, e2, e3}
  File = {f1, f2}
  Hook = {fs}
  Net = {net}
  Dev = {dev}
  Renewing = {fs}
  MaxCount = 5
SPECIFICATION Spec
CHECK_DEADLOCK FALSE
CONSTRAINT BeforeStale
SYMMETRY Sym
INVARIANTS FilesKeepMounts MountsKeepModules CountsCover
