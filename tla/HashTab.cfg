\* Three layers, of five kinds, over a small tree of pathnames.
CONSTANTS
  Mounts <- TreeMounts
  SearchPaths <- TreeSearches
  MaxElem = 3
  MaxEpoch = 6
SPECIFICATION Spec
CHECK_DEADLOCK FALSE
INVARIANTS ScanMeetsAll CarrotIsLayers NewestLayerWins
