\* Two threads, an interface whose driver calls back, a queue that fills.
SPECIFICATION FairSpec
CONSTANTS
  c1 = c1  c2 = c2  i1 = i1  i2 = i2
  Client = {c1, c2}
  Main = c1
  Netif = {i1}
  Slirp = {i1}
  QLen = 2
  MaxCall = 5
  MaxPkt = 2
CHECK_DEADLOCK FALSE
INVARIANT QuietWhenFreed
PROPERTIES Served ShutdownEnds
