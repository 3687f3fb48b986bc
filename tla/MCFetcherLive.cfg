SPECIFICATION FairSpec
CONSTANTS
  t1 = t1
  t2 = t2
  t3 = t3
  k1 = k1
  Tasks = {t1, t2, t3}
  Keys = {k1}
  NoKey = NoKey
  Mounted = {k1}
  Lens = {1}
  Ops = {"origin", "clear", "cancel"}
  Concurrency = 2
  CacheOnPeerFetch = TRUE
  MaxRecorded = 1
  MaxCalls = 4
PROPERTY CallsReturn
