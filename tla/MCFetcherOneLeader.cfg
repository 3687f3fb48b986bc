SPECIFICATION Spec
CONSTANTS
  t1 = t1
  t2 = t2
  t3 = t3
  k1 = k1
  Tasks = {t1, t2, t3}
  Keys = {k1}
  NoKey = NoKey
  Mounted = {}
  Lens = {1}
  Ops = {"range", "origin", "fetch", "serve", "pull", "drain", "cancel", "evict_lru"}
  Concurrency = 3
  CacheOnPeerFetch = FALSE
  MaxRecorded = 1
  MaxCalls = 4
SYMMETRY TaskSymmetry
INVARIANTS
  OneLeader
PROPERTY StaysReadable
