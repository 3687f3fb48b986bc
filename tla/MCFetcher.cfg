SPECIFICATION Spec
CONSTANTS
  t1 = t1
  t2 = t2
  t3 = t3
  k1 = k1
  Tasks = {t1, t2, t3}
  Keys = {k1}
  NoKey = NoKey
  Mounted = {k1}
  Lens = {1, 2}
  Ops = {"range", "fetch", "clear", "cancel", "insert_error", "evict"}
  Concurrency = 2
  CacheOnPeerFetch = TRUE
  MaxRecorded = 1
  MaxCalls = 3
SYMMETRY TaskSymmetry
INVARIANTS
  LeaderRuns
  FollowersHeard
  LengthAsExpected
