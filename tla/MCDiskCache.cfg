SPECIFICATION FairSpec
CONSTANTS
  k1 = k1
  k2 = k2
  Keys = {k1, k2}
  NoKey = NoKey
  Threads = {t1, t2}
  NoThread = NoThread
  Payloads <- MCPayloads
  MaxBytes = 3
  Ops = {"insert", "insert_error", "get", "remove", "reconcile", "clear", "lose", "restart"}
  MaxCalls = 4
INVARIANTS
  BytesAccounted
  ReadsOwnChunk
PROPERTY OrphansFromDrops
PROPERTY ImplementsLru
PROPERTY CallsReturn
