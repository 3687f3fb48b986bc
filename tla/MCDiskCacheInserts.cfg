SPECIFICATION Spec
CONSTANTS
  k1 = k1
  k2 = k2
  Keys = {k1, k2}
  NoKey = NoKey
  Threads = {t1, t2, t3}
  NoThread = NoThread
  Payloads <- MCFixedSizes
  MaxBytes = 3
  Ops = {"insert", "insert_error", "get", "clear", "lose", "restart"}
  MaxCalls = 4
SYMMETRY ThreadSymmetry
INVARIANT DiskWithinBudget
