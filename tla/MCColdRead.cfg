\* Three nodes read the chunk, each view of the others and each filter may be wrong.
SPECIFICATION FairSpec
CONSTANTS
  n1 = n1
  n2 = n2
  n3 = n3
  r1 = r1
  r2 = r2
  r3 = r3
  Nodes <- MCNodes
  NoNode = NoNode
  Score <- MCScore
  MaxScore = 3
  Readers = {r1, r2, r3}
  Home <- MCHome
  StampedeWait = TRUE
  MaxYes = 1
  MaxMaybe = 1
  Happens = {"view", "bloom", "origin", "get_error", "insert_error", "timeout", "hangup", "evict"}
  MaxEvents = 3
INVARIANTS
  OneLeaderPerNode
  NoWaitCycle
  OnlyOwnerGets
  FailuresComeFromLeaders
PROPERTY ReadsEnd
