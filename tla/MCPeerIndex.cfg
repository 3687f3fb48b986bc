SPECIFICATION FairSpec
CONSTANTS
  k1 = k1
  NoKey = NoKey
  k2 = k2
  w1 = w1
  Keys = {k1, k2}
  Bits = {1, 2}
  BitsOf <- MCNestedBits
  Writers = {w1}
  Rebuilders = {"periodic", "clear"}
  Happens = {"evict", "lose", "gossip", "restart", "dead"}
  MaxInserts = 2
  FreeTicks = 2
INVARIANT NoLostAdvertisement
INVARIANT SnapshotCoherent
PROPERTY EventuallySeen
