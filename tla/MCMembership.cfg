SPECIFICATION FairSpec
CONSTANTS
  n1 = n1
  n2 = n2
  n3 = n3
  Nodes = {n1, n2, n3}
  Seeds <- RingSeeds
  Hashes = {"h1", "h2"}
  Hash0 = "h1"
  Timeout = 0
  MaxTime = 1
  LastCrash = 0
  Mortal = {n1}
  MaxCrashes = 1
  MaxOpen = 1
  MaxLost = 1
PROPERTY Converges
PROPERTY NewsAdvances
INVARIANT OwnIncarnation
INVARIANT OwnCluster
