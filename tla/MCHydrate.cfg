SPECIFICATION FairSpec
CONSTANTS
  Nodes <- ThreeNodes
  Me = 2
  Chunks <- Positions
  ChunkSize = 2
  Listings <- SmallListings
  EnvMode = "unset"
  Requests <- SmallRequests
  ErrCap = 1
  Warm <- SomeWarm
  MemoryOnly <- OneMemoryOnly
  MaxLoad = 4
INVARIANTS CleanMeansPlaced RingReady CleanMeansFetched
PROPERTY JobEnds
CHECK_DEADLOCK FALSE
