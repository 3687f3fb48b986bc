\* Two calls at a time over a container whose blobs come and go.
SPECIFICATION FairSpec
CONSTANTS
  Names = {"a", "b", "c"}
  NoName = ""
  Blobs <- MCBlobs
  Stocks <- MCStocks
  Pages = 2
  PageOf <- MCPageOf
  Versions = {1, 2}
  Threads = {"t1", "t2"}
  Calls <- MCCalls
  Happens = {"fail"}
  MaxChildren = 1
  MaxChanges = 1
INVARIANT ReaddirMatchesLookup
PROPERTY InodesAreForever
PROPERTY RootConverges
