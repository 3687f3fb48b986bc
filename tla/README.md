# blobcache in TLA+

blobcache is a daemon that runs on every node of a cluster and serves Azure blobs,
chunk by chunk, from a local disk cache, from its peers' caches or from the blob store.
This directory models the parts of it in which concurrency, partial failure or
bookkeeping is hard to test; TLC checks them on small instances and TLAPS proves the
main safety properties for every instance. Paths below are relative to the repository
(`src/src/cache.rs` in `PROJECT.json` is `src/cache.rs` of the crate).

## The system and its parts

| Part | Code | What it does | Here |
|---|---|---|---|
| DiskCache | `cache.rs` | chunk files, an index with LRU order and a byte budget | `DiskCache` |
| PeerIndex | `peerindex.rs`, loops in `main.rs` | a bloom filter of the local chunks, published by version, pulled by peers | `PeerIndex` |
| Fetcher | `fetcher.rs` | one fetch per chunk at a time, background inserts, peers before origin | `Fetcher` on one node, `ColdRead` across nodes |
| Membership | `cluster.rs` | who is alive: push-pull gossip with incarnations and ages | `Membership` |
| Hydrate | `hydrate.rs`, `hydrate_jobs.rs`, handlers in `stats.rs` | preloads a mount onto the cluster in phases | `Hydrate` |
| Cluster-wide clear | `clear.rs` | every node's `clear_local_state` | the local part only |
| TCP transport | `transport.rs` | chunk requests between nodes, with a wait on the elected one | `ColdRead` |
| RDMA transport | `transport_ucx.rs` | the same over UCX: endpoints, a receive slab, one runtime thread | `RdmaEndpoints` |
| BlobClient, credentials | `azure.rs`, `auth/mod.rs` | GET, HEAD and list with retries and a shared token | `BlobClient` |
| BlobFs | `fuse_fs.rs` | inode tables, listings, lookups | `BlobFs` |
| Pool, signing, stats, configuration, start-up | `blob_fetcher_pool.rs`, `auth/`, `stats.rs`, ... | | only what the above need |

A read goes from BlobFs to the Fetcher. It looks among the chunks on their way to disk,
then in the DiskCache, then asks peers whose filter may have the chunk, then the blob
store; what it fetched it stages and inserts in the background, which also notes the key
in PeerIndex. PeerIndex's version travels in Membership's gossip; a peer that sees a
newer one pulls the filter. A hydrate asks Membership for the live nodes and drives their
Fetchers. `PROJECT.json` lists all parts with their status, the hazards line by line, and
the lines each definition stands for.

## Modules

`ByteCount` has maps with `With`/`Without`, saturating subtraction and the sum of a map
of sizes, without recursion so that it can be reasoned about.

### DiskCache
State: `entries`, `lru`, `seq`, `bytes` (the fields of `Inner`), `lock` (its mutex),
`files` and `tmps` (the directory), and each thread's `pc` and locals. A method is split
where it holds no lock: `insert` is InsertWrite (the temporary file), InsertRename and
InsertRegister, which keeps the mutex through EvictOne ... EvictDone; the three gets are
GetLookup, GetRead, GetTouch; `remove`, `reconcile_with_disk` and `clear_all` likewise.
Restart is a crash at any point followed by `open`, which purges the directory; LoseFile
is a file deleted behind the cache's back. `LruCache` is the abstract specification: a
map of sizes, a recency order, a budget. DiskCache implements it with
`size <- EntrySizes`, `older <- OlderEntries`.

### PeerIndex
One owner and one reader. Owner: `held`, `gone` (chunks on disk, or lost from it but
still in the index), `bloom`, `version`, `pending` (the overlay), `published` (what
gossip announces), insert tasks and rebuilders at their lock boundaries. Reader: the
version it heard (`adv`), the pull under way, the filter it keeps (`remote`). The filter
is a set of bits and every key a set of bits of its own, so false positives happen.

### Fetcher
State: `writes` (inflight_writes), `cache`, `inflight` (the singleflight map: leader and
subscribers), `mail` (what a subscriber was sent), the insert tasks, the permits, and
each caller's place. A chunk is its length, since only lengths are compared. Actions
follow the awaits: a caller may be overtaken wherever the code yields, and may be
cancelled there (LeaderCancelled is `LeaderGuard`'s drop). `peerLru` is the memory LRU
of peers' chunks. clear_local_state is four steps: drain, clear the cache (`clear_all`
never fails, so nothing returns early there), the map, the staged chunks and the LRU.

### Membership
Each node's `members` list (entries with incarnation, last_seen, state, configuration
hash), its incarnation, the seeds it still has to join, and its one exchange under way.
Join and Round send; Sync and Refuse are the handler; Receive ends the exchange; Lost and
Unreachable fail it after or before the handler ran. Crash, Start and Tick are the
surroundings. `boot` tells processes of one id apart and exists in the model only.

### Hydrate
One request: the coordinator's plan and phases, one call per target, the targets' shard
workers, and of each target's Fetcher what a shard can see of it: its disk, its inserts
under way, its list of failed inserts. Errors are counted. `strays` are chunk tasks that
go on after their call was given up. FetchOrigin is `fetch_chunk_inner` without peers. On
a node of `MemoryOnly` (`cache_on_peer_fetch` off) it may also find the chunk in memory
only, in the LRU of peers' chunks or as a follower of a read that a peer serves
(FromMemory); such chunks are noted in `aside`.

### ColdRead
One chunk, several nodes. Per node: what it takes to be alive, whether it has the chunk on
disk or staged, its singleflight entry, what its leader has still to try (`plan`), and the
leader's one call, with the place of the handler on the node it went to (`call`). Rank is
`rank_candidates` with filters that may be wrong; AskYes, AskMaybe, AskElected and GoToBlob
are the tiers of `do_fetch`, `HrwTop` the election; Arrive ... ServeTimeout are
`handle_chunk` and `serve_peer_chunk`. Hangup is the client's timeout or a broken
connection: the caller goes on, and its handler is `adrift`. It works on with nobody to
answer, comes to lead or not, and is dropped at any point, or never; when it is dropped as
the leader, its `LeaderGuard` takes the entry out and sends an error. The module is the
Fetcher composed with the views of Membership, the filters of PeerIndex and the transport,
each of which may give any answer its own module allows, and coarser within a node.

### RdmaEndpoints
The runtime thread of one node: `peerEps` with in-flight counts, the addresses gossip
brought, `free` and `permits` of the slab, the tasks at their awaits, and the select loop,
which takes no command while it closes what it reaped. A handle may be handed out again
once it is closed.

### BlobClient
Requests with their two nested retry loops, and `BearerSource`: `cached`, its refresh
`lock` with the second look behind it, `invalidate`. A token is the key period it was issued
in; Azure rotates the key at any time.

### BlobFs
`byIno`, `entry`, `kids`, `next` are the tables of `Inner`; a call is split at the lock and
at requests to Azure, so a listing is one step per page, then Apply under the write lock
(upserts up to the cap, then the delta-delete), then Stamp. The container changes at any
step.

## What the runs show

| Run | Shows | Instance |
|---|---|---|
| disk_cache | byte count, whole chunks, a file gets untracked only through a remove or reconcile that drops a new entry, refinement of LruCache, calls return | 2 threads, 2 keys, budget 3, 4 calls of any kind, lost files and restarts |
| disk_cache_inserts | disk within the budget | 3 threads, inserts, gets and clears, one chunk larger than the budget |
| peer_index | no chunk on disk is missing from the filter; pulls are coherent; a kept chunk is eventually seen | an insert task, both rebuilders at any points of each other, restarts, deaths, failed pulls, a key whose bits are all another's |
| fetcher | leaders run, followers are heard, lengths are as asked | 3 callers, 2 lengths, cancellation, clear |
| fetcher_calls_return | every call returns | 3 callers, 2 permits, cancellation, clear |
| fetcher_one_leader | one leader per chunk; a readable chunk stays readable | all fetch paths, no clear |
| membership | own incarnations, clusters apart, news only advances, nodes that stay up come to see each other | 3 nodes in a ring of seeds, one crash and restart, one lost exchange |
| hydrate | a clean response is true, ring barrier, a job whose blobs are listed ends | 3 nodes, one with `cache_on_peer_fetch` off, 3 chunks, 3 modes |
| cold_read | one leader per node, no circle of waits, only the elected node GETs, reads fail only after a failed leader, reads end | 3 nodes with a reader each, 3 reads, wrong views or filters, or hang-ups |
| rdma_endpoints | counts are exact, no endpoint closed under a user or twice, slots neither shared nor lost, tasks end and broken endpoints are replaced unless lost replies hold them up | 2 tasks, 2 peers, one with 2 addresses, 2 handles, 1 slot |
| blob_fs | readdir and lookup agree, an inode keeps its meaning, the root converges | 2 calls at a time, 4 blobs, listings of 2 pages, cap 1, one change |
| blob_client | sends are bounded, a 401 has a cause, requests end | 2 requests, 2 attempts, 2 rotations |

What the models show the code to do that a reader of its comments and docs may not expect:
* `reconcile_with_disk` collects missing keys without the lock and drops them later, so
  it can drop a key that was inserted again in between; its file is then untracked. `remove` can
  do the same. OrphansFromDrops says that nothing else can.
* The overlay of `rebuild_local_from_cache` protects one rebuild. With the periodic one
  and clear_local_state's at once, one drains the key the other needs, and a chunk on
  disk is missing from the filter. NoLostAdvertisement excepts exactly such chunks
  (`drained`): those one rebuild drained while another, with a list that lacks them, had
  yet to swap, until a rebuild that has them and overlaps no other.
* Seeds are used only by a node that sees nobody alive. A node that has no seed, and that
  nobody gossiped with for longer than the timeout, is dropped by all and stays alone.
  In `membership` every node has a seed.
* `serve_peer_chunk` does not look in `inflight_writes`: the elected node may GET a cold
  chunk again while its insert is under way. Who sends is settled, not how often.
* A peer that hangs up on a handler that leads fails the readers that follow it at home,
  if the handler is dropped for it.
* A hydrate shard counts a chunk as fetched that it found in memory only. With
  `cache_on_peer_fetch` off, as in `benchmarks/RESULTS-2026-04-29-ring.md`, a clean response
  may therefore name chunks that are not on the node's disk, and the node after it in the
  ring may ask for a chunk that is not there, which is then read from Azure.
  CleanMeansPlaced and RingReady except exactly those chunks, on such nodes only, besides
  the evicted ones and those whose failed insert another hydrate took (`Excused`).
* The coordinator lists the blobs before its timeout starts and with a client that has
  none (`hydrate.rs:326`, `azure.rs:49`): a listing that hangs leaves the job running.
  JobEnds speaks of jobs whose blobs are listed.
* An RDMA fetch whose reply is lost keeps its slot and its endpoint's count for good. When
  such fetches keep all slots, one from another peer waits for the slab with that peer's
  endpoint checked out, which is then not replaced when it breaks. The two liveness
  properties except these fetches (`Stuck`) and the endpoints they use.
* `invalidate` promises that the next token is new (`auth/mod.rs`). A refresh that is
  under way just then stores its older token, and the request fails with the 401.
* A 401 gives `send` one more turn than its attempts, in each round of `get_blob_range`.
* A name that is listed as a file and later as a prefix, or the other way round, without
  a listing in between that has neither, keeps its old kind. RootConverges speaks of
  names that keep theirs.

### Bounds
`MaxCalls`, `MaxInserts`, `MaxTicks`, `MaxTime`, `MaxCrashes`, `MaxLost`, `MaxOpen`,
`LastCrash`, `MaxLoad`, `MaxEvents`, `MaxChanges`, `MaxRotations`, `FreeTicks`,
`Commands`, `Callers` and `Chunks` bound otherwise unending behaviour; each is a conjunct
of a guard. They are chosen so that the case each property is about happens: four calls are enough for two inserts of one key with an eviction and a get between
their steps; a key whose bits are among another's gives a false positive; three callers are a
leader, a follower and one that arrives after a clear; three nodes are the least with
hearsay, with a ring of more than one step, and with a reader, its elected node and a
third that elects differently; two rotations reject the token a refresh brings.
Limits that deserve mention:
* `membership` has one tick of the clock and a timeout of 0, as the liveness check is out
  of reach with a longer clock. An entry that nobody refreshed in the tick is Dead at
  once and Suspect does not occur; the safety properties are proved for every timeout.
  Crashes and starts happen before the tick (`LastCrash = 0`), around any of its messages.
* `hydrate` has `ErrCap = 1` in place of 32, so that the cap is passed. Targets plus
  faults are at most 4: one fault with three nodes, two with two, three with one. The
  ring has up to three nodes, the other modes up to two.
* `peer_index` lets the rebuild loop tick at any moment up to version 2 (`FreeTicks`), in
  the midst of inserts too, and from then on only between inserts and when there is news
  for the reader; rebuilds that have begun meet inserts at every point. With free ticks up
  to version 3 the run takes three times as long and holds as well; the theorem NothingLost
  has no such bound. There is one reader with one peer to pull from.
* `membership` has one restart, so others never know a higher incarnation than the new
  process's first; that branch of `merge` is covered by the theorem IncarnationsOwned.
* `rdma_endpoints` has two peers that share the handles and the one slot. Only the first
  changes its address, is probed and sends requests (`Commands`, `Callers`); the second is
  there for fetches that wait behind the first's. The theorems are for any.
* `blob_fs` has a name that is only ever a file, one that is only ever a directory, and one
  that can be either. It starts from two containers. In one the cap of 1 lets the directory
  in and not the file, which a lookup then brings in by HEAD, so that the one change can
  overtake that HEAD request; in the other the third name is there as a file. Entries of
  both the first and the second name become stale in some behaviours and have to recover.
* `cold_read` bounds reads, changed views, wrong filters, evictions and hang-ups together by
  three; failures and timeouts are not bounded.

Symmetry is used over interchangeable callers or threads, and in no run that checks
liveness. Deadlock is checked in all runs but `hydrate`, whose single request ends: the
other modules say when they may stop (`Finished`), or cannot.

### Fairness
* DiskCache: weak, for each thread's next step: std mutexes and file operations end.
* PeerIndex: weak for tasks and loops; GossipSync again and again, since the gossip loop
  never stops; strong for PullTick: the timer's ticks do not all fall on the moments at
  which the reader holds the owner's record without a version.
* Fetcher: weak for each caller and insert task; strong for AcquirePermit, because tokio's
  semaphore serves in order. That a peer or Azure answers, or fails, is an assumption: a
  TCP call has a timeout of 30 s, but the client of Azure (`azure.rs:49`) and a UCX receive
  have none.
* Membership: weak for time, the loop and exchanges (5 s timeout); strong for each
  choice of a target, because it is random.
* ColdRead: weak for readers and handlers, of which GETs that answer, also those of a
  handler adrift, are again an assumption. Not for timers, hang-ups and inserts: reads end
  without them.
* RdmaEndpoints: weak for tasks, UCX operations and the select loop; strong for slab
  permits, which tokio's semaphore gives in order. A reply may be lost.
* BlobFs: weak for each call. RootConverges takes as premises that the root is asked and
  its listing expires again and again.
* BlobClient: weak for each request, strong for the refresh lock (tokio's Mutex is fair).
  The HTTP client has no timeout: that Azure answers or the connection fails is assumed.
* Hydrate: weak for the coordinator once the blobs are listed, when all its waits have the
  timer. The listing has none and may hang, and so may shards.

## What is proved

For any constants that satisfy the named assumptions (finite sets where the code has
finite ones, naturals, seeds that are nodes, a non-zero cap):

* `DiskCacheProofs`. TypeCorrect, BytesExact, LruExact, BudgetKept, GetsRight. `bytes` is
  exact only together with finiteness of the index, types, and the fact that a temporary
  name belongs to one insert (`TypeInv`); the budget needs that the lock is held exactly
  while evicting and that no slot is beyond `seq` (`BudgetInv`): the eviction loop ends
  within the budget because an empty index has no bytes. LruRefinement: initial states map
  to initial states and each step to a step of LruCache or a stutter, from the invariants
  above. OrphansExplained is a step property: a step after which a file is untracked either
  found it so or ends a remove or a reconcile. Without these two calls it follows that no
  file is ever untracked (NothingOrphaned), and the disk is bounded as well as the byte
  count (SpaceBounded): the files are those of the entries and of the inserts under way,
  and an insert that evicts is over the budget by at most its own chunk (`SpaceInv`). This
  takes finitely many threads and one size per key (`FixedSizes`): ChunkKey has no size,
  so the chunk of a replaced blob may have another length than the entry its insert is
  about to replace.
* `SourcesProofs`, about where a chunk comes from that is not on the node: the peers' index
  and the client of Azure. Of PeerIndex: TypeCorrect, Coherent, CatchesUp, NothingLost. The
  last needs `OverlayInv`: while a rebuild holds a list of keys, every chunk on disk is in
  the list, in the overlay, not yet pushed by its insert task, or was drained by another
  rebuild while this one's list lacked it. Of
  BlobClient: RetriesAreBounded, with the sends of the rounds
  before this one and of this one counted apart (`CountInv`), and RejectionsHaveCause:
  unless a refresh was under way when a request invalidated the token, every token it may
  still send with, cached, about to be stored or its own, is at least as new as that
  moment (`FreshFor`, in `CauseInv`).
* `FetcherProofs`. TypeCorrect, LeadersRun, FollowersAreHeard, LengthsRight and, without
  clear_local_state, Singleflight. `FlightInv` ties the map to the callers' places: an
  entry has a leader at work, and a follower has mail or a seat in an entry.
  ReadableStays assumes `OnlyFetches` (no clear, eviction or failing insert, one length):
  an insert that is about to give up its staged bytes has its file (`ReadInv`).
* `MembershipProofs`. TypeCorrect, IncarnationsOwned, ClustersApart, NewsOnlyAdvances,
  NotKeptAlive (gossip alone does not keep a dead node's entry fresh). `SaneInv` says of
  every list and of every message under way what OwnIncarnation says of lists; `GhostInv`
  bounds last_seen of a dead node in both.
* `HydrateProofs`. TypeCorrect, CleanIsPlaced, BarrierHolds, for any set of nodes with
  `cache_on_peer_fetch` off and with the exceptions named above. `PlacedInv` says of a shard
  without errors that each chunk of its share is to do, under way, on disk, failed or
  excused (`ShardInv`), and of the ring that after k - 1 clean steps a node has the shares of
  the k - 1 nodes before it (`RingInv`); the arithmetic of places is BehindIs and
  RingPlaces. CleanIsFetched is a count: `TallyInv` says of a shard that what it fetched
  and what it has still to do make up its share (`ShardTally`), of the response that it
  has the shares of the clean steps so far (`ResponseTally`), and of the plan that no chunk
  is dealt twice (`Dealt`: nodes have different places in the round robin), so that the
  shares of the ring's steps add up.
* `ColdReadProofs`. TypeCorrect, NobodyWaitsInCircles, LeadersAreSingle, OnlyLeadersFail,
  OwnerAlone. A call that waits goes to a node with a higher score (`WaitInv`), whatever
  the views, so the node of the highest score in a group waits for none of it. `LeadInv`
  ties the map to readers and handlers, those adrift included, `CallerInv` calls to their
  callers; a handler adrift means that conditions are not calm (`CalmInv`). OwnerAlone
  assumes distinct scores; `OwnerInv` says of a leader in calm conditions that it has a
  peer left to ask that has the chunk, or elects, and of a miss that it came from a peer
  that was not promised.
* `RdmaEndpointsProofs`. TypeCorrect, CountsAreExact, HeldAreLive, ClosedOnce,
  SlotsAreExact. `TaskInv` says what a task has at each await, `HeldInv` that a checked-out
  endpoint is still its peer's, and `OwnerInv` that table, closers and select loop share no
  handle: only an endpoint without users leaves the table, so release by peer is right.
* `BlobFsProofs`. TypeCorrect, ListingsMatch, InodesStay. `LinkInv` has the two tables
  mirror each other; listings and lookups both only grow and unlink (`Grows`).

Every invariant and action property of the runs is proved in this way; a theorem that
leaves out some operations or sizes leaves out those its run does. Only model-checked is all liveness (both CallsReturn, EventuallySeen, Converges, JobEnds, TasksEnd,
BrokenReplaced, ReadsEnd, RootConverges, RequestsEnd), since TLAPS does not reason about
fairness here, and with it the enabledness that the deadlock checks are about.

## Abstractions

* Rename fails only when the temporary file is gone, and removing a file succeeds: the
  code ignores errors of `remove_file`, after which the file stays and is not tracked.
* The periodic loop's `reconcile_with_disk` is one step in PeerIndex; its own steps are in
  DiskCache.
* A Fetcher caller asks one peer, which has the chunk, does not, or fails.
* ColdRead is about one chunk whose mount and length all nodes know, with
  `cache_on_peer_fetch` on: a chunk from a peer is inserted like one from Azure. Hash
  scores are constants. Handlers adrift at one place of a node count as one.
* Names of one listing are numbered in any order, and the cap admits any of the prefixes
  before any of the blobs.
* A body that breaks is retried or not, as its kind of error may be one that
  `get_blob_range` does not retry. Back-off delays, and the pool's choice of a worker, are left out of BlobClient.
* All nodes share one clock in Membership. A message is handled within a tick, as the
  5 s timeout and the tick of one heartbeat timeout imply.
* In Hydrate `cache_on_peer_fetch` is a setting of each node, and the memory of a node that
  has it off may have any chunk at any time.
* Hydrate sees other requests only through what they do to a node: they read chunks and
  take its failed inserts.

## Not modelled

* `fetch_range` and prefetch, which split reads into chunks that Fetcher serves: arithmetic.
  Of the memory LRU of peers' chunks (`PeerLru`) Fetcher has the contents and any eviction,
  not the order and the byte count, which one mutex guards.
* The coordinator of the cluster-wide clear (`clear.rs`): one call per node, whose effect
  there is Fetcher's Clear; and the job registry's listing and expiry (`hydrate_jobs.rs`).
* RDMA: the wire format; the progress loop; the shutdown, which closes all endpoints as
  the process ends; request ids, which start again after a restart, so that a reply to the
  earlier process may carry a tag in use. A model of tags needs UCX's matching across
  restarts, which the code does not show.
* TCP: HTTP parsing and the endpoints that only read.
* `BlobFetcherPool`: it hands each GET to one of its runtimes in turn, which the callers
  cannot tell apart. The requests to the identity services and the signatures of shared
  keys and SAS are pure, or a single request with BlobClient's outcomes.
* Metrics, configuration parsing, logging, errors and request ids, which have no state of
  interest.
