-------------------------------- MODULE Hydrate --------------------------------
(***************************************************************************)
(* One hydrate request (src/hydrate.rs): the coordinator lists the blobs,  *)
(* deals their chunks out to the live nodes, has each node fetch its share *)
(* from the blob store (phase A) and then, in the broadcast and ring       *)
(* modes, the others' shares from each other (phase B); and the job that   *)
(* an asynchronous request polls (src/hydrate_jobs.rs).                    *)
(*                                                                         *)
(* A chunk is its position in the coordinator's list.  A node's Fetcher is *)
(* its disk, the inserts on their way there and its list of failed inserts *)
(* (Fetcher.tla has its insides).  Errors are counted, not worded.         *)
(***************************************************************************)
EXTENDS Integers, Sequences, FiniteSets, Functions

CONSTANTS
  Nodes,       \* node ids, which are ordered
  Me,          \* the coordinator's node
  Chunks,      \* bound: the positions a chunk can have
  ChunkSize,
  Listings,    \* the content lengths list_blobs can return
  EnvMode,     \* HYDRATE_MODE
  Requests,    \* the modes asked for, each with the members that can be alive then
  ErrCap,      \* 32, how many errors a shard lists
  Warm,        \* what the disks can hold at first
  MemoryOnly,  \* the nodes with cache_on_peer_fetch = false
  MaxLoad      \* bound: targets and faults (errors, evictions, other reads)

ASSUME NodesAssumption == Nodes \subseteq Nat /\ IsFiniteSet(Nodes) /\ Me \in Nodes
ASSUME ChunksAssumption == Chunks \subseteq Nat /\ IsFiniteSet(Chunks)
ASSUME ErrCapAssumption == ErrCap \in Nat \ {0}
ASSUME WarmAssumption == Warm \subseteq [Nodes -> SUBSET Chunks]
ASSUME MemoryOnlyAssumption == MemoryOnly \subseteq Nodes
ASSUME RequestsAssumption ==
  Requests \subseteq {"default", "broadcast", "ring"} \X SUBSET Nodes

VARIABLES
  job,         \* the JobState's status
  mode,
  targets,     \* this node and the live members, when the plan is made
  plan,        \* node -> its chunks
  rank,        \* node -> its place in the ring
  phase, step, \* "idle", "A", "B" or "end"; and the step of the ring
  handle,      \* node -> the coordinator's task for it
  todo,        \* node -> chunks its shard has not finished
  got, errs,   \* node -> fetched and errors of its shard, then of its answer
  peers,       \* node -> its entry in the response, after phase A
  peersB,      \*         and after phase B (broadcast_peers)
  stepErrs,    \* n_errors, over the ring_steps of the response
  timedOut,    \* the response has the "coordinator" entry of a timeout
  disk, staged, failures,  \* node -> chunks: cached, inflight_writes, insert_failures
  strays,      \* node -> chunks of shards whose call was given up
  lost,        \* node -> chunks evicted, or whose failure others took (history)
  aside,       \* node -> chunks a shard got from memory, and not on disk (history)
  faults

request == <<job, mode, targets, plan, rank, phase, step>>
calls == <<handle, todo, got, errs>>
response == <<peers, peersB, stepErrs, timedOut>>
local == <<disk, staged, failures, strays, lost, aside>>
vars == <<request, calls, response, local, faults>>

NoWork == [n \in Nodes |-> {}]
NoTally == [n \in Nodes |-> 0]
NoEntry == [n \in Nodes |-> [fetched |-> 0, errors |-> 0]]

Init ==
  /\ job = "none" /\ mode = "default"
  /\ targets = {} /\ plan = NoWork /\ rank = NoTally /\ phase = "idle" /\ step = 0
  /\ handle = [n \in Nodes |-> "none"] /\ todo = NoWork /\ got = NoTally /\ errs = NoTally
  /\ peers = NoEntry /\ peersB = NoEntry /\ stepErrs = 0 /\ timedOut = FALSE
  /\ disk \in Warm /\ staged = NoWork /\ failures = NoWork /\ strays = NoWork
  /\ lost = NoWork /\ aside = NoWork
  /\ faults = 0

World == Cardinality(targets)

\* Something goes wrong: the fewer nodes, the more often.
Fault == phase # "idle" /\ World + faults < MaxLoad /\ faults' = faults + 1

\* errors.push, k times, if errors.len() < 32.
Bump(e, k) == IF e + k <= ErrCap THEN e + k ELSE IF e <= ErrCap THEN ErrCap ELSE e

(***************************************************************************)
(* The request and the plan                                                *)
(***************************************************************************)

\* hydrate_mode: the environment wins.
HydrateMode(asked) == IF EnvMode \in {"broadcast", "ring"} THEN EnvMode ELSE asked

\* POST /hydrate creates the job,
Submit ==
  /\ job = "none" /\ job' = "pending"
  /\ \E r \in Requests : mode' = HydrateMode(r[1])
  /\ UNCHANGED <<targets, plan, rank, phase, step, calls, response, local, faults>>

\* whose task runs the coordinator.
Run ==
  /\ job = "pending" /\ job' = "running"
  /\ UNCHANGED <<mode, targets, plan, rank, phase, step, calls, response, local, faults>>

\* The mount is unknown, has no client, or cannot be listed.
ListFails ==
  /\ job = "running" /\ phase = "idle"
  /\ job' = "failed" /\ phase' = "end"
  /\ UNCHANGED <<mode, targets, plan, rank, step, calls, response, local, faults>>

\* How many chunks blobs of these lengths have; an empty one has none.
TotalChunks(lens) ==
  SumFunction([b \in DOMAIN lens |-> (lens[b] + ChunkSize - 1) \div ChunkSize])

\* Nothing to do.
ListEmpty ==
  /\ job = "running" /\ phase = "idle"
  /\ \E lens \in Listings : TotalChunks(lens) = 0
  /\ job' = "completed" /\ phase' = "end"
  /\ UNCHANGED <<mode, targets, plan, rank, step, calls, response, local, faults>>

\* The places 0..|S|-1 of the nodes of S, one each.
Orders(S) ==
  {r \in [S -> 0..(Cardinality(S) - 1)] :
     \A i \in 0..(Cardinality(S) - 1) : \E n \in S : r[n] = i}

\* The chunks, round robin.
Deal(S, place, total) ==
  [n \in Nodes |-> IF n \in S
                   THEN {i \in Chunks : i < total /\ i % Cardinality(S) = place[n]}
                   ELSE {}]

\* The plan: this node first, the live members in any order; and phase A begins.
Plan ==
  /\ job = "running" /\ phase = "idle"
  /\ \E lens \in Listings, S \in SUBSET Nodes :
       /\ TotalChunks(lens) > 0 /\ Me \in S /\ <<mode, S \ {Me}>> \in Requests
       /\ \E place \in Orders(S) :
            place[Me] = 0 /\ plan' = Deal(S, place, TotalChunks(lens))
       /\ \E r \in Orders(S) :
            /\ \A m, n \in S : m < n => r[m] < r[n]
            /\ rank' = [n \in Nodes |-> IF n \in S THEN r[n] ELSE 0]
       /\ targets' = S
       /\ handle' = [n \in Nodes |-> IF n \in S THEN "post" ELSE "none"]
  /\ phase' = "A"
  /\ UNCHANGED <<job, mode, step, todo, got, errs, response, local, faults>>

\* source_rank and prev_idx: the place k places before place i.
Behind(i, k) == (i + World - k) % World

\* The node of whose share n pulls in this step of the ring, and the one it asks.
AtRank(i) == {m \in targets : rank[m] = i}
Source(n) == AtRank(Behind(rank[n], step))
Prev(n) == AtRank(Behind(rank[n], 1))

\* The chunks of n's call: its share; the others' shares; one of them.
Share(n) ==
  CASE phase = "A" -> plan[n]
    [] phase = "B" /\ mode = "broadcast" -> UNION {plan[m] : m \in targets \ {n}}
    [] OTHER -> UNION {plan[m] : m \in Source(n)}

\* Whom n asks for c in phase B.
Holder(n, c) ==
  IF mode = "ring" THEN Prev(n) ELSE {m \in targets \ {n} : c \in plan[m]}

(***************************************************************************)
(* A node's shard: run_shard, run_broadcast_shard or run_ring_step         *)
(***************************************************************************)

\* The call arrives, or for this node the task starts.
Receive(n) ==
  /\ handle[n] = "post"
  /\ handle' = [handle EXCEPT ![n] = "wait"]
  /\ todo' = [todo EXCEPT ![n] = Share(n)]
  /\ got' = [got EXCEPT ![n] = 0] /\ errs' = [errs EXCEPT ![n] = 0]
  /\ UNCHANGED <<request, response, local, faults>>

\* One chunk of the shard is done, with k errors.
Done(n, c, k) ==
  /\ todo' = [todo EXCEPT ![n] = @ \ {c}]
  /\ got' = [got EXCEPT ![n] = @ + 1 - k]
  /\ errs' = [errs EXCEPT ![n] = Bump(@, k)]
  /\ UNCHANGED <<request, handle, response, disk, failures, strays, lost>>

Stage(n, c) == staged' = [staged EXCEPT ![n] = @ \cup {c}]

\* With cache_on_peer_fetch off, a chunk that an ordinary read of n has from a peer goes
\* to the PeerLru, not to the disk.  The shard gets it from there, or from that read
\* when it follows it in the singleflight; either way it writes nothing.  The PeerLru
\* outlives requests, so it can hold any chunk.
FromMemory(n, c) ==
  /\ n \in MemoryOnly /\ Fault
  /\ Done(n, c, 0) /\ aside' = [aside EXCEPT ![n] = @ \cup {c}] /\ UNCHANGED staged

\* fetch_chunk_origin_only: the chunk is on its way to the disk or there already; or it
\* is in memory; or the blob store has it, or the GET (or the leader's) fails.
FetchOrigin(n, c) ==
  \/ /\ c \in disk[n] \cup staged[n]
     /\ Done(n, c, 0) /\ UNCHANGED <<staged, aside, faults>>
  \/ /\ c \notin disk[n] \cup staged[n]
     /\ \/ FromMemory(n, c)
        \/ Done(n, c, 0) /\ Stage(n, c) /\ UNCHANGED <<aside, faults>>
        \/ Done(n, c, 1) /\ Fault /\ UNCHANGED <<staged, aside>>

\* pull_chunk_from_peer with wait_ms = 0: the chunk is on disk here; or the peer has
\* it on disk; or it does not, and the blob store is asked; or the peer fails.
PullFromPeer(n, c) ==
  \/ c \in disk[n] /\ Done(n, c, 0) /\ UNCHANGED <<staged, aside, faults>>
  \/ /\ c \notin disk[n]
     /\ \E m \in Holder(n, c) :
          \/ c \in disk[m] /\ Done(n, c, 0) /\ Stage(n, c) /\ UNCHANGED <<aside, faults>>
          \/ c \notin disk[m] /\ FetchOrigin(n, c)
          \/ Done(n, c, 1) /\ Fault /\ UNCHANGED <<staged, aside>>

Fetch(n) ==
  /\ handle[n] = "wait"
  /\ \E c \in todo[n] : IF phase = "A" THEN FetchOrigin(n, c) ELSE PullFromPeer(n, c)

\* The task of spawn_insert.
Insert(n) ==
  /\ \E c \in staged[n] :
       /\ staged' = [staged EXCEPT ![n] = @ \ {c}]
       /\ \/ disk' = [disk EXCEPT ![n] = @ \cup {c}] /\ UNCHANGED <<failures, faults>>
          \/ failures' = [failures EXCEPT ![n] = @ \cup {c}] /\ Fault /\ UNCHANGED disk
  /\ UNCHANGED <<request, calls, response, strays, lost, aside>>

\* The call for n ends, with what it answers.
Answer(n, fetched, errors) ==
  /\ handle' = [handle EXCEPT ![n] = "done"]
  /\ got' = [got EXCEPT ![n] = fetched] /\ errs' = [errs EXCEPT ![n] = errors]

\* The silent-loss check: chunks that are in neither count are one more error.
Account(n, errors) ==
  IF got[n] + errors < Cardinality(Share(n)) THEN errors + 1 ELSE errors

\* The errors of an answer: run_shard takes the failed inserts; a broadcast shard and
\* the coordinator that it answers look for silent loss; a ring step does neither.
Errors(n) ==
  CASE phase = "A" -> Bump(errs[n], Cardinality(failures[n]))
    [] phase = "B" /\ mode = "broadcast" ->
         IF n = Me THEN Account(n, errs[n]) ELSE Account(n, Account(n, errs[n]))
    [] OTHER -> errs[n]

\* Mutant: the shard does not wait for its inserts.
ShardEnds_NotDrained(n) ==
  /\ handle[n] = "wait" /\ todo[n] = {}
  /\ failures' = IF phase = "A" THEN [failures EXCEPT ![n] = {}] ELSE failures
  /\ Answer(n, got[n], Errors(n)) /\ UNCHANGED faults
  /\ UNCHANGED <<request, todo, response, disk, staged, strays, lost, aside>>

\* Mutant: run_shard leaves the failed inserts in their list.
ShardEnds_NotTaken(n) ==
  /\ handle[n] = "wait" /\ todo[n] = {} /\ staged[n] = {}
  /\ Answer(n, got[n], errs[n]) /\ UNCHANGED faults
  /\ UNCHANGED <<request, todo, response, local>>

\* Every chunk is done and await_inserts_drained returns; a peer's answer can be lost.
ShardEnds(n) ==
  /\ handle[n] = "wait" /\ todo[n] = {} /\ staged[n] = {}
  /\ failures' = IF phase = "A" THEN [failures EXCEPT ![n] = {}] ELSE failures
  /\ \/ Answer(n, got[n], Errors(n)) /\ UNCHANGED faults
     \/ n # Me /\ Answer(n, 0, 1) /\ Fault
  /\ UNCHANGED <<request, todo, response, disk, staged, strays, lost, aside>>

\* Mutant: a call that fails is an answer without errors.
CallFails_Quiet(n) ==
  /\ n # Me /\ handle[n] \in {"post", "wait"} /\ Fault
  /\ Answer(n, 0, 0)
  /\ strays' = [strays EXCEPT ![n] = @ \cup todo[n]] /\ todo' = [todo EXCEPT ![n] = {}]
  /\ UNCHANGED <<request, response, disk, staged, failures, lost, aside>>

\* The call to a peer fails, or the peer does not know the mount; what it has started
\* goes on.
CallFails(n) ==
  /\ n # Me /\ handle[n] \in {"post", "wait"} /\ Fault
  /\ Answer(n, 0, 1)
  /\ strays' = [strays EXCEPT ![n] = @ \cup todo[n]] /\ todo' = [todo EXCEPT ![n] = {}]
  /\ UNCHANGED <<request, response, disk, staged, failures, lost, aside>>

\* The coordinator's task for n panics.
CallPanics(n) ==
  /\ handle[n] \in {"post", "wait"} /\ Fault
  /\ handle' = [handle EXCEPT ![n] = "panic"]
  /\ got' = [got EXCEPT ![n] = 0] /\ errs' = [errs EXCEPT ![n] = 1]
  /\ strays' = [strays EXCEPT ![n] = @ \cup todo[n]] /\ todo' = [todo EXCEPT ![n] = {}]
  /\ UNCHANGED <<request, response, disk, staged, failures, lost, aside>>

\* A chunk task nobody waits for any more.
Stray(n) ==
  /\ \E c \in strays[n] :
       /\ strays' = [strays EXCEPT ![n] = @ \ {c}]
       /\ Stage(n, c) \/ UNCHANGED staged
  /\ UNCHANGED <<request, calls, response, disk, failures, lost, aside, faults>>

(***************************************************************************)
(* The coordinator                                                         *)
(***************************************************************************)

Answered == \A n \in targets : handle[n] \in {"done", "panic"}

\* What the calls have answered; a panicked one is an entry of its own, "unknown".
Entries == [n \in Nodes |-> [fetched |-> got[n], errors |-> errs[n]]]

Post == handle' = [n \in Nodes |-> IF n \in targets THEN "post" ELSE "none"]

\* The response is complete: it is the job's result.
Respond ==
  /\ phase' = "end" /\ job' = "completed"
  /\ handle' = [n \in Nodes |-> "none"] /\ UNCHANGED step

\* Phase A is over; phase B follows if nobody reports an error, unless there is
\* nobody else in the ring.
PhaseAEnds ==
  LET onward == /\ mode # "default" /\ \A n \in targets : errs[n] = 0
                /\ ~(mode = "ring" /\ World < 2) IN
  /\ phase = "A" /\ Answered
  /\ peers' = Entries
  /\ \/ onward /\ phase' = "B" /\ step' = 1 /\ Post /\ UNCHANGED job
     \/ ~onward /\ Respond
  /\ UNCHANGED <<mode, targets, plan, rank, todo, got, errs, peersB, stepErrs, timedOut,
                 local, faults>>

BroadcastEnds ==
  /\ phase = "B" /\ mode = "broadcast" /\ Answered
  /\ peersB' = Entries /\ Respond
  /\ UNCHANGED <<mode, targets, plan, rank, todo, got, errs, peers, stepErrs, timedOut,
                 local, faults>>

\* The barrier of a ring step: its answers are added up, and the next step begins
\* whatever they are.
RingStepEnds ==
  /\ phase = "B" /\ mode = "ring" /\ Answered
  /\ peersB' = [n \in Nodes |->
       IF handle[n] = "done"
       THEN [fetched |-> peersB[n].fetched + got[n],
             errors |-> Bump(peersB[n].errors, errs[n])]
       ELSE peersB[n]]
  /\ stepErrs' = IF \A n \in targets : errs[n] = 0 THEN stepErrs ELSE stepErrs + 1
  /\ \/ step + 1 < World /\ step' = step + 1 /\ Post /\ UNCHANGED <<job, phase>>
     \/ step + 1 >= World /\ Respond
  /\ UNCHANGED <<mode, targets, plan, rank, todo, got, errs, peers, timedOut, local, faults>>

\* The calls are given up; what the shards have started goes on, and so can a call
\* that is on its way (a ring step's are not even aborted).
GiveUp ==
  /\ strays' = [n \in Nodes |-> strays[n] \cup todo[n] \cup
                                 (IF handle[n] = "post" THEN Share(n) ELSE {})]
  /\ todo' = NoWork
  /\ UNCHANGED <<disk, staged, failures, lost, aside>>

\* Mutant: phase A waits for its answers without a limit.
Timeout_NotInPhaseA ==
  /\ phase = "B"
  /\ \/ mode = "broadcast" /\ timedOut' = TRUE /\ UNCHANGED peersB
     \/ /\ mode = "ring" /\ UNCHANGED timedOut
        /\ peersB' = [n \in Nodes |-> IF n \in targets
                                      THEN [peersB[n] EXCEPT !.errors = @ + 1] ELSE peersB[n]]
  /\ Respond /\ GiveUp
  /\ UNCHANGED <<mode, targets, plan, rank, got, errs, peers, stepErrs, faults>>

\* The global timeout: of phase A or a broadcast, it is the one entry of the response;
\* of the ring, it is one more error of every node.
Timeout ==
  /\ \/ /\ phase = "A" \/ (phase = "B" /\ mode = "broadcast")
        /\ timedOut' = TRUE /\ UNCHANGED peersB
     \/ /\ phase = "B" /\ mode = "ring" /\ UNCHANGED timedOut
        /\ peersB' = [n \in Nodes |-> IF n \in targets
                                      THEN [peersB[n] EXCEPT !.errors = @ + 1] ELSE peersB[n]]
  /\ Respond /\ GiveUp
  /\ UNCHANGED <<mode, targets, plan, rank, got, errs, peers, stepErrs, faults>>

(***************************************************************************)
(* What else happens on the nodes                                          *)
(***************************************************************************)

\* The disk cache makes room.
Evict(n) ==
  /\ Fault
  /\ \E c \in disk[n] :
       /\ disk' = [disk EXCEPT ![n] = @ \ {c}]
       /\ lost' = [lost EXCEPT ![n] = @ \cup {c}]
  /\ UNCHANGED <<request, calls, response, staged, failures, strays, aside>>

\* Another hydrate's run_shard takes the failed inserts of this node.
OthersTake(n) ==
  /\ failures[n] # {}
  /\ lost' = [lost EXCEPT ![n] = @ \cup failures[n]]
  /\ failures' = [failures EXCEPT ![n] = {}]
  /\ UNCHANGED <<request, calls, response, disk, staged, strays, aside, faults>>

\* An ordinary read on this node fetches a chunk that goes to the disk.
OthersRead(n) ==
  /\ Fault
  /\ \E c \in Chunks \ (disk[n] \cup staged[n]) : Stage(n, c)
  /\ UNCHANGED <<request, calls, response, disk, failures, strays, lost, aside>>

\* What the coordinator waits for under global_timeout.
Timed == PhaseAEnds \/ BroadcastEnds \/ RingStepEnds \/ Timeout

Coordinator == Run \/ ListFails \/ ListEmpty \/ Plan \/ Timed

NodeStep(n) ==
  \/ Receive(n) \/ Fetch(n) \/ Insert(n) \/ ShardEnds(n)
  \/ CallFails(n) \/ CallPanics(n) \/ Stray(n)
  \/ Evict(n) \/ OthersTake(n) \/ OthersRead(n)

Next == Submit \/ Coordinator \/ \E n \in Nodes : NodeStep(n)

Spec == Init /\ [][Next]_vars

\* Nothing is assumed of the shards, of this node's or of the peers', nor of the
\* listing, for which there is no timeout: they may hang.  The timer of the phases
\* expires.
FairSpec == Spec /\ WF_vars(Timed)

(***************************************************************************)
(* Properties                                                              *)
(***************************************************************************)

Statuses == {"none", "pending", "running", "completed", "failed"}

\* Every variable has its type; a shard counts at most ErrCap errors, and an entry of
\* the response at most two more, of the two silent-loss checks or of a timeout.
TypeOK ==
  /\ job \in Statuses /\ mode \in {"default", "broadcast", "ring"}
  /\ targets \in SUBSET Nodes /\ plan \in [Nodes -> SUBSET Chunks]
  /\ rank \in [Nodes -> Nat] /\ phase \in {"idle", "A", "B", "end"} /\ step \in Nat
  /\ handle \in [Nodes -> {"none", "post", "wait", "done", "panic"}]
  /\ todo \in [Nodes -> SUBSET Chunks]
  /\ got \in [Nodes -> Nat] /\ errs \in [Nodes -> 0..(ErrCap + 2)]
  /\ peers \in [Nodes -> [fetched : Nat, errors : 0..(ErrCap + 2)]]
  /\ peersB \in [Nodes -> [fetched : Nat, errors : 0..(ErrCap + 2)]]
  /\ stepErrs \in Nat /\ timedOut \in BOOLEAN
  /\ disk \in [Nodes -> SUBSET Chunks] /\ staged \in [Nodes -> SUBSET Chunks]
  /\ failures \in [Nodes -> SUBSET Chunks] /\ strays \in [Nodes -> SUBSET Chunks]
  /\ lost \in [Nodes -> SUBSET Chunks] /\ aside \in [Nodes -> SUBSET Chunks]
  /\ faults \in Nat
  /\ \A n \in Nodes : handle[n] = "wait" => errs[n] <= ErrCap

\* Nothing in the response so far is an error.
Clean ==
  /\ ~timedOut /\ stepErrs = 0
  /\ \A n \in targets : peers[n].errors = 0 /\ peersB[n].errors = 0

\* What a node may not have on its disk although its answer counts it: a chunk evicted
\* since, or whose failed insert another hydrate's run_shard has taken; and, only with
\* cache_on_peer_fetch off, a chunk the node had in memory.
Excused(n) == lost[n] \cup (IF n \in MemoryOnly THEN aside[n] ELSE {})

\* A response without an error is true: every chunk of the plan is on the disk of the
\* node it was dealt to and, in the broadcast and ring modes, of every node, except for
\* what is excused above; and phase B does not look at failed inserts at all, they are
\* left in the node's list (run_broadcast_shard and run_ring_step only drain).
CleanMeansPlaced ==
  job = "completed" /\ Clean =>
    /\ \A n \in targets : plan[n] \subseteq disk[n] \cup Excused(n)
    /\ mode # "default" =>
         \A m, n \in targets : plan[m] \subseteq disk[n] \cup Excused(n) \cup failures[n]

\* "The barrier guarantees that prev has step-k chunks in cache before step-(k+1)
\* requesters ask for them": while no step reports an error, the node that n asks has
\* on disk the chunks n asks it for, unless it is excused or their insert failed.
RingReady ==
  phase = "B" /\ mode = "ring" /\ Clean =>
    \A n \in targets : \A p \in Prev(n) :
      Share(n) \subseteq disk[p] \cup Excused(p) \cup failures[p]

\* An error-free response has fetched all it planned: per node, its share in phase A
\* and everybody else's in phase B (assigned_chunks = fetched).
CleanMeansFetched ==
  job = "completed" /\ Clean =>
    \A n \in targets :
      /\ peers[n].fetched = Cardinality(plan[n])
      /\ mode # "default" =>
           peersB[n].fetched = Cardinality(UNION {plan[m] : m \in targets \ {n}})

\* A job whose blobs are listed ends, even when shards hang: from then on the
\* coordinator waits for nothing without global_timeout.
JobEnds == phase \in {"A", "B"} ~> job \in {"completed", "failed"}
================================================================================
