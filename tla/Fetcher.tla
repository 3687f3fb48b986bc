-------------------------------- MODULE Fetcher --------------------------------
(***************************************************************************)
(* One node's Fetcher (src/fetcher.rs): singleflight over chunk fetches,   *)
(* the staging map of chunks on their way to disk, the insert tasks, and   *)
(* clear_local_state, with any number of calls at once.                    *)
(*                                                                         *)
(* A step is one map operation, one cache call or one await.  A chunk's    *)
(* bytes are their length: it is what every path checks.  DiskCache is a   *)
(* map with atomic calls here (DiskCache.tla has their insides); peers and *)
(* the blob store answer with any length, or not at all.                   *)
(***************************************************************************)
EXTENDS Integers, Sequences, FiniteSets, ByteCount

CONSTANTS
  Tasks,           \* callers of the Fetcher
  Keys,
  NoKey,
  Mounted,         \* the keys whose mount this node has
  Lens,            \* the lengths a chunk can have
  Ops,             \* the calls made, and "cancel", "insert_error", "evict", ...
  Concurrency,     \* chunk_concurrency : permits of chunk_sem
  CacheOnPeerFetch,
  MaxRecorded,     \* MAX_RECORDED_INSERT_FAILURES
  MaxCalls         \* bound: calls and evictions

ASSUME LensAssumption == Lens \subseteq Nat \ {0}
ASSUME MaxRecordedAssumption == MaxRecorded \in Nat /\ Concurrency \in Nat
ASSUME NoKeyAssumption == NoKey \notin Keys

VARIABLES
  cache,      \* DiskCache : key -> length
  peerLru,    \* peer_lru : key -> length
  writes,     \* inflight_writes : key -> length
  inserts,    \* the insert tasks spawned so far: [key, len, pc]
  failures,   \* how many insert_failures are recorded
  inflight,   \* key -> [lead, subs] : who made the entry (history), its receivers
  pc, call,   \* each caller's place and arguments
  mail,       \* what each caller's receiver holds
  calls

store == <<cache, peerLru, writes, inserts, failures>>
vars == <<cache, peerLru, writes, inserts, failures, inflight, pc, call, mail, calls>>

\* What a receiver or a call can end with, besides a length.
Failed == 0
Closed == -1
Nothing == -2

NoCall == [op |-> "none", key |-> NoKey, want |-> 0, end |-> 0, got |-> Nothing]

Init ==
  /\ cache = EmptyMap /\ peerLru = EmptyMap /\ writes = EmptyMap
  /\ inserts = <<>> /\ failures = 0
  /\ inflight = EmptyMap
  /\ pc = [t \in Tasks |-> "idle"] /\ call = [t \in Tasks |-> NoCall]
  /\ mail = [t \in Tasks |-> Nothing]
  /\ calls = 0

At(t, label) == pc[t] = label
Goto(t, label) == pc' = [pc EXCEPT ![t] = label]
Key(t) == call[t].key
Want(t) == call[t].want

\* The call ends with n.
Return(t, n) == Goto(t, "idle") /\ call' = [call EXCEPT ![t].got = n]

\* m holds k with exactly n bytes.
Holds(m, k, n) == k \in DOMAIN m /\ m[k] = n

\* m holds k with at least n bytes.
Covers(m, k, n) == k \in DOMAIN m /\ n <= m[k]

(***************************************************************************)
(* Calls, and the permits of chunk_sem                                     *)
(***************************************************************************)

\* Where each call begins.  "range" is a sub-read of fetch_range, "origin" a chunk
\* of a hydrate shard, "pull" one of a broadcast or ring step, "fetch" a prefetch.
Entry(op) ==
  CASE op \in {"range", "origin", "pull"} -> "permit"
    [] op = "fetch" -> "staged"
    [] op = "serve" -> "peek"
    [] op \in {"clear", "drain"} -> "drain"

Start(t, op, k, want, end) ==
  /\ op \in Ops /\ At(t, "idle")
  /\ calls < MaxCalls /\ calls' = calls + 1
  /\ Goto(t, Entry(op))
  /\ call' = [call EXCEPT ![t] = [op |-> op, key |-> k, want |-> want, end |-> end,
                                  got |-> Nothing]]
  /\ UNCHANGED <<store, inflight, mail>>

Begin(t) ==
  \/ \E op \in {"origin", "pull", "fetch", "serve"}, k \in Keys, n \in Lens : Start(t, op, k, n, n)
  \/ \E k \in Keys, n \in Lens : \E e \in 1..n : Start(t, "range", k, n, e)
  \/ \E op \in {"clear", "drain"} : Start(t, op, NoKey, 0, 0)

HoldsPermit(t) ==
  call[t].op \in {"range", "origin", "pull"} /\ pc[t] \notin {"idle", "permit"}

\* acquire_chunk_permit.
AcquirePermit(t) ==
  /\ At(t, "permit")
  /\ Cardinality({u \in Tasks : HoldsPermit(u)}) < Concurrency
  /\ Goto(t, CASE call[t].op = "range" -> "rstaged"
               [] call[t].op = "origin" -> "staged"
               [] call[t].op = "pull" -> "pget")
  /\ UNCHANGED <<store, inflight, call, mail, calls>>

(***************************************************************************)
(* spawn_insert and its task                                               *)
(***************************************************************************)

SpawnInsert(k, n) ==
  /\ writes' = With(writes, k, n)
  /\ inserts' = Append(inserts, [key |-> k, len |-> n, pc |-> "write"])

\* record_insert_failure.
RecordFailure == failures' = IF failures < MaxRecorded THEN failures + 1 ELSE failures

\* Mutant: the staged bytes go before the insert.
InsertReturns_Unstaged(i) ==
  /\ inserts[i].pc = "write"
  /\ writes' = Without(writes, {inserts[i].key})
  /\ inserts' = [inserts EXCEPT ![i].pc = "unstage"]
  /\ UNCHANGED <<cache, peerLru, failures, inflight, pc, call, mail, calls>>

\* cache.insert returns; note_local_insert is PeerIndex's.
InsertReturns(i) ==
  /\ inserts[i].pc = "write"
  /\ \/ /\ cache' = With(cache, inserts[i].key, inserts[i].len)
        /\ UNCHANGED failures
     \/ /\ "insert_error" \in Ops
        /\ RecordFailure
        /\ UNCHANGED cache
  /\ inserts' = [inserts EXCEPT ![i].pc = "unstage"]
  /\ UNCHANGED <<peerLru, writes, inflight, pc, call, mail, calls>>

\* inflight_writes.remove: by key, whoever staged it.
Unstage(i) ==
  /\ inserts[i].pc = "unstage"
  /\ writes' = Without(writes, {inserts[i].key})
  /\ inserts' = [inserts EXCEPT ![i].pc = "done"]
  /\ UNCHANGED <<cache, peerLru, failures, inflight, pc, call, mail, calls>>

(***************************************************************************)
(* fetch_chunk_range_inner and fetch_chunk_inner up to the singleflight    *)
(***************************************************************************)

\* A sub-read finds its slice staged or in the LRU of peer chunks.
RangeStaged(t) ==
  LET k == Key(t) IN
  /\ At(t, "rstaged")
  /\ \/ Covers(writes, k, call[t].end) /\ Return(t, writes[k])
     \/ /\ ~Covers(writes, k, call[t].end)
        /\ Holds(peerLru, k, Want(t)) /\ Return(t, peerLru[k])
     \/ /\ ~Covers(writes, k, call[t].end) /\ ~Holds(peerLru, k, Want(t))
        /\ Goto(t, "rget") /\ UNCHANGED call
  /\ UNCHANGED <<store, inflight, mail, calls>>

\* ... or on disk (try_get_range).
RangeGet(t) ==
  LET k == Key(t) IN
  /\ At(t, "rget")
  /\ \/ Covers(cache, k, call[t].end) /\ Return(t, cache[k])
     \/ ~Covers(cache, k, call[t].end) /\ Goto(t, "staged") /\ UNCHANGED call
  /\ UNCHANGED <<store, inflight, mail, calls>>

\* The whole chunk is staged, or in the LRU.
Staged(t) ==
  LET k == Key(t)
      hit == Holds(writes, k, Want(t)) \/ Holds(peerLru, k, Want(t)) IN
  /\ At(t, "staged")
  /\ \/ hit /\ Return(t, Want(t))
     \/ ~hit /\ Goto(t, "get") /\ UNCHANGED call
  /\ UNCHANGED <<store, inflight, mail, calls>>

\* try_get: a chunk of the wrong length is to be removed and fetched again.
Get(t) ==
  LET k == Key(t) IN
  /\ At(t, "get")
  /\ \/ Holds(cache, k, Want(t)) /\ Return(t, cache[k])
     \/ /\ k \in DOMAIN cache /\ cache[k] # Want(t)
        /\ Goto(t, "remove") /\ UNCHANGED call
     \/ k \notin DOMAIN cache /\ Goto(t, "enter") /\ UNCHANGED call
  /\ UNCHANGED <<store, inflight, mail, calls>>

RemoveWrong(t) ==
  /\ At(t, "remove")
  /\ cache' = Without(cache, {Key(t)})
  /\ Goto(t, "enter")
  /\ UNCHANGED <<peerLru, writes, inserts, failures, inflight, call, mail, calls>>

\* serve_peer_chunk looks on disk only.
Peek(t) ==
  LET k == Key(t) IN
  /\ At(t, "peek")
  /\ \/ Holds(cache, k, Want(t)) /\ Return(t, cache[k])
     \/ ~Holds(cache, k, Want(t)) /\ Goto(t, "enter") /\ UNCHANGED call
  /\ UNCHANGED <<store, inflight, mail, calls>>

(***************************************************************************)
(* Singleflight                                                            *)
(***************************************************************************)

\* Mutant: contains_key and then insert, instead of the entry API.
Enter_NotAtomic(t) ==
  LET k == Key(t) IN
  /\ At(t, "enter")
  /\ mail' = [mail EXCEPT ![t] = Nothing]
  /\ inflight' = With(inflight, k, [lead |-> t, subs |-> {}])
  /\ Goto(t, "lead")
  /\ UNCHANGED <<store, call, calls>>

\* inflight.entry: the first caller leads, the others subscribe.
Enter(t) ==
  LET k == Key(t) IN
  /\ At(t, "enter")
  /\ mail' = [mail EXCEPT ![t] = Nothing]
  /\ \/ /\ k \notin DOMAIN inflight
        /\ inflight' = With(inflight, k, [lead |-> t, subs |-> {}])
        /\ Goto(t, "lead")
     \/ /\ k \in DOMAIN inflight
        /\ inflight' = [inflight EXCEPT ![k].subs = inflight[k].subs \cup {t}]
        /\ Goto(t, "wait")
  /\ UNCHANGED <<store, call, calls>>

\* The receivers of the entries of S get n.
Tell(S, n) ==
  mail' = [t \in Tasks |->
             IF \E k \in S \cap DOMAIN inflight : t \in inflight[k].subs THEN n ELSE mail[t]]

\* The sender is taken out of the map, if there is one, and used once.
Settle(k, n) == inflight' = Without(inflight, {k}) /\ Tell({k}, n)

\* t's receiver is dropped.
Unsubscribe(t) ==
  inflight' = [k \in DOMAIN inflight |->
                 [inflight[k] EXCEPT !.subs = inflight[k].subs \ {t}]]

\* serve_peer_chunk leads for a mount this node does not have.
UnknownMount(t) ==
  /\ At(t, "lead") /\ call[t].op = "serve" /\ Key(t) \notin Mounted
  /\ Settle(Key(t), Failed)
  /\ Return(t, Failed)
  /\ UNCHANGED <<store, calls>>

\* do_fetch, the leader's way through the peers: one of them has the chunk.  Peers
\* without it, or with a wrong length, change nothing here.  There may be no LRU, or
\* the chunk may be too large for it.
PeerAnswers(t) ==
  LET k == Key(t) IN
  /\ At(t, "lead") /\ call[t].op \in {"range", "fetch"}
  /\ \/ CacheOnPeerFetch /\ SpawnInsert(k, Want(t)) /\ UNCHANGED peerLru
     \/ /\ ~CacheOnPeerFetch /\ peerLru' \in {peerLru, With(peerLru, k, Want(t))}
        /\ UNCHANGED <<writes, inserts>>
  /\ call' = [call EXCEPT ![t].got = Want(t)]
  /\ Goto(t, "settle")
  /\ UNCHANGED <<cache, failures, inflight, mail, calls>>

\* The GET of do_fetch and fetch_blob_direct is sent.
BlobGet(t) ==
  /\ At(t, "lead") /\ ~(call[t].op = "serve" /\ Key(t) \notin Mounted)
  /\ Goto(t, "blob")
  /\ UNCHANGED <<store, inflight, call, mail, calls>>

\* It is answered with n bytes, or fails.
BlobAnswers(t) ==
  /\ At(t, "blob")
  /\ \E n \in Lens \cup {Failed} :
       \/ /\ n = Want(t) /\ SpawnInsert(Key(t), n)
          /\ call' = [call EXCEPT ![t].got = n]
       \/ /\ n # Want(t) /\ UNCHANGED <<writes, inserts>>
          /\ call' = [call EXCEPT ![t].got = Failed]
  /\ Goto(t, "settle")
  /\ UNCHANGED <<cache, peerLru, failures, inflight, mail, calls>>

\* guard.disarm and the broadcast.
Announce(t) ==
  /\ At(t, "settle")
  /\ Settle(Key(t), call[t].got)
  /\ Goto(t, "idle")
  /\ UNCHANGED <<store, call, calls>>

\* Mutant: no LeaderGuard.
LeaderCancelled_NoGuard(t) ==
  /\ "cancel" \in Ops /\ pc[t] \in {"lead", "blob"}
  /\ Return(t, Failed)
  /\ UNCHANGED <<store, inflight, mail, calls>>

\* A leader's future is dropped at an await: its guard settles the entry.
LeaderCancelled(t) ==
  /\ "cancel" \in Ops /\ pc[t] \in {"lead", "blob"}
  /\ Settle(Key(t), Failed)
  /\ Return(t, Failed)
  /\ UNCHANGED <<store, calls>>

\* A follower's future is dropped, or serve_peer_chunk has waited wait_ms.
FollowerGivesUp(t) ==
  /\ At(t, "wait")
  /\ call[t].op = "serve" \/ "cancel" \in Ops
  /\ Unsubscribe(t)
  /\ Return(t, Failed)
  /\ UNCHANGED <<store, mail, calls>>

\* Mutant: the follower takes what the leader fetched.
Receive_Unchecked(t) ==
  /\ At(t, "wait") /\ mail[t] # Nothing
  /\ \/ mail[t] # Closed /\ Return(t, mail[t])
     \/ mail[t] = Closed /\ Goto(t, "again") /\ UNCHANGED call
  /\ UNCHANGED <<store, inflight, mail, calls>>

\* rx.recv: a chunk of the length wanted, an error, or a dropped sender.
Receive(t) ==
  /\ At(t, "wait") /\ mail[t] # Nothing
  /\ \/ mail[t] = Want(t) /\ Return(t, mail[t])
     \/ mail[t] # Want(t) /\ (mail[t] # Closed \/ call[t].op = "serve") /\ Return(t, Failed)
     \/ mail[t] = Closed /\ call[t].op # "serve" /\ Goto(t, "again") /\ UNCHANGED call
  /\ UNCHANGED <<store, inflight, mail, calls>>

\* The leader is gone without a word: one more look on disk.
Again(t) ==
  /\ At(t, "again")
  /\ Return(t, IF Holds(cache, Key(t), Want(t)) THEN Want(t) ELSE Failed)
  /\ UNCHANGED <<store, inflight, mail, calls>>

(***************************************************************************)
(* pull_chunk_from_peer_wait, await_inserts_drained, clear_local_state     *)
(***************************************************************************)

PullGet(t) ==
  LET k == Key(t) IN
  /\ At(t, "pget")
  /\ \/ Holds(cache, k, Want(t)) /\ Return(t, cache[k])
     \/ ~Holds(cache, k, Want(t)) /\ Goto(t, "ppeer") /\ UNCHANGED call
  /\ UNCHANGED <<store, inflight, mail, calls>>

\* The peer has the chunk; or not, and fetch_chunk_origin_only follows; or it
\* fails, or answers with a wrong length.
PullPeer(t) ==
  /\ At(t, "ppeer")
  /\ \/ SpawnInsert(Key(t), Want(t)) /\ Return(t, Want(t))
     \/ Goto(t, "staged") /\ UNCHANGED <<writes, inserts, call>>
     \/ Return(t, Failed) /\ UNCHANGED <<writes, inserts>>
  /\ UNCHANGED <<cache, peerLru, failures, inflight, mail, calls>>

\* await_inserts_drained finds nothing staged.
Drained(t) ==
  /\ At(t, "drain") /\ DOMAIN writes = {}
  /\ Goto(t, IF call[t].op = "clear" THEN "wipe" ELSE "take")
  /\ UNCHANGED <<store, inflight, call, mail, calls>>

\* take_insert_failures, at the end of a hydrate shard.
TakeFailures(t) ==
  /\ At(t, "take")
  /\ failures' = 0
  /\ Return(t, Nothing)
  /\ UNCHANGED <<cache, peerLru, writes, inserts, inflight, mail, calls>>

\* clear_all. It skips what it cannot delete and always returns Ok, so the ? of its
\* caller never returns.
ClearCache(t) ==
  /\ At(t, "wipe")
  /\ cache' = EmptyMap
  /\ Goto(t, "unlead")
  /\ UNCHANGED <<peerLru, writes, inserts, failures, inflight, call, mail, calls>>

\* Mutant: leaders hold a clone of the sender, so followers are not woken.
ClearInflight_Cloned(t) ==
  /\ At(t, "unlead")
  /\ inflight' = EmptyMap
  /\ Goto(t, "unstage")
  /\ UNCHANGED <<store, call, mail, calls>>

\* inflight.clear drops every sender.
ClearInflight(t) ==
  /\ At(t, "unlead")
  /\ inflight' = EmptyMap /\ Tell(Keys, Closed)
  /\ Goto(t, "unstage")
  /\ UNCHANGED <<store, call, calls>>

\* inflight_writes.clear, and the LRU of peer chunks.
ClearWrites(t) ==
  /\ At(t, "unstage")
  /\ writes' = EmptyMap /\ peerLru' = EmptyMap
  /\ Return(t, Nothing)
  /\ UNCHANGED <<cache, inserts, failures, inflight, mail, calls>>

(***************************************************************************)
(* The surroundings                                                        *)
(***************************************************************************)

\* The disk cache or the LRU makes room.
Evict(k) ==
  /\ calls < MaxCalls /\ calls' = calls + 1
  /\ \/ /\ "evict" \in Ops /\ k \in DOMAIN cache
        /\ cache' = Without(cache, {k}) /\ UNCHANGED peerLru
     \/ /\ "evict_lru" \in Ops /\ k \in DOMAIN peerLru
        /\ peerLru' = Without(peerLru, {k}) /\ UNCHANGED cache
  /\ UNCHANGED <<writes, inserts, failures, inflight, pc, call, mail>>

InsertStep(i) == InsertReturns(i) \/ Unstage(i)

InsertsDone == \A i \in DOMAIN inserts : inserts[i].pc = "done"

Finished ==
  /\ calls = MaxCalls /\ InsertsDone /\ \A t \in Tasks : At(t, "idle")
  /\ UNCHANGED vars

\* What a caller goes on to do by itself.
Step(t) ==
  \/ RangeStaged(t) \/ RangeGet(t) \/ Staged(t) \/ Get(t) \/ RemoveWrong(t) \/ Peek(t)
  \/ Enter(t) \/ UnknownMount(t) \/ PeerAnswers(t) \/ BlobGet(t) \/ BlobAnswers(t)
  \/ Announce(t) \/ Receive(t) \/ Again(t)
  \/ PullGet(t) \/ PullPeer(t)
  \/ Drained(t) \/ TakeFailures(t) \/ ClearCache(t) \/ ClearInflight(t) \/ ClearWrites(t)

Next ==
  \/ \E t \in Tasks : Begin(t) \/ AcquirePermit(t) \/ Step(t)
                      \/ LeaderCancelled(t) \/ FollowerGivesUp(t)
  \/ \E i \in DOMAIN inserts : InsertStep(i)
  \/ \E k \in Keys : Evict(k)
  \/ Finished

Spec == Init /\ [][Next]_vars

\* Tasks run on, requests are answered or time out, and the semaphore is served in
\* order.
FairSpec ==
  /\ Spec
  /\ \A t \in Tasks : WF_vars(Step(t)) /\ SF_vars(AcquirePermit(t))
  /\ \A i \in 1..2*MaxCalls : WF_vars(i \in DOMAIN inserts /\ InsertStep(i))

(***************************************************************************)
(* Properties                                                              *)
(***************************************************************************)

Labels == {"idle", "permit", "rstaged", "rget", "staged", "get", "remove", "peek", "enter",
           "lead", "blob", "settle", "wait", "again", "pget", "ppeer", "drain", "take", "wipe",
           "unlead", "unstage"}

Replies == Lens \cup {Failed, Closed, Nothing}
Slots == [lead : Tasks, subs : SUBSET Tasks]
Operations == {"none", "range", "origin", "pull", "fetch", "serve", "clear", "drain"}
Calls == [op : Operations, key : Keys \cup {NoKey}, want : Nat, end : Nat, got : Replies]
Inserts == [key : Keys, len : Lens, pc : {"write", "unstage", "done"}]

\* m maps keys to lengths.
ChunkMap(m) == DOMAIN m \subseteq Keys /\ \A k \in DOMAIN m : m[k] \in Lens

\* The maps hold chunks with possible lengths, callers are where the code has them,
\* and the list of insert failures keeps to its limit.
TypeOK ==
  /\ ChunkMap(cache) /\ ChunkMap(peerLru) /\ ChunkMap(writes)
  /\ inserts \in Seq(Inserts)
  /\ failures \in 0..MaxRecorded
  /\ DOMAIN inflight \subseteq Keys /\ \A k \in DOMAIN inflight : inflight[k] \in Slots
  /\ pc \in [Tasks -> Labels]
  /\ call \in [Tasks -> Calls]
  /\ mail \in [Tasks -> Replies]

Leading(t) == pc[t] \in {"lead", "blob", "settle"}

\* The caller that made an entry of the singleflight map is still fetching that key:
\* an entry never outlives its leader, whoever's entry a finishing leader removes.
LeaderRuns ==
  \A k \in DOMAIN inflight : Leading(inflight[k].lead) /\ Key(inflight[k].lead) = k

\* A follower without an answer is subscribed to an entry that is in the map: nobody
\* waits on a channel that nobody will use.
FollowersHeard ==
  \A t \in Tasks : At(t, "wait") /\ mail[t] = Nothing =>
    Key(t) \in DOMAIN inflight /\ t \in inflight[Key(t)].subs

\* A call that ends with a chunk has one of the length its caller expects (a
\* sub-read: one that covers its slice), though other callers, an older listing or
\* a chunk on disk had another length in mind.
LengthAsExpected ==
  \A t \in Tasks : At(t, "idle") /\ call[t].got > Failed =>
    \/ call[t].got = Want(t)
    \/ call[t].op = "range" /\ call[t].got >= call[t].end

\* Two callers never fetch a chunk at once (unless clear_local_state emptied the map).
OneLeader == \A t, u \in Tasks : Leading(t) /\ Leading(u) /\ Key(t) = Key(u) => t = u

\* With no eviction, failure or clear, a chunk that is staged or on disk stays
\* readable: the insert task gives up the staged bytes only for the file.
StaysReadable ==
  [][DOMAIN writes \cup DOMAIN cache \subseteq DOMAIN writes' \cup DOMAIN cache']_vars

\* Every call returns: no follower, drain or wait for a permit hangs, whatever
\* leaders are cancelled and whatever clear_local_state drops.
CallsReturn == \A t \in Tasks : ~At(t, "idle") ~> At(t, "idle")
=============================================================================
