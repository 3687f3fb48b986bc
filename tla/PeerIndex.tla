------------------------------- MODULE PeerIndex -------------------------------
(***************************************************************************)
(* Who has what (src/peerindex.rs, the loops of src/main.rs): one node's   *)
(* Bloom filter of the chunks it holds, kept by insert tasks, the periodic *)
(* rebuild and clear_local_state; its version as gossip advertises it; and *)
(* the copy another node pulls.                                            *)
(*                                                                         *)
(* A step is what happens under one lock or in one atomic store.  The disk *)
(* cache is the set of keys it tracks; gossip is the last version the      *)
(* reader has heard.                                                       *)
(***************************************************************************)
EXTENDS Integers, FiniteSets

CONSTANTS
  Keys,
  NoKey,
  Bits,
  BitsOf,        \* bit_pos for i in 0..BLOOM_K : the bits a key's digest sets
  Writers,       \* insert tasks of the owner
  Rebuilders,    \* who calls rebuild_local_from_cache: "periodic", "clear"
  Happens,       \* what else happens: "evict", "lose", "restart", "gossip", "dead"
  MaxInserts,    \* bound: inserts, evictions, losses, deaths, clears and restarts
  FreeTicks      \* bound: the version up to which the rebuild loop may tick at any time

ASSUME BitsAssumption == BitsOf \in [Keys -> SUBSET Bits]
ASSUME BoundAssumption == MaxInserts \in Nat /\ FreeTicks \in Nat

VARIABLES
  held,       \* the keys in the owner's DiskCache
  gone,       \* those of them whose file has vanished
  version,    \* Local.version
  bloom,      \* Local.bloom : the bits set
  pending,    \* PeerIndex.pending
  drained,    \* keys that an overlapping rebuild may leave out (history)
  published,  \* Membership.me_bloom_version
  wr,         \* each insert task: [pc, key, v]
  rb,         \* each rebuilder: [pc, keys, v]
  alive,      \* the reader's membership has the owner as Alive
  adv,        \* the bloom_version of that record, and whose it was (history)
  remote,     \* the reader's RemoteBloom for the owner, if any
  pull,       \* the reader's bloom-pull loop: [pc, adv, got]
  proc,       \* which process of the owner is running
  events      \* inserts and faults so far

local == <<version, bloom, pending, drained>>
reader == <<alive, adv, remote, pull>>
vars == <<held, gone, version, bloom, pending, drained, published, wr, rb, alive, adv, remote, pull,
          proc, events>>

NoBloom == [proc |-> 0, version |-> 0, bloom |-> {}]
IdleWriter == [pc |-> "idle", key |-> NoKey, v |-> 0]
IdleRebuilder == [pc |-> "idle", keys |-> {}, v |-> 0]
NoVersion == [proc |-> 0, version |-> 0]
IdlePull == [pc |-> "idle", adv |-> NoVersion, got |-> NoBloom]

\* Bloom::insert for every key of S.
BitsFor(S) == UNION {BitsOf[k] : k \in S}

\* Bloom::contains.
Contains(b, k) == BitsOf[k] \subseteq b

Init ==
  /\ held = {} /\ gone = {}
  /\ version = 1 /\ bloom = {} /\ pending = {} /\ drained = {}
  /\ published = 0
  /\ wr = [w \in Writers |-> IdleWriter]
  /\ rb = [r \in Rebuilders |-> IdleRebuilder]
  /\ alive = TRUE /\ adv = NoVersion /\ remote = NoBloom /\ pull = IdlePull
  /\ proc = 1
  /\ events = 0

Event == events < MaxInserts /\ events' = events + 1

\* Local gets new bits and the next version, under its write lock.
SetLocal(bits) == bloom' = bits /\ version' = version + 1

(***************************************************************************)
(* spawn_insert and note_local_insert                                      *)
(***************************************************************************)

\* cache.insert has returned Ok.
WriterInsert(w, k) ==
  /\ wr[w].pc = "idle" /\ Event
  /\ held' = held \cup {k} /\ gone' = gone \ {k}
  /\ wr' = [wr EXCEPT ![w] = [pc |-> "push", key |-> k, v |-> 0]]
  /\ UNCHANGED <<local, published, rb, reader, proc>>

\* Mutant: no overlay.
WriterPush_NoPending(w) ==
  /\ wr[w].pc = "push"
  /\ wr' = [wr EXCEPT ![w].pc = "write"]
  /\ UNCHANGED <<held, gone, local, published, rb, reader, proc, events>>

WriterPush(w) ==
  /\ wr[w].pc = "push"
  /\ pending' = pending \cup {wr[w].key}
  /\ wr' = [wr EXCEPT ![w].pc = "write"]
  /\ UNCHANGED <<held, gone, version, bloom, drained, published, rb, reader, proc, events>>

WriterNote(w) ==
  /\ wr[w].pc = "write"
  /\ SetLocal(bloom \cup BitsOf[wr[w].key])
  /\ wr' = [wr EXCEPT ![w] = [pc |-> "hook", key |-> wr[w].key, v |-> version + 1]]
  /\ UNCHANGED <<held, gone, pending, drained, published, rb, reader, proc, events>>

\* on_version_change, after the lock: the store in Membership.
WriterHook(w) ==
  /\ wr[w].pc = "hook"
  /\ published' = wr[w].v
  /\ wr' = [wr EXCEPT ![w] = IdleWriter]
  /\ UNCHANGED <<held, gone, local, rb, reader, proc, events>>

(***************************************************************************)
(* The rebuild loop, and clear_local_state                                 *)
(***************************************************************************)

RbGoto(r, label) == rb' = [rb EXCEPT ![r].pc = label]

WritersIdle == \A w \in Writers : wr[w].pc = "idle"

\* Something the reader cannot get at by pulling.
Unpublished ==
  \/ published # version
  \/ \E k \in held : ~Contains(bloom, k)
  \/ remote.proc # proc /\ version <= remote.version

\* The loop ticks for ever.  The bound: from version FreeTicks on, only the ticks that
\* the reader can learn something from, and that do not come in the midst of an insert.
RebuildTick ==
  /\ "periodic" \in Rebuilders /\ rb["periodic"].pc = "idle"
  /\ version < FreeTicks \/ (Unpublished /\ WritersIdle)
  /\ held' = held \ gone /\ gone' = {}
  /\ RbGoto("periodic", "keys")
  /\ UNCHANGED <<local, published, wr, reader, proc, events>>

\* await_inserts_drained returns.
ClearDrained ==
  /\ "clear" \in Rebuilders /\ rb["clear"].pc = "idle"
  /\ Event /\ WritersIdle
  /\ RbGoto("clear", "clear")
  /\ UNCHANGED <<held, gone, local, published, wr, reader, proc>>

\* clear_all.
ClearAll ==
  /\ "clear" \in Rebuilders /\ rb["clear"].pc = "clear"
  /\ held' = {} /\ gone' = {}
  /\ RbGoto("clear", "keys")
  /\ UNCHANGED <<local, published, wr, reader, proc, events>>

\* live_keys; the new filter is built from them with no lock held.
RebuildKeys(r) ==
  /\ rb[r].pc = "keys"
  /\ rb' = [rb EXCEPT ![r] = [pc |-> "swap", keys |-> held, v |-> 0]]
  /\ UNCHANGED <<held, gone, local, published, wr, reader, proc, events>>

\* Another rebuild has its list of keys and has not swapped yet.
Overlapped(r) == \E q \in Rebuilders \ {r} : rb[q].pc = "swap"

\* What r drains from the overlay and a rebuild with an older list of keys lacks.
Exposed(r) == {k \in pending : \E q \in Rebuilders \ {r} : rb[q].pc = "swap" /\ k \notin rb[q].keys}

\* The drain and the swap under the write lock.
RebuildSwap(r) ==
  /\ rb[r].pc = "swap"
  /\ SetLocal(BitsFor(rb[r].keys \cup pending))
  /\ pending' = {}
  /\ drained' = IF Overlapped(r) THEN drained \cup Exposed(r) ELSE drained \ (rb[r].keys \cup pending)
  /\ rb' = [rb EXCEPT ![r] = [pc |-> "hook", keys |-> {}, v |-> version + 1]]
  /\ UNCHANGED <<held, gone, published, wr, reader, proc, events>>

RebuildHook(r) ==
  /\ rb[r].pc = "hook"
  /\ published' = rb[r].v
  /\ rb' = [rb EXCEPT ![r] = [IdleRebuilder EXCEPT
              !.pc = IF r = "periodic" THEN "report" ELSE "idle"]]
  /\ UNCHANGED <<held, gone, local, wr, reader, proc, events>>

\* The loop reads local_version once more ...
RebuildReport(r) ==
  /\ rb[r].pc = "report"
  /\ rb' = [rb EXCEPT ![r] = [pc |-> "store", keys |-> {}, v |-> version]]
  /\ UNCHANGED <<held, gone, local, published, wr, reader, proc, events>>

\* ... and stores it when spawn_blocking is back.
RebuildStore(r) ==
  /\ rb[r].pc = "store"
  /\ published' = rb[r].v
  /\ rb' = [rb EXCEPT ![r] = IdleRebuilder]
  /\ UNCHANGED <<held, gone, local, wr, reader, proc, events>>

(***************************************************************************)
(* The cache, the process and the cluster around them                      *)
(***************************************************************************)

\* An entry is evicted or removed: a Bloom filter cannot delete.
Evict(k) ==
  /\ "evict" \in Happens /\ Event
  /\ k \in held
  /\ held' = held \ {k} /\ gone' = gone \ {k}
  /\ UNCHANGED <<local, published, wr, rb, reader, proc>>

LoseFile(k) ==
  /\ "lose" \in Happens /\ Event
  /\ k \in held \ gone
  /\ gone' = gone \cup {k}
  /\ UNCHANGED <<held, local, published, wr, rb, reader, proc>>

\* The owner starts again: an empty cache, version 1, and 0 in its gossip record
\* until the first hook.
Restart ==
  /\ "restart" \in Happens /\ Event
  /\ held' = {} /\ gone' = {}
  /\ version' = 1 /\ bloom' = {} /\ pending' = {} /\ drained' = {} /\ published' = 0
  /\ wr' = [w \in Writers |-> IdleWriter]
  /\ rb' = [r \in Rebuilders |-> IdleRebuilder]
  /\ proc' = proc + 1
  /\ UNCHANGED reader

\* A gossip exchange tells the reader the owner's version.
GossipSync ==
  /\ "gossip" \in Happens
  /\ adv' = [proc |-> proc, version |-> published] /\ alive' = TRUE
  /\ UNCHANGED <<held, gone, local, published, wr, rb, remote, pull, proc, events>>

\* The owner's own entry in its member list has version 0 (merge builds it from
\* me_template), and a reply can leave the reader with that entry.
GossipSelfEntry ==
  /\ "gossip" \in Happens
  /\ adv' = NoVersion /\ alive' = TRUE
  /\ UNCHANGED <<held, gone, local, published, wr, rb, remote, pull, proc, events>>

\* sweep marks the owner Dead and the hook drops its bloom.
PeerDead ==
  /\ "dead" \in Happens /\ Event
  /\ alive /\ alive' = FALSE
  /\ remote' = NoBloom
  /\ UNCHANGED <<held, gone, local, published, wr, rb, adv, pull, proc>>

\* A tick of the pull loop: forget a peer that is not Alive, or start a GET for a
\* version newer than the one at hand.
PullTick ==
  /\ pull.pc = "idle"
  /\ \/ ~alive /\ remote' = NoBloom /\ UNCHANGED pull
     \/ /\ alive /\ adv.version # 0 /\ adv.version > remote.version
        /\ pull' = [pc |-> "get", adv |-> adv, got |-> NoBloom]
        /\ UNCHANGED remote
  /\ UNCHANGED <<held, gone, local, published, wr, rb, alive, adv, proc, events>>

\* Mutant: the bits and the version from two acquisitions of the lock, with a write
\* between them.
LocalSnapshot_TwoCalls ==
  {[proc |-> proc, version |-> v, bloom |-> bloom] : v \in {version, version + 1}}

\* local_snapshot: version and bits under one read lock.
LocalSnapshot == {[proc |-> proc, version |-> version, bloom |-> bloom]}

\* GET /cluster/bloom is answered.
PullGet ==
  /\ pull.pc = "get"
  /\ \E b \in LocalSnapshot : pull' = [pc |-> "ingest", adv |-> pull.adv, got |-> b]
  /\ UNCHANGED <<held, gone, local, published, wr, rb, alive, adv, remote, proc, events>>

\* Mutant: the loop returns on an error.
PullFails_Returns ==
  /\ pull.pc \in {"get", "ingest"} /\ Event
  /\ pull' = [IdlePull EXCEPT !.pc = "stopped"]
  /\ UNCHANGED <<held, gone, local, published, wr, rb, alive, adv, remote, proc>>

\* The GET fails.
PullFails ==
  /\ pull.pc \in {"get", "ingest"} /\ Event
  /\ pull' = IdlePull
  /\ UNCHANGED <<held, gone, local, published, wr, rb, alive, adv, remote, proc>>

\* ingest_remote.
PullIngest ==
  /\ pull.pc = "ingest"
  /\ remote' = pull.got
  /\ pull' = IdlePull
  /\ UNCHANGED <<held, gone, local, published, wr, rb, alive, adv, proc, events>>

\* The reader asks the owner for a chunk its bloom promised, is told NotFound, and
\* drops its view (try_peer_fetch).
ProbeMiss(k) ==
  /\ Event
  /\ alive /\ remote # NoBloom /\ Contains(remote.bloom, k)
  /\ k \notin held \ gone
  /\ remote' = NoBloom
  /\ UNCHANGED <<held, gone, local, published, wr, rb, alive, adv, pull, proc>>

\* The bounds are reached and every task is through.
Finished ==
  /\ events = MaxInserts /\ WritersIdle /\ pull.pc = "idle"
  /\ \A r \in Rebuilders : rb[r].pc = "idle"
  /\ UNCHANGED vars

WriterStep(w) == WriterPush(w) \/ WriterNote(w) \/ WriterHook(w)
RebuildStep(r) ==
  RebuildKeys(r) \/ RebuildSwap(r) \/ RebuildHook(r) \/ RebuildReport(r) \/ RebuildStore(r)
PullStep == PullGet \/ PullIngest

Next ==
  \/ \E w \in Writers : WriterStep(w) \/ \E k \in Keys : WriterInsert(w, k)
  \/ \E r \in Rebuilders : RebuildStep(r)
  \/ RebuildTick \/ ClearDrained \/ ClearAll
  \/ \E k \in Keys : Evict(k) \/ LoseFile(k) \/ ProbeMiss(k)
  \/ Restart \/ PeerDead
  \/ GossipSync \/ GossipSelfEntry
  \/ PullTick \/ PullStep \/ PullFails
  \/ Finished

Spec == Init /\ [][Next]_vars

\* Tasks and loops keep running, gossip reaches the reader again and again, and
\* the pull loop's ticks do not all fall on a record without a version.
FairSpec ==
  /\ Spec
  /\ \A w \in Writers : WF_vars(WriterStep(w))
  /\ \A r \in Rebuilders : WF_vars(RebuildStep(r))
  /\ WF_vars(RebuildTick) /\ WF_vars(ClearAll)
  /\ WF_vars(GossipSync) /\ SF_vars(PullTick) /\ WF_vars(PullStep)

(***************************************************************************)
(* Properties                                                              *)
(***************************************************************************)

Versions == [proc : Nat, version : Nat]
Blooms == [proc : Nat, version : Nat, bloom : SUBSET Bits]

WriterStates == [pc : {"idle", "push", "write", "hook"}, key : Keys \cup {NoKey}, v : Nat]

RebuilderStates ==
  [pc : {"idle", "clear", "keys", "swap", "hook", "report", "store"}, keys : SUBSET Keys, v : Nat]

\* The fields of PeerIndex, the records of the tasks and the reader's copies have
\* their types; a bit set in a filter is one of its m_bits.
TypeOK ==
  /\ held \subseteq Keys /\ gone \subseteq held
  /\ version \in Nat /\ bloom \subseteq Bits
  /\ pending \subseteq Keys /\ drained \subseteq Keys
  /\ published \in Nat /\ adv \in Versions /\ alive \in BOOLEAN
  /\ wr \in [Writers -> WriterStates]
  /\ \A w \in Writers : wr[w].pc # "idle" => wr[w].key \in Keys
  /\ rb \in [Rebuilders -> RebuilderStates]
  /\ remote \in Blooms
  /\ pull \in [pc : {"idle", "get", "ingest"}, adv : Versions, got : Blooms]
  /\ proc \in Nat \ {0}

\* The key's insert task has not set its bits yet.
BeingNoted(k) == \E w \in Writers : wr[w].pc \in {"push", "write"} /\ wr[w].key = k

\* No chunk on disk is missing from the filter once note_local_insert is through,
\* however inserts and a rebuild overlap: no false negative.  The exception is one
\* the code leaves open: a rebuild drained the chunk from the overlay while another
\* (clear_local_state's and the periodic one can overlap), with a list of keys that
\* lacks the chunk, had yet to swap; it lasts until a rebuild that lists the chunk and
\* overlaps none.
NoLostAdvertisement ==
  \A k \in held : BeingNoted(k) \/ Contains(bloom, k) \/ k \in drained

\* The bits a reader holds under a version are the bits that version had: a pull
\* never pairs old bits with a new version.
SnapshotCoherent ==
  \A b \in {remote, pull.got} :
    b.proc = proc => /\ b.version <= version
                     /\ b.version = version => b.bloom = bloom

\* A pull brings a version at least as new as the one that started it, unless the
\* owner restarted meanwhile; so the loop never pulls the same news twice.
PullCatchesUp ==
  pull.pc = "ingest" /\ pull.adv.proc = pull.got.proc => pull.got.version >= pull.adv.version

\* A chunk the owner keeps is eventually in the reader's copy of its filter:
\* whatever hooks, rebuilds, failed pulls, drops and a restart did before.
EventuallySeen == \A k \in Keys : <>[](k \in held) => <>[]Contains(remote.bloom, k)
=============================================================================
